----------------------------- MODULE CheckRunProofs -----------------------------
(***************************************************************************)
(* What holds of a check for every tree, every set of changed files, every *)
(* tool module and every report.  PlanInv follows a file from its nearest  *)
(* config through the guard; RunInv carries what the plan established to   *)
(* the invocations and batches; OnceInv keeps the files still to run apart *)
(* from those that ran.                                                    *)
(***************************************************************************)
EXTENDS CheckRun, FiniteSetTheorems, WellFoundedInduction, TLAPS

\* What the guard must have approved before the tool may see a file.
Safe(f) ==
  /\ \A d \in (IF tool.chain THEN {d \in Lineage[DirOf[f]] : dirIs[d] # "none"}
               ELSE {Nearest(f)} \ {NoConfig}) : ~Unsafe(d)
  /\ tool.guardFiles => fileIs[f] # "inline"

PlanInv ==
  /\ tool \in Tools
  /\ groups \in [Configs -> SUBSET Files]
  /\ toGuard \subseteq Dirs
  /\ \A c \in Configs : \A f \in groups[c] :
       f \in Eligible /\ Nearest(f) = c /\ (tool.required => c # NoConfig)
  /\ tool.guard => \A c \in Dirs \ toGuard : \A f \in groups[c] : Safe(f)
  /\ pc = "lane" => toGuard = {}

RunsWell(inv) ==
  /\ inv.config \in Configs
  /\ \A f \in inv.files :
       /\ f \in Eligible
       /\ tool.guard => Safe(f)
       /\ inv.config # NoConfig \/ tool.lane \in {"B", "D"} => Nearest(f) = inv.config

RunInv ==
  /\ \A inv \in invs \cup {current} \cup ran : RunsWell(inv)
  /\ rest \subseteq current.files

Apart(S) == \A a, b \in S : a = b \/ a.files \cap b.files = {}

OnceInv ==
  /\ Apart(ran) /\ Apart(invs)
  /\ RanFiles \cap rest = {}
  /\ \A inv \in invs : inv.files \cap (RanFiles \cup rest) = {}
  /\ RanFiles \subseteq Files
  /\ checked = Cardinality(RanFiles)
  /\ pc \in {"plan", "guard", "lane"} => ran = {} /\ rest = {} /\ invs = {}

-------------------------------------------------------------------------------

\* What a step that keeps the task's input keeps: the tree seen through it.
LEMMA SameTree ==
  ASSUME UNCHANGED input
  PROVE  /\ Eligible' = Eligible
         /\ \A f : Nearest(f)' = Nearest(f)
         /\ \A f : Safe(f)' = Safe(f)
         /\ \A d : Unsafe(d)' = Unsafe(d)
<1>0. tool' = tool /\ diff' = diff /\ fileIs' = fileIs /\ dirIs' = dirIs
  BY DEF input
<1>1. Eligible' = Eligible
  BY <1>0 DEF Eligible
<1>2. \A f : Nearest(f)' = Nearest(f)
  BY <1>0 DEF Nearest, Counts
<1>3. \A d : Unsafe(d)' = Unsafe(d)
  BY <1>0 DEF Unsafe
<1>4. \A f : Safe(f)' = Safe(f)
  BY <1>0, <1>2, <1>3 DEF Safe
<1> QED
  BY <1>1, <1>2, <1>3, <1>4

LEMMA StepKeepsInput == Next => UNCHANGED input
BY DEF Next, NotApplicable, Group, GuardPasses, GuardRefusal, AllUnsafe, Narrow, Lane,
       NextInvocation, RunBatch, ToolRaises, RunEnds, Cap, Ended, vars

LEMMA FilesFinite == IsFiniteSet(Files) /\ IsFiniteSet(Configs)
<1>1. IsFiniteSet(Files) /\ IsFiniteSet(Dirs)
  BY CheckAssumption, FS_Interval DEF Files, Dirs
<1>2. IsFiniteSet(Configs)
  BY <1>1, FS_AddElement DEF Configs
<1> QED
  BY <1>1, <1>2

LEMMA PlanInit == Init => PlanInv
<1> SUFFICES ASSUME Init PROVE PlanInv
  OBVIOUS
<1>1. groups = [c \in Configs |-> {}] /\ toGuard = {} /\ pc = "plan" /\ tool \in Tools
  BY DEF Init
<1>2. \A c \in Configs : groups[c] = {}
  BY <1>1
<1>3. groups \in [Configs -> SUBSET Files]
  BY <1>1
<1> QED
  BY <1>1, <1>2, <1>3 DEF PlanInv, Configs

\* The guard's verdict on a group is about every file in it.
LEMMA PassingGroupIsSafe ==
  ASSUME PlanInv, NEW c \in Dirs, ~GuardRefuses(c)
  PROVE  \A f \in groups[c] : Safe(f)
<1> SUFFICES ASSUME NEW f \in groups[c] PROVE Safe(f)
  OBVIOUS
<1>1. Nearest(f) = c
  BY DEF PlanInv, Configs
<1>2. tool.guardFiles => fileIs[f] # "inline"
  BY DEF GuardRefuses
<1>3. CASE tool.chain
  <2>1. \A d \in Lineage[DirOf[f]] : dirIs[d] # "none" => d \in GuardPaths(c)
    BY <1>3 DEF GuardPaths
  <2> QED
    BY <2>1, <1>2, <1>3 DEF Safe, GuardRefuses
<1>4. CASE ~tool.chain
  BY <1>1, <1>2, <1>4 DEF Safe, GuardRefuses, GuardPaths
<1> QED
  BY <1>3, <1>4

LEMMA PlanStep == PlanInv /\ [Next]_vars => PlanInv'
<1> SUFFICES ASSUME PlanInv, [Next]_vars PROVE PlanInv'
  OBVIOUS
<1>1. CASE UNCHANGED vars
  <2>1. UNCHANGED <<input, pc, groups, toGuard>>
    BY <1>1 DEF vars, planVars
  <2> QED
    BY <2>1, SameTree DEF PlanInv, input
<1> SUFFICES ASSUME Next PROVE PlanInv'
  BY <1>1
<1>i. UNCHANGED input
  BY StepKeepsInput
<1>t. UNCHANGED tool
  BY <1>i DEF input
<1>2. CASE UNCHANGED <<groups, toGuard>> /\ pc' # "lane"
  BY <1>i, <1>t, <1>2, SameTree DEF PlanInv
<1>3. CASE Group
  <2>1. groups' = [c \in Configs |-> {f \in Eligible \ Unconfigured : Nearest(f) = c}]
    BY <1>3 DEF Group
  <2>2. Eligible \subseteq Files
    BY DEF Eligible
  <2>3. \A c \in Configs : \A f \in groups'[c] :
          f \in Eligible /\ Nearest(f) = c /\ (tool.required => c # NoConfig)
    BY <2>1 DEF Unconfigured
  <2>4. tool.guard => \A c \in Dirs \ toGuard' : groups'[c] = {}
    BY <1>3 DEF Group
  <2>5. toGuard' \subseteq Dirs /\ pc' # "lane"
    BY <1>3 DEF Group
  <2>6. groups' \in [Configs -> SUBSET Files]
    BY <2>1, <2>2
  <2> QED
    BY <1>i, <1>t, <2>3, <2>4, <2>5, <2>6, SameTree DEF PlanInv
<1>4. CASE GuardPasses
  <2>1. UNCHANGED <<groups, pc>> /\ toGuard' = toGuard \ {Min(toGuard)}
    BY <1>4 DEF GuardPasses
  <2>2. \A c \in Dirs \ toGuard' : c = Min(toGuard) \/ c \in Dirs \ toGuard
    BY <2>1
  <2>3. ~GuardRefuses(Min(toGuard))
    BY <1>4 DEF GuardPasses
  <2>4. tool.guard => \A c \in Dirs \ toGuard' : \A f \in groups[c] : Safe(f)
    BY <2>2, <2>3, PassingGroupIsSafe DEF PlanInv
  <2> QED
    BY <1>i, <1>t, <2>1, <2>4, SameTree DEF PlanInv
<1>5. CASE GuardRefusal
  <2>1. /\ groups' = [groups EXCEPT ![Min(toGuard)] = {}]
        /\ toGuard' = toGuard \ {Min(toGuard)} /\ UNCHANGED pc
    BY <1>5 DEF GuardRefusal
  <2>2. groups' \in [Configs -> SUBSET Files]
    BY <2>1 DEF PlanInv
  <2>3. \A c \in Configs : groups'[c] \subseteq groups[c]
    BY <2>1 DEF PlanInv
  <2>4. \A c \in Dirs \ toGuard' : groups'[c] = {} \/ c \in Dirs \ toGuard
    BY <2>1 DEF PlanInv, Configs
  <2>5. tool.guard => \A c \in Dirs \ toGuard' : \A f \in groups'[c] : Safe(f)
    BY <2>3, <2>4 DEF PlanInv, Configs
  <2> QED
    BY <1>i, <1>t, <2>1, <2>2, <2>3, <2>5, SameTree DEF PlanInv
<1>6. CASE Narrow
  <2>1. groups' = [c \in Configs |-> groups[c] \ Narrowed(c)]
    BY <1>6 DEF Narrow
  <2>2. UNCHANGED toGuard /\ toGuard = {}
    BY <1>6 DEF Narrow
  <2>3. groups' \in [Configs -> SUBSET Files] /\ \A c \in Configs : groups'[c] \subseteq groups[c]
    BY <2>1 DEF PlanInv
  <2>4. tool.guard => \A c \in Dirs \ toGuard' : \A f \in groups'[c] : Safe(f)
    BY <2>2, <2>3 DEF PlanInv, Configs
  <2> QED
    BY <1>i, <1>t, <2>2, <2>3, <2>4, SameTree DEF PlanInv
<1>7. CASE NotApplicable \/ AllUnsafe \/ Lane \/ NextInvocation \/ RunBatch \/ ToolRaises
           \/ RunEnds \/ Cap \/ Ended
  BY <1>7, <1>2 DEF NotApplicable, AllUnsafe, Lane, NextInvocation, RunBatch, ToolRaises, RunEnds,
                    Cap, Ended, vars, planVars
<1> QED
  BY <1>3, <1>4, <1>5, <1>6, <1>7 DEF Next

-------------------------------------------------------------------------------

LEMMA RunsWellStable ==
  ASSUME UNCHANGED input
  PROVE  \A inv : RunsWell(inv)' = RunsWell(inv)
<1>1. tool' = tool
  BY DEF input
<1> QED
  BY <1>1, SameTree DEF RunsWell

LEMMA RunInit == Init => RunInv
BY DEF Init, RunInv, RunsWell, NoInvocation, Invocation, Configs

\* With one group left, every file is in it.
LEMMA SingleGroup ==
  ASSUME PlanInv, Cardinality(GroupsLeft) = 1,
         NEW c \in Configs, NEW f \in groups[c]
  PROVE  c = CHOOSE x \in GroupsLeft : TRUE
<1>1. IsFiniteSet(GroupsLeft)
  BY FilesFinite, FS_Subset DEF GroupsLeft
<1>2. PICK x : GroupsLeft = {x}
  BY <1>1, FS_Singleton
<1>3. c \in GroupsLeft
  BY DEF GroupsLeft
<1>4. (CHOOSE y \in GroupsLeft : TRUE) \in GroupsLeft
  BY <1>3
<1> QED
  BY <1>2, <1>3, <1>4

\* A group the guard has passed, or need not see, is of safe files.
LEMMA GroupIsSafe ==
  ASSUME PlanInv, toGuard = {}, NEW c \in Configs, NEW f \in groups[c]
  PROVE  tool.guard => Safe(f)
<1>1. CASE c = NoConfig
  <2>1. ~tool.required /\ Nearest(f) = NoConfig
    BY <1>1 DEF PlanInv
  <2>2. ~tool.chain /\ ~tool.guardFiles
    BY <2>1, CheckAssumption DEF PlanInv
  <2> QED
    BY <2>1, <2>2 DEF Safe
<1>2. CASE c \in Dirs
  BY <1>2 DEF PlanInv
<1> QED
  BY <1>1, <1>2 DEF Configs

LEMMA LaneRunsWell ==
  ASSUME PlanInv, toGuard = {}
  PROVE  \A inv \in Invocations : RunsWell(inv)
<1> SUFFICES ASSUME NEW inv \in Invocations PROVE RunsWell(inv)
  OBVIOUS
<1>1. \A c \in Configs : \A f \in groups[c] :
        f \in Eligible /\ Nearest(f) = c /\ (tool.guard => Safe(f))
  BY GroupIsSafe DEF PlanInv
<1>2. GroupsLeft \subseteq Configs
  BY DEF GroupsLeft
<1>3. tool.lane \in {"A", "B", "C", "D"}
  BY CheckAssumption DEF PlanInv, ToolType
<1>4. CASE tool.lane \in {"A", "C"}
  <2> DEFINE single == Cardinality(GroupsLeft) = 1
             config == IF single THEN CHOOSE c \in GroupsLeft : TRUE ELSE NoConfig
  <2>1. inv = Invocation(Grouped, config)
    BY <1>4 DEF Invocations
  <2>2. inv.files = Grouped /\ inv.config = config
    BY <2>1 DEF Invocation
  <2>3. \A f \in Grouped : f \in Eligible /\ (tool.guard => Safe(f))
    BY <1>1 DEF Grouped
  <2>4. \A f \in Grouped : single => Nearest(f) = config
    BY <1>1, SingleGroup DEF Grouped
  <2>5. config \in Configs
    <3>1. CASE single
      <4>1. IsFiniteSet(GroupsLeft)
        BY FilesFinite, FS_Subset DEF GroupsLeft
      <4>2. GroupsLeft # {}
        BY <4>1, <3>1, FS_EmptySet
      <4> QED
        BY <4>2, <3>1, <1>2
    <3>2. CASE ~single
      BY <3>2 DEF Configs
    <3> QED
      BY <3>1, <3>2
  <2>6. ~single => config = NoConfig
    OBVIOUS
  <2> HIDE DEF single, config
  <2>7. tool.lane \notin {"B", "D"}
    BY <1>4
  <2> QED
    BY <2>2, <2>3, <2>4, <2>5, <2>6, <2>7 DEF RunsWell
<1>5. CASE tool.lane = "B"
  <2>1. PICK c \in GroupsLeft : inv = Invocation(groups[c], c)
    BY <1>5 DEF Invocations
  <2>2. inv.files = groups[c] /\ inv.config = c
    BY <2>1 DEF Invocation
  <2> QED
    BY <2>1, <2>2, <1>1, <1>2 DEF RunsWell
<1>6. CASE tool.lane = "D"
  <2>1. PICK c \in GroupsLeft : \E f \in groups[c] : inv = Invocation({f}, c)
    BY <1>6 DEF Invocations
  <2>2. PICK f \in groups[c] : inv = Invocation({f}, c)
    BY <2>1
  <2>3. inv.files = {f} /\ inv.config = c
    BY <2>2 DEF Invocation
  <2> QED
    BY <2>1, <2>3, <1>1, <1>2 DEF RunsWell
<1> QED
  BY <1>3, <1>4, <1>5, <1>6

LEMMA BatchRunsWell ==
  ASSUME RunInv, NEW b \in SUBSET rest
  PROVE  RunsWell(Invocation(b, current.config))
<1>1. RunsWell(current)
  BY DEF RunInv
<1>2. b \subseteq current.files
  BY DEF RunInv
<1> QED
  BY <1>1, <1>2 DEF RunsWell, Invocation

LEMMA RunStep == PlanInv /\ RunInv /\ [Next]_vars => RunInv'
<1> SUFFICES ASSUME PlanInv, RunInv, [Next]_vars PROVE RunInv'
  OBVIOUS
<1>i. UNCHANGED input
  BY StepKeepsInput DEF vars
<1>w. \A inv : RunsWell(inv)' = RunsWell(inv)
  BY <1>i, RunsWellStable
<1>1. CASE UNCHANGED <<invs, current, rest, ran>>
  BY <1>1, <1>w DEF RunInv
<1>2. CASE Lane
  <2>1. invs' = Invocations /\ UNCHANGED <<current, rest, ran>>
    BY <1>2 DEF Lane, history
  <2>2. toGuard = {}
    BY <1>2 DEF Lane, PlanInv
  <2> QED
    BY <2>1, <2>2, <1>w, LaneRunsWell DEF RunInv
<1>3. CASE NextInvocation
  <2>1. PICK inv \in invs : invs' = invs \ {inv} /\ current' = inv /\ rest' = inv.files
    BY <1>3 DEF NextInvocation
  <2>2. UNCHANGED ran
    BY <1>3 DEF NextInvocation, history
  <2> QED
    BY <2>1, <2>2, <1>w DEF RunInv
<1>4. CASE RunBatch
  <2>1. PICK b \in SUBSET rest : rest' = rest \ b /\ ran' = ran \cup {Invocation(b, current.config)}
    BY <1>4 DEF RunBatch
  <2>2. UNCHANGED <<invs, current>>
    BY <1>4 DEF RunBatch
  <2> QED
    BY <2>1, <2>2, <1>w, BatchRunsWell DEF RunInv
<1> QED
  BY <1>1, <1>2, <1>3, <1>4
     DEF Next, NotApplicable, Group, GuardPasses, GuardRefusal, AllUnsafe, Narrow, ToolRaises,
         RunEnds, Cap, Ended, vars, runVars, history

\* The tool never runs on a file for which it would load a config, or read
\* directives, the guard refuses (guard_paths, plan's guard loop and every
\* way of cutting what it leaves into runs).
THEOREM GuardHolds == Spec => []NoUnsafeConfigRuns
<1>1. RunInv => NoUnsafeConfigRuns
  <2> SUFFICES ASSUME RunInv, tool.guard, NEW b \in ran, NEW f \in b.files
               PROVE  /\ \A d \in Loads(b, f) : ~Unsafe(d)
                      /\ tool.guardFiles => fileIs[f] # "inline"
    BY DEF NoUnsafeConfigRuns
  <2>1. RunsWell(b)
    BY DEF RunInv
  <2>2. Safe(f) /\ (b.config # NoConfig => Nearest(f) = b.config)
    BY <2>1 DEF RunsWell
  <2> QED
    BY <2>2 DEF Safe, Loads
<1>2. Init => PlanInv /\ RunInv
  BY PlanInit, RunInit
<1>3. PlanInv /\ RunInv /\ [Next]_vars => (PlanInv /\ RunInv)'
  BY PlanStep, RunStep
<1> QED
  BY <1>1, <1>2, <1>3, PTL DEF Spec

\* Every run that names a config, or takes it from its directory, is on files
\* that config is the nearest to (_lane_invocations, tflint's group, batches).
THEOREM ConfigsAreOwn == Spec => []OneConfigPerRun
<1>1. RunInv => OneConfigPerRun
  BY DEF RunInv, RunsWell, OneConfigPerRun
<1>2. Init => PlanInv /\ RunInv
  BY PlanInit, RunInit
<1>3. PlanInv /\ RunInv /\ [Next]_vars => (PlanInv /\ RunInv)'
  BY PlanStep, RunStep
<1> QED
  BY <1>1, <1>2, <1>3, PTL DEF Spec

-------------------------------------------------------------------------------

LEMMA OnceInit == Init => OnceInv
<1> SUFFICES ASSUME Init PROVE OnceInv
  OBVIOUS
<1>1. ran = {} /\ invs = {} /\ rest = {} /\ checked = 0
  BY DEF Init
<1>2. RanFiles = {}
  BY <1>1 DEF RanFiles
<1> QED
  BY <1>1, <1>2, FS_EmptySet DEF OnceInv, Apart

\* However the lane cuts the groups, no file is in two invocations.
LEMMA LaneIsApart ==
  ASSUME PlanInv
  PROVE  Apart(Invocations)
<1> SUFFICES ASSUME NEW a \in Invocations, NEW b \in Invocations, NEW f \in a.files \cap b.files
             PROVE  a = b
  BY DEF Apart
<1>1. GroupsLeft \subseteq Configs
  BY DEF GroupsLeft
<1>2. \A c, d \in Configs : f \in groups[c] /\ f \in groups[d] => c = d
  BY DEF PlanInv
<1>3. tool.lane \in {"A", "B", "C", "D"}
  BY CheckAssumption DEF PlanInv, ToolType
<1>4. CASE tool.lane \in {"A", "C"}
  BY <1>4 DEF Invocations
<1>5. CASE tool.lane = "B"
  <2>1. PICK c \in GroupsLeft : a = Invocation(groups[c], c)
    BY <1>5 DEF Invocations
  <2>2. PICK d \in GroupsLeft : b = Invocation(groups[d], d)
    BY <1>5 DEF Invocations
  <2>3. f \in groups[c] /\ f \in groups[d]
    BY <2>1, <2>2 DEF Invocation
  <2> QED
    BY <2>1, <2>2, <2>3, <1>1, <1>2
<1>6. CASE tool.lane = "D"
  <2>1. PICK c \in GroupsLeft : \E g \in groups[c] : a = Invocation({g}, c)
    BY <1>6 DEF Invocations
  <2>2. PICK d \in GroupsLeft : \E g \in groups[d] : b = Invocation({g}, d)
    BY <1>6 DEF Invocations
  <2>3. f \in groups[c] /\ a = Invocation({f}, c)
    BY <2>1 DEF Invocation
  <2>4. f \in groups[d] /\ b = Invocation({f}, d)
    BY <2>2 DEF Invocation
  <2> QED
    BY <2>3, <2>4, <1>1, <1>2
<1> QED
  BY <1>3, <1>4, <1>5, <1>6

LEMMA OnceBatch ==
  ASSUME RunInv, OnceInv, RunBatch
  PROVE  OnceInv'
<1>1. PICK b \in SUBSET rest :
        /\ rest' = rest \ b /\ checked' = checked + Cardinality(b)
        /\ ran' = ran \cup {Invocation(b, current.config)}
  BY DEF RunBatch
<1>2. UNCHANGED invs /\ pc = "run" /\ pc' = "run"
  BY DEF RunBatch
<1> DEFINE new == Invocation(b, current.config)
<1>3. new.files = b
  BY DEF Invocation
<1> HIDE DEF new
<1>4. ran' = ran \cup {new}
  BY <1>1 DEF new
<1>5. RanFiles' = RanFiles \cup b
  BY <1>3, <1>4 DEF RanFiles
<1>6. RanFiles \cap b = {}
  BY DEF OnceInv
<1>7. \A a \in ran : a.files \cap b = {}
  BY <1>6 DEF RanFiles
<1>8. Apart(ran')
  BY <1>3, <1>4, <1>7 DEF OnceInv, Apart
<1>9. b \subseteq Files
  BY DEF RunInv, RunsWell, Eligible
<1>10. checked' = Cardinality(RanFiles')
  <2>1. IsFiniteSet(RanFiles) /\ IsFiniteSet(b)
    BY <1>9, FilesFinite, FS_Subset DEF OnceInv
  <2>2. Cardinality(RanFiles \cup b) = Cardinality(RanFiles) + Cardinality(b) - Cardinality({})
    BY <2>1, <1>6, FS_Union
  <2>3. Cardinality({}) = 0 /\ Cardinality(RanFiles) \in Nat /\ Cardinality(b) \in Nat
    BY <2>1, FS_EmptySet, FS_CardinalityType
  <2> QED
    BY <2>2, <2>3, <1>1, <1>5 DEF OnceInv
<1>11. Apart(invs')
  BY <1>2 DEF OnceInv, Apart
<1>12. RanFiles' \cap rest' = {} /\ RanFiles' \subseteq Files
  BY <1>1, <1>5, <1>9 DEF OnceInv
<1>13. \A inv \in invs' : inv.files \cap (RanFiles' \cup rest') = {}
  BY <1>1, <1>2, <1>5 DEF OnceInv
<1> QED
  BY <1>2, <1>8, <1>10, <1>11, <1>12, <1>13 DEF OnceInv

LEMMA OnceStep == PlanInv /\ RunInv /\ OnceInv /\ [Next]_vars => OnceInv'
<1> SUFFICES ASSUME PlanInv, RunInv, OnceInv, [Next]_vars PROVE OnceInv'
  OBVIOUS
<1>1. CASE UNCHANGED <<invs, rest, ran, checked>> /\ (pc' \in {"plan", "guard", "lane"}
                                                     => pc \in {"plan", "guard", "lane"})
  BY <1>1 DEF OnceInv, Apart, RanFiles
<1>2. CASE Lane
  <2>1. invs' = Invocations /\ UNCHANGED <<rest, ran, checked>> /\ pc' = "run"
    BY <1>2 DEF Lane, history
  <2>2. ran = {} /\ rest = {}
    BY <1>2 DEF Lane, OnceInv
  <2>3. Apart(invs')
    BY <2>1, LaneIsApart DEF Apart
  <2>4. RanFiles = {} /\ RanFiles' = {}
    BY <2>1, <2>2 DEF RanFiles
  <2> QED
    BY <2>1, <2>2, <2>3, <2>4 DEF OnceInv, Apart
<1>3. CASE NextInvocation
  <2>1. PICK inv \in invs : invs' = invs \ {inv} /\ rest' = inv.files
    BY <1>3 DEF NextInvocation
  <2>2. UNCHANGED <<ran, checked, pc>> /\ pc = "run"
    BY <1>3 DEF NextInvocation, history
  <2>3. RanFiles' = RanFiles
    BY <2>2 DEF RanFiles
  <2>4. \A other \in invs' : other.files \cap (RanFiles' \cup rest') = {}
    BY <2>1, <2>3 DEF OnceInv, Apart
  <2> QED
    BY <2>1, <2>2, <2>3, <2>4 DEF OnceInv, Apart
<1>4. CASE RunBatch
  BY <1>4, OnceBatch
<1> QED
  BY <1>1, <1>2, <1>3, <1>4
     DEF Next, NotApplicable, Group, GuardPasses, GuardRefusal, AllUnsafe, Narrow, ToolRaises,
         RunEnds, Cap, Ended, vars, runVars, history

\* The tool sees a file at most once, only eligible files, and files_checked
\* is how many it saw (plan's groups, the lanes, batches, run_check's count).
THEOREM FilesAreCheckedOnce == Spec => []CheckedOnce
<1>1. RunInv /\ OnceInv => CheckedOnce
  BY DEF RunInv, RunsWell, OnceInv, Apart, RanFiles, CheckedOnce
<1>2. Init => PlanInv /\ RunInv /\ OnceInv
  BY PlanInit, RunInit, OnceInit
<1>3. PlanInv /\ RunInv /\ OnceInv /\ [Next]_vars => (PlanInv /\ RunInv /\ OnceInv)'
  BY PlanStep, RunStep, OnceStep
<1> QED
  BY <1>1, <1>2, <1>3, PTL DEF Spec

-------------------------------------------------------------------------------
(* What the result shows *)

FindingType ==
  [rule : {"unsafe", "check-failed", "tool"}, files : SUBSET Files, config : Configs]

ReportTypes ==
  [of : SUBSET Files, text : {"none", "blank", "sarif"}, marks : Seq(Marks)]

Told(rule, f) == \E i \in DOMAIN findings : findings[i].rule = rule /\ f \in findings[i].files
Failed(f) == Told("check-failed", f)

\* The list that is going to be capped has every failure, an unwritten report
\* of the only batch included, and is too long once parse has cut a report.
ShownInv ==
  /\ findings \in Seq(FindingType)
  /\ report \in ReportTypes
  /\ IsFiniteSet(ran)
  /\ ran = {} => report = NoReport /\ unwritten = {}
  /\ \A b \in badExit : \A f \in b : Failed(f)
  /\ Cardinality(ran) = 1 => \A b \in unwritten : \A f \in b : Failed(f)
  /\ cut => Len(findings) > MaxFindings
  /\ pc = "done" => /\ result.truncated <=> Len(findings) > MaxFindings
                    /\ ~result.truncated => result.findings = findings

LEMMA ShownInit == Init => ShownInv
<1> SUFFICES ASSUME Init PROVE ShownInv
  OBVIOUS
<1>1. findings = << >> /\ report = NoReport /\ ran = {} /\ badExit = {} /\ unwritten = {}
      /\ ~cut /\ pc = "plan"
  BY DEF Init
<1>2. NoReport \in ReportTypes
  BY DEF NoReport, ReportTypes
<1> QED
  BY <1>1, <1>2, FS_EmptySet DEF ShownInv

LEMMA LeastIsThere == \A S \in SUBSET Dirs : S # {} => Min(S) \in S
<1> SUFFICES ASSUME NEW S \in SUBSET Dirs, S # {} PROVE Min(S) \in S
  OBVIOUS
<1>1. S \in SUBSET Nat
  BY CheckAssumption DEF Dirs
<1>2. \E x \in S : \A y \in S : x <= y
  <2> DEFINE less == {p \in Nat \X Nat : p[1] < p[2]}
  <2>1. IsWellFoundedOn(less, Nat)
    BY NatLessThanWellFounded DEF OpToRel
  <2>2. \E x \in S : \A y \in S : ~(<<y, x>> \in less)
    BY <1>1, <2>1, WFMin
  <2>3. \A x, y \in Nat : ~(<<y, x>> \in less) => x <= y
    OBVIOUS
  <2> QED
    BY <1>1, <2>2, <2>3
<1> QED
  BY <1>2 DEF Min

LEMMA Indices == \A n \in Nat : IsFiniteSet(1..n) /\ Cardinality(1..n) = n
BY FS_Interval

LEMMA OwnIsNat == \A marks \in Seq(Marks) : Own(marks) \in Nat /\ Own(marks) <= Len(marks)
<1> SUFFICES ASSUME NEW marks \in Seq(Marks) PROVE Own(marks) \in Nat /\ Own(marks) <= Len(marks)
  OBVIOUS
<1>1. Len(marks) \in Nat /\ DOMAIN marks = 1..Len(marks)
  OBVIOUS
<1>2. IsFiniteSet(1..Len(marks)) /\ Cardinality(1..Len(marks)) = Len(marks)
  BY <1>1, Indices
<1>3. {i \in DOMAIN marks : marks[i] = "own"} \in SUBSET (1..Len(marks))
  BY <1>1
<1> QED
  BY <1>2, <1>3, FS_Subset, FS_CardinalityType DEF Own

\* A report in which every mark is the batch's own.
LEMMA AllOwn ==
  ASSUME NEW marks \in Seq(Marks), Own(marks) = Len(marks)
  PROVE  \A i \in 1..Len(marks) : marks[i] = "own"
<1>1. Len(marks) \in Nat /\ DOMAIN marks = 1..Len(marks)
  OBVIOUS
<1>2. IsFiniteSet(1..Len(marks)) /\ Cardinality(1..Len(marks)) = Len(marks)
  BY <1>1, Indices
<1>3. {i \in DOMAIN marks : marks[i] = "own"} \in SUBSET (1..Len(marks))
  BY <1>1
<1>4. {i \in DOMAIN marks : marks[i] = "own"} = 1..Len(marks)
  BY <1>2, <1>3, FS_Subset DEF Own
<1> QED
  BY <1>4

\* parse keeps one past the cap, so that a cut report of the batch's own
\* findings is still too long.
LEMMA ParsedTells ==
  ASSUME NEW marks \in Seq(Marks)
  PROVE  /\ Parsed(marks) \in Seq(Marks)
         /\ Own(marks) = Len(marks) /\ Own(Parsed(marks)) < Own(marks)
              => Own(Parsed(marks)) = MaxFindings + 1
<1>1. CASE Parsed(marks) = marks
  BY <1>1, OwnIsNat
<1>2. CASE Parsed(marks) # marks
  <2> DEFINE short == SubSeq(marks, 1, MaxFindings + 1)
  <2>1. Parsed(marks) = short /\ Len(marks) > MaxFindings + 1
    BY <1>2 DEF Parsed
  <2>2. /\ short \in Seq(Marks) /\ Len(short) = MaxFindings + 1
        /\ DOMAIN short = 1..(MaxFindings + 1)
        /\ \A i \in 1..(MaxFindings + 1) : short[i] = marks[i]
    BY <2>1, CheckAssumption
  <2>3. ASSUME Own(marks) = Len(marks) PROVE Own(short) = MaxFindings + 1
    <3>1. \A i \in 1..(MaxFindings + 1) : short[i] = "own"
      BY <2>1, <2>2, <2>3, AllOwn, CheckAssumption
    <3> HIDE DEF short
    <3>2. {i \in DOMAIN short : short[i] = "own"} = 1..(MaxFindings + 1)
      BY <2>2, <3>1
    <3>3. Cardinality(1..(MaxFindings + 1)) = MaxFindings + 1
      BY FS_Interval, CheckAssumption
    <3> QED
      BY <3>2, <3>3 DEF Own
  <2> QED
    BY <2>1, <2>2, <2>3
<1> QED
  BY <1>1, <1>2

\* What is appended to the findings leaves the earlier ones where they are.
LEMMA Appended ==
  ASSUME findings \in Seq(FindingType), NEW new \in Seq(FindingType), findings' = findings \o new
  PROVE  /\ findings' \in Seq(FindingType) /\ Len(findings') = Len(findings) + Len(new)
         /\ \A rule, f : Told(rule, f) => Told(rule, f)'
         /\ \A i \in DOMAIN new : \E j \in DOMAIN findings' : findings'[j] = new[i]
<1>1. /\ findings' \in Seq(FindingType) /\ Len(findings') = Len(findings) + Len(new)
      /\ \A i \in 1..Len(findings) : findings'[i] = findings[i]
      /\ \A i \in 1..Len(new) : findings'[Len(findings) + i] = new[i]
  OBVIOUS
<1>2. DOMAIN findings = 1..Len(findings) /\ DOMAIN new = 1..Len(new) /\ DOMAIN findings' = 1..Len(findings')
      /\ Len(findings) \in Nat /\ Len(new) \in Nat
  BY <1>1
<1>3. \A i \in DOMAIN findings : i \in DOMAIN findings' /\ findings'[i] = findings[i]
  BY <1>1, <1>2
<1>4. \A i \in DOMAIN new : Len(findings) + i \in DOMAIN findings'
  BY <1>1, <1>2
<1> QED
  BY <1>1, <1>2, <1>3, <1>4 DEF Told

LEMMA ShownBatch ==
  ASSUME RunInv, OnceInv, ShownInv, RunBatch
  PROVE  ShownInv' /\ \A rule, f : Told(rule, f) => Told(rule, f)'
<1>1. PICK b \in SUBSET rest, expected \in BOOLEAN :
        /\ IsNextBatch(b, rest)
        /\ \E out \in Written(b) :
             LET read == IF tool.toFile /\ out = NoReport THEN report ELSE out
                 fails == FailedRun(expected, read)
                 kept == IF read.of = b THEN Own(Parsed(read.marks)) ELSE 0
             IN /\ report' = IF tool.toFile THEN read ELSE report
                /\ findings' = findings \o
                     IF fails THEN <<Finding("check-failed", b, current.config)>>
                     ELSE Copies(kept, Finding("tool", b, current.config))
                /\ badExit' = IF expected THEN badExit ELSE badExit \cup {b}
                /\ unwritten' = IF expected /\ tool.toFile /\ out.text # "sarif"
                                THEN unwritten \cup {b} ELSE unwritten
                /\ cut' = (cut \/ (~fails /\ kept < Own(out.marks) /\ Own(out.marks) = Len(out.marks)))
        /\ ran' = ran \cup {Invocation(b, current.config)}
  BY DEF RunBatch
<1>2. PICK out \in Written(b) :
        LET read == IF tool.toFile /\ out = NoReport THEN report ELSE out
            fails == FailedRun(expected, read)
            kept == IF read.of = b THEN Own(Parsed(read.marks)) ELSE 0
        IN /\ report' = IF tool.toFile THEN read ELSE report
           /\ findings' = findings \o
                IF fails THEN <<Finding("check-failed", b, current.config)>>
                ELSE Copies(kept, Finding("tool", b, current.config))
           /\ badExit' = IF expected THEN badExit ELSE badExit \cup {b}
           /\ unwritten' = IF expected /\ tool.toFile /\ out.text # "sarif"
                           THEN unwritten \cup {b} ELSE unwritten
           /\ cut' = (cut \/ (~fails /\ kept < Own(out.marks) /\ Own(out.marks) = Len(out.marks)))
  BY <1>1
<1> DEFINE read == IF tool.toFile /\ out = NoReport THEN report ELSE out
           fails == FailedRun(expected, read)
           kept == IF read.of = b THEN Own(Parsed(read.marks)) ELSE 0
           new == IF fails THEN <<Finding("check-failed", b, current.config)>>
                  ELSE Copies(kept, Finding("tool", b, current.config))
<1>3. pc' = "run" /\ b # {}
  BY <1>1 DEF RunBatch, IsNextBatch
<1>4. b \in SUBSET Files /\ current.config \in Configs
  BY <1>1 DEF RunInv, RunsWell, Eligible
<1>5. out \in ReportTypes /\ (out.text # "none" => out.of = b) /\ (out.text = "none" => out = NoReport)
  <2>1. << >> \in Seq(Marks) /\ Reports \subseteq Seq(Marks)
    BY CheckAssumption
  <2>2. CASE out = NoReport
    BY <2>1, <2>2 DEF NoReport, ReportTypes
  <2>3. CASE out = BlankReport(b)
    BY <1>4, <2>1, <2>3 DEF BlankReport, ReportTypes
  <2>4. ASSUME NEW m \in Reports, out = Report(b, m)
        PROVE  out \in ReportTypes /\ out.text = "sarif" /\ out.of = b
    BY <1>4, <2>1, <2>4 DEF Report, ReportTypes
  <2> QED
    BY <2>2, <2>3, <2>4 DEF Written, NoReport, BlankReport
<1>6. read \in ReportTypes
  BY <1>5 DEF ShownInv
<1>7. report' \in ReportTypes
  BY <1>2, <1>6 DEF ShownInv
<1>8. kept \in Nat
  <2>1. read.marks \in Seq(Marks)
    BY <1>6 DEF ReportTypes
  <2>2. Own(Parsed(read.marks)) \in Nat
    BY <2>1, ParsedTells, OwnIsNat
  <2> QED
    BY <2>2
<1>9. /\ fails => new = <<Finding("check-failed", b, current.config)>>
      /\ ~fails => new = [i \in 1..kept |-> Finding("tool", b, current.config)]
  BY DEF Copies
<1>10. findings' = findings \o new
  BY <1>2
<1>11. fails <=> ~expected \/ (tool.toFile /\ read.text # "sarif")
  BY DEF FailedRun
<1>12. /\ badExit' = IF expected THEN badExit ELSE badExit \cup {b}
       /\ unwritten' = IF expected /\ tool.toFile /\ out.text # "sarif"
                       THEN unwritten \cup {b} ELSE unwritten
       /\ cut' = (cut \/ (~fails /\ kept < Own(out.marks) /\ Own(out.marks) = Len(out.marks)))
  BY <1>2
<1>13. cut' /\ ~cut => ~fails /\ kept = MaxFindings + 1
  <2> SUFFICES ASSUME cut', ~cut PROVE ~fails /\ kept = MaxFindings + 1
    OBVIOUS
  <2>1. ~fails /\ kept < Own(out.marks) /\ Own(out.marks) = Len(out.marks)
    BY <1>12
  <2>2. out.marks \in Seq(Marks) /\ Own(out.marks) \in Nat
    BY <1>5, OwnIsNat DEF ReportTypes
  <2>3. out # NoReport
    <3>1. Own(<< >>) = 0
      BY FS_EmptySet DEF Own
    <3> QED
      BY <3>1, <2>1, <1>8 DEF NoReport
  <2>4. read = out /\ read.of = b
    BY <2>3, <1>5
  <2>5. kept = Own(Parsed(out.marks))
    BY <2>4
  <2> QED
    BY <2>1, <2>2, <2>5, ParsedTells
<1>14. tool.toFile /\ out.text # "sarif" /\ ran = {} => read.text # "sarif"
  <2> SUFFICES ASSUME tool.toFile, out.text # "sarif", ran = {} PROVE read.text # "sarif"
    OBVIOUS
  <2>1. report = NoReport
    BY DEF ShownInv
  <2> QED
    BY <2>1 DEF NoReport
<1> HIDE DEF read, fails, kept, new
<1>15. \A r \in {"check-failed", "tool"} : Finding(r, b, current.config) \in FindingType
  BY <1>4 DEF Finding, FindingType
<1>16. new \in Seq(FindingType) /\ (~fails => Len(new) = kept)
  <2>1. CASE fails
    <3>1. \A x \in FindingType : <<x>> \in Seq(FindingType)
      OBVIOUS
    <3> QED
      BY <1>9, <1>15, <2>1, <3>1
  <2>2. CASE ~fails
    BY <1>8, <1>9, <1>15, <2>2
  <2> QED
    BY <2>1, <2>2
<1>17. /\ findings' \in Seq(FindingType) /\ Len(findings') = Len(findings) + Len(new)
       /\ \A rule, f : Told(rule, f) => Told(rule, f)'
       /\ \A i \in DOMAIN new : \E j \in DOMAIN findings' : findings'[j] = new[i]
  BY <1>10, <1>16, Appended DEF ShownInv
<1>18. fails => \A f \in b : Failed(f)'
  <2> SUFFICES ASSUME fails, NEW f \in b PROVE Failed(f)'
    OBVIOUS
  <2>1. 1 \in DOMAIN new /\ new[1].rule = "check-failed" /\ new[1].files = b
    BY <1>9 DEF Finding
  <2> QED
    BY <2>1, <1>17 DEF Failed, Told
<1>19. \A c \in badExit' : \A f \in c : Failed(f)'
  BY <1>11, <1>12, <1>17, <1>18 DEF ShownInv, Failed
<1>20. IsFiniteSet(ran') /\ ran' # {}
  BY <1>1, FS_AddElement DEF ShownInv
<1>21. Cardinality(ran') = 1 => ran = {}
  <2> SUFFICES ASSUME Cardinality(ran') = 1, NEW a \in ran PROVE FALSE
    OBVIOUS
  <2>1. PICK x : ran' = {x}
    BY <1>20, FS_Singleton
  <2>2. a = Invocation(b, current.config)
    <3>1. a \in ran' /\ Invocation(b, current.config) \in ran'
      BY <1>1
    <3> QED
      BY <2>1, <3>1
  <2>3. a.files = b
    BY <2>2 DEF Invocation
  <2>4. b \subseteq RanFiles
    BY <2>3 DEF RanFiles
  <2> QED
    BY <2>4, <1>3 DEF OnceInv
<1>22. Cardinality(ran') = 1 => \A c \in unwritten' : \A f \in c : Failed(f)'
  BY <1>21, <1>11, <1>12, <1>14, <1>18 DEF ShownInv
<1>23. cut' => Len(findings') > MaxFindings
  <2>1. Len(findings) \in Nat /\ Len(new) \in Nat /\ MaxFindings \in Nat
    BY <1>16, CheckAssumption DEF ShownInv
  <2> QED
    BY <2>1, <1>13, <1>16, <1>17 DEF ShownInv
<1> QED
  BY <1>3, <1>7, <1>17, <1>19, <1>20, <1>22, <1>23 DEF ShownInv

LEMMA ShownStep == PlanInv /\ RunInv /\ OnceInv /\ ShownInv /\ [Next]_vars => ShownInv'
<1> SUFFICES ASSUME PlanInv, RunInv, OnceInv, ShownInv, [Next]_vars PROVE ShownInv'
  OBVIOUS
<1>1. CASE UNCHANGED <<findings, report, ran, badExit, unwritten, cut, result>>
           /\ (pc' = "done" => pc = "done")
  BY <1>1 DEF ShownInv, Failed, Told
<1>2. CASE GuardRefusal
  <2> DEFINE c == Min(toGuard)
             new == <<Finding("unsafe", groups[c], c)>>
  <2>1. /\ findings' = Append(findings, Finding("unsafe", groups[c], c)) /\ toGuard # {}
        /\ UNCHANGED <<pc, report, ran, badExit, unwritten, cut>> /\ pc = "guard"
    BY <1>2 DEF GuardRefusal, history
  <2>2. ran = {} /\ Cardinality(ran) = 0
    BY <2>1, FS_EmptySet DEF OnceInv
  <2>3. c \in Dirs
    BY <2>1, LeastIsThere DEF PlanInv
  <2>4. Finding("unsafe", groups[c], c) \in FindingType
    BY <2>3 DEF Finding, FindingType, PlanInv, Configs
  <2> HIDE DEF c
  <2>5. new \in Seq(FindingType) /\ findings' = findings \o new
    BY <2>1, <2>4 DEF ShownInv
  <2> HIDE DEF new
  <2>6. /\ findings' \in Seq(FindingType) /\ Len(findings') = Len(findings) + Len(new)
        /\ \A rule, f : Told(rule, f) => Told(rule, f)'
    BY <2>5, Appended DEF ShownInv
  <2>7. cut' => Len(findings') > MaxFindings
    <3>1. Len(findings) \in Nat /\ Len(new) \in Nat /\ MaxFindings \in Nat
      BY <2>5, CheckAssumption DEF ShownInv
    <3> QED
      BY <2>1, <2>6, <3>1 DEF ShownInv
  <2> QED
    BY <2>1, <2>2, <2>6, <2>7 DEF ShownInv, Failed
<1>3. CASE RunBatch
  BY <1>3, ShownBatch
<1>4. CASE Cap
  <2>1. /\ UNCHANGED <<findings, report, ran, badExit, unwritten, cut>>
        /\ result'.findings = SubSeq(findings, 1, Min({Len(findings), MaxFindings}))
        /\ result'.truncated = (Len(findings) > MaxFindings)
    BY <1>4 DEF Cap, runVars, history
  <2>2. Len(findings) \in Nat /\ MaxFindings \in Nat
    BY CheckAssumption DEF ShownInv
  <2>3. Len(findings) <= MaxFindings => Min({Len(findings), MaxFindings}) = Len(findings)
    BY <2>2 DEF Min
  <2>4. Len(findings) <= MaxFindings => result'.findings = findings
    BY <2>1, <2>3 DEF ShownInv
  <2>5. \A f : Failed(f)' <=> Failed(f)
    BY <2>1 DEF Failed, Told
  <2>6. result'.truncated <=> Len(findings') > MaxFindings
    BY <2>1
  <2>7. ~result'.truncated => result'.findings = findings'
    BY <2>1, <2>2, <2>4, <2>6
  <2> QED
    BY <2>1, <2>5, <2>6, <2>7 DEF ShownInv
<1> QED
  BY <1>1, <1>2, <1>3, <1>4
     DEF Next, NotApplicable, Group, GuardPasses, AllUnsafe, Narrow, Lane, NextInvocation,
         ToolRaises, RunEnds, Ended, vars, runVars, history

LEMMA Shown == Spec => []ShownInv
<1>1. Init => PlanInv /\ RunInv /\ OnceInv /\ ShownInv
  BY PlanInit, RunInit, OnceInit, ShownInit
<1>2. PlanInv /\ RunInv /\ OnceInv /\ ShownInv /\ [Next]_vars
        => (PlanInv /\ RunInv /\ OnceInv /\ ShownInv)'
  BY PlanStep, RunStep, OnceStep, ShownStep
<1> QED
  BY <1>1, <1>2, PTL DEF Spec

\* A tool that exits unexpectedly on a batch, or leaves no report in the only
\* batch there is, never looks like a clean scan (check_exit, run_to_file, cap).
THEOREM FailuresAreSeen == Spec => []FailureIsVisible
<1>1. ShownInv => FailureIsVisible
  BY DEF ShownInv, FailureIsVisible, Shows, Failed, Told
<1> QED
  BY Shown, <1>1, PTL

\* parse never cuts a report of a batch's own findings without cap saying so.
THEOREM CutsAreTold == Spec => []CutIsTold
<1>1. ShownInv => CutIsTold
  BY DEF ShownInv, CutIsTold
<1> QED
  BY Shown, <1>1, PTL

-------------------------------------------------------------------------------
(* Refusals *)

\* An eligible file the tool may run on is in a group the guard has still to
\* see, or told as unsafe, or loads nothing unsafe.
RefusalInv ==
  /\ pc # "guard" => toGuard = {}
  /\ tool.guard /\ ~inCI /\ pc # "plan" =>
       \A f \in Eligible \ Unconfigured :
         \/ Nearest(f) \in toGuard /\ f \in groups[Nearest(f)]
         \/ Told("unsafe", f)
         \/ \A d \in Loads(NoInvocation, f) : ~Unsafe(d)

LEMMA SafeLoads == \A f : Safe(f) => \A d \in Loads(NoInvocation, f) : ~Unsafe(d)
BY DEF Safe, Loads, NoInvocation, Invocation

LEMMA GreatestIsThere == \A S \in SUBSET Dirs : S # {} => Max(S) \in S
<1> SUFFICES ASSUME NEW S \in SUBSET Dirs, S # {} PROVE Max(S) \in S
  OBVIOUS
<1> DEFINE T == {NDirs - d : d \in S}
           less == {p \in Nat \X Nat : p[1] < p[2]}
<1>1. NDirs \in Nat /\ \A d \in S : d \in Nat /\ d <= NDirs
  BY CheckAssumption DEF Dirs
<1>2. T \subseteq Nat /\ T # {}
  BY <1>1
<1>3. IsWellFoundedOn(less, Nat)
  BY NatLessThanWellFounded DEF OpToRel
<1>4. \E x \in T : \A y \in T : ~(<<y, x>> \in less)
  BY <1>2, <1>3, WFMin
<1>5. \A x, y \in Nat : ~(<<y, x>> \in less) => x <= y
  OBVIOUS
<1>6. PICK x \in T : \A y \in T : x <= y
  BY <1>2, <1>4, <1>5
<1>7. PICK d \in S : x = NDirs - d
  OBVIOUS
<1>8. \A e \in S : d >= e
  BY <1>1, <1>6, <1>7
<1> QED
  BY <1>7, <1>8 DEF Max

LEMMA NearestIsConfig == ASSUME PlanInv, NEW f \in Files PROVE Nearest(f) \in Configs
<1> DEFINE where == CASE tool.scope = "nearest" -> Lineage[DirOf[f]]
                      [] tool.scope = "root"    -> {Root}
                      [] tool.scope = "none"    -> {}
           found == {d \in where : Counts(d)}
<1>1. tool.scope \in {"nearest", "root", "none"}
  BY CheckAssumption DEF PlanInv, ToolType
<1>2. Lineage[DirOf[f]] \subseteq Dirs
  BY CheckAssumption DEF Lineage
<1>3. {Root} \subseteq Dirs
  BY CheckAssumption DEF Root, Dirs
<1>4. where \subseteq Dirs
  BY <1>1, <1>2, <1>3
<1>5. found \in SUBSET Dirs
  BY <1>4
<1>6. Nearest(f) = IF found = {} THEN NoConfig ELSE Max(found)
  BY DEF Nearest
<1> HIDE DEF found
<1> QED
  BY <1>5, <1>6, GreatestIsThere DEF Configs

LEMMA RefusalInit == Init => RefusalInv
BY DEF Init, RefusalInv

\* What a step that keeps the task's input keeps of what a file needs.
LEMMA SameNeeds ==
  ASSUME UNCHANGED input
  PROVE  /\ Unconfigured' = Unconfigured
         /\ \A f : Loads(NoInvocation, f)' = Loads(NoInvocation, f)
<1>1. tool' = tool /\ dirIs' = dirIs
  BY DEF input
<1> QED
  BY <1>1, SameTree DEF Unconfigured, Loads

LEMMA RefusalStep ==
  PlanInv /\ RunInv /\ OnceInv /\ ShownInv /\ RefusalInv /\ [Next]_vars => RefusalInv'
<1> SUFFICES ASSUME PlanInv, RunInv, OnceInv, ShownInv, RefusalInv, [Next]_vars
             PROVE  RefusalInv'
  OBVIOUS
<1>i. UNCHANGED input
  BY StepKeepsInput DEF vars
<1>s. /\ tool' = tool /\ inCI' = inCI /\ Eligible' = Eligible /\ Unconfigured' = Unconfigured
      /\ \A f : Nearest(f)' = Nearest(f)
      /\ \A f : Loads(NoInvocation, f)' = Loads(NoInvocation, f)
      /\ \A d : Unsafe(d)' = Unsafe(d)
  BY <1>i, SameTree, SameNeeds DEF input
<1>1. CASE /\ UNCHANGED <<groups, toGuard, findings>>
           /\ (pc' # "guard" => pc # "guard" \/ toGuard = {}) /\ (pc = "plan" => pc' = "plan")
  <2>1. \A rule, f : Told(rule, f)' <=> Told(rule, f)
    BY <1>1 DEF Told
  <2> QED
    BY <1>s, <1>1, <2>1 DEF RefusalInv
<1>2. CASE NotApplicable
  <2>1. inCI \/ Eligible \ Unconfigured = {}
    BY <1>2 DEF NotApplicable, Eligible
  <2>2. toGuard' = {}
    BY <1>2 DEF NotApplicable, RefusalInv
  <2> QED
    BY <1>s, <2>1, <2>2 DEF RefusalInv
<1>3. CASE Group
  <2>1. /\ groups' = [c \in Configs |-> {f \in Eligible \ Unconfigured : Nearest(f) = c}]
        /\ tool.guard => toGuard' = {c \in Dirs : groups'[c] # {}}
        /\ pc' = "guard"
    BY <1>3 DEF Group
  <2>2. ASSUME tool.guard, NEW f \in Eligible \ Unconfigured, Nearest(f) # NoConfig
        PROVE  Nearest(f) \in toGuard' /\ f \in groups'[Nearest(f)]
    <3>1. Nearest(f) \in Configs
      BY NearestIsConfig DEF Eligible
    <3>2. Nearest(f) \in Dirs
      BY <2>2, <3>1 DEF Configs
    <3> QED
      BY <2>1, <2>2, <3>1, <3>2
  <2>3. ASSUME NEW f \in Eligible \ Unconfigured, Nearest(f) = NoConfig
        PROVE  \A d \in Loads(NoInvocation, f) : ~Unsafe(d)
    <3>1. ~tool.required
      BY <2>3 DEF Unconfigured
    <3>2. ~tool.chain
      BY <3>1, CheckAssumption DEF PlanInv
    <3> QED
      BY <2>3, <3>2 DEF Loads, NoInvocation, Invocation
  <2> QED
    BY <1>s, <2>1, <2>2, <2>3 DEF RefusalInv
<1>4. CASE GuardPasses
  <2> DEFINE c == Min(toGuard)
  <2>1. /\ toGuard # {} /\ ~GuardRefuses(c) /\ toGuard' = toGuard \ {c}
        /\ UNCHANGED <<groups, findings, pc>> /\ pc = "guard"
    BY <1>4 DEF GuardPasses, runVars
  <2>2. c \in Dirs
    BY <2>1, LeastIsThere DEF PlanInv
  <2>3. \A f \in groups[c] : \A d \in Loads(NoInvocation, f) : ~Unsafe(d)
    BY <2>1, <2>2, PassingGroupIsSafe, SafeLoads
  <2>4. \A rule, f : Told(rule, f)' <=> Told(rule, f)
    BY <2>1 DEF Told
  <2> HIDE DEF c
  <2> QED
    BY <1>s, <2>1, <2>3, <2>4 DEF RefusalInv
<1>5. CASE GuardRefusal
  <2> DEFINE c == Min(toGuard)
             new == <<Finding("unsafe", groups[c], c)>>
  <2>1. /\ toGuard # {} /\ toGuard' = toGuard \ {c} /\ groups' = [groups EXCEPT ![c] = {}]
        /\ findings' = Append(findings, Finding("unsafe", groups[c], c))
        /\ pc' = pc /\ pc = "guard"
    BY <1>5 DEF GuardRefusal
  <2>2. c \in Configs
    BY <2>1, LeastIsThere DEF PlanInv, Configs
  <2>3. Finding("unsafe", groups[c], c) \in FindingType
    BY <2>2 DEF Finding, FindingType, PlanInv
  <2>4. \A d \in Configs : d # c => groups'[d] = groups[d]
    BY <2>1 DEF PlanInv
  <2> HIDE DEF c
  <2>5. new \in Seq(FindingType) /\ findings' = findings \o new
    BY <2>1, <2>3 DEF ShownInv
  <2>6. 1 \in DOMAIN new /\ new[1].rule = "unsafe" /\ new[1].files = groups[c]
    BY DEF Finding
  <2> HIDE DEF new
  <2>7. /\ \A rule, f : Told(rule, f) => Told(rule, f)'
        /\ \A i \in DOMAIN new : \E j \in DOMAIN findings' : findings'[j] = new[i]
    BY <2>5, Appended DEF ShownInv
  <2>8. \A f \in groups[c] : Told("unsafe", f)'
    BY <2>6, <2>7 DEF Told
  <2>9. toGuard \subseteq Configs
    BY DEF PlanInv, Configs
  <2> QED
    BY <1>s, <2>1, <2>4, <2>7, <2>8, <2>9 DEF RefusalInv
<1>6. CASE Narrow
  <2>1. toGuard = {} /\ toGuard' = {} /\ UNCHANGED findings /\ pc = "guard"
    BY <1>6 DEF Narrow, runVars
  <2>2. \A rule, f : Told(rule, f)' <=> Told(rule, f)
    BY <2>1 DEF Told
  <2> QED
    BY <1>s, <2>1, <2>2 DEF RefusalInv
<1>7. CASE RunBatch
  <2>1. \A rule, f : Told(rule, f) => Told(rule, f)'
    BY <1>7, ShownBatch
  <2>2. UNCHANGED <<groups, toGuard, pc>> /\ pc = "run"
    BY <1>7 DEF RunBatch, planVars
  <2> QED
    BY <1>s, <2>1, <2>2 DEF RefusalInv
<1> QED
  BY <1>1, <1>2, <1>3, <1>4, <1>5, <1>6, <1>7
     DEF Next, AllUnsafe, Lane, NextInvocation, ToolRaises, RunEnds, Cap, Ended, vars, planVars,
         runVars

\* A file that is not checked because of an unsafe config is in the refusal the
\* result shows, or the result says that its list is cut (plan's guard loop, cap).
THEOREM RefusalsAreSeen == Spec => []RefusalIsVisible
<1> DEFINE Inv == PlanInv /\ RunInv /\ OnceInv /\ ShownInv /\ RefusalInv
<1>1. Inv => RefusalIsVisible
  BY DEF ShownInv, RefusalInv, RefusalIsVisible, Shows, Told
<1>2. Init => Inv
  BY PlanInit, RunInit, OnceInit, ShownInit, RefusalInit
<1>3. Inv /\ [Next]_vars => Inv'
  BY PlanStep, RunStep, OnceStep, ShownStep, RefusalStep
<1> QED
  BY <1>1, <1>2, <1>3, PTL DEF Spec

-------------------------------------------------------------------------------
(* What the notes account for *)

Note == Reasons \X Nat

AllCounted(s) == \A i \in DOMAIN s : s[i][2] > 0

\* The files of the groups that are left, and those the notes count, are as
\* many as the eligible ones.
Balanced ==
  /\ AllCounted(notes)
  /\ Cardinality(Places(notes)) + Cardinality(Grouped) = Cardinality(Eligible)

\* What the run phase has still to run, with what ran.
Covered == RanFiles \cup rest \cup UNION {inv.files : inv \in invs}

Accounts(s, n) ==
  IF AllCounted(s) THEN Cardinality(Places(s)) + n = Cardinality(Eligible) ELSE n = 0

NotesInv ==
  /\ notes \in Seq(Note) /\ IsFiniteSet(Places(notes))
  /\ \A c \in toGuard : groups[c] # {}
  /\ pc = "plan" => \A c \in Configs : groups[c] = {}
  /\ pc \in {"guard", "lane", "run"} => Balanced
  /\ pc = "run" => Covered = Grouped
  /\ pc = "cap" => Accounts(notes, checked)
  /\ pc = "done" => Accounts(result.skipped, result.files_checked)

LEMMA OneMoreNote ==
  ASSUME NEW s \in Seq(Note), IsFiniteSet(Places(s)), NEW r \in Reasons, NEW k \in Nat
  PROVE  LET t == Append(s, <<r, k>>)
         IN /\ t \in Seq(Note) /\ IsFiniteSet(Places(t))
            /\ Cardinality(Places(t)) = Cardinality(Places(s)) + k
            /\ AllCounted(t) <=> AllCounted(s) /\ k > 0
<1> DEFINE t == Append(s, <<r, k>>)
           n == Len(s) + 1
           new == {n} \X (1..k)
<1>1. <<r, k>> \in Note /\ <<r, k>>[2] = k
  BY DEF Note
<1>2. /\ t \in Seq(Note) /\ Len(s) \in Nat /\ Len(t) = n
      /\ t[n] = <<r, k>> /\ \A i \in 1..Len(s) : t[i] = s[i]
  BY <1>1
<1>3. DOMAIN t = 1..n /\ DOMAIN s = 1..Len(s)
  BY <1>2
<1>4. \A i : i \in DOMAIN t <=> i \in DOMAIN s \/ i = n
  BY <1>2, <1>3
<1>5. n \notin DOMAIN s
  BY <1>2, <1>3
<1> HIDE DEF t, n
<1>6. Places(t) = Places(s) \cup new
  BY <1>1, <1>2, <1>3, <1>4 DEF Places
<1>7. Places(s) \cap new = {}
  BY <1>5 DEF Places
<1>8. IsFiniteSet(new) /\ Cardinality(new) = k
  <2>1. IsFiniteSet({n}) /\ Cardinality({n}) = 1
    BY FS_Singleton
  <2>2. IsFiniteSet(1..k) /\ Cardinality(1..k) = k
    BY Indices
  <2> HIDE DEF new
  <2>3. IsFiniteSet(new) /\ Cardinality(new) = 1 * k
    BY <2>1, <2>2, FS_Product DEF new
  <2> QED
    BY <2>3
<1> HIDE DEF new
<1>9. IsFiniteSet(Places(t)) /\ Cardinality(Places(t)) = Cardinality(Places(s)) + k
  <2>1. /\ IsFiniteSet(Places(s) \cup new)
        /\ Cardinality(Places(s) \cup new) = Cardinality(Places(s)) + Cardinality(new) - Cardinality({})
    BY <1>7, <1>8, FS_Union
  <2>2. Cardinality({}) = 0 /\ Cardinality(Places(s)) \in Nat
    BY FS_EmptySet, FS_CardinalityType
  <2> QED
    BY <1>6, <1>8, <2>1, <2>2
<1>10. AllCounted(t) <=> AllCounted(s) /\ k > 0
  BY <1>1, <1>2, <1>3, <1>4 DEF AllCounted
<1> QED
  BY <1>2, <1>9, <1>10 DEF t

LEMMA NoNotes == Places(<<>>) = {} /\ AllCounted(<<>>) /\ <<>> \in Seq(Note)
BY DEF Places, AllCounted

\* A set of files and the rest of them.
LEMMA FilesSplit ==
  ASSUME NEW S \in SUBSET Files, NEW T \in SUBSET S
  PROVE  /\ Cardinality(S) = Cardinality(S \ T) + Cardinality(T)
         /\ Cardinality(S \ T) \in Nat /\ Cardinality(T) \in Nat
         /\ T # {} => Cardinality(T) > 0
<1>1. IsFiniteSet(S \ T) /\ IsFiniteSet(T)
  BY FilesFinite, FS_Subset
<1>2. (S \ T) \cup T = S /\ (S \ T) \cap T = {}
  OBVIOUS
<1>3. Cardinality((S \ T) \cup T) = Cardinality(S \ T) + Cardinality(T) - Cardinality({})
  BY <1>1, <1>2, FS_Union
<1>4. Cardinality({}) = 0 /\ Cardinality(S \ T) \in Nat /\ Cardinality(T) \in Nat
  BY <1>1, FS_EmptySet, FS_CardinalityType
<1>5. Cardinality(T) = 0 <=> T = {}
  BY <1>1, FS_EmptySet
<1>6. Cardinality(S) = Cardinality(S \ T) + Cardinality(T)
  <2>1. Cardinality(S) = Cardinality(S \ T) + Cardinality(T) - Cardinality({})
    BY <1>2, <1>3
  <2> QED
    BY <1>4, <2>1
<1> QED
  BY <1>4, <1>5, <1>6

LEMMA NotesInit == Init => NotesInv
<1> SUFFICES ASSUME Init PROVE NotesInv
  OBVIOUS
<1>1. pc = "plan" /\ notes = <<>> /\ toGuard = {} /\ \A c \in Configs : groups[c] = {}
  BY DEF Init
<1> QED
  BY <1>1, NoNotes, FS_EmptySet DEF NotesInv

\* A plan that ends without a group has one reason, which counts nothing.
LEMMA OneReason ==
  ASSUME NEW r \in Reasons, NEW n
  PROVE  /\ <<<<r, 0>>>> \in Seq(Note) /\ IsFiniteSet(Places(<<<<r, 0>>>>))
         /\ Accounts(<<<<r, 0>>>>, 0)
<1>1. Append(<<>>, <<r, 0>>) = <<<<r, 0>>>>
  OBVIOUS
<1>2. IsFiniteSet(Places(<<>>))
  BY NoNotes, FS_EmptySet
<1>3. /\ <<<<r, 0>>>> \in Seq(Note) /\ IsFiniteSet(Places(<<<<r, 0>>>>))
      /\ ~AllCounted(<<<<r, 0>>>>)
  <2> DEFINE t == Append(<<>>, <<r, 0>>)
  <2>1. t \in Seq(Note) /\ IsFiniteSet(Places(t)) /\ (AllCounted(t) <=> AllCounted(<<>>) /\ 0 > 0)
    BY <1>2, NoNotes, OneMoreNote
  <2>2. ~(0 > 0)
    OBVIOUS
  <2>3. t = <<<<r, 0>>>>
    BY <1>1
  <2> HIDE DEF t
  <2> QED
    BY <2>1, <2>2, <2>3
<1> QED
  BY <1>3 DEF Accounts

LEMMA LaneCovers ==
  ASSUME PlanInv
  PROVE  UNION {inv.files : inv \in Invocations} = Grouped
<1>1. tool.lane \in {"A", "B", "C", "D"}
  BY CheckAssumption DEF PlanInv, ToolType
<1>2. \A S, c : Invocation(S, c).files = S
  BY DEF Invocation
<1>3. \A f : f \in Grouped <=> \E c \in GroupsLeft : f \in groups[c]
  BY DEF Grouped, GroupsLeft
<1>4. CASE tool.lane \in {"A", "C"}
  <2>1. PICK c : Invocations = {Invocation(Grouped, c)}
    BY <1>4 DEF Invocations
  <2> QED
    BY <1>2, <2>1
<1>5. CASE tool.lane = "B"
  <2>1. Invocations = {Invocation(groups[c], c) : c \in GroupsLeft}
    BY <1>5 DEF Invocations
  <2>2. ASSUME NEW f, NEW c \in GroupsLeft, f \in groups[c]
        PROVE  \E inv \in Invocations : f \in inv.files
    BY <1>2, <2>1, <2>2
  <2>3. ASSUME NEW f, NEW inv \in Invocations, f \in inv.files
        PROVE  \E c \in GroupsLeft : f \in groups[c]
    <3>1. PICK c \in GroupsLeft : inv = Invocation(groups[c], c)
      BY <2>1
    <3> QED
      BY <1>2, <2>3, <3>1
  <2> QED
    BY <1>3, <2>2, <2>3
<1>6. CASE tool.lane = "D"
  <2>1. Invocations = UNION {{Invocation({f}, c) : f \in groups[c]} : c \in GroupsLeft}
    BY <1>6 DEF Invocations
  <2>2. ASSUME NEW f, NEW c \in GroupsLeft, f \in groups[c]
        PROVE  \E inv \in Invocations : f \in inv.files
    <3>1. Invocation({f}, c) \in Invocations
      BY <2>1, <2>2
    <3> QED
      BY <1>2, <3>1
  <2>3. ASSUME NEW f, NEW inv \in Invocations, f \in inv.files
        PROVE  \E c \in GroupsLeft : f \in groups[c]
    <3>1. PICK c \in GroupsLeft : \E g \in groups[c] : inv = Invocation({g}, c)
      BY <2>1
    <3>2. PICK g \in groups[c] : inv = Invocation({g}, c)
      BY <3>1
    <3> QED
      BY <1>2, <2>3, <3>2
  <2> QED
    BY <1>3, <2>2, <2>3
<1> QED
  BY <1>1, <1>4, <1>5, <1>6

LEMMA NotesStep == PlanInv /\ RunInv /\ OnceInv /\ NotesInv /\ [Next]_vars => NotesInv'
<1> SUFFICES ASSUME PlanInv, RunInv, OnceInv, NotesInv, [Next]_vars PROVE NotesInv'
  OBVIOUS
<1>0. UNCHANGED input /\ Eligible' = Eligible /\ Unconfigured' = Unconfigured
  <2>1. UNCHANGED input
    BY StepKeepsInput DEF vars
  <2> QED
    BY <2>1, SameTree, SameNeeds
<1>e. /\ Eligible \in SUBSET Files /\ Grouped \in SUBSET Files
      /\ \A c \in Configs : groups[c] \in SUBSET Grouped
  BY DEF Eligible, PlanInv, Grouped
<1>z. pc \in {"plan", "guard", "lane"} => checked = 0
  BY FS_EmptySet DEF OnceInv, RanFiles
<1>1. CASE UNCHANGED vars
  <2>1. UNCHANGED <<pc, groups, toGuard, notes, invs, rest, checked, ran, result>>
    BY <1>1 DEF vars, planVars, runVars, history
  <2> QED
    BY <1>0, <2>1 DEF NotesInv, Balanced, Covered, RanFiles, Accounts, AllCounted, Places, Grouped
<1>2. CASE NotApplicable
  <2>1. \E r \in Reasons : notes' = <<<<r, 0>>>>
    BY <1>2 DEF NotApplicable, Reasons
  <2>2. pc = "plan" /\ pc' = "cap" /\ UNCHANGED <<groups, toGuard, checked>>
    BY <1>2 DEF NotApplicable, runVars
  <2>3. notes' \in Seq(Note) /\ IsFiniteSet(Places(notes')) /\ Accounts(notes', 0)
    BY <2>1, OneReason
  <2> QED
    BY <1>0, <1>z, <2>2, <2>3 DEF NotesInv, Accounts, Places, AllCounted
<1>3. CASE Group
  <2>1. /\ groups' = [c \in Configs |-> {f \in Eligible \ Unconfigured : Nearest(f) = c}]
        /\ pc = "plan" /\ pc' = "guard"
        /\ toGuard' = IF tool.guard THEN {c \in Dirs : groups'[c] # {}} ELSE {}
        /\ notes' = IF Unconfigured = {} THEN <<>>
                    ELSE <<<<"unconfigured", Cardinality(Unconfigured)>>>>
    BY <1>3 DEF Group
  <2>2. \A c \in toGuard' : groups'[c] # {}
    BY <2>1
  <2>3. Unconfigured \in SUBSET Eligible
    BY DEF Unconfigured
  <2>4. Grouped' = Eligible \ Unconfigured
    <3>1. \A f \in Eligible : Nearest(f) \in Configs
      BY <1>e, NearestIsConfig
    <3> QED
      BY <2>1, <3>1 DEF Grouped
  <2>5. /\ Cardinality(Eligible) = Cardinality(Grouped') + Cardinality(Unconfigured)
        /\ Cardinality(Grouped') \in Nat /\ Cardinality(Unconfigured) \in Nat
        /\ Unconfigured # {} => Cardinality(Unconfigured) > 0
    BY <1>e, <2>3, <2>4, FilesSplit
  <2>6. CASE Unconfigured = {}
    <3>1. notes' = <<>> /\ Cardinality(Unconfigured) = 0 /\ Cardinality({}) = 0
      BY <2>1, <2>6, FS_EmptySet
    <3>2. /\ notes' \in Seq(Note) /\ IsFiniteSet(Places(notes')) /\ AllCounted(notes')
          /\ Cardinality(Places(notes')) = 0
      BY <3>1, NoNotes, FS_EmptySet
    <3>3. Cardinality(Places(notes')) + Cardinality(Grouped') = Cardinality(Eligible)
      BY <2>5, <3>1, <3>2
    <3> QED
      BY <1>0, <2>1, <2>2, <3>2, <3>3 DEF NotesInv, Balanced, Places, AllCounted
  <2>7. CASE Unconfigured # {}
    <3> DEFINE k == Cardinality(Unconfigured)
    <3>1. Append(<<>>, <<"unconfigured", k>>) = <<<<"unconfigured", k>>>>
      OBVIOUS
    <3> HIDE DEF k
    <3>2. notes' = Append(<<>>, <<"unconfigured", k>>)
      BY <2>1, <2>7, <3>1 DEF k
    <3>3. "unconfigured" \in Reasons /\ k \in Nat /\ k > 0
      BY <2>5, <2>7 DEF k, Reasons
    <3>4. IsFiniteSet(Places(<<>>)) /\ Cardinality(Places(<<>>)) = 0
      BY NoNotes, FS_EmptySet
    <3>5. /\ notes' \in Seq(Note) /\ IsFiniteSet(Places(notes')) /\ AllCounted(notes')
          /\ Cardinality(Places(notes')) = 0 + k
      BY <3>2, <3>3, <3>4, NoNotes, OneMoreNote
    <3>6. Cardinality(Places(notes')) + Cardinality(Grouped') = Cardinality(Eligible)
      BY <2>5, <3>3, <3>5 DEF k
    <3> QED
      BY <1>0, <2>1, <2>2, <3>5, <3>6 DEF NotesInv, Balanced, Places, AllCounted
  <2> QED
    BY <2>6, <2>7
<1>4. CASE GuardPasses
  <2>1. /\ pc = "guard" /\ pc' = "guard" /\ toGuard' \subseteq toGuard
        /\ UNCHANGED <<groups, notes>>
    BY <1>4 DEF GuardPasses
  <2> QED
    BY <1>0, <2>1 DEF NotesInv, Balanced, AllCounted, Places, Grouped
<1>5. CASE GuardRefusal
  <2> DEFINE c == Min(toGuard)
             k == Cardinality(groups[c])
  <2>1. /\ pc = "guard" /\ pc' = "guard" /\ toGuard # {}
        /\ notes' = Append(notes, <<"unsafe", k>>)
        /\ groups' = [groups EXCEPT ![c] = {}]
        /\ toGuard' = toGuard \ {c}
    BY <1>5 DEF GuardRefusal
  <2>2. c \in toGuard /\ c \in Configs
    BY <2>1, LeastIsThere DEF PlanInv, Configs
  <2>3. groups[c] # {} /\ groups[c] \in SUBSET Grouped
    BY <1>e, <2>2 DEF NotesInv
  <2> HIDE DEF c
  <2>4. \A d \in Configs : groups'[d] = IF d = c THEN {} ELSE groups[d]
    BY <2>1, <2>2 DEF PlanInv
  <2>5. Grouped' = Grouped \ groups[c]
    <3>1. \A d \in Configs : \A f \in groups[d] : f \in groups[c] => d = c
      BY <2>2 DEF PlanInv
    <3> QED
      BY <2>2, <2>4, <3>1 DEF Grouped
  <2>6. /\ Cardinality(Grouped) = Cardinality(Grouped') + k
        /\ Cardinality(Grouped') \in Nat /\ k \in Nat /\ k > 0
    BY <1>e, <2>3, <2>5, FilesSplit
  <2>7. \A d \in toGuard' : groups'[d] # {}
    BY <2>1, <2>4 DEF NotesInv, PlanInv, Configs
  <2> HIDE DEF k
  <2>8. "unsafe" \in Reasons
    BY DEF Reasons
  <2>9. /\ notes' \in Seq(Note) /\ IsFiniteSet(Places(notes')) /\ AllCounted(notes')
        /\ Cardinality(Places(notes')) = Cardinality(Places(notes)) + k
    BY <2>1, <2>6, <2>8, OneMoreNote DEF NotesInv, Balanced
  <2>10. Cardinality(Places(notes)) \in Nat
    BY FS_CardinalityType DEF NotesInv
  <2>11. Cardinality(Places(notes')) + Cardinality(Grouped') = Cardinality(Eligible)
    BY <2>1, <2>6, <2>9, <2>10 DEF NotesInv, Balanced
  <2> QED
    BY <1>0, <2>1, <2>7, <2>9, <2>11 DEF NotesInv, Balanced, Places, AllCounted
<1>6. CASE AllUnsafe
  <2>1. notes' = <<<<"all unsafe", 0>>>> /\ "all unsafe" \in Reasons
    BY <1>6 DEF AllUnsafe, Reasons
  <2>2. pc = "guard" /\ pc' = "cap" /\ UNCHANGED <<groups, toGuard, checked>>
    BY <1>6 DEF AllUnsafe, runVars
  <2>3. notes' \in Seq(Note) /\ IsFiniteSet(Places(notes')) /\ Accounts(notes', 0)
    BY <2>1, OneReason
  <2> QED
    BY <1>0, <1>z, <2>2, <2>3 DEF NotesInv, Accounts, Places, AllCounted
<1>8. CASE Lane
  <2>1. /\ invs' = Invocations /\ pc = "lane" /\ pc' = "run"
        /\ UNCHANGED <<groups, toGuard, notes, rest, ran>>
    BY <1>8 DEF Lane, planVars, history
  <2>2. RanFiles' = {} /\ rest' = {}
    BY <2>1 DEF OnceInv, RanFiles
  <2>3. Covered' = Grouped
    BY <2>1, <2>2, LaneCovers DEF Covered
  <2>4. Grouped' = Grouped
    BY <2>1 DEF Grouped
  <2> QED
    BY <1>0, <2>1, <2>3, <2>4 DEF NotesInv, Balanced, Places, AllCounted
<1>9. CASE NextInvocation \/ RunBatch
  <2>1. pc = "run" /\ pc' = "run" /\ UNCHANGED <<groups, toGuard, notes>>
    BY <1>9 DEF NextInvocation, RunBatch, planVars
  <2>2. Covered' = Covered
    <3>1. CASE NextInvocation
      <4>1. PICK inv \in invs : invs' = invs \ {inv} /\ rest' = inv.files /\ rest = {}
        BY <3>1 DEF NextInvocation
      <4>2. RanFiles' = RanFiles
        BY <3>1 DEF NextInvocation, history, RanFiles
      <4> QED
        BY <4>1, <4>2 DEF Covered
    <3>2. CASE RunBatch
      <4>1. PICK b \in SUBSET rest :
              rest' = rest \ b /\ ran' = ran \cup {Invocation(b, current.config)} /\ invs' = invs
        BY <3>2 DEF RunBatch
      <4>2. RanFiles' = RanFiles \cup b
        <5> DEFINE new == Invocation(b, current.config)
        <5>1. new.files = b
          BY DEF Invocation
        <5> HIDE DEF new
        <5>2. ran' = ran \cup {new}
          BY <4>1 DEF new
        <5> QED
          BY <5>1, <5>2 DEF RanFiles
      <4> QED
        BY <4>1, <4>2 DEF Covered
    <3> QED
      BY <1>9, <3>1, <3>2
  <2>3. Grouped' = Grouped
    BY <2>1 DEF Grouped
  <2> QED
    BY <1>0, <2>1, <2>2, <2>3 DEF NotesInv, Balanced, Places, AllCounted
<1>10. CASE ToolRaises
  <2>1. pc' = "raised" /\ UNCHANGED <<groups, toGuard, notes>>
    BY <1>10 DEF ToolRaises, planVars
  <2> QED
    BY <2>1 DEF NotesInv, Places
<1>11. CASE RunEnds
  <2>1. /\ pc = "run" /\ pc' = "cap" /\ rest = {} /\ invs = {}
        /\ UNCHANGED <<groups, toGuard, notes, checked>>
    BY <1>11 DEF RunEnds, planVars, runVars
  <2>2. checked = Cardinality(Grouped)
    <3>1. RanFiles = Grouped
      BY <2>1 DEF NotesInv, Covered
    <3> QED
      BY <3>1 DEF OnceInv
  <2>3. Accounts(notes, checked)
    BY <2>1, <2>2 DEF NotesInv, Balanced, Accounts
  <2> QED
    BY <1>0, <2>1, <2>3 DEF NotesInv, Accounts, Places, AllCounted
<1>12. CASE Cap
  <2>1. /\ pc = "cap" /\ pc' = "done" /\ UNCHANGED <<groups, toGuard, notes>>
        /\ result'.skipped = notes /\ result'.files_checked = checked
    BY <1>12 DEF Cap, planVars, runVars
  <2> QED
    BY <1>0, <2>1 DEF NotesInv, Accounts, Places, AllCounted
<1>13. CASE Ended
  BY <1>1, <1>13 DEF Ended
<1>7. CASE Narrow
  <2> DEFINE k == Cardinality(AllNarrowed)
  <2>1. /\ pc = "guard" /\ toGuard = {} /\ toGuard' = {} /\ Grouped # {}
        /\ groups' = [c \in Configs |-> groups[c] \ Narrowed(c)]
        /\ checked' = checked /\ checked = 0
        /\ pc' = IF AllNarrowed = Grouped THEN "cap" ELSE "lane"
    BY <1>7, <1>z DEF Narrow, runVars
  <2>2. notes' = IF AllNarrowed = {} THEN notes
                 ELSE IF tool.narrow = "endpoint" THEN Append(notes, <<"unreachable", 0>>)
                 ELSE Append(notes, <<"narrowed", k>>)
    BY <1>7 DEF Narrow
  <2>n. tool.narrow \in {"none", "skip", "endpoint"}
    BY CheckAssumption DEF PlanInv, ToolType
  <2>3. \A c \in Configs : Narrowed(c) \subseteq groups[c]
    BY <2>n DEF Narrowed
  <2>4. Grouped' = Grouped \ AllNarrowed /\ AllNarrowed \in SUBSET Grouped
    <3>1. \A c, d \in Configs : \A f : f \in groups[c] /\ f \in groups[d] => c = d
      BY DEF PlanInv
    <3>2. \A c \in Configs : groups'[c] = groups[c] \ Narrowed(c)
      BY <2>1
    <3> QED
      BY <2>3, <3>1, <3>2 DEF Grouped, AllNarrowed
  <2>5. /\ Cardinality(Grouped) = Cardinality(Grouped') + k
        /\ Cardinality(Grouped') \in Nat /\ k \in Nat
        /\ AllNarrowed # {} => k > 0
    BY <1>e, <2>4, FilesSplit
  <2> HIDE DEF k
  <2>6. /\ notes \in Seq(Note) /\ IsFiniteSet(Places(notes)) /\ AllCounted(notes)
        /\ Cardinality(Places(notes)) + Cardinality(Grouped) = Cardinality(Eligible)
        /\ Cardinality(Places(notes)) \in Nat
    BY <2>1, FS_CardinalityType DEF NotesInv, Balanced
  <2>7. ASSUME notes' \in Seq(Note), IsFiniteSet(Places(notes')), AllCounted(notes'),
               Cardinality(Places(notes')) + Cardinality(Grouped') = Cardinality(Eligible)
        PROVE  NotesInv'
    <3>1. pc' = "cap" => Cardinality(Grouped') = checked'
      BY <2>1, <2>4, FS_EmptySet
    <3> QED
      BY <1>0, <2>1, <2>7, <3>1 DEF NotesInv, Balanced, Accounts, Places, AllCounted
  <2>8. CASE AllNarrowed = {}
    <3>1. notes' = notes /\ Grouped' = Grouped
      BY <2>2, <2>4, <2>8
    <3> QED
      BY <2>6, <2>7, <3>1
  <2>9. CASE AllNarrowed # {} /\ tool.narrow = "endpoint"
    <3>1. AllNarrowed = Grouped
      BY <2>9 DEF AllNarrowed, Narrowed, Grouped
    <3>2. "unreachable" \in Reasons /\ ~(0 > 0)
      BY DEF Reasons
    <3>3. notes' = Append(notes, <<"unreachable", 0>>)
      BY <2>2, <2>9
    <3>4. notes' \in Seq(Note) /\ IsFiniteSet(Places(notes')) /\ ~AllCounted(notes')
      BY <2>6, <3>2, <3>3, OneMoreNote
    <3> QED
      BY <2>1, <3>1, <3>4 DEF NotesInv, Accounts, AllCounted, Places
  <2>10. CASE AllNarrowed # {} /\ tool.narrow # "endpoint"
    <3>1. notes' = Append(notes, <<"narrowed", k>>) /\ "narrowed" \in Reasons
      BY <2>2, <2>10 DEF Reasons
    <3>2. /\ notes' \in Seq(Note) /\ IsFiniteSet(Places(notes')) /\ AllCounted(notes')
          /\ Cardinality(Places(notes')) = Cardinality(Places(notes)) + k
      BY <2>5, <2>6, <2>10, <3>1, OneMoreNote
    <3>3. Cardinality(Places(notes')) + Cardinality(Grouped') = Cardinality(Eligible)
      BY <2>5, <2>6, <3>2
    <3> QED
      BY <2>7, <3>2, <3>3
  <2> QED
    BY <2>8, <2>9, <2>10
<1> QED
  BY <1>1, <1>2, <1>3, <1>4, <1>5, <1>6, <1>7, <1>8, <1>9, <1>10, <1>11, <1>12, <1>13 DEF Next

\* A result that gives no reason for doing nothing accounts for every eligible
\* file, by files_checked or by a note (plan's counts, taken before the guard and
\* narrow drop files; the batches).
THEOREM NotesAddUp == Spec => []SkippedAddsUp
<1> DEFINE Inv == PlanInv /\ RunInv /\ OnceInv /\ NotesInv
<1>1. Inv => SkippedAddsUp
  BY DEF NotesInv, Accounts, AllCounted, SkippedAddsUp
<1>2. Init => Inv
  BY PlanInit, RunInit, OnceInit, NotesInit
<1>3. Inv /\ [Next]_vars => Inv'
  BY PlanStep, RunStep, OnceStep, NotesStep
<1> QED
  BY <1>1, <1>2, <1>3, PTL DEF Spec

\* The types, which the other invariants leave little of to show.
TypeInv ==
  /\ diff \in BOOLEAN /\ inCI \in BOOLEAN /\ online \in BOOLEAN
  /\ fileIs \in [Files -> FileKinds] /\ dirIs \in [Dirs -> DirKinds]
  /\ pc \in {"plan", "guard", "lane", "run", "cap", "done", "raised"}
  /\ result.truncated \in BOOLEAN /\ result.files_checked \in Nat
  /\ badExit \cup unwritten \subseteq {b.files : b \in ran}
  /\ cut \in BOOLEAN

LEMMA TypeStep ==
  PlanInv /\ RunInv /\ OnceInv /\ ShownInv /\ TypeInv /\ [Next]_vars => TypeInv'
<1> SUFFICES ASSUME PlanInv, RunInv, OnceInv, ShownInv, TypeInv, [Next]_vars PROVE TypeInv'
  OBVIOUS
<1>1. UNCHANGED input
  BY StepKeepsInput DEF vars
<1>2. checked \in Nat
  <2>1. IsFiniteSet(RanFiles)
    BY FilesFinite, FS_Subset DEF OnceInv
  <2> QED
    BY <2>1, FS_CardinalityType DEF OnceInv
<1>3. CASE RunBatch
  <2>1. PICK b \in SUBSET rest, expected \in BOOLEAN :
          /\ badExit' = IF expected THEN badExit ELSE badExit \cup {b}
          /\ unwritten' = unwritten \/ unwritten' = unwritten \cup {b}
          /\ cut' \in BOOLEAN
          /\ ran' = ran \cup {Invocation(b, current.config)}
    BY <1>3 DEF RunBatch, TypeInv
  <2> DEFINE new == Invocation(b, current.config)
  <2>2. new.files = b
    BY DEF Invocation
  <2> HIDE DEF new
  <2>3. ran' = ran \cup {new}
    BY <2>1 DEF new
  <2>4. badExit' \cup unwritten' \subseteq {a.files : a \in ran'}
    <3>1. badExit' \cup unwritten' \subseteq badExit \cup unwritten \cup {b}
      BY <2>1
    <3>2. \A x \in badExit \cup unwritten : \E a \in ran : x = a.files
      BY DEF TypeInv
    <3>3. \A x \in badExit \cup unwritten \cup {b} : \E a \in ran' : x = a.files
      BY <2>2, <2>3, <3>2
    <3> QED
      BY <3>1, <3>3
  <2>5. UNCHANGED <<input, pc, result>>
    BY <1>3 DEF RunBatch
  <2> QED
    BY <2>1, <2>4, <2>5 DEF TypeInv, input
<1>4. CASE Cap
  <2>1. result'.truncated \in BOOLEAN /\ result'.files_checked = checked
    BY <1>4 DEF Cap
  <2> QED
    BY <1>1, <1>2, <1>4, <2>1 DEF TypeInv, input, Cap, history
<1> QED
  BY <1>1, <1>3, <1>4
     DEF TypeInv, input, history, vars, Next, NotApplicable, Group, GuardPasses, GuardRefusal,
         AllUnsafe, Narrow, Lane, NextInvocation, ToolRaises, RunEnds, Ended

\* Every variable keeps to its type, and a run's files to the tree.
THEOREM TypeCorrect == Spec => []TypeOK
<1> DEFINE Inv == PlanInv /\ RunInv /\ OnceInv /\ ShownInv /\ NotesInv /\ TypeInv
<1>1. Inv => TypeOK
  <2> SUFFICES ASSUME Inv PROVE TypeOK
    OBVIOUS
  <2>1. \A inv \in invs \cup {current} \cup ran : inv.files \subseteq Files /\ inv.config \in Configs
    BY DEF RunInv, RunsWell, Eligible
  <2>2. \A i \in DOMAIN findings : findings[i].rule \in {"unsafe", "check-failed", "tool"}
    <3>1. findings \in Seq(FindingType)
      BY DEF ShownInv
    <3>2. \A i \in DOMAIN findings : findings[i] \in FindingType
      BY <3>1
    <3> QED
      BY <3>2 DEF FindingType
  <2>3. report.of \subseteq Files /\ report.text \in {"none", "blank", "sarif"}
    BY DEF ShownInv, ReportTypes
  <2>4. checked \in Nat
    <3>1. IsFiniteSet(RanFiles)
      BY FilesFinite, FS_Subset DEF OnceInv
    <3> QED
      BY <3>1, FS_CardinalityType DEF OnceInv
  <2>5. tool \in Tools /\ groups \in [Configs -> SUBSET Files] /\ toGuard \subseteq Dirs
    BY DEF PlanInv
  <2>6. notes \in Seq(Reasons \X Nat) /\ rest \subseteq current.files
    BY DEF NotesInv, Note, RunInv
  <2> QED
    BY <2>1, <2>2, <2>3, <2>4, <2>5, <2>6 DEF TypeInv, TypeOK
<1>2. Init => Inv
  <2>1. Init => TypeInv
    <3> SUFFICES ASSUME Init PROVE TypeInv
      OBVIOUS
    <3>1. result.truncated \in BOOLEAN /\ result.files_checked \in Nat
      BY DEF Init, NoResult
    <3>2. badExit = {} /\ unwritten = {} /\ cut \in BOOLEAN
      BY DEF Init
    <3>5. pc \in {"plan", "guard", "lane", "run", "cap", "done", "raised"}
      BY DEF Init
    <3>3. /\ diff \in BOOLEAN /\ inCI \in BOOLEAN /\ online \in BOOLEAN
          /\ fileIs \in [Files -> FileKinds] /\ dirIs \in [Dirs -> DirKinds]
      BY DEF Init
    <3>4. badExit \cup unwritten \subseteq {b.files : b \in ran}
      BY <3>2
    <3> QED
      BY <3>1, <3>2, <3>3, <3>4, <3>5 DEF TypeInv
  <2> QED
    BY <2>1, PlanInit, RunInit, OnceInit, ShownInit, NotesInit
<1>3. Inv /\ [Next]_vars => Inv'
  BY PlanStep, RunStep, OnceStep, ShownStep, NotesStep, TypeStep
<1> QED
  BY <1>1, <1>2, <1>3, PTL DEF Spec

===============================================================================
