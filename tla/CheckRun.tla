-------------------------------- MODULE CheckRun --------------------------------
(***************************************************************************)
(* One check task of rw-checks, from run_check's call of the tool module's *)
(* applicable() to the capped result: _plan.plan decides which changed     *)
(* files the tool runs on and with which config, _runner.run_check runs it *)
(* batch by batch and keeps what is about the batch's own files.           *)
(*                                                                         *)
(* Files, directories and the configs in them are numbers: files in the    *)
(* order of their paths, a directory after its parent, a config under the  *)
(* number of its directory.  A finding is what it is about; a report is    *)
(* the batch it was made for and, in order, whether each finding is about  *)
(* one of that batch's files ("own") or not ("other").                     *)
(***************************************************************************)
EXTENDS Integers, Sequences, FiniteSetsExt

CONSTANTS
  NFiles, NDirs,
  Parent,       \* the directory above each directory but the root
  DirOf,        \* the directory of each file
  NameBytes,    \* the length of each file's path
  Tools,        \* the tool modules: see ToolType
  MaxBatchFiles, MaxBatchBytes,   \* MAX_BATCH_FILES, MAX_BATCH_ARGV_BYTES
  MaxFindings,  \* MAX_FINDINGS_PER_RESULT
  Reports       \* the reports a tool can write, as sequences of marks

Files == 1..NFiles
Dirs == 1..NDirs
Root == 1
NoConfig == 0
Configs == {NoConfig} \cup Dirs
Marks == {"own", "other"}

ToolType ==
  [required: BOOLEAN,                       \* CONFIG = "required"
   scope: {"nearest", "root", "none"},      \* CONFIG_SCOPE, or no CONFIG_NAMES at all
   ci: BOOLEAN,                             \* CI_BINARY is not None
   guard: BOOLEAN, chain: BOOLEAN, guardFiles: BOOLEAN,
   narrow: {"none", "skip", "endpoint"},
   lane: {"A", "B", "C", "D"},
   toFile: BOOLEAN,                         \* run_to_file rather than stdout
   sarif: BOOLEAN]                          \* ctx.sarif.parse rather than from_records

\* Every module whose guard looks past the resolved config (sqlfluff, buf)
\* requires one: plan shows the guard no file without a config.
ASSUME CheckAssumption ==
  /\ NFiles \in Nat /\ NDirs \in Nat \ {0}
  /\ Parent \in [Dirs \ {Root} -> Dirs] /\ \A d \in Dirs \ {Root} : Parent[d] < d
  /\ DirOf \in [Files -> Dirs]
  /\ NameBytes \in [Files -> Nat]
  /\ Tools \subseteq ToolType
  /\ \A t \in Tools : t.lane = "D" \/ t.chain \/ t.guardFiles => t.required /\ t.scope # "none"
  /\ MaxBatchFiles \in Nat \ {0} /\ MaxBatchBytes \in Nat /\ MaxFindings \in Nat \ {0}
  /\ Reports \subseteq Seq(Marks)

VARIABLES
  tool,      \* the module run_check was given
  diff,      \* is there a list of changed files?
  fileIs,    \* each file: not changed, "gone", or changed and what the tool's config says of it
  dirIs,     \* what configures the tool in each directory
  inCI,      \* does a workflow of the repository run the binary?
  online,    \* does endpoint_reachable find its endpoint?
  pc,
  groups,    \* plan's groups: config -> its files, {} for no group
  toGuard,   \* the groups the guard has not seen yet
  notes,     \* Applicability.skipped: <<reason, how many files it counts, or 0>>
  invs,      \* the invocations not begun
  current,   \* the invocation being run
  rest,      \* its files not run yet
  report,    \* the report file in ctx.workdir
  findings,
  checked,
  result,
  ran,       \* history: the batches run
  badExit,   \* history: those whose tool exited outside EXPECT_EXIT
  unwritten, \* history: those whose tool exited normally and left no report
  cut        \* history: did parse cut a report with nothing foreign in it?

input == <<tool, diff, fileIs, dirIs, inCI, online>>
planVars == <<groups, toGuard, notes>>
runVars == <<invs, current, rest, report, findings, checked>>
history == <<ran, badExit, unwritten, cut>>
vars == <<input, pc, planVars, runVars, result, history>>

-------------------------------------------------------------------------------
(* The tree and the changed files *)

FileKinds == {"unchanged", "gone", "plain", "inline", "excluded"}
DirKinds == {"none", "partial", "partial_unsafe", "config", "config_unsafe"}

\* A directory and the ones above it: the least set that holds it and the parent
\* of each of its own but the root.
ClosedUpwards == {S \in SUBSET Dirs : \A d \in S \ {Root} : Parent[d] \in S}
Lineage == [d \in Dirs |-> {e \in Dirs : \A S \in ClosedUpwards : d \in S => e \in S}]

Counts(d) == dirIs[d] \in {"config", "config_unsafe"}
Unsafe(d) == dirIs[d] \in {"partial_unsafe", "config_unsafe"}

\* eligible_files: changed, matching, and still a file inside the tree.
Eligible == IF diff THEN {f \in Files : fileIs[f] \notin {"unchanged", "gone"}} ELSE {}

\* nearest_config: the deepest counting config of the file's lineage.
Nearest(f) ==
  LET where == CASE tool.scope = "nearest" -> Lineage[DirOf[f]]
                 [] tool.scope = "root"    -> {Root}
                 [] tool.scope = "none"    -> {}
      found == {d \in where : Counts(d)}
  IN IF found = {} THEN NoConfig ELSE Max(found)

Unconfigured == {f \in Eligible : tool.required /\ Nearest(f) = NoConfig}

\* Mutant: the nearest config stands for the chain.
GuardPathsMut(c) == {c}

\* guard_paths: the one config, or with GUARD_CHAIN every candidate from the
\* root to each file's directory, whether it has the tool's section or not.
GuardPaths(c) ==
  IF tool.chain THEN {d \in UNION {Lineage[DirOf[f]] : f \in groups[c]} : dirIs[d] # "none"}
  ELSE {c}

GuardRefuses(c) ==
  \/ \E d \in GuardPaths(c) : Unsafe(d)
  \/ tool.guardFiles /\ \E f \in groups[c] : fileIs[f] = "inline"

Grouped == UNION {groups[c] : c \in Configs}
GroupsLeft == {c \in Configs : groups[c] # {}}

\* narrow: what the repository's own config excludes (checkov, flake8), or
\* everything when the endpoint is down (osv-scanner).
Narrowed(c) ==
  CASE tool.narrow = "none"     -> {}
    [] tool.narrow = "skip"     -> {f \in groups[c] : c # NoConfig /\ fileIs[f] = "excluded"}
    [] tool.narrow = "endpoint" -> IF online THEN {} ELSE groups[c]

AllNarrowed == UNION {Narrowed(c) : c \in Configs}

Invocation(files, c) == [files |-> files, config |-> c]
NoInvocation == Invocation({}, NoConfig)

\* Mutant: files without a config share a run that names one.
InvocationsMut ==
  CASE tool.lane \in {"A", "C"} ->
         LET configs == GroupsLeft \ {NoConfig} IN
         {Invocation(Grouped, IF Cardinality(configs) = 1 THEN CHOOSE c \in configs : TRUE
                              ELSE NoConfig)}
    [] tool.lane = "B" -> {Invocation(groups[c], c) : c \in GroupsLeft}
    [] tool.lane = "D" -> UNION {{Invocation({f}, c) : f \in groups[c]} : c \in GroupsLeft}

\* _lane_invocations, and tflint's group() for lane D.
Invocations ==
  CASE tool.lane \in {"A", "C"} ->
         {Invocation(Grouped,
                     IF Cardinality(GroupsLeft) = 1 THEN CHOOSE c \in GroupsLeft : TRUE
                     ELSE NoConfig)}
    [] tool.lane = "B" -> {Invocation(groups[c], c) : c \in GroupsLeft}
    [] tool.lane = "D" -> UNION {{Invocation({f}, c) : f \in groups[c]} : c \in GroupsLeft}

Precedes(a, b) ==
  \/ a.config < b.config
  \/ a.config = b.config /\ Min(a.files) <= Min(b.files)

-------------------------------------------------------------------------------
(* Batches and reports *)

Bytes(s) == MapThenSumSet(LAMBDA f : NameBytes[f], s)

\* batches: a chunk is closed before the file that would make it too long or
\* its names too many bytes, but never while it is empty.
Closes(chunk, files) ==
  chunk # files => \/ Cardinality(chunk) >= MaxBatchFiles
                   \/ Bytes(chunk) + NameBytes[Min(files \ chunk)] > MaxBatchBytes

IsNextBatch(b, files) ==
  /\ b # {} /\ \A f \in b, g \in files \ b : f < g
  /\ Closes(b, files)
  /\ \A g \in b : LET before == {f \in b : f < g} IN before = {} \/ ~Closes(before, files)

NoReport == [of |-> {}, text |-> "none", marks |-> <<>>]
Report(b, marks) == [of |-> b, text |-> "sarif", marks |-> marks]
BlankReport(b) == [of |-> b, text |-> "blank", marks |-> <<>>]

\* What a tool leaves: nothing, an empty report or a report.
Written(b) == {NoReport, BlankReport(b)} \cup {Report(b, m) : m \in Reports}

\* Mutant: parse stops at the cap itself.
ParsedMut(marks) ==
  IF tool.sarif /\ Len(marks) > MaxFindings THEN SubSeq(marks, 1, MaxFindings) ELSE marks

\* sarif.parse stops one past the cap; from_records takes everything.
Parsed(marks) ==
  IF tool.sarif /\ Len(marks) > MaxFindings + 1 THEN SubSeq(marks, 1, MaxFindings + 1) ELSE marks

Own(marks) == Cardinality({i \in DOMAIN marks : marks[i] = "own"})

Finding(rule, files, c) == [rule |-> rule, files |-> files, config |-> c]
Copies(n, e) == [i \in 1..n |-> e]

NoResult == [findings |-> <<>>, truncated |-> FALSE, skipped |-> <<>>, files_checked |-> 0]

-------------------------------------------------------------------------------
(* plan *)

\* Only what the tool looks at varies: a file's own directives for a tool
\* whose guard reads them, and so on.
Relevant ==
  /\ \A f \in Files : /\ fileIs[f] = "inline" => tool.guardFiles
                      /\ fileIs[f] = "excluded" => tool.narrow = "skip"
  /\ \A d \in Dirs : /\ Unsafe(d) => tool.guard
                     /\ dirIs[d] \in {"partial", "partial_unsafe"} => tool.chain
                     /\ dirIs[d] # "none" => tool.scope # "none"
                     /\ tool.scope = "root" => dirIs[d] = "none" \/ d = Root
  /\ inCI => tool.ci
  /\ ~online => tool.narrow = "endpoint"
  /\ ~diff => \A f \in Files : fileIs[f] = "unchanged"

Init ==
  /\ tool \in Tools /\ diff \in BOOLEAN /\ inCI \in BOOLEAN /\ online \in BOOLEAN
  /\ fileIs \in [Files -> FileKinds] /\ dirIs \in [Dirs -> DirKinds]
  /\ Relevant
  /\ pc = "plan"
  /\ groups = [c \in Configs |-> {}] /\ toGuard = {} /\ notes = <<>>
  /\ invs = {} /\ current = NoInvocation /\ rest = {}
  /\ report = NoReport /\ findings = <<>> /\ checked = 0 /\ result = NoResult
  /\ ran = {} /\ badExit = {} /\ unwritten = {} /\ cut = FALSE

\* The early returns of plan, before any group exists.
NotApplicable ==
  /\ pc = "plan"
  /\ \/ ~diff /\ notes' = <<<<"no diff", 0>>>>
     \/ diff /\ Eligible = {} /\ notes' = <<<<"nothing changed", 0>>>>
     \/ Eligible # {} /\ inCI /\ notes' = <<<<"runs in CI", 0>>>>
     \/ /\ Eligible # {} /\ ~inCI
        /\ Unconfigured = Eligible
        /\ notes' = <<<<"no config", 0>>>>
  /\ pc' = "cap"
  /\ UNCHANGED <<input, groups, toGuard, runVars, result, history>>

\* Mutant: every config above a file takes it.
GroupMut ==
  /\ pc = "plan" /\ Eligible # {} /\ ~inCI /\ Unconfigured # Eligible
  /\ groups' = [c \in Configs |->
                {f \in Eligible \ Unconfigured :
                   Nearest(f) = c \/ (c \in Dirs /\ Counts(c) /\ c \in Lineage[DirOf[f]])}]
  /\ notes' = IF Unconfigured = {} THEN <<>>
              ELSE <<<<"unconfigured", Cardinality(Unconfigured)>>>>
  /\ toGuard' = IF tool.guard THEN {c \in Dirs : groups'[c] # {}} ELSE {}
  /\ pc' = "guard"
  /\ UNCHANGED <<input, runVars, result, history>>

Group ==
  /\ pc = "plan" /\ Eligible # {} /\ ~inCI /\ Unconfigured # Eligible
  /\ groups' = [c \in Configs |-> {f \in Eligible \ Unconfigured : Nearest(f) = c}]
  /\ notes' = IF Unconfigured = {} THEN <<>>
              ELSE <<<<"unconfigured", Cardinality(Unconfigured)>>>>
  /\ toGuard' = IF tool.guard THEN {c \in Dirs : groups'[c] # {}} ELSE {}
  /\ pc' = "guard"
  /\ UNCHANGED <<input, runVars, result, history>>

GuardPasses ==
  /\ pc = "guard" /\ toGuard # {}
  /\ ~GuardRefuses(Min(toGuard))
  /\ toGuard' = toGuard \ {Min(toGuard)}
  /\ UNCHANGED <<input, pc, groups, notes, runVars, result, history>>

\* Mutant: the group is dropped with a note and no finding.
GuardRefusalMut ==
  /\ pc = "guard" /\ toGuard # {}
  /\ LET c == Min(toGuard) IN
       /\ GuardRefuses(c)
       /\ notes' = Append(notes, <<"unsafe", Cardinality(groups[c])>>)
       /\ groups' = [groups EXCEPT ![c] = {}]
       /\ toGuard' = toGuard \ {c}
  /\ UNCHANGED <<input, pc, runVars, result, history>>

GuardRefusal ==
  /\ pc = "guard" /\ toGuard # {}
  /\ LET c == Min(toGuard) IN
       /\ GuardRefuses(c)
       /\ findings' = Append(findings, Finding("unsafe", groups[c], c))
       /\ notes' = Append(notes, <<"unsafe", Cardinality(groups[c])>>)
       /\ groups' = [groups EXCEPT ![c] = {}]
       /\ toGuard' = toGuard \ {c}
  /\ UNCHANGED <<input, pc, invs, current, rest, report, checked, result, history>>

\* No group survived the guard: the notes so far are dropped for one reason.
AllUnsafe ==
  /\ pc = "guard" /\ toGuard = {} /\ Grouped = {}
  /\ notes' = <<<<"all unsafe", 0>>>>
  /\ pc' = "cap"
  /\ UNCHANGED <<input, groups, toGuard, runVars, result, history>>

\* Mutant: narrow's note replaces the earlier ones.
NarrowMut ==
  /\ pc = "guard" /\ toGuard = {} /\ Grouped # {}
  /\ groups' = [c \in Configs |-> groups[c] \ Narrowed(c)]
  /\ notes' = IF AllNarrowed = {} THEN notes
              ELSE IF tool.narrow = "endpoint" THEN <<<<"unreachable", 0>>>>
              ELSE <<<<"narrowed", Cardinality(AllNarrowed)>>>>
  /\ pc' = IF AllNarrowed = Grouped THEN "cap" ELSE "lane"
  /\ UNCHANGED <<input, toGuard, runVars, result, history>>

Narrow ==
  /\ pc = "guard" /\ toGuard = {} /\ Grouped # {}
  /\ groups' = [c \in Configs |-> groups[c] \ Narrowed(c)]
  /\ notes' = IF AllNarrowed = {} THEN notes
              ELSE IF tool.narrow = "endpoint" THEN Append(notes, <<"unreachable", 0>>)
              ELSE Append(notes, <<"narrowed", Cardinality(AllNarrowed)>>)
  /\ pc' = IF AllNarrowed = Grouped THEN "cap" ELSE "lane"
  /\ UNCHANGED <<input, toGuard, runVars, result, history>>

Lane ==
  /\ pc = "lane"
  /\ invs' = Invocations
  /\ pc' = "run"
  /\ UNCHANGED <<input, planVars, current, rest, report, findings, checked, result, history>>

-------------------------------------------------------------------------------
(* run_check *)

NextInvocation ==
  /\ pc = "run" /\ rest = {} /\ invs # {}
  /\ \E inv \in invs :
       /\ \A other \in invs : Precedes(inv, other)
       /\ invs' = invs \ {inv} /\ current' = inv /\ rest' = inv.files
  /\ UNCHANGED <<input, pc, planVars, report, findings, checked, result, history>>

\* Mutant: a report is enough, whatever the exit code.
FailedRunMut(expected, read) == tool.toFile /\ read.text # "sarif"

\* check_exit, or run_to_file's ToolFailed: the exit code first, then the text.
FailedRun(expected, read) == ~expected \/ (tool.toFile /\ read.text # "sarif")

\* The tool runs on a batch: its exit code is expected or not, and `out` is
\* what it left.  A tool that prints is read from its stdout; one that writes
\* a file is read from the file, where an earlier report may still be.
RunBatch ==
  /\ pc = "run" /\ rest # {}
  /\ \E b \in SUBSET rest, expected \in BOOLEAN :
     /\ IsNextBatch(b, rest)
     /\ \E out \in Written(b) :
          LET read == IF tool.toFile /\ out = NoReport THEN report ELSE out
              fails == FailedRun(expected, read)
              kept == IF read.of = b THEN Own(Parsed(read.marks)) ELSE 0
          IN /\ report' = IF tool.toFile THEN read ELSE report
             /\ findings' = findings \o
                  IF fails THEN <<Finding("check-failed", b, current.config)>>
                  ELSE Copies(kept, Finding("tool", b, current.config))
             /\ badExit' = IF expected THEN badExit ELSE badExit \cup {b}
             /\ unwritten' = IF expected /\ tool.toFile /\ out.text # "sarif"
                             THEN unwritten \cup {b} ELSE unwritten
             /\ cut' = (cut \/ (~fails /\ kept < Own(out.marks) /\ Own(out.marks) = Len(out.marks)))
     /\ rest' = rest \ b
     /\ checked' = checked + Cardinality(b)
     /\ ran' = ran \cup {Invocation(b, current.config)}
  /\ UNCHANGED <<input, pc, planVars, invs, current, result>>

\* ctx.run timed out, the output was too large, or it did not parse: the
\* exception leaves run_check, and the task has no result.
ToolRaises ==
  /\ pc = "run" /\ rest # {}
  /\ pc' = "raised"
  /\ UNCHANGED <<input, planVars, runVars, result, history>>

RunEnds ==
  /\ pc = "run" /\ rest = {} /\ invs = {}
  /\ pc' = "cap"
  /\ UNCHANGED <<input, planVars, runVars, result, history>>

Cap ==
  /\ pc = "cap"
  /\ result' = [findings |-> SubSeq(findings, 1, Min({Len(findings), MaxFindings})),
                truncated |-> Len(findings) > MaxFindings,
                skipped |-> notes, files_checked |-> checked]
  /\ pc' = "done"
  /\ UNCHANGED <<input, planVars, runVars, history>>

Ended == pc \in {"done", "raised"} /\ UNCHANGED vars

Next ==
  \/ NotApplicable \/ Group \/ GuardPasses \/ GuardRefusal \/ AllUnsafe \/ Narrow \/ Lane
  \/ NextInvocation \/ RunBatch \/ ToolRaises \/ RunEnds \/ Cap
  \/ Ended

Spec == Init /\ [][Next]_vars

-------------------------------------------------------------------------------
(* What a check promises *)

Reasons == {"no diff", "nothing changed", "runs in CI", "no config", "all unsafe", "unreachable",
            "unconfigured", "unsafe", "narrowed"}

\* Types, and where each group's files come from.
TypeOK ==
  /\ tool \in Tools /\ diff \in BOOLEAN /\ inCI \in BOOLEAN /\ online \in BOOLEAN
  /\ fileIs \in [Files -> FileKinds] /\ dirIs \in [Dirs -> DirKinds]
  /\ pc \in {"plan", "guard", "lane", "run", "cap", "done", "raised"}
  /\ groups \in [Configs -> SUBSET Files] /\ toGuard \subseteq Dirs
  /\ notes \in Seq(Reasons \X Nat)
  /\ \A inv \in invs \cup {current} \cup ran : inv.files \subseteq Files /\ inv.config \in Configs
  /\ rest \subseteq current.files
  /\ report.of \subseteq Files /\ report.text \in {"none", "blank", "sarif"}
  /\ \A i \in DOMAIN findings : findings[i].rule \in {"unsafe", "check-failed", "tool"}
  /\ checked \in Nat
  /\ result.truncated \in BOOLEAN /\ result.files_checked \in Nat
  /\ badExit \cup unwritten \subseteq {b.files : b \in ran}
  /\ cut \in BOOLEAN

RanFiles == UNION {b.files : b \in ran}

\* However the files are grouped, guarded, narrowed and cut into batches, the
\* tool sees a file at most once, sees no file that is not an eligible changed
\* file, and files_checked is how many it saw.
CheckedOnce ==
  /\ \A a, b \in ran : a = b \/ a.files \cap b.files = {}
  /\ RanFiles \subseteq Eligible
  /\ checked = Cardinality(RanFiles)

\* As many elements as the notes count files.
Places(s) == UNION {{i} \X (1..s[i][2]) : i \in DOMAIN s}

\* A result that says nothing was skipped covers every eligible file; counted
\* notes account for exactly the files the tool did not see, in a plan where
\* guard and narrow drop files after earlier notes were counted; any other
\* reason stands for a task that ran nothing.
SkippedAddsUp ==
  pc = "done" =>
    IF \A i \in DOMAIN result.skipped : result.skipped[i][2] > 0
      THEN Cardinality(Places(result.skipped)) + result.files_checked = Cardinality(Eligible)
      ELSE result.files_checked = 0

\* The configs a tool loads for a file of a batch.
Loads(b, f) ==
  IF tool.chain THEN {d \in Lineage[DirOf[f]] : dirIs[d] # "none"}
  ELSE {Nearest(f), b.config} \ {NoConfig}

\* The tool never runs on a file for which it would load a config, or read
\* directives, that the guard refuses, whichever group the file was put in.
NoUnsafeConfigRuns ==
  tool.guard => \A b \in ran : \A f \in b.files :
    /\ \A d \in Loads(b, f) : ~Unsafe(d)
    /\ tool.guardFiles => fileIs[f] # "inline"

\* A run that names a config, or takes it from its directory, is a run on
\* files that config is the nearest to, in every lane and every batch.
OneConfigPerRun ==
  \A b \in ran : b.config # NoConfig \/ tool.lane \in {"B", "D"} =>
    \A f \in b.files : Nearest(f) = b.config

Shows(rule, f) ==
  \E i \in DOMAIN result.findings :
    result.findings[i].rule = rule /\ f \in result.findings[i].files

\* A file that is not checked because of an unsafe config is never silently
\* missing: the result has the refusal, whatever else was found.
RefusalIsVisible ==
  pc = "done" /\ tool.guard /\ ~inCI =>
    \A f \in Eligible \ Unconfigured :
      (\E d \in Loads(NoInvocation, f) : Unsafe(d)) => Shows("unsafe", f) \/ result.truncated

\* A tool that exits unexpectedly on a batch, or leaves no report in the only
\* batch there is, never looks like a clean scan.
FailureIsVisible ==
  pc = "done" =>
    \A b \in badExit \cup (IF Cardinality(ran) = 1 THEN unwritten ELSE {}) :
      \A f \in b : Shows("check-failed", f) \/ result.truncated

\* When parse stops short in a report with nothing foreign in it, its one
\* extra finding still makes cap say the list was truncated.
CutIsTold == pc = "done" /\ cut => result.truncated

===============================================================================
