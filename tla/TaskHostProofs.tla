---------------------------- MODULE TaskHostProofs ----------------------------
(***************************************************************************)
(* What holds of run_request for every set of commits, every sequence of   *)
(* requests and tasks, and failures at any point: a failure only ever      *)
(* spoils the request it happens in, or one that comes to a scope where    *)
(* cache, files and repository no longer agree, and an eviction heals it.  *)
(***************************************************************************)
EXTENDS TaskHost, TLAPS

Calm == faults = arrival.faults

\* Between the lookup and the save the setup works towards the commit of the
\* request, with its credential.
Setting ==
  /\ pc \in {"fetch", "checkout", "save"} => req.credentials
  /\ pc \in {"lookup", "open", "fetch", "checkout", "save"} =>
       req.setup = "open" /\ ~outputs /\ setup = "none" /\ results = << >>
  /\ pc = "checkout" => fetchHead = req.commit
  /\ arrival.faults <= faults /\ cleared <= faults

\* Without a fault since the scope was cleared, all on it agrees between
\* requests, and did when the request in hand came.
Agreed ==
  faults = cleared =>
    /\ pc # "idle" => Calm /\ arrival.coherent /\ arrival.free
    /\ pc \in {"idle", "tasks"} => Coherent /\ stuck = None

\* Without a fault since it was called, a request still finds the scope as it
\* was until its own setup has changed it, and git works on it as on a new one.
AsFound ==
  Calm =>
    /\ pc \in {"lookup", "open"} =>
         /\ arrival.coherent => Coherent
         /\ arrival.servable <=> Servable(req.commit)
         /\ pc = "open" => ~CacheHit(req.commit)
    /\ arrival.coherent =>
         /\ pc \in {"fetch", "checkout"} => Unmodified
         /\ pc = "save" => tree = req.commit /\ Unmodified
    /\ arrival.free /\ pc \notin {"idle", "tasks"} => stuck = None

\* With the outputs in hand, the tree is the request's; so is all that was read.
Own ==
  Calm /\ arrival.coherent =>
    /\ pc = "tasks" /\ outputs => tree = req.commit
    /\ \A i \in DOMAIN results : results[i].saw \in {req.commit, None}

\* A sync request has no output and has missed, or stands on the cache it hit,
\* and has missed once a read has found the tree gone.
Missed ==
  Calm /\ req.setup = "open" /\ ~req.credentials =>
    /\ pc = "tasks" /\ ~outputs => setup = "not_materialized" /\ ~arrival.servable
    /\ pc = "tasks" /\ outputs =>
         /\ cache = req.commit
         /\ arrival.servable <=> Materialized(tree)
         /\ setup = "not_materialized" => ~Materialized(tree)
         /\ ~Materialized(tree) /\ (\E i \in 1..Len(results) : req.tasks[i] = "read")
              => setup = "not_materialized"

\* A credentialed one has its outputs, and every read so far was served.
Served ==
  (/\ Calm /\ arrival.coherent /\ arrival.free
   /\ req.setup = "open" /\ req.credentials
   /\ pc \in {"tasks", "idle"} /\ setup # "lost") =>
    /\ setup \in {"ok", "cached"}
    /\ pc = "tasks" => outputs
    /\ \A i \in DOMAIN results :
         results[i].task = "read" => results[i].status = "ok" /\ results[i].saw = req.commit

HInv == TypeOK /\ Setting /\ Agreed /\ AsFound /\ Own /\ Missed /\ MissReportedExactly /\ Served

-------------------------------------------------------------------------------

LEMMA TasksAreASeq == \A r \in Requests : r \in Request /\ r.tasks \in Seq(TaskKinds)
BY HostAssumption DEF Request

LEMMA InitType == Init => TypeOK
<1> SUFFICES ASSUME Init PROVE TypeOK
  OBVIOUS
<1> USE HostAssumption DEF Init
<1>1. req \in Requests
  OBVIOUS
<1>2. results \in Seq(TaskResult) /\ Len(results) <= Len(req.tasks)
  <2>1. Len(req.tasks) \in Nat
    BY <1>1, TasksAreASeq
  <2> QED
    BY <2>1
<1>3. arrival \in [servable : BOOLEAN, coherent : BOOLEAN, free : BOOLEAN, faults : 0..MaxFaults]
  OBVIOUS
<1>4. faults \in 0..MaxFaults /\ cleared \in 0..faults
  OBVIOUS
<1> QED
  BY <1>1, <1>2, <1>3, <1>4 DEF TypeOK, TreeContents, Statuses

LEMMA Basics ==
  TypeOK => /\ req.commit \in Commits /\ req.credentials \in BOOLEAN
            /\ faults \in Nat /\ arrival.faults \in Nat
            /\ cleared \in Nat
            /\ results \in Seq(TaskResult) /\ Len(results) \in Nat
BY HostAssumption, TasksAreASeq DEF TypeOK, Request

LEMMA StepType == TypeOK /\ Setting /\ Next => TypeOK'
<1> SUFFICES ASSUME TypeOK, Setting, Next PROVE TypeOK'
  OBVIOUS
<1> USE HostAssumption DEF TypeOK, diskVars, gitVars, history, Statuses, TreeContents, GitSteps, Fault, NoRepository, SetupFailed
<1>t. req.tasks \in Seq(TaskKinds)
  BY TasksAreASeq
<1>r. ASSUME NEW status \in {"ok", "failed"}, NEW saw \in TreeContents \cup {None},
             TaskDue, Record(status, saw)
      PROVE  results' \in Seq(TaskResult) /\ Len(results') <= Len(req.tasks)
  <2>1. NextTask \in TaskKinds
    BY <1>r, <1>t DEF NextTask, TaskDue
  <2>2. [task |-> NextTask, status |-> status, saw |-> saw] \in TaskResult
    BY <2>1 DEF TaskResult
  <2> QED
    BY <1>r, <1>t, <2>2 DEF Record, TaskDue
<1>h. ASSUME HalfDone
      PROVE  /\ tree' \in TreeContents /\ index' \in Commits \cup {None}
             /\ stuck' \in GitSteps \cup {None}
  <2>1. pc = "checkout" => fetchHead \in Commits
    BY Basics DEF Setting
  <2>2. stuck' \in GitSteps \cup {None}
    BY <1>h DEF HalfDone
  <2>3. tree' \in TreeContents /\ index' \in Commits \cup {None}
    BY <1>h, <2>1 DEF HalfDone
  <2> QED
    BY <2>2, <2>3
<1>1. CASE Receive
  <2>1. results' \in Seq(TaskResult) /\ Len(results') = 0 /\ Len(req'.tasks) \in Nat
    BY <1>1, TasksAreASeq DEF Receive
  <2>2. arrival' \in [servable : BOOLEAN, coherent : BOOLEAN, free : BOOLEAN, faults : 0..MaxFaults]
    BY <1>1 DEF Receive, Servable, Coherent, Unmodified
  <2>3. req' \in Requests /\ setup' \in Statuses /\ pc' \in {"lookup", "tasks"} /\ ~outputs'
    BY <1>1 DEF Receive
  <2>4. Len(results') <= Len(req'.tasks)
    BY <2>1
  <2>5. /\ outputs' \in BOOLEAN /\ tree' \in TreeContents /\ fetchHead' \in Commits \cup {None}
        /\ cache' \in Commits \cup {None} /\ faults' \in 0..MaxFaults
        /\ head' \in Commits \cup {None} /\ index' \in Commits \cup {None}
        /\ stuck' \in GitSteps \cup {None} /\ cleared' \in 0..faults'
    BY <1>1 DEF Receive
  <2> QED
    BY <2>1, <2>2, <2>3, <2>4, <2>5
<1>2. CASE UseCache
  BY <1>2 DEF UseCache
<1>3. CASE MissCache
  BY <1>3 DEF MissCache
<1>4. CASE NoCredential
  BY <1>4 DEF NoCredential
<1>5. CASE PrepareTree
  BY <1>5 DEF PrepareTree
<1>6. CASE Fetch
  BY <1>6, Basics DEF Fetch
<1>7. CASE Checkout
  <2>1. fetchHead \in Commits
    BY <1>7, Basics DEF Checkout, Setting
  <2>2. tree' \in TreeContents /\ index' \in Commits \cup {None} /\ head' \in Commits \cup {None}
    BY <1>7, <2>1 DEF Checkout
  <2> QED
    BY <1>7, <2>2 DEF Checkout
<1>8. CASE SaveCache
  BY <1>8, Basics DEF SaveCache
<1>9. CASE TaskFails
  BY <1>9, <1>r DEF TaskFails
<1>10. CASE ReadTree
  BY <1>10, <1>r DEF ReadTree
<1>11. CASE ReadMissingTree
  BY <1>11, <1>r DEF ReadMissingTree
<1>12. CASE Return
  BY <1>12 DEF Return
<1>13. CASE Evict
  BY <1>13 DEF Evict
<1>14. CASE GitFails
  <2>1. tree' \in TreeContents /\ index' \in Commits \cup {None} /\ stuck' \in GitSteps \cup {None}
    BY <1>h, <1>14 DEF GitFails
  <2> QED
    BY <1>14, <2>1 DEF GitFails, HalfDone
<1>15. CASE SaveCacheFails
  BY <1>15 DEF SaveCacheFails
<1>16. CASE HalfWipe
  BY <1>16 DEF HalfWipe
<1>17. CASE Crash
  <2>1. results' \in Seq(TaskResult) /\ Len(results') = 0 /\ Len(req.tasks) \in Nat
    BY <1>17, <1>t DEF Crash
  <2>2. tree' \in TreeContents /\ index' \in Commits \cup {None} /\ stuck' \in GitSteps \cup {None}
    BY <1>h, <1>17 DEF Crash
  <2>3. Len(results') <= Len(req.tasks)
    BY <2>1
  <2>4. pc' = "idle" /\ outputs' \in BOOLEAN /\ setup' \in Statuses
    BY <1>17 DEF Crash
  <2>5. faults' \in 0..MaxFaults
    <3>1. faults < MaxFaults /\ faults' = faults + 1
      BY <1>17 DEF Crash
    <3> QED
      BY <3>1
  <2> QED
    BY <1>17, <2>1, <2>2, <2>3, <2>4, <2>5 DEF Crash, HalfDone
<1>18. CASE GitRefuses
  BY <1>18 DEF GitRefuses
<1> QED
  BY <1>1, <1>2, <1>3, <1>4, <1>5, <1>6, <1>7, <1>8, <1>9, <1>10, <1>11, <1>12, <1>13, <1>14,
     <1>15, <1>16, <1>17, <1>18
     DEF Next, Setup, Tasks, Failures

-------------------------------------------------------------------------------
(* One step *)

LEMMA Recorded ==
  ASSUME TypeOK, NEW status, NEW saw, Record(status, saw)
  PROVE  /\ DOMAIN results' = 1..(Len(results) + 1) /\ Len(results') = Len(results) + 1
         /\ \A i \in DOMAIN results : results'[i] = results[i]
         /\ DOMAIN results = 1..Len(results)
         /\ results'[Len(results) + 1] = [task |-> NextTask, status |-> status, saw |-> saw]
BY Basics DEF Record

\* A fault ends the calm for the request it happens in.
LEMMA Spoiled == TypeOK /\ Setting /\ Failures => ~Calm' /\ faults' # cleared'
<1> SUFFICES ASSUME TypeOK, Setting, Failures PROVE ~Calm' /\ faults' # cleared'
  OBVIOUS
<1>1. faults' = faults + 1 /\ arrival' = arrival /\ cleared' = cleared
  BY DEF Failures, GitFails, SaveCacheFails, HalfWipe, Crash, SetupFailed, Fault, history
<1> QED
  BY <1>1, Basics DEF Setting, Calm

LEMMA StepSetting == TypeOK /\ Setting /\ Next => Setting'
<1> SUFFICES ASSUME TypeOK, Setting, Next PROVE Setting'
  OBVIOUS
<1> USE Basics, HostAssumption DEF Setting, diskVars, gitVars, history
<1>1. CASE Receive
  BY <1>1 DEF Receive
<1>2. CASE UseCache
  BY <1>2 DEF UseCache
<1>3. CASE MissCache
  BY <1>3 DEF MissCache
<1>4. CASE NoCredential
  BY <1>4 DEF NoCredential
<1>5. CASE PrepareTree
  BY <1>5 DEF PrepareTree
<1>6. CASE Fetch
  BY <1>6 DEF Fetch
<1>7. CASE Checkout
  BY <1>7 DEF Checkout
<1>8. CASE SaveCache
  BY <1>8 DEF SaveCache
<1>9. CASE TaskFails
  BY <1>9 DEF TaskFails, TaskDue
<1>10. CASE ReadTree
  BY <1>10 DEF ReadTree, TaskDue
<1>11. CASE ReadMissingTree
  BY <1>11 DEF ReadMissingTree, TaskDue
<1>12. CASE Return
  BY <1>12 DEF Return
<1>13. CASE Evict
  BY <1>13 DEF Evict, NoRepository
<1>14. CASE Failures
  BY <1>14, Spoiled DEF Failures, GitFails, SaveCacheFails, HalfWipe, Crash, SetupFailed, HalfDone, GitSteps, Fault
<1>15. CASE GitRefuses
  BY <1>15 DEF GitRefuses, SetupFailed, GitSteps, TypeOK
<1> QED
  BY <1>1, <1>2, <1>3, <1>4, <1>5, <1>6, <1>7, <1>8, <1>9, <1>10, <1>11, <1>12, <1>13, <1>14, <1>15 DEF Next, Setup, Tasks

LEMMA StepAgreed == TypeOK /\ Setting /\ Agreed /\ AsFound /\ Next => Agreed'
<1> SUFFICES ASSUME TypeOK, Setting, Agreed, AsFound, Next PROVE Agreed'
  OBVIOUS
<1> USE Basics, HostAssumption DEF Agreed, AsFound, Calm, Coherent, Unmodified, diskVars, gitVars, history
<1>1. CASE Receive
  BY <1>1 DEF Receive
<1>2. CASE UseCache
  BY <1>2 DEF UseCache
<1>3. CASE MissCache
  BY <1>3 DEF MissCache
<1>4. CASE NoCredential
  BY <1>4 DEF NoCredential
<1>5. CASE PrepareTree
  BY <1>5 DEF PrepareTree
<1>6. CASE Fetch
  BY <1>6 DEF Fetch
<1>7. CASE Checkout
  BY <1>7 DEF Checkout
<1>8. CASE SaveCache
  BY <1>8 DEF SaveCache, Setting
<1>9. CASE TaskFails
  BY <1>9 DEF TaskFails, TaskDue
<1>10. CASE ReadTree
  BY <1>10 DEF ReadTree, TaskDue
<1>11. CASE ReadMissingTree
  BY <1>11 DEF ReadMissingTree, TaskDue
<1>12. CASE Return
  BY <1>12 DEF Return
<1>13. CASE Evict
  BY <1>13 DEF Evict, NoRepository
<1>14. CASE Failures
  BY <1>14, Spoiled
<1>15. CASE GitRefuses
  BY <1>15 DEF GitRefuses, SetupFailed, GitSteps, TypeOK
<1> QED
  BY <1>1, <1>2, <1>3, <1>4, <1>5, <1>6, <1>7, <1>8, <1>9, <1>10, <1>11, <1>12, <1>13, <1>14, <1>15 DEF Next, Setup, Tasks

LEMMA StepAsFound == TypeOK /\ Setting /\ AsFound /\ Next => AsFound'
<1> SUFFICES ASSUME TypeOK, Setting, AsFound, Next PROVE AsFound'
  OBVIOUS
<1> USE Basics, HostAssumption DEF AsFound, Calm, Coherent, Unmodified, Servable, CacheHit, diskVars, gitVars, history
<1>1. CASE Receive
  BY <1>1 DEF Receive
<1>2. CASE UseCache
  BY <1>2 DEF UseCache
<1>3. CASE MissCache
  BY <1>3 DEF MissCache
<1>4. CASE NoCredential
  BY <1>4 DEF NoCredential
<1>5. CASE PrepareTree
  BY <1>5 DEF PrepareTree, TypeOK
<1>6. CASE Fetch
  BY <1>6 DEF Fetch
<1>7. CASE Checkout
  BY <1>7 DEF Checkout, Setting
<1>8. CASE SaveCache
  BY <1>8 DEF SaveCache
<1>9. CASE TaskFails
  BY <1>9 DEF TaskFails, TaskDue
<1>10. CASE ReadTree
  BY <1>10 DEF ReadTree, TaskDue
<1>11. CASE ReadMissingTree
  BY <1>11 DEF ReadMissingTree, TaskDue
<1>12. CASE Return
  BY <1>12 DEF Return
<1>13. CASE Evict
  BY <1>13 DEF Evict, NoRepository
<1>14. CASE Failures
  BY <1>14, Spoiled
<1>15. CASE GitRefuses
  BY <1>15 DEF GitRefuses, SetupFailed, GitSteps, TypeOK
<1> QED
  BY <1>1, <1>2, <1>3, <1>4, <1>5, <1>6, <1>7, <1>8, <1>9, <1>10, <1>11, <1>12, <1>13, <1>14, <1>15 DEF Next, Setup, Tasks

LEMMA StepOwn == TypeOK /\ Setting /\ AsFound /\ Own /\ Next => Own'
<1> SUFFICES ASSUME TypeOK, Setting, AsFound, Own, Next PROVE Own'
  OBVIOUS
<1> USE Basics, HostAssumption DEF Own, Calm, diskVars, gitVars, history
<1>1. CASE Receive
  BY <1>1 DEF Receive
<1>2. CASE UseCache
  BY <1>2 DEF UseCache, AsFound, Coherent, CacheHit, Setting
<1>3. CASE MissCache
  BY <1>3 DEF MissCache
<1>4. CASE NoCredential
  BY <1>4 DEF NoCredential, Setting
<1>5. CASE PrepareTree
  BY <1>5 DEF PrepareTree
<1>6. CASE Fetch
  BY <1>6 DEF Fetch
<1>7. CASE Checkout
  BY <1>7 DEF Checkout
<1>8. CASE SaveCache
  BY <1>8 DEF SaveCache, Setting, AsFound
<1>9. CASE TaskFails
  <2>1. Record("failed", None) /\ TaskDue /\ UNCHANGED <<pc, req, outputs, setup, diskVars, faults, history>>
    BY <1>9 DEF TaskFails
  <2>2. /\ DOMAIN results' = 1..(Len(results) + 1)
        /\ \A i \in DOMAIN results : results'[i] = results[i]
        /\ DOMAIN results = 1..Len(results)
        /\ results'[Len(results) + 1] = [task |-> NextTask, status |-> "failed", saw |-> None]
    BY <2>1, Recorded
  <2>3. \A i \in DOMAIN results' : i \in DOMAIN results \/ i = Len(results) + 1
    BY <2>2
  <2> QED
    BY <2>1, <2>2, <2>3 DEF TaskDue
<1>10. CASE ReadTree
  <2>1. Record("ok", tree) /\ TaskDue /\ UNCHANGED <<pc, req, outputs, setup, diskVars, faults, history>>
    BY <1>10 DEF ReadTree
  <2>2. /\ DOMAIN results' = 1..(Len(results) + 1)
        /\ \A i \in DOMAIN results : results'[i] = results[i]
        /\ DOMAIN results = 1..Len(results)
        /\ results'[Len(results) + 1] = [task |-> NextTask, status |-> "ok", saw |-> tree]
    BY <2>1, Recorded
  <2>3. \A i \in DOMAIN results' : i \in DOMAIN results \/ i = Len(results) + 1
    BY <2>2
  <2> QED
    BY <2>1, <2>2, <2>3, <1>10 DEF TaskDue, ReadTree
<1>11. CASE ReadMissingTree
  <2>1. Record("failed", None) /\ TaskDue /\ UNCHANGED <<pc, req, outputs, diskVars, faults, history>>
    BY <1>11 DEF ReadMissingTree
  <2>2. /\ DOMAIN results' = 1..(Len(results) + 1)
        /\ \A i \in DOMAIN results : results'[i] = results[i]
        /\ DOMAIN results = 1..Len(results)
        /\ results'[Len(results) + 1] = [task |-> NextTask, status |-> "failed", saw |-> None]
    BY <2>1, Recorded
  <2>3. \A i \in DOMAIN results' : i \in DOMAIN results \/ i = Len(results) + 1
    BY <2>2
  <2> QED
    BY <2>1, <2>2, <2>3, <1>11 DEF TaskDue, ReadMissingTree
<1>12. CASE Return
  BY <1>12 DEF Return
<1>13. CASE Evict
  BY <1>13 DEF Evict, NoRepository
<1>14. CASE Failures
  BY <1>14, Spoiled
<1>15. CASE GitRefuses
  BY <1>15 DEF GitRefuses, SetupFailed, GitSteps, Setting
<1> QED
  BY <1>1, <1>2, <1>3, <1>4, <1>5, <1>6, <1>7, <1>8, <1>9, <1>10, <1>11, <1>12, <1>13, <1>14, <1>15 DEF Next, Setup, Tasks

LEMMA StepMissed == TypeOK /\ Setting /\ AsFound /\ Missed /\ Next => Missed'
<1> SUFFICES ASSUME TypeOK, Setting, AsFound, Missed, Next PROVE Missed'
  OBVIOUS
<1> USE Basics, HostAssumption DEF Missed, Calm, diskVars, gitVars, history, Materialized
<1>1. CASE Receive
  BY <1>1 DEF Receive
<1>2. CASE UseCache
  BY <1>2 DEF UseCache, AsFound, Servable, CacheHit, Setting
<1>3. CASE MissCache
  BY <1>3 DEF MissCache
<1>4. CASE NoCredential
  BY <1>4 DEF NoCredential, Setting, AsFound, Servable, CacheHit
<1>5. CASE PrepareTree
  BY <1>5 DEF PrepareTree
<1>6. CASE Fetch
  BY <1>6 DEF Fetch
<1>7. CASE Checkout
  BY <1>7 DEF Checkout
<1>8. CASE SaveCache
  BY <1>8 DEF SaveCache, Setting
<1>9. CASE TaskFails
  <2>1. Len(results') = Len(results) + 1 /\ TaskDue
    BY <1>9, Recorded DEF TaskFails
  <2> QED
    BY <1>9, <2>1 DEF TaskDue, NextTask, TaskFails
<1>10. CASE ReadTree
  BY <1>10 DEF ReadTree, TaskDue
<1>11. CASE ReadMissingTree
  BY <1>11 DEF ReadMissingTree, TaskDue
<1>12. CASE Return
  BY <1>12 DEF Return
<1>13. CASE Evict
  BY <1>13 DEF Evict, NoRepository
<1>14. CASE Failures
  BY <1>14, Spoiled
<1>15. CASE GitRefuses
  BY <1>15 DEF GitRefuses, SetupFailed, GitSteps, Setting
<1> QED
  BY <1>1, <1>2, <1>3, <1>4, <1>5, <1>6, <1>7, <1>8, <1>9, <1>10, <1>11, <1>12, <1>13, <1>14, <1>15 DEF Next, Setup, Tasks

LEMMA StepMissReported ==
  TypeOK /\ Setting /\ Missed /\ MissReportedExactly /\ Next => MissReportedExactly'
<1> SUFFICES ASSUME TypeOK, Setting, Missed, MissReportedExactly, Next
             PROVE  MissReportedExactly'
  OBVIOUS
<1> USE DEF MissReportedExactly, Clean, diskVars, gitVars, history
<1>1. CASE Receive
  BY <1>1 DEF Receive
<1>2. CASE UseCache
  BY <1>2 DEF UseCache
<1>3. CASE MissCache
  BY <1>3 DEF MissCache
<1>4. CASE NoCredential
  BY <1>4 DEF NoCredential
<1>5. CASE PrepareTree
  BY <1>5 DEF PrepareTree
<1>6. CASE Fetch
  BY <1>6 DEF Fetch
<1>7. CASE Checkout
  BY <1>7 DEF Checkout
<1>8. CASE SaveCache
  BY <1>8 DEF SaveCache
<1>9. CASE TaskFails
  BY <1>9 DEF TaskFails, TaskDue
<1>10. CASE ReadTree
  BY <1>10 DEF ReadTree, TaskDue
<1>11. CASE ReadMissingTree
  BY <1>11 DEF ReadMissingTree, TaskDue
<1>12. CASE Return
  <2> SUFFICES ASSUME Calm, req.setup = "open", ~req.credentials, HasRead
               PROVE  setup = "not_materialized" <=> ~arrival.servable
    BY <1>12 DEF Return, Calm, HasRead
  <2>1. \E i \in 1..Len(results) : req.tasks[i] = "read"
    <3>1. req.tasks \in Seq(TaskKinds)
      BY TasksAreASeq DEF TypeOK
    <3> QED
      BY <1>12, <3>1 DEF Return, HasRead
  <2> QED
    BY <1>12, <2>1 DEF Return, Missed
<1>13. CASE Evict
  BY <1>13 DEF Evict, NoRepository, HasRead
<1>14. CASE Failures
  BY <1>14, Spoiled DEF Calm
<1>15. CASE GitRefuses
  BY <1>15 DEF GitRefuses, SetupFailed, GitSteps, TypeOK
<1> QED
  BY <1>1, <1>2, <1>3, <1>4, <1>5, <1>6, <1>7, <1>8, <1>9, <1>10, <1>11, <1>12, <1>13, <1>14, <1>15 DEF Next, Setup, Tasks

LEMMA StepServed == TypeOK /\ Setting /\ AsFound /\ Own /\ Served /\ Next => Served'
<1> SUFFICES ASSUME TypeOK, Setting, AsFound, Own, Served, Next PROVE Served'
  OBVIOUS
<1> USE Basics, HostAssumption DEF Served, Calm, diskVars, gitVars, history
<1>1. CASE Receive
  BY <1>1 DEF Receive
<1>2. CASE UseCache
  BY <1>2 DEF UseCache, Setting
<1>3. CASE MissCache
  BY <1>3 DEF MissCache
<1>4. CASE NoCredential
  BY <1>4 DEF NoCredential, Setting
<1>5. CASE PrepareTree
  BY <1>5 DEF PrepareTree
<1>6. CASE Fetch
  BY <1>6 DEF Fetch
<1>7. CASE Checkout
  BY <1>7 DEF Checkout
<1>8. CASE SaveCache
  BY <1>8 DEF SaveCache, Setting
<1>9. CASE TaskFails
  <2>1. Record("failed", None) /\ TaskDue /\ UNCHANGED <<pc, req, outputs, setup, diskVars, faults, history>>
    BY <1>9 DEF TaskFails
  <2>2. /\ DOMAIN results' = 1..(Len(results) + 1)
        /\ \A i \in DOMAIN results : results'[i] = results[i]
        /\ DOMAIN results = 1..Len(results)
        /\ results'[Len(results) + 1] = [task |-> NextTask, status |-> "failed", saw |-> None]
    BY <2>1, Recorded
  <2>3. \A i \in DOMAIN results' : i \in DOMAIN results \/ i = Len(results) + 1
    BY <2>2
  <2> QED
    BY <1>9, <2>1, <2>2, <2>3 DEF TaskDue, TaskFails
<1>10. CASE ReadTree
  <2>1. Record("ok", tree) /\ TaskDue /\ UNCHANGED <<pc, req, outputs, setup, diskVars, faults, history>>
    BY <1>10 DEF ReadTree
  <2>2. /\ DOMAIN results' = 1..(Len(results) + 1)
        /\ \A i \in DOMAIN results : results'[i] = results[i]
        /\ DOMAIN results = 1..Len(results)
        /\ results'[Len(results) + 1] = [task |-> NextTask, status |-> "ok", saw |-> tree]
    BY <2>1, Recorded
  <2>3. \A i \in DOMAIN results' : i \in DOMAIN results \/ i = Len(results) + 1
    BY <2>2
  <2> QED
    BY <1>10, <2>1, <2>2, <2>3 DEF TaskDue, ReadTree, Own
<1>11. CASE ReadMissingTree
  <2>1. Calm /\ arrival.coherent => Materialized(tree)
    BY <1>11 DEF ReadMissingTree, TaskDue, Own, Materialized
  <2> QED
    BY <1>11, <2>1 DEF ReadMissingTree, TaskDue
<1>12. CASE Return
  BY <1>12 DEF Return
<1>13. CASE Evict
  BY <1>13 DEF Evict, NoRepository
<1>14. CASE Failures
  BY <1>14, Spoiled
<1>15. CASE GitRefuses
  BY <1>15 DEF GitRefuses, SetupFailed, GitSteps, AsFound
<1> QED
  BY <1>1, <1>2, <1>3, <1>4, <1>5, <1>6, <1>7, <1>8, <1>9, <1>10, <1>11, <1>12, <1>13, <1>14, <1>15 DEF Next, Setup, Tasks

LEMMA Stutter == HInv /\ UNCHANGED vars => HInv'
BY DEF HInv, vars, diskVars, gitVars, history, TypeOK, Setting, Agreed, AsFound, Own, Unmodified, Missed, MissReportedExactly,
       Served, Calm, Coherent, Servable, CacheHit, Materialized, Clean, HasRead

LEMMA InitHolds == Init => HInv
<1> SUFFICES ASSUME Init PROVE HInv
  OBVIOUS
<1>1. TypeOK
  BY InitType
<1> QED
  BY <1>1, HostAssumption
     DEF Init, HInv, Setting, Agreed, AsFound, Own, Missed, MissReportedExactly,
         Served, Calm, Coherent, Unmodified, Servable, CacheHit, Materialized, Clean, HasRead

THEOREM Invariant == Spec => []HInv
<1>1. HInv /\ [Next]_vars => HInv'
  BY Stutter, StepType, StepSetting, StepAgreed, StepAsFound, StepOwn, StepMissed,
     StepMissReported, StepServed DEF HInv
<1> QED
  BY InitHolds, <1>1, PTL DEF Spec

-------------------------------------------------------------------------------
(* What the caller may rely on *)

\* "A cache for a different (repoUrl, sha) is a miss": every read of a request
\* nothing failed in is from its own commit, whatever the scope held before.
THEOREM ReadsAreOwn == Spec => []ReadsOwnCommit
<1>1. HInv => ReadsOwnCommit
  BY DEF HInv, Own, ReadsOwnCommit, Clean, Calm
<1> QED
  BY Invariant, <1>1, PTL

\* Only a fault since the scope was last cleared can make cache, files and
\* repository disagree between requests, or keep git from working there.
THEOREM OnlyFaultsDisagree == Spec => []CoherentWithoutFaults
<1>1. HInv => CoherentWithoutFaults
  BY DEF HInv, Agreed, CoherentWithoutFaults
<1> QED
  BY Invariant, <1>1, PTL

\* The envelope tells a miss from a failure: the caller re-materialises when
\* the scope could not serve it, and then only.
THEOREM MissesAreReported == Spec => []MissReportedExactly
BY Invariant, PTL DEF HInv

\* A request with its credential never comes back for another materialisation, on
\* a scope where cache, files and repository agree and git can work.
THEOREM CredentialServes == Spec => []CredentialedIsServed
<1>1. HInv => CredentialedIsServed
  BY DEF HInv, Served, CredentialedIsServed, Clean, Calm
<1> QED
  BY Invariant, <1>1, PTL

\* The sync path touches nothing on disk, whatever it finds there.
THEOREM SyncReadsOnly == Spec => SyncIsReadOnly
<1>1. HInv /\ [Next]_vars =>
        (pc # "idle" /\ ~req.credentials /\ faults' = faults => UNCHANGED diskVars)
  <2> SUFFICES ASSUME HInv, Next, pc # "idle", ~req.credentials, faults' = faults
               PROVE  UNCHANGED diskVars
    BY DEF vars
  <2>1. ~Failures
    BY Basics DEF HInv, Failures, GitFails, SaveCacheFails, HalfWipe, Crash, Fault
  <2>2. ~PrepareTree /\ ~Fetch /\ ~Checkout /\ ~GitRefuses /\ ~SaveCache /\ ~Receive /\ ~Evict
    BY DEF HInv, Setting, PrepareTree, Fetch, Checkout, GitRefuses, GitSteps, SaveCache, Receive, Evict
  <2> QED
    BY <2>1, <2>2 DEF Next, Setup, Tasks, UseCache, MissCache, NoCredential, TaskFails,
                      ReadTree, ReadMissingTree, Return
<1> QED
  BY Invariant, <1>1, PTL DEF Spec, SyncIsReadOnly

===============================================================================
