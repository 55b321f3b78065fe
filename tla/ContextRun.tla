------------------------------ MODULE ContextRun ------------------------------
(***************************************************************************)
(* Context.run (sdk/runwhen_capability/context.py): one tool process, the  *)
(* grandchild it may leave behind with the same pipes, one drain thread    *)
(* per pipe, and the calling thread that waits, kills on a timeout, joins  *)
(* the threads for a bounded time and decides what to return.  A character *)
(* is a unit: output is counted, never spelled out.                        *)
(***************************************************************************)
EXTENDS Naturals

CONSTANTS
  Budget,     \* SARIF_BYTE_BUDGET for "out", _STDERR_BYTE_BUDGET for "err"
  Output,     \* bound: what is written to each stream at most
  PipeSize,   \* what a pipe holds before a writer blocks
  Chunk       \* _RUN_READ_CHUNK

Streams == {"out", "err"}

ASSUME RunAssumption ==
  /\ Budget \in [Streams -> Nat]
  /\ Output \in [Streams -> Nat]
  /\ PipeSize \in Nat \ {0}
  /\ Chunk \in Nat \ {0}

VARIABLES
  child,      \* the tool: "running", "zombie" or "reaped"
  grandchild, \* a process it started: "none", "group" (its group), "detached", "dead"
  written,    \* history: what the two have written to each stream
  pipe,       \* what is in each pipe
  thread,     \* each drain thread: "reading", "killing" or "done"
  held,       \* what stream.read(Chunk) has gathered and not returned yet
  chunks,     \* the characters in stdout_chunks and stderr_chunks
  total,      \* _drain's total
  over,       \* state["over"], FALSE when it is not set
  closed,     \* has the calling thread closed the stream?
  caller,     \* where Context.run stands, or how it ended
  timedOut,   \* is TimeoutExpired on its way out?
  owed,       \* history: what was on stdout when the tool ended
  returned    \* the stdout run returned (0 before)

procVars == <<child, grandchild>>
pipeVars == <<pipe, written>>
drainVars == <<thread, held, chunks, total, over>>
callVars == <<closed, caller, timedOut, owed, returned>>
vars == <<procVars, pipeVars, drainVars, callVars>>

Outcomes == {"ok", "timeout", "too_large"}

TypeOK ==
  /\ child \in {"running", "zombie", "reaped"}
  /\ grandchild \in {"none", "group", "detached", "dead"}
  /\ written \in [Streams -> Nat] /\ \A s \in Streams : written[s] <= Output[s]
  /\ pipe \in [Streams -> 0..PipeSize]
  /\ held \in [Streams -> 0..Chunk]
  /\ chunks \in [Streams -> Nat] /\ total \in [Streams -> Nat]
  /\ thread \in [Streams -> {"reading", "killing", "done"}] /\ thread["err"] # "killing"
  /\ over \in [Streams -> BOOLEAN]
  /\ closed \in [Streams -> BOOLEAN]
  /\ caller \in {"wait", "kill", "reap", "joinOut", "joinErr", "close", "check", "collect"}
                \cup Outcomes
  /\ timedOut \in BOOLEAN
  /\ owed \in Nat /\ returned \in Nat

Zero == [s \in Streams |-> 0]
No   == [s \in Streams |-> FALSE]

Init ==
  /\ child = "running" /\ grandchild = "none"
  /\ pipe = Zero /\ written = Zero
  /\ thread = [s \in Streams |-> "reading"]
  /\ held = Zero /\ chunks = Zero /\ total = Zero /\ over = No
  /\ closed = No /\ caller = "wait" /\ timedOut = FALSE /\ owed = 0 /\ returned = 0

-------------------------------------------------------------------------------
(* The processes: each writes, blocks on a full pipe, hangs or ends at will. *)

Writers == child = "running" \/ grandchild \in {"group", "detached"}

Write(s) ==
  /\ Writers /\ pipe[s] < PipeSize /\ written[s] < Output[s]
  /\ pipe' = [pipe EXCEPT ![s] = @ + 1]
  /\ written' = [written EXCEPT ![s] = @ + 1]
  /\ UNCHANGED <<procVars, drainVars, callVars>>

\* A process in the background, in the tool's group or in a session of its own.
Fork ==
  /\ child = "running" /\ grandchild = "none"
  /\ grandchild' \in {"group", "detached"}
  /\ UNCHANGED <<child, pipeVars, drainVars, callVars>>

Exit ==
  /\ child = "running"
  /\ child' = "zombie" /\ owed' = written["out"]
  /\ UNCHANGED <<grandchild, pipeVars, drainVars, closed, caller, timedOut, returned>>

GrandchildExits ==
  /\ grandchild \in {"group", "detached"}
  /\ grandchild' = "dead"
  /\ UNCHANGED <<child, pipeVars, drainVars, callVars>>

\* Mutant: only the direct child is killed.
KillGroupMut ==
  /\ child' = IF child = "running" THEN "zombie" ELSE child
  /\ owed' = IF child = "running" THEN written["out"] ELSE owed
  /\ UNCHANGED grandchild

\* _kill_process_group: no process of the group is left running; a detached
\* one escapes.
KillGroup ==
  /\ child' = IF child = "running" THEN "zombie" ELSE child
  /\ owed' = IF child = "running" THEN written["out"] ELSE owed
  /\ grandchild' = IF grandchild = "group" THEN "dead" ELSE grandchild

-------------------------------------------------------------------------------
(* A drain thread *)

Eof(s) == pipe[s] = 0 /\ ~Writers

\* Inside stream.read(Chunk): it gathers text until it has a chunk or sees EOF.
Gather(s) ==
  /\ thread[s] = "reading" /\ pipe[s] > 0 /\ held[s] < Chunk
  /\ pipe' = [pipe EXCEPT ![s] = @ - 1]
  /\ held' = [held EXCEPT ![s] = @ + 1]
  /\ UNCHANGED <<procVars, written, thread, chunks, total, over, callVars>>

PieceRead(s) ==
  /\ thread[s] = "reading" /\ held[s] > 0
  /\ held[s] = Chunk \/ Eof(s)
  /\ held' = [held EXCEPT ![s] = 0]
  /\ total' = [total EXCEPT ![s] = @ + held[s]]

\* Mutant: the budget is compared with what was read before this piece.
KeepMut(s) ==
  /\ PieceRead(s)
  /\ ~over[s] /\ total[s] <= Budget[s]
  /\ chunks' = [chunks EXCEPT ![s] = @ + held[s]]
  /\ UNCHANGED <<procVars, pipeVars, thread, over, callVars>>

Keep(s) ==
  /\ PieceRead(s)
  /\ ~over[s] /\ total'[s] <= Budget[s]
  /\ chunks' = [chunks EXCEPT ![s] = @ + held[s]]
  /\ UNCHANGED <<procVars, pipeVars, thread, over, callVars>>

\* Mutant: the thread stops reading when the budget is exceeded.
ExceedMut(s) ==
  /\ PieceRead(s)
  /\ ~over[s] /\ total'[s] > Budget[s]
  /\ over' = [over EXCEPT ![s] = TRUE]
  /\ thread' = [thread EXCEPT ![s] = IF s = "out" THEN "killing" ELSE "done"]
  /\ UNCHANGED <<procVars, pipeVars, chunks, callVars>>

\* The first piece over the budget: state is set, then kill() is called (it
\* does nothing for stderr).
Exceed(s) ==
  /\ PieceRead(s)
  /\ ~over[s] /\ total'[s] > Budget[s]
  /\ over' = [over EXCEPT ![s] = TRUE]
  /\ thread' = [thread EXCEPT ![s] = IF s = "out" THEN "killing" ELSE @]
  /\ UNCHANGED <<procVars, pipeVars, chunks, callVars>>

\* Past the budget, what is read is thrown away.
Discard(s) ==
  /\ PieceRead(s) /\ over[s]
  /\ UNCHANGED <<procVars, pipeVars, thread, chunks, over, callVars>>

ThreadKills ==
  /\ thread["out"] = "killing"
  /\ KillGroup
  /\ thread' = [thread EXCEPT !["out"] = "reading"]
  /\ UNCHANGED <<pipeVars, held, chunks, total, over, closed, caller, timedOut, returned>>

Finish(s) ==
  /\ thread[s] = "reading" /\ held[s] = 0 /\ Eof(s)
  /\ thread' = [thread EXCEPT ![s] = "done"]
  /\ UNCHANGED <<procVars, pipeVars, held, chunks, total, over, callVars>>

Drain(s) == Gather(s) \/ Keep(s) \/ Exceed(s) \/ Discard(s) \/ Finish(s)

-------------------------------------------------------------------------------
(* The calling thread *)

\* proc.wait returns.
WaitReturns ==
  /\ caller \in {"wait", "reap"} /\ child = "zombie"
  /\ child' = "reaped"
  /\ caller' = "joinOut"
  /\ UNCHANGED <<grandchild, pipeVars, drainVars, closed, timedOut, owed, returned>>

\* proc.wait raises TimeoutExpired.
TimeoutExpires ==
  /\ caller = "wait" /\ child = "running"
  /\ timedOut' = TRUE
  /\ caller' = "kill"
  /\ UNCHANGED <<procVars, pipeVars, drainVars, closed, owed, returned>>

CallerKills ==
  /\ caller = "kill"
  /\ KillGroup
  /\ caller' = "reap"
  /\ UNCHANGED <<pipeVars, drainVars, closed, timedOut, returned>>

Joins(s) == caller = (IF s = "out" THEN "joinOut" ELSE "joinErr")

AfterJoin(s) ==
  /\ caller' = IF s = "out" THEN "joinErr" ELSE "close"
  /\ UNCHANGED <<procVars, pipeVars, drainVars, closed, timedOut, owed, returned>>

Join(s) == Joins(s) /\ thread[s] = "done" /\ AfterJoin(s)

\* Mutant: join() without a timeout.
JoinGivesUpMut(s) == FALSE /\ AfterJoin(s)

\* _DRAIN_JOIN_TIMEOUT passes: the thread is blocked on a pipe that a living
\* process holds open.
JoinGivesUp(s) ==
  /\ Joins(s)
  /\ thread[s] = "reading" /\ pipe[s] = 0 /\ held[s] < Chunk /\ Writers
  /\ AfterJoin(s)

\* A stream whose reader is still alive stays open; then TimeoutExpired goes
\* on its way, if there is one.
Close ==
  /\ caller = "close"
  /\ closed' = [s \in Streams |-> thread[s] = "done"]
  /\ caller' = IF timedOut THEN "timeout" ELSE "check"
  /\ UNCHANGED <<procVars, pipeVars, drainVars, timedOut, owed, returned>>

\* Mutant: the budget flag is not looked at.
CheckMut ==
  /\ caller = "check"
  /\ caller' = "collect"
  /\ UNCHANGED <<procVars, pipeVars, drainVars, closed, timedOut, owed, returned>>

\* OutputTooLargeError is raised.
Check ==
  /\ caller = "check"
  /\ caller' = IF over["out"] THEN "too_large" ELSE "collect"
  /\ UNCHANGED <<procVars, pipeVars, drainVars, closed, timedOut, owed, returned>>

\* "".join(stdout_chunks), and CompletedProcess is returned.
Collect ==
  /\ caller = "collect"
  /\ returned' = chunks["out"]
  /\ caller' = "ok"
  /\ UNCHANGED <<procVars, pipeVars, drainVars, closed, timedOut, owed>>

Call ==
  \/ WaitReturns \/ TimeoutExpires \/ CallerKills
  \/ \E s \in Streams : Join(s) \/ JoinGivesUp(s)
  \/ Close \/ Check \/ Collect

-------------------------------------------------------------------------------

\* The call is over; threads and processes left behind may go on.
Over == caller \in Outcomes /\ UNCHANGED vars

Processes == (\E s \in Streams : Write(s)) \/ Fork \/ Exit \/ GrandchildExits

Next == Processes \/ (\E s \in Streams : Drain(s)) \/ ThreadKills \/ Call \/ Over

\* The three threads run and the clock ticks; a process owes nothing.
Fairness ==
  /\ WF_vars(Call)
  /\ WF_vars(Drain("err"))
  /\ WF_vars(Drain("out") \/ ThreadKills)

Spec == Init /\ [][Next]_vars /\ Fairness

-------------------------------------------------------------------------------
(* Properties *)

\* However much the processes write, on either stream and even after run has
\* returned, what is kept in memory never exceeds the stream's budget.
KeptBounded == \A s \in Streams : chunks[s] <= Budget[s]

\* run refuses stdout only when it was over the budget, and what it returns
\* is everything that was written, unless a surviving process still held the
\* pipe when the drain thread was given up.
VerdictIsRight ==
  /\ caller = "too_large" => written["out"] > Budget["out"]
  /\ caller = "ok" => returned = written["out"] \/ ~closed["out"]

\* The tool is never left a zombie, and when run raises nothing of the tool's
\* process group runs on, or a kill is on its way to it.
NoLeftovers ==
  /\ caller \in Outcomes => child = "reaped"
  /\ caller \in {"timeout", "too_large"} => grandchild # "group" \/ thread["out"] = "killing"

\* A stream is never closed under the thread that reads it.
NeverClosedUnderReader == \A s \in Streams : closed[s] => thread[s] = "done"

\* run always comes back, even if the tool hangs or a detached grandchild
\* keeps the pipes open for ever.
RunReturns == <>(caller \in Outcomes)

\* No two-pipe deadlock: a process that blocks on a full pipe, whichever, can
\* go on in the end, even past the budget and after run has returned.
FullPipeDrains == \A s \in Streams : pipe[s] = PipeSize ~> pipe[s] < PipeSize

\* "A silent empty result, exactly what errors.py's own docstring says must
\* never happen": what the tool had written to stdout when it ended is in what
\* run returns.
NeverSilentlyPartial == caller = "ok" => returned >= owed
===============================================================================
