------------------------------- MODULE ToolFeed -------------------------------
(***************************************************************************)
(* One run of ripgrep or jq over an artifact (artifact_tools/procs.py,     *)
(* deadline.py, run_grep and run_jq): the tool with its three pipes, the   *)
(* feeder thread that copies the artifact into its stdin, the thread that  *)
(* drains its stderr, the deadline timer, and the calling thread that      *)
(* reads its stdout, reaps it, decides what to return and shuts everything *)
(* down.  A piece of input, an event or line of output and a piece of      *)
(* stderr are units: counted, never spelled out.                           *)
(***************************************************************************)
EXTENDS Naturals

CONSTANTS
  Pieces,    \* bound: pieces of the artifact (1 MiB each in the code)
  Outputs,   \* bound: what the tool writes to stdout at most
  Messages,  \* bound: what it writes to stderr at most
  PipeSize,  \* what a pipe holds before a writer blocks
  JqLimit    \* MAX_OUTPUT_BYTES

ASSUME FeedAssumption ==
  /\ Pieces \in Nat /\ Outputs \in Nat /\ Messages \in Nat
  /\ PipeSize \in Nat \ {0} /\ JqLimit \in Nat

VARIABLES
  request,   \* which task, whether it has a deadline, and what the tool is going to do
  tool,      \* "running", "zombie" or "reaped"
  status,    \* how it ended: "ok" (rg: 0 or 1, jq: 0), "bad" or "killed"; "none" before
  input,     \* its stdin: what is in the pipe, and is the feeder's end open?
  output,    \* its stdout and stderr: what is in each pipe
  progress,  \* what the tool has consumed, printed and complained so far
  sawEof,    \* has it read the end of its input?
  feeder,    \* the feeder thread
  fed,       \* how many pieces it has written
  feedError, \* is Feeder.error set?
  reset,     \* history: did the source fail with a connection reset?
  stopped,   \* Feeder._stopped
  drain,     \* the stderr thread
  timer,     \* the deadline timer
  expired,   \* Deadline.expired
  caller,    \* where the calling thread stands
  got,       \* what it has read of stdout
  cut,       \* run_jq's truncated
  outcome    \* what it is going to return or raise

toolVars == <<tool, status>>
pipeVars == <<input, output, progress, sawEof>>
feedVars == <<feeder, fed, feedError, reset>>
callVars == <<caller, got, cut, outcome>>
vars == <<request, toolVars, pipeVars, feedVars, stopped, drain, timer, expired, callVars>>

\* reads: how much the tool reads before it has what it needs (Pieces + 1: to
\* the end); ends: its exit status, "never" for a tool that does not end; long:
\* which of its events is longer than EVENT_MAX_BYTES, 0 for none.
Requests ==
  [task : {"grep", "jq"}, deadline : BOOLEAN, reads : 0..(Pieces + 1),
   prints : 0..Outputs, complains : 0..Messages, ends : {"ok", "bad", "never"},
   long : 0..Outputs]

Outcomes == {"answered", "cut", "deadline", "source_failed", "event_too_long",
             "tool_failed", "setup_failed"}
Shutdown == {"cancel", "kill", "reap", "stop", "joinFeeder", "joinDrain", "close", "end"}

TypeOK ==
  /\ request \in Requests
  /\ tool \in {"running", "zombie", "reaped"}
  /\ status \in {"none", "ok", "bad", "killed"}
  /\ input \in [held : 0..PipeSize, open : BOOLEAN]
  /\ output \in [out : 0..PipeSize, err : 0..PipeSize]
  /\ progress \in [consumed : 0..Pieces, printed : 0..Outputs, complained : 0..Messages]
  /\ sawEof \in BOOLEAN
  /\ feeder \in {"none", "made", "pulling", "writing", "failing", "closing", "done"}
  /\ fed \in 0..Pieces /\ feedError \in BOOLEAN /\ reset \in BOOLEAN /\ stopped \in BOOLEAN
  /\ drain \in {"none", "reading", "done"}
  /\ timer \in {"none", "armed", "firing", "over"} /\ expired \in BOOLEAN
  /\ caller \in {"drain", "feeder", "arm", "read", "wait", "deadline", "join", "error",
                 "status"} \cup Shutdown
  /\ got \in 0..Outputs /\ cut \in BOOLEAN
  /\ outcome \in Outcomes \cup {"none"}

\* spawn has just returned.
Init ==
  /\ request \in Requests
  /\ request.long <= request.prints
  /\ request.task = "jq" => request.long = 0
  /\ tool = "running" /\ status = "none"
  /\ input = [held |-> 0, open |-> TRUE] /\ output = [out |-> 0, err |-> 0]
  /\ progress = [consumed |-> 0, printed |-> 0, complained |-> 0] /\ sawEof = FALSE
  /\ feeder = "none" /\ fed = 0 /\ feedError = FALSE /\ reset = FALSE /\ stopped = FALSE
  /\ drain = "none" /\ timer = "none" /\ expired = FALSE
  /\ caller = "drain" /\ got = 0 /\ cut = FALSE /\ outcome = "none"

-------------------------------------------------------------------------------
(* The tool: it reads, prints and complains in any order, blocks on a full  *)
(* pipe, and ends when it has done all it was going to do.                  *)

Consume ==
  /\ tool = "running" /\ input.held > 0 /\ progress.consumed < request.reads
  /\ input' = [input EXCEPT !.held = @ - 1]
  /\ progress' = [progress EXCEPT !.consumed = @ + 1]
  /\ UNCHANGED <<request, toolVars, output, sawEof, feedVars, stopped, drain, timer, expired,
                 callVars>>

SeeEof ==
  /\ tool = "running" /\ ~sawEof
  /\ input = [held |-> 0, open |-> FALSE] /\ progress.consumed < request.reads
  /\ sawEof' = TRUE
  /\ UNCHANGED <<request, toolVars, input, output, progress, feedVars, stopped, drain, timer,
                 expired, callVars>>

PrintOne ==
  /\ tool = "running" /\ output.out < PipeSize /\ progress.printed < request.prints
  /\ output' = [output EXCEPT !.out = @ + 1]
  /\ progress' = [progress EXCEPT !.printed = @ + 1]
  /\ UNCHANGED <<request, toolVars, input, sawEof, feedVars, stopped, drain, timer, expired,
                 callVars>>

Complain ==
  /\ tool = "running" /\ output.err < PipeSize /\ progress.complained < request.complains
  /\ output' = [output EXCEPT !.err = @ + 1]
  /\ progress' = [progress EXCEPT !.complained = @ + 1]
  /\ UNCHANGED <<request, toolVars, input, sawEof, feedVars, stopped, drain, timer, expired,
                 callVars>>

ToolDone ==
  /\ progress.consumed = request.reads \/ sawEof
  /\ progress.printed = request.prints /\ progress.complained = request.complains

Exit ==
  /\ tool = "running" /\ ToolDone /\ request.ends # "never"
  /\ tool' = "zombie" /\ status' = request.ends
  /\ UNCHANGED <<request, pipeVars, feedVars, stopped, drain, timer, expired, callVars>>

\* kill: no effect on a process that has ended, reaped or not.
Kill ==
  /\ tool' = IF tool = "running" THEN "zombie" ELSE tool
  /\ status' = IF tool = "running" THEN "killed" ELSE status

ToolStep == Consume \/ SeeEof \/ PrintOne \/ Complain \/ Exit

-------------------------------------------------------------------------------
(* The stderr thread *)

\* StderrTail._drain: it keeps a tail and ends at the end of the pipe.
DrainStep ==
  /\ drain = "reading"
  /\ \/ output.err > 0 /\ output' = [output EXCEPT !.err = @ - 1] /\ UNCHANGED drain
     \/ output.err = 0 /\ tool # "running" /\ drain' = "done" /\ UNCHANGED output
  /\ UNCHANGED <<request, toolVars, input, progress, sawEof, feedVars, stopped, timer, expired,
                 callVars>>

-------------------------------------------------------------------------------
(* The feeder thread *)

\* Mutant: a failing source only ends the feed.
PullMut ==
  /\ feeder = "pulling"
  /\ \/ fed < Pieces /\ feeder' = "writing"
     \/ feeder' = "closing"
  /\ UNCHANGED <<request, toolVars, pipeVars, fed, feedError, reset, stopped, drain, timer,
                 expired, callVars>>

\* The next of the pieces: the source has one, has no more, or fails (so does a
\* document that grows past jq's size limit).  The iteration stands in the same
\* try as the writes: a source that fails with ConnectionResetError (or
\* BrokenPipeError) is taken for a tool that no longer reads, and is not kept.
Pull ==
  /\ feeder = "pulling"
  /\ \/ fed < Pieces /\ feeder' = "writing" /\ UNCHANGED <<feedError, reset>>
     \/ fed = Pieces /\ feeder' = "closing" /\ UNCHANGED <<feedError, reset>>
     \/ feeder' = "failing" /\ feedError' = TRUE /\ UNCHANGED reset
     \/ feeder' = "closing" /\ reset' = TRUE /\ UNCHANGED feedError
  /\ UNCHANGED <<request, toolVars, pipeVars, fed, stopped, drain, timer, expired, callVars>>

WritePiece ==
  /\ feeder = "writing" /\ ~stopped /\ tool = "running" /\ input.held < PipeSize
  /\ input' = [input EXCEPT !.held = @ + 1] /\ fed' = fed + 1 /\ feeder' = "pulling"
  /\ UNCHANGED <<request, toolVars, output, progress, sawEof, feedError, reset, stopped, drain,
                 timer, expired, callVars>>

\* stop() was called, or the tool no longer reads (BrokenPipeError): not an error.
WriteEnds ==
  /\ feeder = "writing" /\ (stopped \/ tool # "running")
  /\ feeder' = "closing"
  /\ UNCHANGED <<request, toolVars, pipeVars, fed, feedError, reset, stopped, drain, timer, expired,
                 callVars>>

\* on_error: the caller's kill, after error was set.
FeedFails ==
  /\ feeder = "failing"
  /\ Kill /\ feeder' = "closing"
  /\ UNCHANGED <<request, pipeVars, fed, feedError, reset, stopped, drain, timer, expired, callVars>>

CloseStdin ==
  /\ feeder = "closing"
  /\ input' = [input EXCEPT !.open = FALSE] /\ feeder' = "done"
  /\ UNCHANGED <<request, toolVars, output, progress, sawEof, fed, feedError, reset, stopped, drain,
                 timer, expired, callVars>>

FeederStep == Pull \/ WritePiece \/ WriteEnds \/ FeedFails \/ CloseStdin

-------------------------------------------------------------------------------
(* The deadline timer *)

\* Mutant: the action runs before expired is set.
FireMut ==
  /\ \/ timer = "armed" /\ timer' = "firing" /\ Kill /\ UNCHANGED expired
     \/ timer = "firing" /\ timer' = "over" /\ expired' = TRUE /\ UNCHANGED toolVars
  /\ UNCHANGED <<request, pipeVars, feedVars, stopped, drain, callVars>>

\* Deadline._fire on the timer thread: expired is set, then the action runs.
Fire ==
  /\ \/ timer = "armed" /\ timer' = "firing" /\ expired' = TRUE /\ UNCHANGED toolVars
     \/ timer = "firing" /\ timer' = "over" /\ Kill /\ UNCHANGED expired
  /\ UNCHANGED <<request, pipeVars, feedVars, stopped, drain, callVars>>

-------------------------------------------------------------------------------
(* The calling thread: set-up *)

Ends(o) == caller' = "cancel" /\ outcome' = o

StartDrain ==
  /\ caller = "drain"
  /\ drain' = "reading" /\ feeder' = "made" /\ caller' = "feeder"
  /\ UNCHANGED <<request, toolVars, pipeVars, fed, feedError, reset, stopped, timer, expired,
                 got, cut, outcome>>

StartFeeder ==
  /\ caller = "feeder"
  /\ feeder' = "pulling" /\ caller' = "arm"
  /\ UNCHANGED <<request, toolVars, pipeVars, fed, feedError, reset, stopped, drain, timer, expired,
                 got, cut, outcome>>

\* No thread can be started: the drain's, the feeder's or the timer's.
SetupFails ==
  /\ caller \in {"drain", "feeder"} \/ (caller = "arm" /\ request.deadline)
  /\ Ends("setup_failed")
  /\ UNCHANGED <<request, toolVars, pipeVars, feedVars, stopped, drain, timer, expired, got, cut>>

\* Deadline.arm: nothing to watch, a timer, or too late already: the action runs
\* at once.
Arm ==
  /\ caller = "arm" /\ caller' = "read"
  /\ \/ ~request.deadline /\ UNCHANGED <<timer, expired, toolVars>>
     \/ request.deadline /\ timer' = "armed" /\ UNCHANGED <<expired, toolVars>>
     \/ request.deadline /\ expired' = TRUE /\ Kill /\ UNCHANGED timer
  /\ UNCHANGED <<request, pipeVars, feedVars, stopped, drain, got, cut, outcome>>

-------------------------------------------------------------------------------
(* The calling thread: reading and deciding *)

TakeOne ==
  /\ caller = "read" /\ output.out > 0
  /\ output' = [output EXCEPT !.out = @ - 1] /\ got' = got + 1
  /\ UNCHANGED <<request, input, progress, sawEof, feedVars, stopped, drain, timer, expired>>

\* An event for the collector, or jq's output below the limit.
Read ==
  /\ TakeOne
  /\ IF request.task = "grep" THEN got' # request.long ELSE got' <= JqLimit
  /\ UNCHANGED <<toolVars, caller, cut, outcome>>

\* bounded_lines raises LineTooLong.
ReadTooLong ==
  /\ TakeOne
  /\ request.task = "grep" /\ got' = request.long
  /\ Kill /\ Ends("event_too_long") /\ UNCHANGED cut

\* stdout.read(MAX_OUTPUT_BYTES + 1) came back full.
ReadTooMuch ==
  /\ TakeOne
  /\ request.task = "jq" /\ got' > JqLimit
  /\ Kill /\ cut' = TRUE /\ caller' = "wait" /\ UNCHANGED outcome

\* The end of stdout: an event that a kill cut short has no newline, and is
\* left out like one never printed.
ReadEnd ==
  /\ caller = "read" /\ output.out = 0 /\ tool # "running"
  /\ caller' = "wait"
  /\ UNCHANGED <<request, toolVars, pipeVars, feedVars, stopped, drain, timer, expired, got, cut,
                 outcome>>

Wait ==
  /\ caller = "wait" /\ tool # "running"
  /\ tool' = "reaped" /\ caller' = "deadline"
  /\ UNCHANGED <<request, status, pipeVars, feedVars, stopped, drain, timer, expired, got, cut,
                 outcome>>

Decide == UNCHANGED <<request, toolVars, pipeVars, feedVars, stopped, drain, timer, expired, got,
                      cut>>

\* if watch.expired and returncode ...: raise watch.error()
CheckDeadline ==
  /\ caller = "deadline"
  /\ IF expired /\ status # "ok" /\ ~cut
       THEN Ends("deadline")
       ELSE caller' = "join" /\ UNCHANGED outcome
  /\ Decide

\* feeder.join(), without a timeout; not for a jq that was cut and killed.
JoinFeeder ==
  /\ caller = "join" /\ (cut \/ feeder = "done")
  /\ caller' = "error" /\ UNCHANGED outcome
  /\ Decide

\* if feeder.error is not None: raise feeder.error
CheckError ==
  /\ caller = "error"
  /\ IF feedError
       THEN Ends("source_failed")
       ELSE caller' = "status" /\ UNCHANGED outcome
  /\ Decide

\* The exit status; stderr.text() waits for the drain, or gives up.
CheckStatus ==
  /\ caller = "status"
  /\ Ends(CASE cut -> "cut"
            [] ~cut /\ status # "ok" -> "tool_failed"
            [] OTHER -> "answered")
  /\ Decide

-------------------------------------------------------------------------------
(* The calling thread: the finally block *)

\* Mutant: a timer that is already running is not waited for.
CancelMut ==
  /\ caller = "cancel" /\ caller' = "kill"
  /\ timer' = IF timer = "armed" THEN "over" ELSE timer
  /\ UNCHANGED <<request, toolVars, pipeVars, feedVars, stopped, drain, expired, got, cut, outcome>>

\* Deadline.cancel: it joins a timer whose action is running (for 5 s: the
\* action, a kill, takes no time).
Cancel ==
  /\ caller = "cancel" /\ timer # "firing" /\ caller' = "kill"
  /\ timer' = IF timer = "armed" THEN "over" ELSE timer
  /\ UNCHANGED <<request, toolVars, pipeVars, feedVars, stopped, drain, expired, got, cut, outcome>>

\* Mutant: the tool is expected to be gone.
ShutKillMut ==
  /\ caller = "kill" /\ caller' = "reap"
  /\ UNCHANGED <<request, toolVars, pipeVars, feedVars, stopped, drain, timer, expired, got, cut,
                 outcome>>

ShutKill ==
  /\ caller = "kill" /\ caller' = "reap"
  /\ Kill
  /\ UNCHANGED <<request, pipeVars, feedVars, stopped, drain, timer, expired, got, cut, outcome>>

ShutReap ==
  /\ caller = "reap" /\ tool # "running"
  /\ tool' = "reaped" /\ caller' = IF feeder = "none" THEN "joinDrain" ELSE "stop"
  /\ UNCHANGED <<request, status, pipeVars, feedVars, stopped, drain, timer, expired, got, cut,
                 outcome>>

ShutStop ==
  /\ caller = "stop" /\ caller' = "joinFeeder"
  /\ stopped' = TRUE
  /\ UNCHANGED <<request, toolVars, pipeVars, feedVars, drain, timer, expired, got, cut, outcome>>

\* Joined, or given up after _JOIN_TIMEOUT_SECONDS; a feeder that was made and
\* never started cannot be joined: that raises out of shutdown.
ShutJoinFeeder ==
  /\ caller = "joinFeeder"
  /\ caller' = IF feeder = "made" THEN "end" ELSE "joinDrain"
  /\ UNCHANGED outcome /\ Decide

ShutJoinDrain ==
  /\ caller = "joinDrain" /\ caller' = "close"
  /\ UNCHANGED outcome /\ Decide

ClosePipes ==
  /\ caller = "close" /\ caller' = "end"
  /\ input' = [input EXCEPT !.open = FALSE]
  /\ UNCHANGED <<request, toolVars, output, progress, sawEof, feedVars, stopped, drain, timer,
                 expired, got, cut, outcome>>

CallerStep ==
  \/ StartDrain \/ StartFeeder \/ SetupFails \/ Arm
  \/ Read \/ ReadTooLong \/ ReadTooMuch \/ ReadEnd \/ Wait
  \/ CheckDeadline \/ JoinFeeder \/ CheckError \/ CheckStatus
  \/ Cancel \/ ShutKill \/ ShutReap \/ ShutStop \/ ShutJoinFeeder \/ ShutJoinDrain \/ ClosePipes

Next == ToolStep \/ DrainStep \/ FeederStep \/ Fire \/ CallerStep

\* Every thread is scheduled, the clock runs, the artifact's reads return, and a
\* tool that is not stuck on a pipe goes on.
Fairness ==
  /\ WF_vars(ToolStep) /\ WF_vars(DrainStep) /\ WF_vars(FeederStep)
  /\ WF_vars(Fire) /\ WF_vars(CallerStep)

Spec == Init /\ [][Next]_vars /\ Fairness

-------------------------------------------------------------------------------
(* Properties *)

\* A tool's output is returned as the whole answer only when the tool ended by
\* itself, all it printed was read, the feeder is done and kept no error, and the
\* tool had either all of the artifact or stopped before the end of what it was
\* given ("a tool that was fed half of its input must not have its partial answer
\* returned", procs.py); except that a source reset by its peer passes for a tool
\* that stopped reading, and the half it gave for the whole.
NoPartialAnswer ==
  outcome = "answered" =>
    /\ status = "ok" /\ got = request.prints
    /\ feeder = "done" /\ ~feedError
    /\ sawEof => fed = Pieces \/ reset

\* What is raised is what happened: the deadline's error only once it has come,
\* the source's only when it failed, and "the tool failed" never for a tool that
\* was killed from here, whichever thread killed it and however late it says so.
CauseIsNamed ==
  /\ outcome = "deadline" => request.deadline /\ expired
  /\ outcome = "source_failed" => feedError
  /\ outcome = "tool_failed" => status = "bad"
  /\ outcome = "cut" => got > JqLimit

\* Once run_grep or run_jq has returned the tool is reaped, the timer is no
\* longer about to kill anything, and a feeder the join gave up on will not
\* write any more.
NothingLeftRunning ==
  caller = "end" =>
    /\ tool = "reaped" /\ timer \notin {"armed", "firing"}
    /\ feeder \in {"pulling", "writing"} => stopped

\* The task ends, if it has a deadline or its tool ends of itself: no pipe that
\* fills up, feeder that fails or kill that comes late blocks it.
AlwaysEnds ==
  (request.deadline \/ request.ends # "never") ~> (caller = "end")

===============================================================================
