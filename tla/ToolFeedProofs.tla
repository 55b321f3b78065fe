---------------------------- MODULE ToolFeedProofs ----------------------------
(***************************************************************************)
(* What holds of run_grep and run_jq for every artifact, output, pipe and  *)
(* limit, and for every interleaving of the tool, the feeder, the stderr   *)
(* thread, the deadline timer and the caller.                              *)
(***************************************************************************)
EXTENDS ToolFeed, TLAPS

\* Every piece fed is in the pipe or consumed, everything printed is in the pipe
\* or read; the feeder writes only while there is more, and is failing only
\* after the error is there for the caller to see.  It exists once it was made.
Flow ==
  /\ input.held + progress.consumed = fed
  /\ output.out + got = progress.printed
  /\ feeder = "writing" => fed < Pieces
  /\ feeder = "failing" => feedError
  /\ caller = "drain" => feeder = "none"
  /\ caller = "feeder" => feeder = "made"

\* Who can have ended the tool, and what the end of its input means: as long as
\* it runs, its input ends only because all was fed or the source failed, kept or not.
Fate ==
  /\ tool = "running" <=> status = "none"
  /\ status = "ok" => progress.printed = request.prints
  /\ status = "killed" => feedError \/ expired \/ cut \/ outcome # "none"
  /\ cut => got > JqLimit
  /\ timer # "none" \/ expired => request.deadline
  /\ timer = "firing" => expired
  /\ stopped => tool = "reaped"
  /\ tool = "running" /\ feeder \in {"closing", "done"} => fed = Pieces \/ feedError \/ reset
  /\ tool = "running" /\ ~input.open => feeder = "done"
  /\ sawEof => feeder = "done" /\ (fed = Pieces \/ feedError \/ reset)

\* What the caller has established by the time it stands where it stands.
Decided ==
  /\ outcome = "none" <=> caller \notin Shutdown
  /\ caller \in {"wait", "deadline", "join", "error", "status"} /\ ~cut =>
       output.out = 0 /\ tool # "running"
  /\ caller \in {"deadline", "join", "error", "status"} => tool = "reaped"
  /\ caller \in {"join", "error", "status"} /\ ~cut /\ status = "killed" => feedError
  /\ caller \in {"error", "status"} /\ ~cut => feeder = "done"
  /\ caller = "status" /\ ~cut => ~feedError

\* What the shutdown has stopped so far.
ShutDown ==
  /\ caller \in {"stop", "joinFeeder", "joinDrain", "close", "end"} => tool = "reaped"
  /\ caller \in Shutdown \ {"cancel"} => timer \notin {"armed", "firing"}
  /\ caller \in {"joinFeeder", "joinDrain", "close", "end"} =>
       stopped \/ feeder \in {"none", "made"}

IInv == TypeOK /\ Flow /\ Fate /\ Decided /\ ShutDown /\ NoPartialAnswer /\ CauseIsNamed

-------------------------------------------------------------------------------

\* spawn has returned, and nothing has been read, fed or decided.
LEMMA InitInv == Init => IInv
<1> SUFFICES ASSUME Init PROVE IInv
  OBVIOUS
<1> USE FeedAssumption DEF Init
<1>1. TypeOK
  <2>1. /\ input \in [held : 0..PipeSize, open : BOOLEAN]
        /\ output \in [out : 0..PipeSize, err : 0..PipeSize]
        /\ progress \in [consumed : 0..Pieces, printed : 0..Outputs, complained : 0..Messages]
    OBVIOUS
  <2>2. fed \in 0..Pieces /\ got \in 0..Outputs
    OBVIOUS
  <2> QED
    BY <2>1, <2>2 DEF TypeOK, Outcomes, Shutdown
<1>2. Flow
  BY DEF Flow
<1>3. Fate
  BY DEF Fate
<1>4. Decided /\ ShutDown
  BY DEF Decided, ShutDown, Shutdown
<1>5. NoPartialAnswer /\ CauseIsNamed
  BY DEF NoPartialAnswer, CauseIsNamed
<1> QED
  BY <1>1, <1>2, <1>3, <1>4, <1>5 DEF IInv

\* Counting is exact on both pipes, so nothing leaves its range.
LEMMA StepType == TypeOK /\ Flow /\ Next => TypeOK' /\ Flow'
<1> SUFFICES ASSUME TypeOK, Flow, Next PROVE TypeOK' /\ Flow'
  OBVIOUS
<1> USE FeedAssumption
    DEF TypeOK, Flow, Requests, Outcomes, Shutdown, toolVars, pipeVars, feedVars, callVars,
        Kill, Decide, Ends
<1>1. CASE Consume
  BY <1>1 DEF Consume
<1>2. CASE SeeEof
  BY <1>2 DEF SeeEof
<1>3. CASE PrintOne
  BY <1>3 DEF PrintOne
<1>4. CASE Complain
  BY <1>4 DEF Complain
<1>5. CASE Exit
  BY <1>5 DEF Exit
<1>6. CASE DrainStep
  BY <1>6 DEF DrainStep
<1>7. CASE Pull
  <2>1. /\ feeder' \in {"writing", "closing", "failing"}
        /\ feedError' \in BOOLEAN /\ reset' \in BOOLEAN
        /\ feeder' = "writing" => fed < Pieces
        /\ feeder' = "failing" => feedError'
    BY <1>7 DEF Pull
  <2> QED
    BY <1>7, <2>1 DEF Pull
<1>8. CASE WritePiece
  BY <1>8 DEF WritePiece
<1>9. CASE WriteEnds
  BY <1>9 DEF WriteEnds
<1>10. CASE FeedFails
  BY <1>10 DEF FeedFails
<1>11. CASE CloseStdin
  <2>1. input' \in [held : 0..PipeSize, open : BOOLEAN] /\ input'.held = input.held
    BY <1>11 DEF CloseStdin
  <2> QED
    BY <1>11, <2>1 DEF CloseStdin
<1>12. CASE Fire
  <2>1. /\ timer' \in {"firing", "over"} /\ expired' \in BOOLEAN
        /\ tool' \in {"running", "zombie", "reaped"} /\ status' \in {"none", "ok", "bad", "killed"}
    BY <1>12 DEF Fire
  <2> QED
    BY <1>12, <2>1 DEF Fire
<1>13. CASE StartDrain
  BY <1>13 DEF StartDrain
<1>14. CASE StartFeeder
  BY <1>14 DEF StartFeeder
<1>15. CASE SetupFails
  BY <1>15 DEF SetupFails
<1>16. CASE Arm
  <2>1. /\ timer' \in {"none", "armed", "firing", "over"} /\ expired' \in BOOLEAN
        /\ tool' \in {"running", "zombie", "reaped"} /\ status' \in {"none", "ok", "bad", "killed"}
    BY <1>16 DEF Arm
  <2> QED
    BY <1>16, <2>1 DEF Arm
<1>17. CASE Read
  BY <1>17 DEF Read, TakeOne
<1>18. CASE ReadTooLong
  BY <1>18 DEF ReadTooLong, TakeOne
<1>19. CASE ReadTooMuch
  BY <1>19 DEF ReadTooMuch, TakeOne
<1>20. CASE ReadEnd
  BY <1>20 DEF ReadEnd
<1>21. CASE Wait
  BY <1>21 DEF Wait
<1>22. CASE CheckDeadline
  BY <1>22 DEF CheckDeadline
<1>23. CASE JoinFeeder
  BY <1>23 DEF JoinFeeder
<1>24. CASE CheckError
  BY <1>24 DEF CheckError
<1>25. CASE CheckStatus
  BY <1>25 DEF CheckStatus
<1>26. CASE Cancel
  BY <1>26 DEF Cancel
<1>27. CASE ShutKill
  BY <1>27 DEF ShutKill
<1>28. CASE ShutReap
  BY <1>28 DEF ShutReap
<1>29. CASE ShutStop
  BY <1>29 DEF ShutStop
<1>30. CASE ShutJoinFeeder
  BY <1>30 DEF ShutJoinFeeder
<1>31. CASE ShutJoinDrain
  BY <1>31 DEF ShutJoinDrain
<1>32. CASE ClosePipes
  <2>1. input' \in [held : 0..PipeSize, open : BOOLEAN] /\ input'.held = input.held
    BY <1>32 DEF ClosePipes
  <2> QED
    BY <1>32, <2>1 DEF ClosePipes
<1> QED
  BY <1>1, <1>2, <1>3, <1>4, <1>5, <1>6, <1>7, <1>8, <1>9, <1>10, <1>11, <1>12, <1>13, <1>14,
     <1>15, <1>16, <1>17, <1>18, <1>19, <1>20, <1>21, <1>22, <1>23, <1>24, <1>25, <1>26, <1>27,
     <1>28, <1>29, <1>30, <1>31, <1>32
     DEF Next, ToolStep, FeederStep, CallerStep

\* Only the four killers end a running tool, each leaving its mark; and nothing
\* closes its input early but the feeder.
LEMMA StepFate ==
  TypeOK /\ Flow /\ Fate /\ Decided /\ ShutDown /\ Next
    => Fate'
<1> SUFFICES ASSUME TypeOK, Flow, Fate, Decided, ShutDown, Next
             PROVE  Fate'
  OBVIOUS
<1> USE FeedAssumption
    DEF TypeOK, Requests, Outcomes, Shutdown, toolVars, pipeVars, feedVars, callVars,
       Fate, Flow, Decided, ShutDown
<1>1. CASE Consume
  BY <1>1 DEF Consume
<1>2. CASE SeeEof
  BY <1>2 DEF SeeEof
<1>3. CASE PrintOne
  BY <1>3 DEF PrintOne
<1>4. CASE Complain
  BY <1>4 DEF Complain
<1>5. CASE Exit
  BY <1>5 DEF Exit, ToolDone
<1>6. CASE DrainStep
  BY <1>6 DEF DrainStep
<1>7. CASE Pull
  BY <1>7 DEF Pull
<1>8. CASE WritePiece
  BY <1>8 DEF WritePiece
<1>9. CASE WriteEnds
  BY <1>9 DEF WriteEnds
<1>10. CASE FeedFails
  BY <1>10 DEF FeedFails, Kill
<1>11. CASE CloseStdin
  BY <1>11 DEF CloseStdin
<1>12. CASE Fire
  BY <1>12 DEF Fire, Kill
<1>13. CASE StartDrain
  BY <1>13 DEF StartDrain
<1>14. CASE StartFeeder
  BY <1>14 DEF StartFeeder
<1>15. CASE SetupFails
  BY <1>15 DEF SetupFails, Ends
<1>16. CASE Arm
  BY <1>16 DEF Arm, Kill
<1>17. CASE Read
  BY <1>17 DEF Read, TakeOne
<1>18. CASE ReadTooLong
  BY <1>18 DEF ReadTooLong, TakeOne, Kill, Ends
<1>19. CASE ReadTooMuch
  BY <1>19 DEF ReadTooMuch, TakeOne, Kill
<1>20. CASE ReadEnd
  BY <1>20 DEF ReadEnd
<1>21. CASE Wait
  BY <1>21 DEF Wait
<1>22. CASE CheckDeadline
  BY <1>22 DEF CheckDeadline, Ends, Decide
<1>23. CASE JoinFeeder
  BY <1>23 DEF JoinFeeder, Decide
<1>24. CASE CheckError
  BY <1>24 DEF CheckError, Ends, Decide
<1>25. CASE CheckStatus
  BY <1>25 DEF CheckStatus, Ends, Decide
<1>26. CASE Cancel
  BY <1>26 DEF Cancel
<1>27. CASE ShutKill
  BY <1>27 DEF ShutKill, Kill
<1>28. CASE ShutReap
  BY <1>28 DEF ShutReap
<1>29. CASE ShutStop
  BY <1>29 DEF ShutStop
<1>30. CASE ShutJoinFeeder
  BY <1>30 DEF ShutJoinFeeder, Decide
<1>31. CASE ShutJoinDrain
  BY <1>31 DEF ShutJoinDrain, Decide
<1>32. CASE ClosePipes
  BY <1>32 DEF ClosePipes
<1> QED
  BY <1>1, <1>2, <1>3, <1>4, <1>5, <1>6, <1>7, <1>8, <1>9, <1>10, <1>11, <1>12, <1>13, <1>14,
     <1>15, <1>16, <1>17, <1>18, <1>19, <1>20, <1>21, <1>22, <1>23, <1>24, <1>25, <1>26, <1>27,
     <1>28, <1>29, <1>30, <1>31, <1>32
     DEF Next, ToolStep, FeederStep, CallerStep

\* Each test of the caller is about something that no longer changes: the tool is
\* reaped, its output is drained, the feeder is done.
LEMMA StepDecided ==
  TypeOK /\ Fate /\ Decided /\ ShutDown /\ Next
    => Decided' /\ ShutDown'
<1> SUFFICES ASSUME TypeOK, Fate, Decided, ShutDown, Next
             PROVE  Decided' /\ ShutDown'
  OBVIOUS
<1> USE FeedAssumption
    DEF TypeOK, Requests, Outcomes, Shutdown, toolVars, pipeVars, feedVars, callVars,
       Fate, Decided, ShutDown
<1>1. CASE Consume
  BY <1>1 DEF Consume
<1>2. CASE SeeEof
  BY <1>2 DEF SeeEof
<1>3. CASE PrintOne
  BY <1>3 DEF PrintOne
<1>4. CASE Complain
  BY <1>4 DEF Complain
<1>5. CASE Exit
  BY <1>5 DEF Exit, ToolDone
<1>6. CASE DrainStep
  BY <1>6 DEF DrainStep
<1>7. CASE Pull
  BY <1>7 DEF Pull
<1>8. CASE WritePiece
  BY <1>8 DEF WritePiece
<1>9. CASE WriteEnds
  BY <1>9 DEF WriteEnds
<1>10. CASE FeedFails
  BY <1>10 DEF FeedFails, Kill
<1>11. CASE CloseStdin
  BY <1>11 DEF CloseStdin
<1>12. CASE Fire
  BY <1>12 DEF Fire, Kill
<1>13. CASE StartDrain
  BY <1>13 DEF StartDrain
<1>14. CASE StartFeeder
  BY <1>14 DEF StartFeeder
<1>15. CASE SetupFails
  BY <1>15 DEF SetupFails, Ends
<1>16. CASE Arm
  BY <1>16 DEF Arm, Kill
<1>17. CASE Read
  BY <1>17 DEF Read, TakeOne
<1>18. CASE ReadTooLong
  BY <1>18 DEF ReadTooLong, TakeOne, Kill, Ends
<1>19. CASE ReadTooMuch
  BY <1>19 DEF ReadTooMuch, TakeOne, Kill
<1>20. CASE ReadEnd
  BY <1>20 DEF ReadEnd
<1>21. CASE Wait
  BY <1>21 DEF Wait
<1>22. CASE CheckDeadline
  BY <1>22 DEF CheckDeadline, Ends, Decide
<1>23. CASE JoinFeeder
  BY <1>23 DEF JoinFeeder, Decide
<1>24. CASE CheckError
  BY <1>24 DEF CheckError, Ends, Decide
<1>25. CASE CheckStatus
  BY <1>25 DEF CheckStatus, Ends, Decide
<1>26. CASE Cancel
  BY <1>26 DEF Cancel
<1>27. CASE ShutKill
  BY <1>27 DEF ShutKill, Kill
<1>28. CASE ShutReap
  BY <1>28 DEF ShutReap
<1>29. CASE ShutStop
  BY <1>29 DEF ShutStop
<1>30. CASE ShutJoinFeeder
  BY <1>30 DEF ShutJoinFeeder, Decide
<1>31. CASE ShutJoinDrain
  BY <1>31 DEF ShutJoinDrain, Decide
<1>32. CASE ClosePipes
  BY <1>32 DEF ClosePipes
<1> QED
  BY <1>1, <1>2, <1>3, <1>4, <1>5, <1>6, <1>7, <1>8, <1>9, <1>10, <1>11, <1>12, <1>13, <1>14,
     <1>15, <1>16, <1>17, <1>18, <1>19, <1>20, <1>21, <1>22, <1>23, <1>24, <1>25, <1>26, <1>27,
     <1>28, <1>29, <1>30, <1>31, <1>32
     DEF Next, ToolStep, FeederStep, CallerStep

\* What is returned or raised is decided once, and is true when it is decided.
LEMMA StepAnswer ==
  TypeOK /\ Flow /\ Fate /\ Decided /\ NoPartialAnswer /\ CauseIsNamed /\ Next
    => NoPartialAnswer' /\ CauseIsNamed'
<1> SUFFICES ASSUME TypeOK, Flow, Fate, Decided, NoPartialAnswer, CauseIsNamed, Next
             PROVE  NoPartialAnswer' /\ CauseIsNamed'
  OBVIOUS
<1> USE FeedAssumption
    DEF TypeOK, Requests, Outcomes, Shutdown, toolVars, pipeVars, feedVars, callVars,
       Fate, Flow, Decided, NoPartialAnswer, CauseIsNamed
<1>1. CASE Consume
  BY <1>1 DEF Consume
<1>2. CASE SeeEof
  BY <1>2 DEF SeeEof
<1>3. CASE PrintOne
  BY <1>3 DEF PrintOne
<1>4. CASE Complain
  BY <1>4 DEF Complain
<1>5. CASE Exit
  BY <1>5 DEF Exit, ToolDone
<1>6. CASE DrainStep
  BY <1>6 DEF DrainStep
<1>7. CASE Pull
  BY <1>7 DEF Pull
<1>8. CASE WritePiece
  BY <1>8 DEF WritePiece
<1>9. CASE WriteEnds
  BY <1>9 DEF WriteEnds
<1>10. CASE FeedFails
  BY <1>10 DEF FeedFails, Kill
<1>11. CASE CloseStdin
  BY <1>11 DEF CloseStdin
<1>12. CASE Fire
  BY <1>12 DEF Fire, Kill
<1>13. CASE StartDrain
  BY <1>13 DEF StartDrain
<1>14. CASE StartFeeder
  BY <1>14 DEF StartFeeder
<1>15. CASE SetupFails
  BY <1>15 DEF SetupFails, Ends
<1>16. CASE Arm
  BY <1>16 DEF Arm, Kill
<1>17. CASE Read
  BY <1>17 DEF Read, TakeOne
<1>18. CASE ReadTooLong
  BY <1>18 DEF ReadTooLong, TakeOne, Kill, Ends
<1>19. CASE ReadTooMuch
  BY <1>19 DEF ReadTooMuch, TakeOne, Kill
<1>20. CASE ReadEnd
  BY <1>20 DEF ReadEnd
<1>21. CASE Wait
  BY <1>21 DEF Wait
<1>22. CASE CheckDeadline
  BY <1>22 DEF CheckDeadline, Ends, Decide
<1>23. CASE JoinFeeder
  BY <1>23 DEF JoinFeeder, Decide
<1>24. CASE CheckError
  BY <1>24 DEF CheckError, Ends, Decide
<1>25. CASE CheckStatus
  BY <1>25 DEF CheckStatus, Ends, Decide
<1>26. CASE Cancel
  BY <1>26 DEF Cancel
<1>27. CASE ShutKill
  BY <1>27 DEF ShutKill, Kill
<1>28. CASE ShutReap
  BY <1>28 DEF ShutReap
<1>29. CASE ShutStop
  BY <1>29 DEF ShutStop
<1>30. CASE ShutJoinFeeder
  BY <1>30 DEF ShutJoinFeeder, Decide
<1>31. CASE ShutJoinDrain
  BY <1>31 DEF ShutJoinDrain, Decide
<1>32. CASE ClosePipes
  BY <1>32 DEF ClosePipes
<1> QED
  BY <1>1, <1>2, <1>3, <1>4, <1>5, <1>6, <1>7, <1>8, <1>9, <1>10, <1>11, <1>12, <1>13, <1>14,
     <1>15, <1>16, <1>17, <1>18, <1>19, <1>20, <1>21, <1>22, <1>23, <1>24, <1>25, <1>26, <1>27,
     <1>28, <1>29, <1>30, <1>31, <1>32
     DEF Next, ToolStep, FeederStep, CallerStep

LEMMA Stutter == IInv /\ UNCHANGED vars => IInv'
BY DEF IInv, TypeOK, Flow, Fate, Decided, ShutDown, NoPartialAnswer, CauseIsNamed,
       vars, toolVars, pipeVars, feedVars, callVars, Shutdown

LEMMA NextInv == IInv /\ [Next]_vars => IInv'
<1>1. ASSUME IInv, Next PROVE IInv'
  BY <1>1, StepType, StepFate, StepDecided, StepAnswer DEF IInv
<1> QED
  BY <1>1, Stutter

LEMMA Invariant == Spec => []IInv
BY InitInv, NextInv, PTL DEF Spec

\* Every variable stays in its range, for every artifact and every tool: no pipe
\* holds more than it can, nothing is read twice.
THEOREM TypeCorrect == Spec => []TypeOK
BY Invariant, PTL DEF IInv

\* A partial answer is never returned as the whole one (run_grep, run_jq), unless
\* the artifact's connection was reset: the feeder takes that for the tool's end.
THEOREM AnswersAreWhole == Spec => []NoPartialAnswer
BY Invariant, PTL DEF IInv

\* The error that is raised names what happened, whichever of the four killers
\* (deadline, failed source, long line, shutdown) came first.
THEOREM CausesAreTrue == Spec => []CauseIsNamed
BY Invariant, PTL DEF IInv

\* After the finally block the tool is reaped, no timer is left to kill whatever
\* has its number by then, and an abandoned feeder has been told to stop.
THEOREM NothingIsLeft == Spec => []NothingLeftRunning
<1>1. IInv => NothingLeftRunning
  BY DEF IInv, ShutDown, NothingLeftRunning, Shutdown
<1> QED
  BY <1>1, Invariant, PTL

===============================================================================
