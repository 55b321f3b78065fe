------------------------------- MODULE RepoQuery -------------------------------
(***************************************************************************)
(* repo_query.run_query: a batch of ops against one tree, answered in      *)
(* order under a byte budget (room for a refusal is reserved up front for  *)
(* every op and released as it is answered) and a deadline checked between *)
(* ops.  An answer is its kind and its size on the wire; what the ops find *)
(* in the tree is left out.                                                *)
(***************************************************************************)
EXTENDS Integers, Sequences

CONSTANTS
  MaxOps,        \* MAX_QUERY_OPS
  Budget,        \* QUERY_BUDGET
  Base,          \* the size of {"results": [], "truncated": false}
  Separator,     \* the size of ", "
  Held,          \* held: each op's RESPONSE_BUDGET entry, with the separator before it
  HeldUpTo,      \* the sum of Held over the first i ops
  DeadlineSize,  \* the size of each op's DEADLINE entry
  OwnSize,       \* the size of each op's "this op's result alone" entry
  ResultSizes,   \* the sizes an op's entry can have
  Deadline,      \* QUERY_DEADLINE_SECONDS
  MaxOpTime      \* bound: how long one op runs

SepBefore(i) == IF i = 1 THEN 0 ELSE Separator

\* The strings are constants of the module: DEADLINE's message is the shorter
\* one, and MAX_QUERY_OPS refusals are far below the budget.
ASSUME QueryAssumption ==
  /\ MaxOps \in Nat /\ Budget \in Nat /\ Base \in Nat /\ Separator \in Nat
  /\ Deadline \in Nat /\ MaxOpTime \in Nat
  /\ Held \in [1..MaxOps -> Nat]
  /\ HeldUpTo \in [0..MaxOps -> Nat]
  /\ HeldUpTo[0] = 0
  /\ \A i \in 1..MaxOps : HeldUpTo[i] = HeldUpTo[i-1] + Held[i]
  /\ Base + HeldUpTo[MaxOps] <= Budget
  /\ Base > 0
  /\ DeadlineSize \in [1..MaxOps -> Nat]
  /\ OwnSize \in [1..MaxOps -> Nat \ {0}]
  /\ \A i \in 1..MaxOps : 0 < DeadlineSize[i] /\ DeadlineSize[i] + SepBefore(i) <= Held[i]
  /\ ResultSizes \subseteq Nat \ {0}

VARIABLES
  pc,         \* "start", "loop", "returned" or "raised"
  n,          \* how many ops the caller sent
  tree,       \* is the tree materialised?
  results,    \* the answers so far
  used,       \* bytes accounted for
  reserved,   \* bytes held back for the ops not answered yet
  exhausted,
  truncated,
  timed_out,
  elapsed,    \* the time since the deadline was set
  treeAtCall, \* history: was the tree there when the query came?
  wire        \* history: the bytes the answers so far really take

flags == <<exhausted, truncated, timed_out>>
history == <<treeAtCall, wire>>
vars == <<pc, n, tree, results, used, reserved, flags, elapsed, history>>

Answers == {"whole", "trimmed", "ownTooBig", "budget", "deadline"}

TypeOK ==
  /\ pc \in {"start", "loop", "returned", "raised"}
  /\ n \in 0..(MaxOps + 1)
  /\ tree \in BOOLEAN /\ treeAtCall \in BOOLEAN
  /\ results \in Seq(Answers) /\ Len(results) <= n
  /\ used \in Nat /\ reserved \in Nat /\ elapsed \in Nat /\ wire \in Nat
  /\ exhausted \in BOOLEAN /\ truncated \in BOOLEAN /\ timed_out \in BOOLEAN

Init ==
  /\ pc = "start"
  /\ n \in 0..(MaxOps + 1)
  /\ tree \in BOOLEAN /\ treeAtCall = tree
  /\ results = << >>
  /\ used = Base /\ reserved = 0 /\ wire = Base
  /\ exhausted = FALSE /\ truncated = FALSE /\ timed_out = FALSE
  /\ elapsed = 0

-------------------------------------------------------------------------------
(* Before the loop *)

Raise ==
  /\ pc' = "raised"
  /\ UNCHANGED <<n, tree, results, used, reserved, flags, elapsed, history>>

TooManyOps == pc = "start" /\ n > MaxOps /\ Raise

\* check_tree_materialized, before any op is looked at.
NoTree == pc = "start" /\ n <= MaxOps /\ ~tree /\ Raise

\* Mutant: the tree is left to the first op that touches it.
BeginMut ==
  /\ pc = "start" /\ n <= MaxOps
  /\ reserved' = HeldUpTo[n]
  /\ pc' = "loop"
  /\ UNCHANGED <<n, tree, results, used, flags, elapsed, history>>

\* Room for a refusal is reserved for every op.
Begin ==
  /\ pc = "start" /\ n <= MaxOps /\ tree
  /\ reserved' = HeldUpTo[n]
  /\ pc' = "loop"
  /\ UNCHANGED <<n, tree, results, used, flags, elapsed, history>>

-------------------------------------------------------------------------------
(* One iteration of the loop *)

\* The op at hand.
Op == Len(results) + 1

OpDue == pc = "loop" /\ Op <= n

\* The room this op's refusal was promised.
HeldRoom == Held[Op] - SepBefore(Op)

\* Mutant: nothing is held back for the ops to come.
AvailableMut == Budget - used - SepBefore(Op)

Available == Budget - used - (reserved - Held[Op]) - SepBefore(Op)

\* The op's entry is appended: `size` is accounted for and `onWire` is sent.
Answer(answer, size, onWire) ==
  /\ results' = Append(results, answer)
  /\ used' = used + SepBefore(Op) + size
  /\ wire' = wire + SepBefore(Op) + onWire
  /\ reserved' = reserved - Held[Op]
  /\ UNCHANGED <<pc, n, tree, treeAtCall>>

\* The deadline is looked at before each op.
Overtime == elapsed > Deadline

\* A call to _run_op is due, and takes some time (a malformed op none).
Runs ==
  /\ OpDue /\ ~exhausted /\ ~Overtime
  /\ \E t \in 0..MaxOpTime : elapsed' = elapsed + t

\* Exhausted before: the reserved refusal, accounted for in full.
RefuseRest ==
  /\ OpDue /\ exhausted
  /\ IF timed_out THEN Answer("deadline", HeldRoom, DeadlineSize[Op])
                  ELSE Answer("budget", HeldRoom, HeldRoom)
  /\ UNCHANGED <<flags, elapsed>>

TimeIsUp ==
  /\ OpDue /\ ~exhausted /\ Overtime
  /\ exhausted' = TRUE /\ truncated' = TRUE /\ timed_out' = TRUE
  /\ Answer("deadline", HeldRoom, DeadlineSize[Op])
  /\ UNCHANGED elapsed

\* The entry (a result, or the op's own error: a malformed op needs no tree)
\* fits.
RunFits ==
  /\ Runs
  /\ \E size \in ResultSizes : size <= Available /\ Answer("whole", size, size)
  /\ UNCHANGED flags

\* Mutant: a trimmed op leaves the rest of the batch running.
RunTrimmedMut ==
  /\ Runs /\ tree
  /\ \E size \in ResultSizes : size > Available
  /\ \E part \in ResultSizes : part <= Available /\ Answer("trimmed", part, part)
  /\ UNCHANGED flags

\* _fit: the leading matches, entries or lines of a result too large; _fit
\* measures what is left once more.
RunTrimmed ==
  /\ Runs /\ tree
  /\ \E size \in ResultSizes : size > Available
  /\ \E part \in ResultSizes : part <= Available /\ Answer("trimmed", part, part)
  /\ exhausted' = TRUE /\ truncated' = TRUE /\ UNCHANGED timed_out

\* Mutant: an op too large by itself is replaced without a word.
RunTooBigAloneMut ==
  /\ Runs /\ used = Base
  /\ \E size \in ResultSizes : size > Available
  /\ LET size == IF OwnSize[Op] <= HeldRoom THEN OwnSize[Op] ELSE HeldRoom
     IN  Answer("ownTooBig", size, size)
  /\ UNCHANGED flags

\* Nothing useful fits, and nothing has been spent: the op is to blame, and
\* the batch goes on.  Its message falls back on the reserved one.
RunTooBigAlone ==
  /\ Runs /\ used = Base
  /\ \E size \in ResultSizes : size > Available
  /\ LET size == IF OwnSize[Op] <= HeldRoom THEN OwnSize[Op] ELSE HeldRoom
     IN  Answer("ownTooBig", size, size)
  /\ truncated' = TRUE /\ UNCHANGED <<exhausted, timed_out>>

\* Nothing useful fits in what the earlier ops left.
RunStarved ==
  /\ Runs /\ used # Base
  /\ \E size \in ResultSizes : size > Available
  /\ Answer("budget", HeldRoom, HeldRoom)
  /\ exhausted' = TRUE /\ truncated' = TRUE /\ UNCHANGED timed_out

\* TreeNotMaterializedError, or a bug: the whole task fails.
RunRaises == OpDue /\ ~exhausted /\ ~Overtime /\ Raise

Return ==
  /\ pc = "loop" /\ Op > n
  /\ pc' = "returned"
  /\ UNCHANGED <<n, tree, results, used, reserved, flags, elapsed, history>>

-------------------------------------------------------------------------------

\* Something reaps the tree while the query runs.
Reaped ==
  /\ pc = "loop" /\ tree
  /\ tree' = FALSE
  /\ UNCHANGED <<pc, n, results, used, reserved, flags, elapsed, history>>

\* The call is over.
Over == pc \in {"returned", "raised"} /\ UNCHANGED vars

Iteration ==
  \/ RefuseRest \/ TimeIsUp
  \/ RunFits \/ RunTrimmed \/ RunTooBigAlone \/ RunStarved \/ RunRaises

Next == TooManyOps \/ NoTree \/ Begin \/ Iteration \/ Return \/ Reaped \/ Over

Spec == Init /\ [][Next]_vars

-------------------------------------------------------------------------------
(* Properties *)

\* `"truncated": true` is one byte shorter than `"truncated": false`.
Sent == wire - (IF truncated THEN 1 ELSE 0)

\* The whole output is held under QUERY_BUDGET, whatever the ops find and
\* wherever the cap falls, and at every point of the loop what is accounted
\* for covers what is on the wire and leaves every later op its refusal.
WithinBudget ==
  /\ Sent <= used
  /\ used + reserved <= Budget

Refused == {"budget", "deadline"}

\* Once the cap or the deadline is crossed every later op is refused, for the
\* same reason, without running; the op whose own result is too large is the
\* first one, and the first one is never refused for what others spent.
RefusalsAreASuffix ==
  /\ \A i, j \in 1..Len(results) : i < j =>
       /\ results[i] \in Refused => results[j] = results[i]
       /\ results[i] = "trimmed" => results[j] = "budget"
  /\ \A i \in 1..Len(results) :
       /\ results[i] = "ownTooBig" => i = 1
       /\ results[i] = "budget" => i > 1

\* The top-level `truncated` says whether any op's answer is less than whole.
HonestTruncation ==
  truncated <=> \E i \in 1..Len(results) : results[i] # "whole"

\* The deadline is overrun by one op at most.
OverrunAtMostOneOp == elapsed <= Deadline + MaxOpTime

\* A query against an evicted tree is a miss, never an answer, not even for a
\* batch of malformed ops: the caller re-materialises on the miss only.
MissIsNeverAnswered == pc = "returned" => treeAtCall
===============================================================================
