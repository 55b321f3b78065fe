---------------------------- MODULE RepoQueryProofs ----------------------------
(***************************************************************************)
(* What holds of run_query for every budget, every number of ops and every *)
(* size of result.  Budget and order are two inductive invariants: Ledger  *)
(* relates what is accounted for, what is on the wire and what is held     *)
(* back, Course relates the answers given to the loop's three flags.       *)
(***************************************************************************)
EXTENDS RepoQuery, WellFoundedInduction, TLAPS

USE DEF SepBefore

\* Between "start" and "returned" the reservation is exactly the refusals of
\* the ops still to be answered, and together with what is accounted for it
\* fits the budget.
Ledger ==
  /\ pc = "start" => results = << >> /\ reserved = 0
  /\ pc = "loop" => n <= MaxOps /\ reserved = HeldUpTo[n] - HeldUpTo[Len(results)]
  /\ results = << >> => used = Base
  /\ results # << >> => used > Base
  /\ wire <= used
  /\ used + reserved <= Budget

LInv == TypeOK /\ Ledger

\* Every set of numbers has a least one: what induction over the ops rests on.
LEMMA Least ==
  ASSUME NEW T \in SUBSET Nat, T # {}
  PROVE  \E x \in T : \A y \in T : x <= y
<1> DEFINE R == {ss \in Nat \X Nat : ss[1] < ss[2]}
<1>1. IsWellFoundedOn(R, Nat)
  BY NatLessThanWellFounded DEF OpToRel
<1> HIDE DEF R
<1>2. PICK x \in T : \A y \in T : ~(<<y, x>> \in R)
  BY <1>1, WFMin
<1>3. \A y \in T : ~(y < x)
  BY <1>2 DEF R
<1> QED
  BY <1>3

\* What is held back for the first ops is no more than for more of them.
LEMMA HeldUpToGrows ==
  ASSUME NEW i \in 0..MaxOps, NEW k \in i..MaxOps
  PROVE  HeldUpTo[i] <= HeldUpTo[k]
<1> DEFINE T == {j \in i..MaxOps : ~(HeldUpTo[i] <= HeldUpTo[j])}
<1>0. MaxOps \in Nat /\ i \in Nat /\ T \in SUBSET Nat /\ i..MaxOps \subseteq 0..MaxOps
  BY QueryAssumption
<1>1. ASSUME T # {} PROVE FALSE
  <2>1. PICK j \in T : \A l \in T : j <= l
    BY <1>0, <1>1, Least
  <2>2. j \in 0..MaxOps /\ HeldUpTo[j] \in Nat /\ HeldUpTo[i] \in Nat
    BY <1>0, QueryAssumption
  <2>3. j # i /\ j \in i..MaxOps
    BY <2>2
  <2>4. j \in 1..MaxOps /\ j - 1 \in i..MaxOps /\ ~(j <= j - 1)
    BY <1>0, <2>3
  <2>5. HeldUpTo[i] <= HeldUpTo[j - 1]
    BY <2>1, <2>4
  <2>6. HeldUpTo[j] = HeldUpTo[j - 1] + Held[j] /\ Held[j] \in Nat /\ HeldUpTo[j - 1] \in Nat
    BY <1>0, <2>4, QueryAssumption
  <2> QED
    BY <2>1, <2>2, <2>5, <2>6
<1> QED
  BY <1>1

\* The constants of one op, and what is held back up to it.
LEMMA OpConstants ==
  ASSUME NEW i \in 1..MaxOps
  PROVE  /\ Held[i] \in Nat /\ DeadlineSize[i] \in Nat /\ DeadlineSize[i] > 0
         /\ OwnSize[i] \in Nat /\ OwnSize[i] > 0
         /\ DeadlineSize[i] + SepBefore(i) <= Held[i]
         /\ HeldUpTo[i] = HeldUpTo[i-1] + Held[i]
         /\ HeldUpTo[i] \in Nat /\ HeldUpTo[i-1] \in Nat
         /\ \A j \in i..MaxOps : HeldUpTo[j] \in Nat /\ HeldUpTo[i] <= HeldUpTo[j]
<1>0. MaxOps \in Nat /\ i \in Nat /\ i \in 0..MaxOps /\ i - 1 \in 0..MaxOps
  BY QueryAssumption
<1>1. Held[i] \in Nat /\ DeadlineSize[i] \in Nat
  BY QueryAssumption
<1>2. OwnSize[i] \in Nat /\ OwnSize[i] > 0
  <2>1. OwnSize[i] \in Nat \ {0}
    BY QueryAssumption
  <2> QED
    BY <2>1
<1>3. DeadlineSize[i] > 0 /\ DeadlineSize[i] + SepBefore(i) <= Held[i]
  BY QueryAssumption
<1>4. HeldUpTo[i] = HeldUpTo[i-1] + Held[i]
  BY QueryAssumption
<1>5. HeldUpTo[i] \in Nat /\ HeldUpTo[i-1] \in Nat
  BY <1>0, QueryAssumption
<1>6. ASSUME NEW j \in i..MaxOps
      PROVE  HeldUpTo[j] \in Nat /\ HeldUpTo[i] <= HeldUpTo[j]
  <2>1. j \in 0..MaxOps /\ i <= j
    BY <1>0
  <2> QED
    BY <1>0, <2>1, HeldUpToGrows, QueryAssumption
<1> QED
  BY <1>1, <1>2, <1>3, <1>4, <1>5, <1>6

\* A reservation is never negative: an op that is due can be refused.
LEMMA RoomForRefusal ==
  ASSUME LInv, OpDue
  PROVE  /\ Op \in 1..MaxOps /\ Op \in Nat
         /\ Held[Op] \in Nat /\ HeldRoom \in Nat /\ HeldRoom > 0
         /\ DeadlineSize[Op] \in 1..HeldRoom
         /\ OwnSize[Op] \in Nat /\ OwnSize[Op] > 0
         /\ reserved - Held[Op] \in Nat
         /\ Separator \in Nat
         /\ reserved - Held[Op] = HeldUpTo[n] - HeldUpTo[Op]
<1>1. Op \in 1..MaxOps /\ Op \in Nat /\ n \in 0..MaxOps
  <2>1. MaxOps \in Nat
    BY QueryAssumption
  <2>2. Len(results) \in Nat
    BY DEF LInv, TypeOK
  <2>3. n \in Nat /\ n <= MaxOps /\ Op <= n
    BY <2>1 DEF LInv, TypeOK, Ledger, OpDue
  <2> QED
    BY <2>1, <2>2, <2>3 DEF Op
<1>2. /\ Held[Op] \in Nat /\ DeadlineSize[Op] \in Nat /\ DeadlineSize[Op] > 0
      /\ OwnSize[Op] \in Nat /\ OwnSize[Op] > 0
      /\ DeadlineSize[Op] + SepBefore(Op) <= Held[Op]
      /\ HeldUpTo[Op] = HeldUpTo[Op-1] + Held[Op]
      /\ HeldUpTo[Op] \in Nat /\ HeldUpTo[Op-1] \in Nat
      /\ \A j \in Op..MaxOps : HeldUpTo[j] \in Nat /\ HeldUpTo[Op] <= HeldUpTo[j]
  BY <1>1, OpConstants
<1>3. Separator \in Nat
  BY QueryAssumption
<1>4. HeldRoom \in Nat /\ HeldRoom > 0 /\ DeadlineSize[Op] \in 1..HeldRoom
  BY <1>1, <1>2, <1>3 DEF HeldRoom
<1>5. Op - 1 = Len(results) /\ n \in Op..MaxOps
  <2>1. Len(results) \in Nat
    BY DEF LInv, TypeOK
  <2>2. Op <= n
    BY DEF OpDue
  <2> QED
    BY <1>1, <2>1, <2>2 DEF Op
<1>6. reserved = HeldUpTo[n] - HeldUpTo[Op - 1]
  BY <1>5 DEF LInv, Ledger, OpDue
<1>7. reserved - Held[Op] = HeldUpTo[n] - HeldUpTo[Op] /\ reserved - Held[Op] \in Nat
  BY <1>2, <1>5, <1>6
<1> QED
  BY <1>1, <1>2, <1>3, <1>4, <1>7

\* An answer that takes no more room than Available keeps the ledger: the
\* reservations of the later ops are untouched.
LEMMA AnswerKeepsLedger ==
  ASSUME LInv, OpDue,
         NEW answer \in Answers, NEW size \in Nat, NEW onWire \in Nat,
         size > 0, onWire <= size, size <= Available,
         Answer(answer, size, onWire),
         elapsed' \in Nat,
         exhausted' \in BOOLEAN, truncated' \in BOOLEAN, timed_out' \in BOOLEAN
  PROVE  LInv'
<1> USE DEF LInv
<1>1. /\ Op \in 1..MaxOps /\ Held[Op] \in Nat /\ Separator \in Nat
      /\ reserved - Held[Op] \in Nat
      /\ reserved - Held[Op] = HeldUpTo[n] - HeldUpTo[Op]
  BY RoomForRefusal
<1>2. /\ pc' = pc /\ n' = n /\ tree' = tree /\ treeAtCall' = treeAtCall
      /\ results' = Append(results, answer)
      /\ used' = used + SepBefore(Op) + size
      /\ wire' = wire + SepBefore(Op) + onWire
      /\ reserved' = reserved - Held[Op]
  BY DEF Answer
<1>3. /\ Len(results') = Op /\ Op <= n /\ results' \in Seq(Answers) /\ results' # << >>
  BY <1>2 DEF TypeOK, OpDue, Op
<1>4. /\ used \in Nat /\ wire \in Nat /\ Base \in Nat /\ Budget \in Nat /\ used >= Base
  BY QueryAssumption DEF TypeOK, Ledger
<1>5. TypeOK'
  BY <1>1, <1>2, <1>3, <1>4 DEF TypeOK
<1>6. used' > Base /\ wire' <= used' /\ used' + reserved' <= Budget
  <2>1. SepBefore(Op) \in Nat
    BY <1>1
  <2>2. used' >= used + size /\ wire' <= used'
    BY <1>2, <1>4, <2>1 DEF Ledger
  <2>3. size <= Budget - used - reserved' - SepBefore(Op) /\ reserved' \in Nat
    BY <1>1, <1>2 DEF Available
  <2>4. used' = used + SepBefore(Op) + size
    BY <1>2
  <2> HIDE DEF SepBefore
  <2>5. used' > Base
    BY <1>4, <2>1, <2>4
  <2>6. used' + reserved' <= Budget
    BY <1>4, <2>1, <2>3, <2>4
  <2> QED
    BY <2>2, <2>5, <2>6
<1>7. pc' = "loop" => n' <= MaxOps /\ reserved' = HeldUpTo[n'] - HeldUpTo[Len(results')]
  BY <1>1, <1>2, <1>3 DEF Ledger, OpDue
<1>8. pc' # "start"
  BY <1>2 DEF OpDue
<1> QED
  BY <1>3, <1>5, <1>6, <1>7, <1>8 DEF Ledger

\* The room promised to a refusal is always there.
LEMMA RefusalIsAvailable == ASSUME LInv, OpDue PROVE HeldRoom <= Available /\ Available \in Nat
<1>1. /\ Held[Op] \in Nat /\ HeldRoom \in Nat /\ reserved - Held[Op] \in Nat /\ Separator \in Nat
  BY RoomForRefusal
<1>2. used \in Nat /\ reserved \in Nat /\ used + reserved <= Budget /\ Budget \in Nat
  BY QueryAssumption DEF LInv, TypeOK, Ledger
<1> QED
  BY <1>1, <1>2 DEF HeldRoom, Available

-------------------------------------------------------------------------------
(* The budget *)

LEMMA InitLInv == Init => LInv
<1> SUFFICES ASSUME Init PROVE LInv
  OBVIOUS
<1>1. /\ MaxOps \in Nat /\ Base \in Nat /\ Budget \in Nat
      /\ HeldUpTo[MaxOps] \in Nat /\ Base + HeldUpTo[MaxOps] <= Budget
  BY QueryAssumption
<1>2. results \in Seq(Answers) /\ Len(results) = 0
  BY DEF Init
<1>3. TypeOK
  <2>1. n \in 0..(MaxOps + 1) /\ Len(results) <= n
    BY <1>1, <1>2 DEF Init
  <2> QED
    BY <1>1, <1>2, <2>1 DEF Init, TypeOK
<1>4. Ledger
  BY <1>1 DEF Init, Ledger
<1> QED
  BY <1>3, <1>4 DEF LInv

LEMMA NextLInv == LInv /\ [Next]_vars => LInv'
<1> SUFFICES ASSUME LInv, [Next]_vars PROVE LInv'
  OBVIOUS
<1>0. MaxOps \in Nat /\ MaxOpTime \in Nat /\ elapsed \in Nat
  BY QueryAssumption DEF LInv, TypeOK
<1>1. ASSUME Raise PROVE LInv'
  BY <1>1 DEF Raise, LInv, TypeOK, Ledger, flags, history
<1>2. CASE Begin
  <2>1. n \in 0..MaxOps /\ HeldUpTo[n] \in Nat /\ HeldUpTo[0] = 0
    BY <1>0, <1>2, QueryAssumption DEF Begin, LInv, TypeOK
  <2>2. HeldUpTo[n] <= HeldUpTo[MaxOps] /\ HeldUpTo[MaxOps] \in Nat
    BY <1>0, <2>1, HeldUpToGrows, QueryAssumption
  <2>3. Base + HeldUpTo[MaxOps] <= Budget /\ Base \in Nat /\ Budget \in Nat
    BY QueryAssumption
  <2>4. used = Base /\ results = << >> /\ used \in Nat
    BY <1>2 DEF Begin, LInv, TypeOK, Ledger
  <2>5. TypeOK'
    BY <1>2, <2>1 DEF Begin, LInv, TypeOK, flags, history
  <2>6. Ledger'
    BY <1>2, <2>1, <2>2, <2>3, <2>4 DEF Begin, LInv, Ledger, flags, history
  <2> QED
    BY <2>5, <2>6 DEF LInv
<1>3. CASE RefuseRest
  <2> USE <1>3 DEF RefuseRest
  <2>1. HeldRoom \in Nat /\ HeldRoom > 0 /\ DeadlineSize[Op] \in 1..HeldRoom
    BY RoomForRefusal
  <2>2. HeldRoom <= Available
    BY RefusalIsAvailable
  <2>3. DeadlineSize[Op] \in Nat /\ DeadlineSize[Op] <= HeldRoom
    BY <2>1
  <2>4. elapsed' \in Nat /\ exhausted' \in BOOLEAN /\ truncated' \in BOOLEAN /\ timed_out' \in BOOLEAN
    BY DEF LInv, TypeOK, flags
  <2>5. CASE timed_out
    BY <2>1, <2>2, <2>3, <2>4, <2>5, AnswerKeepsLedger DEF Answers
  <2>6. CASE ~timed_out
    BY <2>1, <2>2, <2>4, <2>6, AnswerKeepsLedger DEF Answers
  <2> QED
    BY <2>5, <2>6
<1>4. CASE TimeIsUp
  <2> USE <1>4 DEF TimeIsUp
  <2>1. HeldRoom \in Nat /\ HeldRoom > 0 /\ DeadlineSize[Op] \in 1..HeldRoom
    BY RoomForRefusal
  <2>2. HeldRoom <= Available
    BY RefusalIsAvailable
  <2>3. DeadlineSize[Op] \in Nat /\ DeadlineSize[Op] <= HeldRoom
    BY <2>1
  <2>4. elapsed' \in Nat /\ exhausted' \in BOOLEAN /\ truncated' \in BOOLEAN /\ timed_out' \in BOOLEAN
    BY DEF LInv, TypeOK
  <2> QED
    BY <2>1, <2>2, <2>3, <2>4, AnswerKeepsLedger DEF Answers
<1>5. ASSUME Runs PROVE OpDue /\ elapsed' \in Nat
  BY <1>0, <1>5 DEF Runs
<1>6. CASE RunFits
  <2>1. PICK size \in ResultSizes : size <= Available /\ Answer("whole", size, size)
    BY <1>6 DEF RunFits
  <2>2. OpDue /\ elapsed' \in Nat
    BY <1>5, <1>6 DEF RunFits
  <2>3. size \in Nat /\ size > 0
    BY QueryAssumption
  <2>4. exhausted' \in BOOLEAN /\ truncated' \in BOOLEAN /\ timed_out' \in BOOLEAN
    BY <1>6 DEF RunFits, flags, LInv, TypeOK
  <2> QED
    BY <2>1, <2>2, <2>3, <2>4, AnswerKeepsLedger DEF Answers
<1>7. CASE RunTrimmed
  <2>1. PICK part \in ResultSizes : part <= Available /\ Answer("trimmed", part, part)
    BY <1>7 DEF RunTrimmed
  <2>2. OpDue /\ elapsed' \in Nat
    BY <1>5, <1>7 DEF RunTrimmed
  <2>3. part \in Nat /\ part > 0
    BY QueryAssumption
  <2>4. exhausted' \in BOOLEAN /\ truncated' \in BOOLEAN /\ timed_out' \in BOOLEAN
    BY <1>7 DEF RunTrimmed, LInv, TypeOK
  <2> QED
    BY <2>1, <2>2, <2>3, <2>4, AnswerKeepsLedger DEF Answers
<1>8. CASE RunTooBigAlone
  <2> DEFINE size == IF OwnSize[Op] <= HeldRoom THEN OwnSize[Op] ELSE HeldRoom
  <2>1. OpDue /\ elapsed' \in Nat
    BY <1>5, <1>8 DEF RunTooBigAlone
  <2>2. /\ HeldRoom \in Nat /\ HeldRoom > 0 /\ OwnSize[Op] \in Nat /\ OwnSize[Op] > 0
        /\ HeldRoom <= Available /\ Available \in Nat
    BY <2>1, RoomForRefusal, RefusalIsAvailable
  <2>3. size \in Nat /\ size > 0 /\ size <= Available
    BY <2>2
  <2>4. exhausted' \in BOOLEAN /\ truncated' \in BOOLEAN /\ timed_out' \in BOOLEAN
    BY <1>8 DEF RunTooBigAlone, LInv, TypeOK
  <2>5. Answer("ownTooBig", size, size)
    BY <1>8 DEF RunTooBigAlone
  <2> HIDE DEF size
  <2> QED
    BY <2>1, <2>3, <2>4, <2>5, AnswerKeepsLedger DEF Answers
<1>9. CASE RunStarved
  <2>1. OpDue /\ elapsed' \in Nat
    BY <1>5, <1>9 DEF RunStarved
  <2>2. HeldRoom \in Nat /\ HeldRoom > 0 /\ HeldRoom <= Available
    BY <2>1, RoomForRefusal, RefusalIsAvailable
  <2>4. exhausted' \in BOOLEAN /\ truncated' \in BOOLEAN /\ timed_out' \in BOOLEAN
    BY <1>9 DEF RunStarved, LInv, TypeOK
  <2>5. Answer("budget", HeldRoom, HeldRoom)
    BY <1>9 DEF RunStarved
  <2> QED
    BY <2>1, <2>2, <2>4, <2>5, AnswerKeepsLedger DEF Answers
<1>10. CASE Return
  BY <1>10 DEF Return, LInv, TypeOK, Ledger, flags, history
<1>11. CASE Reaped
  BY <1>11 DEF Reaped, LInv, TypeOK, Ledger, flags, history
<1>12. CASE UNCHANGED vars
  BY <1>12 DEF vars, LInv, TypeOK, Ledger, flags, history
<1> QED
  BY <1>1, <1>2, <1>3, <1>4, <1>6, <1>7, <1>8, <1>9, <1>10, <1>11, <1>12
     DEF Next, TooManyOps, NoTree, Iteration, RunRaises, Over

\* Whatever the ops find, the output is held under QUERY_BUDGET, and room for a
\* refusal of every op to come is always left.
THEOREM OutputWithinBudget == Spec => [](TypeOK /\ WithinBudget)
<1>1. LInv => TypeOK /\ WithinBudget
  <2> SUFFICES ASSUME LInv PROVE TypeOK /\ WithinBudget
    OBVIOUS
  <2>1. used \in Nat /\ wire \in Nat /\ wire <= used
    BY DEF LInv, TypeOK, Ledger
  <2>2. Sent <= used
    BY <2>1 DEF Sent
  <2> QED
    BY <2>2 DEF LInv, Ledger, WithinBudget
<1> QED
  BY <1>1, InitLInv, NextLInv, PTL DEF Spec

-------------------------------------------------------------------------------
(* The order of the answers *)

\* Every answer so far fits the flags, and the flags say why the loop refuses.
Course ==
  /\ exhausted => truncated /\ results # << >>
  /\ timed_out => exhausted
  /\ \A i \in 1..Len(results) :
       /\ results[i] \in {"trimmed", "budget"} => exhausted /\ ~timed_out
       /\ results[i] = "deadline" => timed_out
  /\ RefusalsAreASuffix
  /\ HonestTruncation

CInv == LInv /\ Course

\* What an appended answer must satisfy for the course to be kept.
LEMMA AnswerKeepsCourse ==
  ASSUME CInv,
         NEW a \in Answers,
         results' = Append(results, a),
         exhausted' => truncated',
         timed_out' => exhausted',
         a \in {"trimmed", "budget"} => exhausted' /\ ~timed_out',
         a = "deadline" => timed_out',
         exhausted => exhausted' /\ (timed_out' <=> timed_out)
                      /\ a = IF timed_out THEN "deadline" ELSE "budget",
         a = "ownTooBig" => results = << >>,
         a = "budget" => results # << >>,
         truncated' <=> truncated \/ a # "whole"
  PROVE  Course'
<1> DEFINE m == Len(results)
<1>1. /\ m \in Nat /\ Len(results') = m + 1
      /\ \A i \in 1..m : results'[i] = results[i]
      /\ results'[m + 1] = a
      /\ results' # << >>
      /\ results = << >> <=> m = 0
  BY DEF CInv, LInv, TypeOK
<1>2. 1..Len(results') = 1..m \cup {m + 1}
  BY <1>1
<1>3. Course
  BY DEF CInv
<1> HIDE DEF m
<1>4. \A i \in 1..m : /\ results[i] \in {"trimmed", "budget"} => exhausted /\ ~timed_out
                      /\ results[i] = "deadline" => timed_out /\ exhausted
  BY <1>3 DEF Course, m
<1>5. \A i \in 1..Len(results') :
        /\ results'[i] \in {"trimmed", "budget"} => exhausted' /\ ~timed_out'
        /\ results'[i] = "deadline" => timed_out'
  BY <1>1, <1>2, <1>4
<1>6. HonestTruncation'
  BY <1>1, <1>2, <1>3 DEF Course, HonestTruncation, m
<1>7. ASSUME NEW i \in 1..Len(results'), NEW j \in 1..Len(results'), i < j
      PROVE  /\ results'[i] \in Refused => results'[j] = results'[i]
             /\ results'[i] = "trimmed" => results'[j] = "budget"
  <2>1. i \in 1..m
    BY <1>1, <1>2, <1>7
  <2>2. CASE j \in 1..m
    BY <1>1, <1>3, <1>7, <2>1, <2>2 DEF Course, RefusalsAreASuffix, m
  <2>3. CASE j = m + 1
    BY <1>1, <1>4, <2>1, <2>3 DEF Refused
  <2> QED
    BY <1>2, <2>2, <2>3
<1>8. ASSUME NEW i \in 1..Len(results')
      PROVE  /\ results'[i] = "ownTooBig" => i = 1
             /\ results'[i] = "budget" => i > 1
  <2>1. CASE i \in 1..m
    BY <1>1, <1>3, <2>1 DEF Course, RefusalsAreASuffix, m
  <2>2. CASE i = m + 1
    BY <1>1, <2>2
  <2> QED
    BY <1>2, <2>1, <2>2
<1>9. RefusalsAreASuffix'
  BY <1>7, <1>8 DEF RefusalsAreASuffix, Refused
<1> QED
  BY <1>1, <1>5, <1>6, <1>9 DEF Course

LEMMA NextCInv == CInv /\ [Next]_vars => CInv'
<1> SUFFICES ASSUME CInv, [Next]_vars PROVE Course'
  BY NextLInv DEF CInv
<1>0. /\ exhausted => truncated /\ results # << >>
      /\ timed_out => exhausted
      /\ used = Base => results = << >>
      /\ used # Base => results # << >>
  <2>1. Base \in Nat /\ used \in Nat
    BY QueryAssumption DEF CInv, LInv, TypeOK
  <2> QED
    BY <2>1 DEF CInv, LInv, Course, Ledger
<1>1. ASSUME UNCHANGED <<results, flags>> PROVE Course'
  BY <1>1 DEF CInv, Course, RefusalsAreASuffix, HonestTruncation, flags
<1>3. CASE RefuseRest
  <2>1. results' = Append(results, IF timed_out THEN "deadline" ELSE "budget")
    BY <1>3 DEF RefuseRest, Answer
  <2>2. exhausted /\ UNCHANGED <<exhausted, truncated, timed_out>>
    BY <1>3 DEF RefuseRest, flags
  <2>3. (IF timed_out THEN "deadline" ELSE "budget") \in Answers
    BY DEF Answers
  <2> QED
    BY <1>0, <2>1, <2>2, <2>3, AnswerKeepsCourse
<1>4. CASE TimeIsUp
  <2>1. /\ results' = Append(results, "deadline") /\ "deadline" \in Answers
        /\ ~exhausted /\ exhausted' /\ truncated' /\ timed_out'
    BY <1>4 DEF TimeIsUp, Answer, Answers
  <2> QED
    BY <2>1, AnswerKeepsCourse
<1>5. CASE RunFits
  <2>1. /\ results' = Append(results, "whole") /\ "whole" \in Answers
        /\ ~exhausted /\ UNCHANGED <<exhausted, truncated, timed_out>>
    BY <1>5 DEF RunFits, Runs, Answer, Answers, flags
  <2> QED
    BY <1>0, <2>1, AnswerKeepsCourse
<1>6. CASE RunTrimmed
  <2>1. /\ results' = Append(results, "trimmed") /\ "trimmed" \in Answers
        /\ ~exhausted /\ exhausted' /\ truncated' /\ timed_out' = timed_out
    BY <1>6 DEF RunTrimmed, Runs, Answer, Answers
  <2> QED
    BY <1>0, <2>1, AnswerKeepsCourse
<1>7. CASE RunTooBigAlone
  <2>1. /\ results' = Append(results, "ownTooBig") /\ "ownTooBig" \in Answers
        /\ results = << >> /\ ~exhausted
        /\ truncated' /\ UNCHANGED <<exhausted, timed_out>>
    BY <1>0, <1>7 DEF RunTooBigAlone, Runs, Answer, Answers
  <2> QED
    BY <1>0, <2>1, AnswerKeepsCourse
<1>8. CASE RunStarved
  <2>1. /\ results' = Append(results, "budget") /\ "budget" \in Answers
        /\ results # << >> /\ ~exhausted
        /\ exhausted' /\ truncated' /\ timed_out' = timed_out
    BY <1>0, <1>8 DEF RunStarved, Runs, Answer, Answers
  <2> QED
    BY <1>0, <2>1, AnswerKeepsCourse
<1> QED
  BY <1>1, <1>3, <1>4, <1>5, <1>6, <1>7, <1>8
     DEF Next, TooManyOps, NoTree, Raise, Begin, Iteration, RunRaises, Return, Reaped, Over, vars

\* For every batch: refusals form a suffix with one reason, only the first op
\* is ever blamed for its own size, and `truncated` says exactly whether an
\* answer is less than whole.
THEOREM AnswersAreHonest == Spec => [](RefusalsAreASuffix /\ HonestTruncation)
<1>1. Init => CInv
  <2> SUFFICES ASSUME Init PROVE CInv
    OBVIOUS
  <2>1. results = << >> /\ Len(results) = 0 /\ ~exhausted /\ ~truncated /\ ~timed_out
    BY DEF Init
  <2>2. 1..Len(results) = {}
    BY <2>1
  <2>3. RefusalsAreASuffix /\ HonestTruncation
    BY <2>1, <2>2 DEF RefusalsAreASuffix, HonestTruncation
  <2> QED
    BY <2>1, <2>2, <2>3, InitLInv DEF CInv, Course
<1>2. CInv => RefusalsAreASuffix /\ HonestTruncation
  BY DEF CInv, Course
<1> QED
  BY <1>1, <1>2, NextCInv, PTL DEF Spec

\* The top-level `truncated` is set when, and only when, some op was refused or
\* answered in part: the caller may trust its absence.
THEOREM TruncationIsTold == Spec => []HonestTruncation
BY AnswersAreHonest, PTL

-------------------------------------------------------------------------------
(* The deadline and the miss *)

\* Whatever an op costs, the deadline is overrun by one op at most.
THEOREM DeadlineHolds == Spec => []OverrunAtMostOneOp
<1> DEFINE Inv == elapsed \in Nat /\ OverrunAtMostOneOp
<1>0. Deadline \in Nat /\ MaxOpTime \in Nat
  BY QueryAssumption
<1>1. Init => Inv
  BY <1>0 DEF Init, OverrunAtMostOneOp
<1>2. Inv /\ [Next]_vars => Inv'
  <2> SUFFICES ASSUME Inv, [Next]_vars PROVE Inv'
    OBVIOUS
  <2>1. CASE UNCHANGED elapsed
    BY <2>1 DEF OverrunAtMostOneOp
  <2>2. CASE Runs
    <3>1. PICK t \in 0..MaxOpTime : elapsed' = elapsed + t
      BY <2>2 DEF Runs
    <3>2. elapsed <= Deadline
      BY <1>0, <2>2 DEF Runs, Overtime
    <3> QED
      BY <1>0, <3>1, <3>2 DEF OverrunAtMostOneOp
  <2> QED
    BY <2>1, <2>2
       DEF Next, TooManyOps, NoTree, Raise, Begin, Iteration, RefuseRest, TimeIsUp, RunFits,
           RunTrimmed, RunTooBigAlone, RunStarved, RunRaises, Return, Reaped, Over, vars
<1> QED
  BY <1>1, <1>2, PTL DEF Spec

\* A query against an evicted tree never comes back as an answer.
THEOREM MissIsReported == Spec => []MissIsNeverAnswered
<1> DEFINE Inv == /\ pc = "start" => tree = treeAtCall
                  /\ pc \in {"loop", "returned"} => treeAtCall
<1>1. Init => Inv
  BY DEF Init
<1>2. Inv /\ [Next]_vars => Inv'
  BY DEF Next, TooManyOps, NoTree, Raise, Begin, Iteration, RefuseRest, TimeIsUp, RunFits,
         RunTrimmed, RunTooBigAlone, RunStarved, RunRaises, Runs, OpDue, Answer, Return,
         Reaped, Over, vars, history
<1>3. Inv => MissIsNeverAnswered
  BY DEF MissIsNeverAnswered
<1> QED
  BY <1>1, <1>2, <1>3, PTL DEF Spec
===============================================================================
