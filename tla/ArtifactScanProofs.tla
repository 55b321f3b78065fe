--------------------------- MODULE ArtifactScanProofs ---------------------------
(***************************************************************************)
(* What holds of grep, slice and sql for every artifact, every chunking    *)
(* and every limit.  The newlines of a stretch of the artifact are counted *)
(* (Count); the three tasks' invariants relate what each has let through   *)
(* to the line the next chunk starts in.                                   *)
(***************************************************************************)
EXTENDS ArtifactScan, FiniteSetTheorems, WellFoundedInduction, TLAPS

InputOK ==
  /\ newlines \in SUBSET (1..Size) /\ hits \in SUBSET ((1..Size) \ newlines)
  /\ request \in Requests
  /\ at \in 0..Size

\* The newlines from a to b.
Count(a, b) == Cardinality(newlines \cap (a..b))

\* A non-empty set of naturals has a least element, and a bounded one a greatest.
LEMMA LeastIsThere ==
  ASSUME NEW S \in SUBSET Nat, S # {}
  PROVE  MinOf(S) \in S /\ \A y \in S : MinOf(S) <= y
<1>1. \E x \in S : \A y \in S : x <= y
  <2> DEFINE less == {p \in Nat \X Nat : p[1] < p[2]}
  <2>1. IsWellFoundedOn(less, Nat)
    BY NatLessThanWellFounded DEF OpToRel
  <2>2. \E x \in S : \A y \in S : ~(<<y, x>> \in less)
    BY <2>1, WFMin
  <2>3. \A x, y \in Nat : ~(<<y, x>> \in less) => x <= y
    OBVIOUS
  <2> HIDE DEF less
  <2> QED
    BY <2>2, <2>3
<1> QED
  BY <1>1 DEF MinOf

LEMMA GreatestIsThere ==
  ASSUME NEW S \in SUBSET Nat, S # {}, NEW n \in Nat, \A y \in S : y <= n
  PROVE  MaxOf(S) \in S /\ \A y \in S : MaxOf(S) >= y
<1> DEFINE D == {d \in 0..n : n - d \in S}
<1>1. D \in SUBSET Nat /\ D # {}
  <2>1. PICK y \in S : TRUE
    OBVIOUS
  <2>2. n - y \in 0..n /\ n - (n - y) = y
    OBVIOUS
  <2>3. n - y \in D
    BY <2>2
  <2> QED
    BY <2>3
<1>2. PICK d \in D : \A e \in D : d <= e
  BY <1>1, LeastIsThere
<1>3. n - d \in S /\ \A y \in S : n - d >= y
  <2> SUFFICES ASSUME NEW y \in S PROVE n - d >= y
    BY <1>2
  <2>1. n - y \in 0..n /\ n - (n - y) = y
    OBVIOUS
  <2>2. n - y \in D
    BY <2>1
  <2>3. d \in Nat /\ d <= n - y
    BY <1>2, <2>2
  <2> QED
    BY <2>3
<1> QED
  BY <1>3 DEF MaxOf

-------------------------------------------------------------------------------
(* Counting newlines *)

LEMMA NewlinesFinite == InputOK => IsFiniteSet(newlines)
<1>1. Size \in Int /\ 1 \in Int
  BY ScanAssumption
<1>2. IsFiniteSet(1..Size)
  BY <1>1, FS_Interval
<1> QED
  BY <1>2, FS_Subset DEF InputOK

\* The counts of two neighbouring stretches add up.
LEMMA CountSplit ==
  ASSUME InputOK, NEW a \in Int, NEW b \in Int, NEW c \in Int, a <= b + 1, b <= c
  PROVE  Count(a, c) = Count(a, b) + Count(b + 1, c)
<1> DEFINE L == newlines \cap (a..b)  R == newlines \cap ((b + 1)..c)
<1>2. IsFiniteSet(L) /\ IsFiniteSet(R)
  BY NewlinesFinite, FS_Intersection
<1>3. newlines \cap (a..c) = L \cup R /\ L \cap R = {}
  BY ScanAssumption DEF InputOK
<1>4. Cardinality(L \cup R) = Cardinality(L) + Cardinality(R) - 0
  BY <1>2, <1>3, FS_Union, FS_EmptySet
<1>5. Cardinality(L) \in Nat /\ Cardinality(R) \in Nat
  BY <1>2, FS_CardinalityType
<1>6. Count(a, b) = Cardinality(L) /\ Count(b + 1, c) = Cardinality(R)
  BY DEF Count
<1>7. Count(a, c) = Cardinality(L \cup R)
  BY <1>3 DEF Count
<1> HIDE DEF L, R
<1> QED
  BY <1>4, <1>5, <1>6, <1>7

LEMMA CountIsNat ==
  ASSUME InputOK
  PROVE  \A a, b : Count(a, b) \in Nat
<1> SUFFICES ASSUME NEW a, NEW b PROVE Count(a, b) \in Nat
  OBVIOUS
<1>1. IsFiniteSet(newlines \cap (a..b))
  BY NewlinesFinite, FS_Intersection
<1> QED
  BY <1>1, FS_CardinalityType DEF Count

LEMMA CountOfNone ==
  ASSUME InputOK, NEW a \in Int, NEW b \in Int
  PROVE  Count(a, b) = 0 <=> \A n \in newlines : ~(a <= n /\ n <= b)
<1>1. IsFiniteSet(newlines \cap (a..b))
  BY NewlinesFinite, FS_Intersection
<1>2. Count(a, b) = 0 <=> newlines \cap (a..b) = {}
  BY <1>1, FS_EmptySet DEF Count
<1>3. newlines \cap (a..b) = {} <=> \A n \in newlines : ~(a <= n /\ n <= b)
  BY ScanAssumption DEF InputOK
<1> QED
  BY <1>2, <1>3

LEMMA CountOne ==
  ASSUME InputOK
  PROVE  \A a \in Int : Count(a, a) = IF a \in newlines THEN 1 ELSE 0
<1> SUFFICES ASSUME NEW a \in Int PROVE Count(a, a) = IF a \in newlines THEN 1 ELSE 0
  OBVIOUS
<1>1. newlines \cap (a..a) = IF a \in newlines THEN {a} ELSE {}
  OBVIOUS
<1> QED
  BY <1>1, FS_Singleton, FS_EmptySet DEF Count

LEMMA LineNoIsCount ==
  ASSUME InputOK
  PROVE  \A p \in Nat : LineNo(p) = 1 + Count(1, p - 1)
<1> SUFFICES ASSUME NEW p \in Nat PROVE LineNo(p) = 1 + Count(1, p - 1)
  OBVIOUS
<1>0. \A n \in newlines : n \in Nat /\ 1 <= n
  BY ScanAssumption DEF InputOK
<1>1. {n \in newlines : n < p} = newlines \cap (1..(p - 1))
  BY <1>0
<1> QED
  BY <1>1 DEF LineNo, Count

\* The line numbers of two places differ by the newlines between them.
LEMMA LineNoDiffers ==
  ASSUME InputOK, NEW p \in Nat \ {0}, NEW q \in Nat, p <= q
  PROVE  /\ LineNo(p) \in Nat \ {0} /\ LineNo(q) \in Nat
         /\ LineNo(q) = LineNo(p) + Count(p, q - 1)
         /\ LineNo(p) <= LineNo(q)
<1>1. Count(1, q - 1) = Count(1, p - 1) + Count(p, q - 1)
  <2>1. /\ 1 \in Int /\ p - 1 \in Int /\ q - 1 \in Int
        /\ 1 <= (p - 1) + 1 /\ p - 1 <= q - 1 /\ (p - 1) + 1 = p
    OBVIOUS
  <2> QED
    BY <2>1, CountSplit
<1>2. Count(1, p - 1) \in Nat /\ Count(p, q - 1) \in Nat
  BY CountIsNat
<1>3. LineNo(p) = 1 + Count(1, p - 1) /\ LineNo(q) = 1 + Count(1, q - 1)
  BY LineNoIsCount
<1> QED
  BY <1>1, <1>2, <1>3

\* _nth_newline finds what it is asked for when there are enough newlines.
LEMMA NthIsThere ==
  ASSUME InputOK, NEW lo \in Nat \ {0}, NEW hi \in Nat, NEW k \in Nat \ {0}, k <= Count(lo, hi)
  PROVE  /\ NthNewline(lo, hi, k) \in newlines \cap (lo..hi)
         /\ Count(lo, NthNewline(lo, hi, k)) = k
<1> DEFINE S == {p \in lo..hi : Count(lo, p) >= k}
<1>a. lo \in Int /\ hi \in Int
  OBVIOUS
<1>b. Count(lo, hi) \in Nat
  BY <1>a, CountIsNat
<1>0. \A p \in Int : Count(lo, p) \in Nat
  BY <1>a, CountIsNat
<1>1. hi \in S
  <2>1. Count(lo, hi) # 0
    BY <1>0
  <2>2. lo <= hi
    BY <2>1, CountOfNone, ScanAssumption DEF InputOK
  <2> QED
    BY <2>2
<1>2. PICK p \in S : \A q \in S : p <= q
  <2>1. S \in SUBSET Nat
    OBVIOUS
  <2> QED
    BY <1>1, <2>1, LeastIsThere
<1>3. Count(lo, p) = Count(lo, p - 1) + Count(p, p)
  <2>1. /\ lo \in Int /\ p - 1 \in Int /\ p \in Int
        /\ lo <= (p - 1) + 1 /\ p - 1 <= p /\ (p - 1) + 1 = p
    OBVIOUS
  <2> QED
    BY <2>1, CountSplit
<1>4. Count(lo, p - 1) < k
  <2>1. CASE p = lo
    <3>1. \A n \in newlines : ~(lo <= n /\ n <= p - 1)
      BY <2>1, ScanAssumption DEF InputOK
    <3>2. Count(lo, p - 1) = 0
      BY <3>1, CountOfNone
    <3> QED
      BY <3>2
  <2>2. CASE p # lo
    <3>1. p - 1 \in lo..hi /\ p - 1 \notin S
      BY <1>2, <2>2
    <3> QED
      BY <1>0, <3>1
  <2> QED
    BY <2>1, <2>2
<1>5. p \in newlines /\ Count(lo, p) = k
  <2>1. Count(lo, p) >= k /\ Count(lo, p) \in Nat /\ Count(lo, p - 1) \in Nat
    BY <1>0
  <2>2. Count(p, p) = IF p \in newlines THEN 1 ELSE 0
    BY CountOne
  <2> QED
    BY <1>3, <1>4, <2>1, <2>2
<1>6. \E q \in newlines \cap (lo..hi) : Cardinality(newlines \cap (lo..q)) = k
  BY <1>5 DEF Count
<1> QED
  BY <1>6 DEF NthNewline, Count

\* Past the k-th newline from lo on, and only there, k lines more have begun.
LEMMA NthCuts ==
  ASSUME InputOK, NEW lo \in Nat \ {0}, NEW n \in newlines, lo <= n, NEW k, Count(lo, n) = k
  PROVE  \A p \in Nat : lo <= p => (LineNo(p) >= LineNo(lo) + k <=> p > n)
<1>0. n \in Nat \ {0} /\ n + 1 \in Nat \ {0} /\ (n + 1) - 1 = n
  BY ScanAssumption DEF InputOK
<1>1. LineNo(n + 1) = LineNo(lo) + k
  BY <1>0, LineNoDiffers
<1> SUFFICES ASSUME NEW p \in Nat, lo <= p
             PROVE  LineNo(p) >= LineNo(lo) + k <=> p > n
  OBVIOUS
<1>p. p \in Nat \ {0}
  OBVIOUS
<1>2. LineNo(lo) \in Nat /\ LineNo(p) \in Nat /\ LineNo(n + 1) \in Nat
  BY <1>p, <1>0, LineNoDiffers
<1>3. CASE p > n
  <2>1. LineNo(n + 1) <= LineNo(p)
    BY <1>0, <1>3, LineNoDiffers
  <2> QED
    BY <1>1, <1>2, <1>3, <2>1
<1>4. CASE p <= n
  <2>1. LineNo(n + 1) = LineNo(p) + Count(p, n)
    BY <1>0, <1>4, <1>p, LineNoDiffers
  <2>2. Count(p, n) # 0
    BY <1>0, <1>4, CountOfNone
  <2>3. Count(p, n) \in Nat
    BY <1>0, CountIsNat
  <2>4. ~(p > n) /\ LineNo(p) < LineNo(lo) + k
    BY <1>0, <1>1, <1>2, <1>4, <2>1, <2>2, <2>3
  <2> QED
    BY <1>2, <2>4, <1>1
<1> QED
  BY <1>0, <1>3, <1>4

\* What every step keeps: the artifact, the request, and a position in it.
LEMMA InputStays == InputOK /\ [Next]_vars => InputOK' /\ UNCHANGED input
<1> SUFFICES ASSUME InputOK, [Next]_vars PROVE InputOK' /\ UNCHANGED input
  OBVIOUS
<1>1. UNCHANGED input /\ (at' = at \/ at' \in (at + 1)..Size)
  BY DEF Next, Feed, Collect, NextEvent, CountOnly, Match, ContextLine, Finish, SliceChunk,
         SliceEnds, FetchBatch, DeadlineStops, vars
<1>2. at' \in 0..Size
  BY <1>1, ScanAssumption DEF InputOK
<1> QED
  BY <1>1, <1>2 DEF InputOK, input

LEMMA InputFirst == Init => InputOK
<1>1. 0 \in 0..Size
  BY ScanAssumption
<1> QED
  BY <1>1 DEF Init, InputOK

LEMMA InputAlways == Spec => []InputOK
<1>1. Init => InputOK
  BY InputFirst
<1>2. InputOK /\ [Next]_vars => InputOK'
  BY InputStays
<1> QED
  BY <1>1, <1>2, PTL DEF Spec

LEMMA SameLines ==
  ASSUME UNCHANGED input
  PROVE  /\ \A p : LineNo(p)' = LineNo(p) /\ LineStart(p)' = LineStart(p)
         /\ Lines' = Lines
<1>1. newlines' = newlines
  BY DEF input
<1>2. \A p : LineNo(p)' = LineNo(p) /\ LineStart(p)' = LineStart(p)
  BY <1>1 DEF LineNo, LineStart
<1>3. Lines' = Lines
  BY <1>1 DEF Lines, LineNo
<1> QED
  BY <1>2, <1>3

-------------------------------------------------------------------------------
(* slice *)

LEMMA SliceRequest ==
  ASSUME InputOK, request.task = "slice"
  PROVE  request.from \in Nat \ {0} /\ request.to \in Nat /\ request.from < request.to
<1>1. request \in RequestType /\ request.from < request.to
  BY ScanAssumption DEF InputOK
<1> QED
  BY <1>1 DEF RequestType

\* A byte of a line the request asks for.
Asked(p) == request.from <= LineNo(p) /\ LineNo(p) < request.to

\* _copy_lines takes the part of a chunk that was asked for, and knows whether
\* anything asked for can follow.
LEMMA CopyIsExact ==
  ASSUME InputOK, request.task = "slice", NEW lo \in Nat \ {0}, NEW hi \in Nat, lo <= hi,
         line = LineNo(lo), line < request.to
  PROVE  /\ CopyLines(lo, hi).bytes = {p \in lo..hi : Asked(p)}
         /\ CopyLines(lo, hi).finished \in BOOLEAN
         /\ CopyLines(lo, hi).finished => \A p \in Nat : p > hi => ~Asked(p)
         /\ ~CopyLines(lo, hi).finished =>
              line + Count(lo, hi) = LineNo(hi + 1) /\ LineNo(hi + 1) < request.to
<1> DEFINE count == Count(lo, hi)
           skip  == IF request.from > line THEN request.from - line ELSE 0
           need  == request.to - line - skip
           start == IF skip = 0 THEN lo ELSE NthNewline(lo, hi, skip) + 1
<1>0. /\ request.from \in Nat \ {0} /\ request.to \in Nat /\ request.from < request.to
      /\ line \in Nat /\ count \in Nat /\ skip \in Nat /\ need \in Nat \ {0}
  <2>1. request.from \in Nat \ {0} /\ request.to \in Nat /\ request.from < request.to
    BY SliceRequest
  <2>2. line \in Nat
    BY LineNoDiffers
  <2>3. count \in Nat
    BY CountIsNat
  <2> QED
    BY <2>1, <2>2, <2>3
<1>1. CopyLines(lo, hi) =
        IF line + count < request.from THEN [bytes |-> {}, finished |-> FALSE]
        ELSE IF count - skip >= need
          THEN [bytes |-> start..NthNewline(start, hi, need), finished |-> TRUE]
        ELSE [bytes |-> start..hi, finished |-> FALSE]
  BY DEF CopyLines, Count
<1>2. LineNo(hi + 1) = line + count
  <2>1. lo <= hi + 1 /\ hi + 1 \in Nat /\ (hi + 1) - 1 = hi
    OBVIOUS
  <2> QED
    BY <2>1, LineNoDiffers
<1>3. \A p \in lo..hi : LineNo(p) \in Nat /\ LineNo(p) <= line + count
  <2> SUFFICES ASSUME NEW p \in lo..hi PROVE LineNo(p) \in Nat /\ LineNo(p) <= line + count
    OBVIOUS
  <2>1. p \in Nat \ {0} /\ hi + 1 \in Nat /\ p <= hi + 1
    OBVIOUS
  <2> QED
    BY <1>2, <2>1, LineNoDiffers
<1>4. \A p \in Nat : p > hi => LineNo(p) \in Nat /\ LineNo(p) >= line + count
  <2> SUFFICES ASSUME NEW p \in Nat, p > hi PROVE LineNo(p) \in Nat /\ LineNo(p) >= line + count
    OBVIOUS
  <2>1. hi + 1 \in Nat \ {0} /\ hi + 1 <= p
    OBVIOUS
  <2> QED
    BY <1>2, <2>1, LineNoDiffers, <1>0
<1>5. CASE line + count < request.from
  <2>1. CopyLines(lo, hi) = [bytes |-> {}, finished |-> FALSE]
    BY <1>1, <1>5
  <2>2. \A p \in lo..hi : ~Asked(p)
    BY <1>0, <1>3, <1>5 DEF Asked
  <2>3. LineNo(hi + 1) < request.to
    BY <1>0, <1>2, <1>5
  <2> QED
    BY <1>2, <2>1, <2>2, <2>3
<1>6. CASE line + count >= request.from
  <2>1. /\ start \in lo..(hi + 1) /\ Count(lo, start - 1) = skip
        /\ \A p \in lo..hi : request.from <= LineNo(p) <=> p >= start
    <3>1. CASE request.from <= line
      <4>1. skip = 0 /\ start = lo
        BY <1>0, <3>1
      <4>2. Count(lo, lo - 1) = 0
        BY CountOfNone, ScanAssumption DEF InputOK
      <4>3. \A p \in lo..hi : LineNo(lo) <= LineNo(p)
        BY LineNoDiffers
      <4>4. \A p \in lo..hi : request.from <= LineNo(p)
        BY <1>0, <1>3, <3>1, <4>3
      <4> HIDE DEF start, skip
      <4> QED
        BY <4>1, <4>2, <4>4
    <3>2. CASE request.from > line
      <4>1. skip = request.from - line /\ skip \in Nat \ {0} /\ skip <= Count(lo, hi)
        BY <1>0, <1>6, <3>2
      <4> DEFINE n == NthNewline(lo, hi, skip)
      <4>2. n \in newlines \cap (lo..hi) /\ Count(lo, n) = skip
        <5> HIDE DEF skip
        <5> QED
          BY <4>1, NthIsThere
      <4>3. start = n + 1
        BY <4>1
      <4> HIDE DEF start, n
      <4>4. \A p \in Nat : lo <= p => (LineNo(p) >= LineNo(lo) + skip <=> p > n)
        BY <4>2, NthCuts
      <4>5. LineNo(lo) + skip = request.from
        BY <1>0, <4>1
      <4> HIDE DEF skip
      <4>6. start \in lo..(hi + 1) /\ start - 1 = n
        BY <4>2, <4>3
      <4>7. ASSUME NEW p \in lo..hi PROVE request.from <= LineNo(p) <=> p >= start
        <5>1. LineNo(p) >= request.from <=> p > n
          BY <4>4, <4>5
        <5> QED
          BY <1>0, <1>3, <4>2, <4>3, <5>1
      <4> QED
        BY <4>2, <4>6, <4>7
    <3> QED
      BY <1>0, <3>1, <3>2
  <2>2. LineNo(start) = line + skip /\ Count(lo, hi) = skip + Count(start, hi)
    <3>0. start \in Nat \ {0} /\ lo <= start /\ start - 1 \in Int /\ (start - 1) + 1 = start
          /\ lo <= (start - 1) + 1 /\ start - 1 <= hi
      BY <2>1
    <3> HIDE DEF start, skip
    <3>1. LineNo(start) = line + skip
      BY <2>1, <3>0, LineNoDiffers
    <3>2. Count(lo, hi) = Count(lo, start - 1) + Count((start - 1) + 1, hi)
      BY <3>0, CountSplit
    <3> QED
      BY <2>1, <3>0, <3>1, <3>2
  <2> HIDE DEF start
  <2>3. start \in Nat \ {0} /\ Count(start, hi) \in Nat
    BY <2>1, CountIsNat
  <2>4. CASE count - skip >= need
    <3> DEFINE m == NthNewline(start, hi, need)
    <3>1. CopyLines(lo, hi) = [bytes |-> start..m, finished |-> TRUE]
      BY <1>0, <1>1, <1>6, <2>4
    <3>2. need <= Count(start, hi)
      BY <1>0, <2>2, <2>3, <2>4
    <3>3. m \in newlines \cap (start..hi) /\ Count(start, m) = need
      <4> HIDE DEF need
      <4> QED
        BY <1>0, <2>3, <3>2, NthIsThere
    <3>4. \A p \in Nat : start <= p => (LineNo(p) >= LineNo(start) + need <=> p > m)
      <4> HIDE DEF need, m
      <4> QED
        BY <2>3, <3>3, NthCuts
    <3>5. LineNo(start) + need = request.to
      BY <1>0, <2>2
    <3> HIDE DEF need, m, skip
    <3>6. \A p \in Nat : start <= p => (LineNo(p) >= request.to <=> p > m)
      BY <3>4, <3>5
    <3>7. \A p \in lo..hi : Asked(p) <=> p \in start..m
      <4> SUFFICES ASSUME NEW p \in lo..hi PROVE Asked(p) <=> p \in start..m
        OBVIOUS
      <4>1. request.from <= LineNo(p) <=> p >= start
        BY <2>1
      <4>2. p >= start => (LineNo(p) >= request.to <=> p > m)
        BY <3>6
      <4>3. m \in Nat /\ LineNo(p) \in Nat /\ request.to \in Nat
        <5>1. \A n \in newlines : n \in Nat
          BY ScanAssumption DEF InputOK
        <5> QED
          BY <1>0, <1>3, <3>3, <5>1
      <4> QED
        BY <2>3, <4>1, <4>2, <4>3 DEF Asked
    <3>8. start..m \subseteq lo..hi
      BY <2>1, <3>3
    <3>9. start..m = {p \in lo..hi : Asked(p)}
      BY <3>7, <3>8
    <3>10. \A p \in Nat : p > hi => ~Asked(p)
      <4> SUFFICES ASSUME NEW p \in Nat, p > hi PROVE ~Asked(p)
        OBVIOUS
      <4>1. start <= p /\ p > m
        BY <2>3, <2>1, <3>3
      <4>2. LineNo(p) >= request.to /\ LineNo(p) \in Nat
        BY <1>4, <3>6, <4>1
      <4> QED
        BY <1>0, <4>2 DEF Asked
    <3> QED
      BY <3>1, <3>9, <3>10
  <2>5. CASE ~(count - skip >= need)
    <3>1. CopyLines(lo, hi) = [bytes |-> start..hi, finished |-> FALSE]
      BY <1>0, <1>1, <1>6, <2>5
    <3>2. line + count < request.to
      BY <1>0, <2>5
    <3>3. \A p \in lo..hi : LineNo(p) < request.to
      BY <1>0, <1>3, <3>2
    <3>4. start..hi = {p \in lo..hi : Asked(p)}
      BY <2>1, <3>3 DEF Asked
    <3> QED
      BY <1>2, <3>1, <3>2, <3>4
  <2> QED
    BY <2>4, <2>5
<1> QED
  BY <1>0, <1>5, <1>6

SliceInv ==
  request.task = "slice" =>
    /\ outcome = "none" =>
         /\ line = LineNo(at + 1) /\ line < request.to
         /\ written = {p \in 1..at : Asked(p)}
    /\ outcome = "answered" => written = {p \in 1..Size : Asked(p)}

\* One step of any task: what a slice has written is what was asked for of the
\* bytes read, and it stops early only when no more can follow.
LEMMA SliceStep == InputOK /\ SliceInv /\ [Next]_vars => SliceInv'
<1> SUFFICES ASSUME InputOK, SliceInv, [Next]_vars PROVE SliceInv'
  OBVIOUS
<1>0. newlines' = newlines /\ request' = request
  BY InputStays DEF input
<1>1. \A p : LineNo(p)' = LineNo(p) /\ Asked(p)' = Asked(p)
  BY <1>0 DEF LineNo, Asked
<1> SUFFICES ASSUME request.task = "slice" PROVE SliceInv'
  BY <1>0 DEF SliceInv
<1>2. CASE SliceChunk
  <2>1. PICK hi \in (at + 1)..Size :
          LET copy == CopyLines(at + 1, hi)
          IN /\ written' = written \cup copy.bytes
             /\ outcome' = IF copy.finished THEN "answered" ELSE outcome
             /\ line' = IF copy.finished THEN line
                        ELSE line + Cardinality(newlines \cap ((at + 1)..hi))
             /\ at' = hi
    BY <1>2 DEF SliceChunk
  <2>2. /\ at \in Nat /\ at + 1 \in Nat \ {0} /\ hi \in Nat /\ at + 1 <= hi /\ hi <= Size
        /\ (at + 1)..hi = {p \in 1..hi : p > at} /\ Size \in Nat
    BY ScanAssumption DEF InputOK
  <2>3. /\ outcome = "none" /\ line = LineNo(at + 1) /\ line < request.to
        /\ written = {p \in 1..at : Asked(p)}
    BY <1>2 DEF SliceInv, SliceChunk
  <2> DEFINE copy == CopyLines(at + 1, hi)
  <2>4. /\ copy.bytes = {p \in (at + 1)..hi : Asked(p)}
        /\ copy.finished \in BOOLEAN
        /\ copy.finished => \A p \in Nat : p > hi => ~Asked(p)
        /\ ~copy.finished =>
             line + Count(at + 1, hi) = LineNo(hi + 1) /\ LineNo(hi + 1) < request.to
    BY <2>2, <2>3, CopyIsExact
  <2>5. written' = {p \in 1..hi : Asked(p)}
    BY <2>1, <2>2, <2>3, <2>4
  <2>6. CASE copy.finished
    <3>1. outcome' = "answered"
      BY <2>1, <2>6
    <3>2. written' = {p \in 1..Size : Asked(p)}
      BY <2>2, <2>4, <2>5, <2>6
    <3> QED
      BY <1>1, <3>1, <3>2 DEF SliceInv
  <2>7. CASE ~copy.finished
    <3>1. outcome' = "none" /\ line' = line + Count(at + 1, hi) /\ at' = hi
      BY <2>1, <2>3, <2>7 DEF Count
    <3> HIDE DEF copy
    <3>2. line' = LineNo(at' + 1) /\ line' < request'.to
      BY <1>0, <2>4, <2>7, <3>1
    <3>3. LineNo(at + 1)' = LineNo(at' + 1)
      BY <1>0 DEF LineNo
    <3> QED
      BY <1>1, <2>5, <3>1, <3>2, <3>3 DEF SliceInv
  <2> QED
    BY <2>6, <2>7
<1>3. CASE SliceEnds
  <2>1. /\ outcome = "none" /\ at = Size /\ outcome' = "answered" /\ written' = written
    BY <1>3 DEF SliceEnds, sliceVars
  <2>2. written' = {p \in 1..Size : Asked(p)}
    BY <2>1 DEF SliceInv
  <2> QED
    BY <1>1, <2>1, <2>2 DEF SliceInv
<1>4. CASE DeadlineStops
  BY <1>4 DEF DeadlineStops, SliceInv
<1>5. CASE Feed \/ Collect \/ Finish \/ FetchBatch
  BY <1>5 DEF Feed, Collect, NextEvent, CountOnly, Match, ContextLine, Finish, FetchBatch
<1>6. CASE UNCHANGED vars
  BY <1>0, <1>6 DEF vars, SliceInv, sliceVars, LineNo, Asked
<1> QED
  BY <1>2, <1>3, <1>4, <1>5, <1>6 DEF Next

\* A slice's artifact is the lines that were asked for, byte for byte, wherever
\* the reads cut the artifact (run_slice, _copy_lines, _nth_newline).
THEOREM SliceExact == Spec => []SliceIsExact
<1>1. Init => SliceInv
  <2> SUFFICES ASSUME Init, request.task = "slice" PROVE SliceInv
    BY DEF SliceInv
  <2>1. InputOK /\ at = 0 /\ line = 1 /\ written = {} /\ outcome = "none"
    BY InputFirst DEF Init
  <2>2. Count(1, 0) = 0
    BY <2>1, CountOfNone, ScanAssumption DEF InputOK
  <2>3. LineNo(1) = 1
    BY <2>1, <2>2, LineNoIsCount
  <2>4. line < request.to
    BY <2>1, SliceRequest
  <2>5. at + 1 = 1 /\ 1..at = {}
    BY <2>1
  <2> QED
    BY <2>1, <2>3, <2>4, <2>5 DEF SliceInv
<1>2. InputOK /\ SliceInv /\ [Next]_vars => SliceInv'
  BY SliceStep
<1>3. SliceInv => SliceIsExact
  BY DEF SliceInv, SliceIsExact, Asked
<1> QED
  BY <1>1, <1>2, <1>3, InputAlways, PTL DEF Spec

-------------------------------------------------------------------------------
(* sql *)

\* The lines are numbered from one, without a gap.
LEMMA LinesAreNumbered ==
  ASSUME InputOK
  PROVE  /\ IsFiniteSet(Lines) /\ Cardinality(Lines) \in Nat
         /\ Lines = 1..Cardinality(Lines)
<1>0. Size \in Nat
  BY ScanAssumption
<1>1. CASE Size = 0
  <2>1. Lines = {} /\ 1..0 = {}
    BY <1>1 DEF Lines
  <2> QED
    BY <2>1, FS_EmptySet
<1>2. CASE Size > 0
  <2> DEFINE last == LineNo(Size)
  <2>1. LineNo(1) = 1
    <3>1. Count(1, 0) = 0
      BY CountOfNone, ScanAssumption DEF InputOK
    <3> QED
      BY <3>1, LineNoIsCount
  <2>2. \A p \in 1..Size : LineNo(p) \in 1..last
    <3> SUFFICES ASSUME NEW p \in 1..Size PROVE LineNo(p) \in 1..last
      OBVIOUS
    <3>1. LineNo(p) \in Nat \ {0} /\ LineNo(Size) \in Nat /\ LineNo(p) <= LineNo(Size)
      BY <1>0, LineNoDiffers
    <3> QED
      BY <3>1
  <2>3. ASSUME NEW l \in 1..last PROVE \E p \in 1..Size : LineNo(p) = l
    <3>1. CASE l = 1
      BY <1>0, <1>2, <2>1, <3>1
    <3>2. CASE l # 1
      <4>1. last = 1 + Count(1, Size - 1) /\ Count(1, Size - 1) \in Nat
        BY <1>0, LineNoIsCount, CountIsNat
      <4>2. l - 1 \in Nat \ {0} /\ l - 1 <= Count(1, Size - 1)
        BY <3>2, <4>1
      <4> DEFINE n == NthNewline(1, Size - 1, l - 1)
      <4>3. n \in newlines \cap (1..(Size - 1)) /\ Count(1, n) = l - 1
        <5>1. Size - 1 \in Nat /\ 1 \in Nat \ {0}
          BY <1>0, <1>2
        <5> QED
          BY <4>2, <5>1, NthIsThere
      <4> HIDE DEF n
      <4>4. n + 1 \in 1..Size /\ n + 1 \in Nat /\ (n + 1) - 1 = n
        BY <1>0, <4>3
      <4>5. LineNo(n + 1) = l
        BY <4>3, <4>4, LineNoIsCount
      <4> QED
        BY <4>4, <4>5
    <3> QED
      BY <3>1, <3>2
  <2>4. Lines = 1..last /\ last \in Nat
    <3>1. Size \in 1..Size
      BY <1>0, <1>2
    <3>2. last \in 1..last
      BY <2>2, <3>1
    <3> HIDE DEF last
    <3>3. \A l : l \in Lines => l \in 1..last
      BY <2>2 DEF Lines
    <3>4. \A l \in 1..last : l \in Lines
      BY <2>3 DEF Lines
    <3>5. last \in Nat
      BY <3>2
    <3> QED
      BY <3>3, <3>4, <3>5
  <2> HIDE DEF last
  <2> QED
    BY <2>4, FS_Interval
<1> QED
  BY <1>0, <1>1, <1>2

LEMMA SqlRequest ==
  ASSUME InputOK, request.task = "sql"
  PROVE  request.maxRows \in Nat \ {0} /\ request.batch \in Nat \ {0}
BY ScanAssumption DEF InputOK, RequestType

\* The rows kept are within the limits.
RowsFit ==
  /\ rows \in Nat /\ rows <= Cardinality(Lines) /\ rows <= request.maxRows
  /\ rows > 1 => CostUpTo(rows) <= Budget

SqlInv ==
  request.task = "sql" =>
    /\ outcome \in {"none", "answered"} => RowsFit
    /\ outcome = "none" => endedBy = ""
    /\ outcome = "answered" =>
         /\ (endedBy # "") <=> (rows < Cardinality(Lines))
         /\ Lines # {} => rows > 0

LEMMA SqlStep == InputOK /\ SqlInv /\ [Next]_vars => SqlInv'
<1> SUFFICES ASSUME InputOK, SqlInv, [Next]_vars PROVE SqlInv'
  OBVIOUS
<1>0. newlines' = newlines /\ request' = request /\ UNCHANGED input
  BY InputStays DEF input
<1>1. Lines' = Lines /\ \A r : CostUpTo(r)' = CostUpTo(r)
  BY <1>0, SameLines DEF CostUpTo
<1> SUFFICES ASSUME request.task = "sql" PROVE SqlInv'
  BY <1>0 DEF SqlInv
<1>2. CASE FetchBatch
  <2> DEFINE N == Cardinality(Lines)
             batch == Lines \cap ((rows + 1)..(rows + request.batch))
             stop  == {r \in batch : StopsAt(r) # ""}
  <2>1. /\ outcome = "none"
        /\ rows' = IF stop # {} THEN MinOf(stop) - 1 ELSE rows + Cardinality(batch)
        /\ endedBy' = IF stop # {} THEN StopsAt(MinOf(stop)) ELSE ""
        /\ outcome' = IF batch = {} \/ stop # {} THEN "answered" ELSE outcome
    BY <1>2 DEF FetchBatch
  <2>2. N \in Nat /\ Lines = 1..N
    BY LinesAreNumbered
  <2>3. request.maxRows \in Nat \ {0} /\ request.batch \in Nat \ {0}
    BY SqlRequest
  <2>4. rows \in Nat /\ rows <= N /\ rows <= request.maxRows /\ (rows > 1 => CostUpTo(rows) <= Budget)
    BY <2>1 DEF SqlInv, RowsFit
  <2> HIDE DEF N
  <2>5. \A r : r \in batch <=> r \in Nat /\ rows < r /\ r <= rows + request.batch /\ r <= N
    BY <2>2, <2>3, <2>4
  <2>6. \A r \in batch : r \notin stop => r <= request.maxRows /\ (r > 1 => CostUpTo(r) <= Budget)
    <3>1. \A r \in Nat : CostUpTo(r) \in Nat
      <4> SUFFICES ASSUME NEW r \in Nat PROVE CostUpTo(r) \in Nat
        OBVIOUS
      <4>1. IsFiniteSet(1..Size)
        BY FS_Interval, ScanAssumption
      <4>2. {p \in 1..Size : LineNo(p) <= r} \in SUBSET (1..Size)
        OBVIOUS
      <4>3. IsFiniteSet({p \in 1..Size : LineNo(p) <= r})
        BY <4>1, <4>2, FS_Subset
      <4> QED
        BY <4>3, FS_CardinalityType DEF CostUpTo
    <3>2. \A r \in Nat : StopsAt(r) = "" => r <= request.maxRows /\ (r > 1 => CostUpTo(r) <= Budget)
      BY <2>3, <3>1, ScanAssumption DEF StopsAt
    <3> QED
      BY <2>5, <3>2
  <2>7. CASE stop # {}
    <3> DEFINE r == MinOf(stop)
    <3>1. r \in stop /\ \A y \in stop : r <= y
      <4>1. stop \in SUBSET Nat
        BY <2>5
      <4> HIDE DEF stop
      <4> QED
        BY <2>7, <4>1, LeastIsThere
    <3>2. rows' = r - 1 /\ endedBy' = StopsAt(r) /\ outcome' = "answered" /\ endedBy' # ""
      BY <2>1, <2>7, <3>1
    <3>3. r \in Nat /\ rows < r /\ r <= rows + request.batch /\ r <= N
      BY <2>5, <3>1
    <3>4. r # 1
      <4>1. StopsAt(1) = ""
        BY <2>3 DEF StopsAt
      <4> QED
        BY <3>1, <4>1
    <3> HIDE DEF r
    <3>5. r - 1 <= request.maxRows /\ (r - 1 > 1 => CostUpTo(r - 1) <= Budget)
      <4>1. CASE r - 1 = rows
        BY <2>4, <4>1
      <4>2. CASE r - 1 # rows
        <5>1. r - 1 \in batch
          <6>1. r - 1 \in Nat /\ rows < r - 1 /\ r - 1 <= rows + request.batch /\ r - 1 <= N
            BY <2>2, <2>3, <2>4, <3>3, <4>2
          <6> QED
            BY <2>5, <6>1
        <5>2. r - 1 \notin stop
          <6> HIDE DEF stop
          <6>1. ~(r <= r - 1)
            BY <3>3
          <6> QED
            BY <3>1, <6>1
        <5> QED
          BY <2>6, <5>1, <5>2
      <4> QED
        BY <4>1, <4>2
    <3>6. rows' \in Nat /\ rows' <= N /\ rows' <= request.maxRows /\ rows' < N /\ rows' > 0
          /\ (rows' > 1 => CostUpTo(rows') <= Budget)
      <4>1. r - 1 \in Nat /\ r - 1 <= N /\ r - 1 < N /\ r - 1 > 0
        BY <2>2, <2>4, <3>3, <3>4
      <4>2. rows' = r - 1
        BY <3>2
      <4> QED
        BY <3>5, <4>1, <4>2
    <3>7. RowsFit'
      <4>1. CostUpTo(rows)' = CostUpTo(rows')
        BY <1>0 DEF CostUpTo, LineNo
      <4> QED
        BY <1>0, <1>1, <3>6, <4>1 DEF RowsFit, N
    <3> QED
      BY <1>0, <1>1, <3>2, <3>6, <3>7 DEF SqlInv, N
  <2>8. CASE stop = {} /\ batch = {}
    <3>1. rows = N
      <4>1. rows + 1 \notin batch
        BY <2>8
      <4> QED
        BY <2>2, <2>3, <2>4, <2>5, <4>1
    <3>2. rows' = rows /\ endedBy' = "" /\ outcome' = "answered"
      <4>1. Cardinality(batch) = 0
        BY <2>8, FS_EmptySet
      <4> HIDE DEF stop, batch
      <4>2. rows' = rows + Cardinality(batch) /\ endedBy' = "" /\ outcome' = "answered"
        BY <2>1, <2>8
      <4>3. rows + Cardinality(batch) = rows
        BY <2>4, <4>1
      <4> QED
        BY <4>2, <4>3
    <3>3. RowsFit'
      <4>1. CostUpTo(rows)' = CostUpTo(rows)
        BY <1>0, <3>2 DEF CostUpTo, LineNo
      <4> QED
        BY <1>0, <1>1, <2>4, <3>2, <4>1 DEF RowsFit, N
    <3>4. Lines # {} => rows > 0
      BY <2>2, <2>4, <3>1
    <3> QED
      <4>0. ~(rows < N)
        BY <2>2, <3>1
      <4>1. endedBy' = "" /\ outcome' = "answered" /\ ~(rows < N) /\ rows' = rows
        BY <3>2, <4>0
      <4>2. Cardinality(Lines') = N /\ (Lines' # {} => rows' > 0)
        BY <1>1, <3>4, <4>1 DEF N
      <4> QED
        BY <3>3, <4>1, <4>2 DEF SqlInv
  <2>9. CASE stop = {} /\ batch # {}
    <3> DEFINE k == IF rows + request.batch <= N THEN rows + request.batch ELSE N
    <3>1. k \in batch /\ batch = (rows + 1)..k
      <4>1. rows < N
        <5>1. PICK r \in batch : TRUE
          BY <2>9
        <5>2. r \in Nat /\ rows < r /\ r <= N
          BY <2>5, <5>1
        <5> QED
          BY <2>2, <2>4, <5>2
      <4>2. k \in Nat /\ rows < k /\ k <= rows + request.batch /\ k <= N
        BY <2>2, <2>3, <2>4, <4>1
      <4>3. k \in batch
        BY <2>5, <4>2
      <4>4. \A r : r \in batch <=> r \in (rows + 1)..k
        BY <2>2, <2>3, <2>4, <2>5, <4>2
      <4> HIDE DEF batch, k
      <4> QED
        BY <4>3, <4>4
    <3>2. k \in Nat /\ rows < k /\ k <= N
      BY <2>5, <3>1
    <3> HIDE DEF k
    <3>3. Cardinality(batch) = k - rows
      <4>1. rows + 1 \in Int /\ k \in Int /\ ~(rows + 1 > k) /\ k - (rows + 1) + 1 = k - rows
        BY <2>4, <3>2
      <4> QED
        BY <3>1, <4>1, FS_Interval
    <3>4. rows' = k /\ endedBy' = "" /\ outcome' = "none"
      <4> HIDE DEF batch, stop
      <4>1. rows' = rows + Cardinality(batch) /\ endedBy' = "" /\ outcome' = "none"
        BY <2>1, <2>9
      <4>2. rows + Cardinality(batch) = k
        BY <2>4, <3>2, <3>3
      <4> QED
        BY <4>1, <4>2
    <3>5. k <= request.maxRows /\ (k > 1 => CostUpTo(k) <= Budget)
      BY <2>6, <2>9, <3>1
    <3>6. RowsFit'
      <4>1. CostUpTo(rows)' = CostUpTo(k)
        BY <1>0, <3>4 DEF CostUpTo, LineNo
      <4> QED
        BY <1>0, <1>1, <3>2, <3>4, <3>5, <4>1 DEF RowsFit, N
    <3> QED
      BY <1>0, <3>4, <3>6 DEF SqlInv
  <2> QED
    BY <2>7, <2>8, <2>9
<1>3. CASE DeadlineStops
  BY <1>3 DEF DeadlineStops, SqlInv
<1>4. CASE Feed \/ Collect \/ Finish \/ SliceChunk \/ SliceEnds
  BY <1>4 DEF Feed, Collect, NextEvent, CountOnly, Match, ContextLine, Finish, SliceChunk, SliceEnds
<1>5. CASE UNCHANGED vars
  <2>1. rows' = rows /\ endedBy' = endedBy /\ outcome' = outcome
    BY <1>5 DEF vars, rowVars
  <2>2. CostUpTo(rows)' = CostUpTo(rows)
    BY <1>0, <2>1 DEF CostUpTo, LineNo
  <2> QED
    BY <1>0, <1>1, <2>1, <2>2 DEF SqlInv, RowsFit
<1> QED
  BY <1>2, <1>3, <1>4, <1>5 DEF Next

\* A query's answer is a prefix of its rows, within the limits but for a first
\* row over the budget, and is said to be cut exactly when a row is missing
\* (run_sql).
THEOREM RowsPrefix == Spec => []RowsAreAPrefix
<1>1. Init => SqlInv
  <2> SUFFICES ASSUME Init, request.task = "sql" PROVE SqlInv
    BY DEF SqlInv
  <2>1. InputOK /\ rows = 0 /\ endedBy = "" /\ outcome = "none"
    BY InputFirst DEF Init
  <2>2. Cardinality(Lines) \in Nat /\ request.maxRows \in Nat
    BY <2>1, LinesAreNumbered, SqlRequest
  <2>3. 0 <= Cardinality(Lines) /\ 0 <= request.maxRows /\ ~(0 > 1)
    BY <2>2
  <2> QED
    BY <2>1, <2>3, 0 \in Nat DEF SqlInv, RowsFit
<1>2. InputOK /\ SqlInv /\ [Next]_vars => SqlInv'
  BY SqlStep
<1>3. SqlInv => RowsAreAPrefix
  BY DEF SqlInv, RowsFit, RowsAreAPrefix
<1> QED
  BY <1>1, <1>2, <1>3, InputAlways, PTL DEF Spec

-------------------------------------------------------------------------------
(* grep: the feeder *)

\* Among any b naturals in a row is a multiple of b.
LEMMA MultipleIsThere ==
  ASSUME NEW b \in Nat \ {0}, NEW a \in Nat
  PROVE  \E t \in a..(a + b - 1) : t % b = 0
<1> DEFINE S == {n \in Nat : b * n >= a}
<1>1. a \in S
  <2>1. b * a >= a
    OBVIOUS
  <2> QED
    BY <2>1
<1>2. PICK n \in S : \A m \in S : n <= m
  BY <1>1, LeastIsThere
<1>3. b * n < a + b
  <2>1. CASE n = 0
    BY <2>1
  <2>2. CASE n # 0
    <3>1. n - 1 \in Nat /\ n - 1 \notin S
      BY <1>2, <2>2
    <3>2. b * (n - 1) < a
      BY <3>1
    <3>3. b * (n - 1) = b * n - b
      OBVIOUS
    <3> QED
      BY <3>2, <3>3
  <2> QED
    BY <2>1, <2>2
<1>4. (b * n) % b = 0
  OBVIOUS
<1>5. b * n \in a..(a + b - 1)
  BY <1>3
<1> QED
  BY <1>4, <1>5

\* Where a line starts: after the last newline before the place.
LEMMA LineStartIs ==
  ASSUME InputOK, NEW p \in Nat \ {0}
  PROVE  /\ LineStart(p) \in 1..p
         /\ LineStart(p) = 1 \/ LineStart(p) - 1 \in newlines
         /\ \A n \in newlines : ~(LineStart(p) <= n /\ n < p)
<1> DEFINE S == {0} \cup {n \in newlines : n < p}
<1>0. \A n \in newlines : n \in Nat /\ 1 <= n
  BY ScanAssumption DEF InputOK
<1>1. S \in SUBSET Nat /\ 0 \in S /\ \A y \in S : y <= p
  BY <1>0
<1>2. MaxOf(S) \in S /\ \A y \in S : MaxOf(S) >= y
  <2> HIDE DEF S
  <2> QED
    BY <1>1, GreatestIsThere
<1>3. LineStart(p) = 1 + MaxOf(S)
  BY DEF LineStart
<1> QED
  BY <1>0, <1>2, <1>3

LEMMA LineStartIsThis ==
  ASSUME InputOK, NEW p \in Nat \ {0}, NEW s \in 1..p, s = 1 \/ s - 1 \in newlines,
         \A n \in newlines : ~(s <= n /\ n < p)
  PROVE  LineStart(p) = s
<1>0. \A n \in newlines : n \in Nat /\ 1 <= n
  BY ScanAssumption DEF InputOK
<1>1. /\ LineStart(p) \in 1..p
      /\ LineStart(p) = 1 \/ LineStart(p) - 1 \in newlines
      /\ \A n \in newlines : ~(LineStart(p) <= n /\ n < p)
  BY LineStartIs
<1>2. ~(LineStart(p) < s)
  <2>1. ASSUME LineStart(p) < s PROVE FALSE
    <3>1. s - 1 \in newlines
      BY <1>1, <2>1
    <3> QED
      BY <1>1, <2>1, <3>1
  <2> QED
    BY <2>1
<1>3. ~(s < LineStart(p))
  <2>1. ASSUME s < LineStart(p) PROVE FALSE
    <3>1. LineStart(p) - 1 \in newlines
      BY <1>1, <2>1
    <3> QED
      BY <1>1, <2>1, <3>1
  <2> QED
    BY <2>1
<1> QED
  BY <1>1, <1>2, <1>3

\* A byte the feeder lets through, and the first byte of a line it drops.
Fits(p) == p \in newlines \/ p - LineStart(p) < Limit
Over(p) == p \notin newlines /\ p - LineStart(p) = Limit

\* The bytes of the line in progress before position p.
Begun(p) == p - LineStart(p)

FeedInv ==
  request.task = "grep" =>
    /\ passed = {p \in 1..at : Fits(p)}
    /\ longLines = Cardinality({p \in 1..at : Over(p)})
    /\ dropping \in BOOLEAN /\ (dropping <=> Begun(at + 1) > Limit)
    /\ unfinished = IF dropping THEN Limit ELSE Begun(at + 1)

\* A segment of a chunk: it lies in one line, and ends before the line's newline
\* or with the chunk.
LEMMA SegmentIs ==
  ASSUME InputOK, NEW lo \in Nat \ {0}, NEW hi \in Nat, lo <= hi, NEW s \in Segments(lo, hi)
  PROVE  /\ s \in lo..hi /\ SegmentEnd(s, hi) \in s..(hi + 1)
         /\ s = lo \/ (s - 1 \in newlines /\ lo <= s - 1 /\ LineStart(s) = s)
         /\ SegmentEnd(s, hi) = hi + 1 \/ SegmentEnd(s, hi) \in newlines
         /\ \A n \in newlines : ~(s <= n /\ n < SegmentEnd(s, hi))
         /\ \A p \in s..SegmentEnd(s, hi) : LineStart(p) = LineStart(s)
<1> DEFINE e == SegmentEnd(s, hi)
<1>0. \A n \in newlines : n \in Nat /\ 1 <= n
  BY ScanAssumption DEF InputOK
<1>1. s \in lo..hi /\ (s = lo \/ (s - 1 \in newlines /\ lo <= s - 1))
  BY <1>0 DEF Segments
<1>2. s \in Nat \ {0}
  BY <1>1
<1>3. s = lo \/ LineStart(s) = s
  <2>1. ASSUME s # lo PROVE LineStart(s) = s
    <3>1. \A n \in newlines : ~(s <= n /\ n < s)
      BY <1>0, <1>2
    <3> QED
      BY <1>1, <1>2, <2>1, <3>1, LineStartIsThis
  <2> QED
    BY <2>1
<1>4. /\ e \in {hi + 1} \cup (newlines \cap (s..hi))
      /\ \A y \in {hi + 1} \cup (newlines \cap (s..hi)) : e <= y
  <2>1. {hi + 1} \cup (newlines \cap (s..hi)) \in SUBSET Nat
    BY <1>0
  <2> QED
    BY <2>1, LeastIsThere DEF SegmentEnd
<1> HIDE DEF e
<1>5. e \in s..(hi + 1) /\ (e = hi + 1 \/ e \in newlines)
  BY <1>1, <1>4
<1>6. \A n \in newlines : ~(s <= n /\ n < e)
  BY <1>0, <1>1, <1>4, <1>5
<1>7. \A p \in s..e : LineStart(p) = LineStart(s)
  <2> SUFFICES ASSUME NEW p \in s..e PROVE LineStart(p) = LineStart(s)
    OBVIOUS
  <2>1. /\ LineStart(s) \in 1..s
        /\ LineStart(s) = 1 \/ LineStart(s) - 1 \in newlines
        /\ \A n \in newlines : ~(LineStart(s) <= n /\ n < s)
    BY <1>2, LineStartIs
  <2>2. p \in Nat \ {0} /\ LineStart(s) \in 1..p
    BY <1>2, <1>5, <2>1
  <2>3. \A n \in newlines : ~(LineStart(s) <= n /\ n < p)
    BY <1>0, <1>2, <1>5, <1>6, <2>1
  <2> QED
    BY <2>1, <2>2, <2>3, LineStartIsThis
<1> QED
  BY <1>1, <1>3, <1>5, <1>6, <1>7 DEF e

LEMMA SegmentOfByte ==
  ASSUME InputOK, NEW lo \in Nat \ {0}, NEW hi \in Nat, lo <= hi, NEW p \in lo..hi
  PROVE  \E s \in Segments(lo, hi) : p \in s..SegmentEnd(s, hi)
<1> DEFINE s == IF LineStart(p) >= lo THEN LineStart(p) ELSE lo
<1>0. \A n \in newlines : n \in Nat /\ 1 <= n
  BY ScanAssumption DEF InputOK
<1>1. /\ LineStart(p) \in 1..p
      /\ LineStart(p) = 1 \/ LineStart(p) - 1 \in newlines
      /\ \A n \in newlines : ~(LineStart(p) <= n /\ n < p)
  <2>1. p \in Nat \ {0}
    OBVIOUS
  <2> QED
    BY <2>1, LineStartIs
<1>2. s \in lo..p /\ \A n \in newlines : ~(s <= n /\ n < p)
  BY <1>0, <1>1
<1>3. s \in Segments(lo, hi)
  <2>1. CASE s = lo
    BY <2>1 DEF Segments
  <2>2. CASE s # lo
    <3>1. LineStart(p) > lo /\ s = LineStart(p)
      BY <1>1, <2>2
    <3>2. s - 1 \in newlines \cap (lo..(hi - 1)) /\ (s - 1) + 1 = s
      BY <1>1, <3>1
    <3> HIDE DEF s
    <3> QED
      BY <3>2 DEF Segments
  <2> QED
    BY <2>1, <2>2
<1> HIDE DEF s
<1>4. /\ SegmentEnd(s, hi) \in s..(hi + 1)
      /\ SegmentEnd(s, hi) = hi + 1 \/ SegmentEnd(s, hi) \in newlines
  BY <1>3, SegmentIs
<1>5. p \in s..SegmentEnd(s, hi)
  <2>1. ASSUME SegmentEnd(s, hi) < p PROVE FALSE
    <3>1. SegmentEnd(s, hi) \in newlines /\ s <= SegmentEnd(s, hi)
      BY <1>2, <1>4, <2>1
    <3> QED
      BY <1>2, <2>1, <3>1
  <2> QED
    BY <1>2, <1>4, <2>1
<1> QED
  BY <1>3, <1>5

LEMMA SegmentsApart ==
  ASSUME InputOK, NEW lo \in Nat \ {0}, NEW hi \in Nat, lo <= hi,
         NEW s \in Segments(lo, hi), NEW t \in Segments(lo, hi), NEW p,
         p \in s..SegmentEnd(s, hi), p \in t..SegmentEnd(t, hi)
  PROVE  s = t
<1>1. ASSUME NEW a \in Segments(lo, hi), NEW b \in Segments(lo, hi), a < b,
             p \in a..SegmentEnd(a, hi), p \in b..SegmentEnd(b, hi)
      PROVE  FALSE
  <2>1. /\ a \in lo..hi /\ SegmentEnd(a, hi) \in a..(hi + 1)
        /\ \A n \in newlines : ~(a <= n /\ n < SegmentEnd(a, hi))
    BY SegmentIs
  <2>2. b \in lo..hi /\ (b = lo \/ b - 1 \in newlines)
    BY SegmentIs
  <2>3. b - 1 \in newlines /\ a <= b - 1
    BY <1>1, <2>1, <2>2
  <2>4. SegmentEnd(a, hi) <= b - 1
    BY <2>1, <2>2, <2>3
  <2> QED
    BY <1>1, <2>1, <2>2, <2>4
<1>2. s \in lo..hi /\ t \in lo..hi
  BY SegmentIs
<1>3. ~(s < t) /\ ~(t < s)
  BY <1>1
<1> QED
  BY <1>2, <1>3

\* The state between two chunks, as far as the feeder goes.
FeedState(lo) ==
  /\ dropping \in BOOLEAN /\ (dropping <=> Begun(lo) > Limit)
  /\ unfinished = IF dropping THEN Limit ELSE Begun(lo)

\* What a segment carries: the bytes of its line before it.
LEMMA SegmentCarries ==
  ASSUME InputOK, NEW lo \in Nat \ {0}, NEW hi \in Nat, lo <= hi, NEW s \in Segments(lo, hi),
         FeedState(lo)
  PROVE  /\ Dropped(s, lo) \in BOOLEAN /\ Carried(s, lo) \in Nat /\ LineStart(s) \in 1..s
         /\ Dropped(s, lo) <=> Begun(s) > Limit
         /\ ~Dropped(s, lo) => Carried(s, lo) = Begun(s)
         /\ Dropped(s, lo) => unfinished = Limit
<1>0. Limit \in Nat \ {0}
  BY ScanAssumption
<1>1. s \in lo..hi /\ (s = lo \/ LineStart(s) = s)
  BY SegmentIs
<1>2. LineStart(s) \in 1..s /\ LineStart(lo) \in 1..lo
  <2>1. s \in Nat \ {0}
    BY <1>1
  <2> QED
    BY <2>1, LineStartIs
<1>3. CASE s = lo
  <2>1. dropping \in BOOLEAN /\ (dropping <=> Begun(lo) > Limit)
    BY DEF FeedState
  <2>2. (Dropped(s, lo) <=> dropping) /\ Dropped(s, lo) \in BOOLEAN /\ Carried(s, lo) = unfinished
    BY <1>3, <2>1 DEF Dropped, Carried
  <2>3. /\ dropping => unfinished = Limit
        /\ ~dropping => unfinished = Begun(lo)
    BY DEF FeedState
  <2>4. Begun(lo) \in Nat
    BY <1>2 DEF Begun
  <2> QED
    BY <1>0, <1>2, <1>3, <2>1, <2>2, <2>3, <2>4
<1>4. CASE s # lo
  BY <1>0, <1>1, <1>2, <1>4 DEF FeedState, Dropped, Carried, Begun
<1> QED
  BY <1>3, <1>4

\* Of a segment, the feeder lets through what fits.
LEMMA SegmentKeeps ==
  ASSUME InputOK, NEW lo \in Nat \ {0}, NEW hi \in Nat, lo <= hi, NEW s \in Segments(lo, hi),
         FeedState(lo)
  PROVE  \A p : p \in KeptOf(s, lo, hi) <=> p \in s..SegmentEnd(s, hi) /\ p <= hi /\ Fits(p)
<1> DEFINE e == SegmentEnd(s, hi)
<1>0. Limit \in Nat \ {0} /\ \A n \in newlines : n \in Nat
  BY ScanAssumption DEF InputOK
<1>1. /\ s \in lo..hi /\ e \in s..(hi + 1)
      /\ e = hi + 1 \/ e \in newlines
      /\ \A n \in newlines : ~(s <= n /\ n < e)
      /\ \A p \in s..e : LineStart(p) = LineStart(s)
  BY SegmentIs
<1>2. /\ Dropped(s, lo) \in BOOLEAN /\ Carried(s, lo) \in Nat /\ LineStart(s) \in 1..s
      /\ Dropped(s, lo) <=> s - LineStart(s) > Limit
      /\ ~Dropped(s, lo) => Carried(s, lo) = s - LineStart(s)
  BY SegmentCarries DEF Begun
<1>3. TooLong(s, lo, hi) <=> ~Dropped(s, lo) /\ e - s > Limit - Carried(s, lo)
  BY DEF TooLong
<1>4. \A p : p \in KeptOf(s, lo, hi) <=>
               \/ /\ ~Dropped(s, lo)
                  /\ p \in IF TooLong(s, lo, hi) THEN s..(s + Limit - Carried(s, lo) - 1) ELSE s..(e - 1)
               \/ p = e /\ p \in lo..hi
  BY DEF KeptOf
<1> HIDE DEF e
<1> SUFFICES ASSUME NEW p
             PROVE  p \in KeptOf(s, lo, hi) <=> p \in s..e /\ p <= hi /\ Fits(p)
  BY DEF e
<1>5. CASE p \in s..(e - 1)
  <2>1. p \in Nat /\ s <= p /\ p < e /\ p <= hi /\ p \in s..e /\ p \notin newlines
    BY <1>1, <1>5
  <2>2. Fits(p) <=> p - LineStart(s) < Limit
    BY <1>1, <2>1 DEF Fits
  <2>3. p # e
    BY <1>1, <2>1
  <2>4. CASE Dropped(s, lo)
    <3>1. ~(p - LineStart(s) < Limit)
      BY <1>0, <1>1, <1>2, <2>1, <2>4
    <3> QED
      BY <1>4, <2>2, <2>3, <2>4, <3>1
  <2>5. CASE ~Dropped(s, lo) /\ TooLong(s, lo, hi)
    <3>1. p - LineStart(s) < Limit <=> p \in s..(s + Limit - Carried(s, lo) - 1)
      BY <1>0, <1>1, <1>2, <2>1, <2>5
    <3> QED
      BY <1>4, <2>1, <2>2, <2>3, <2>5, <3>1
  <2>6. CASE ~Dropped(s, lo) /\ ~TooLong(s, lo, hi)
    <3>1. p - LineStart(s) < Limit
      BY <1>0, <1>1, <1>2, <1>3, <2>1, <2>6
    <3> QED
      BY <1>4, <1>5, <2>1, <2>2, <2>6, <3>1
  <2> QED
    BY <1>2, <2>4, <2>5, <2>6
<1>6. CASE p = e
  <2>1. p \in s..e /\ (p \in lo..hi <=> p <= hi)
    BY <1>1, <1>6
  <2>2. p <= hi => Fits(p)
    BY <1>1, <1>6 DEF Fits
  <2>3. p \in KeptOf(s, lo, hi) => p <= hi
    <3>1. p \notin s..(e - 1)
      BY <1>1, <1>6
    <3>2. TooLong(s, lo, hi) => p \notin s..(s + Limit - Carried(s, lo) - 1)
      BY <1>0, <1>1, <1>2, <1>3, <1>6
    <3> QED
      BY <1>4, <2>1, <3>1, <3>2
  <2> QED
    BY <1>4, <1>6, <2>1, <2>2, <2>3
<1>7. CASE p \notin s..(e - 1) /\ p # e
  <2>1. p \notin s..e
    BY <1>1, <1>7
  <2>2. TooLong(s, lo, hi) => p \notin s..(s + Limit - Carried(s, lo) - 1)
    BY <1>0, <1>1, <1>2, <1>3, <1>7
  <2> QED
    BY <1>4, <1>7, <2>1, <2>2
<1> QED
  BY <1>5, <1>6, <1>7

LEMMA ChunkKeeps ==
  ASSUME InputOK, NEW lo \in Nat \ {0}, NEW hi \in Nat, lo <= hi, FeedState(lo)
  PROVE  UNION {KeptOf(s, lo, hi) : s \in Segments(lo, hi)} = {p \in lo..hi : Fits(p)}
<1>1. ASSUME NEW s \in Segments(lo, hi), NEW p \in KeptOf(s, lo, hi)
      PROVE  p \in lo..hi /\ Fits(p)
  <2>1. p \in s..SegmentEnd(s, hi) /\ p <= hi /\ Fits(p)
    BY SegmentKeeps
  <2>2. s \in lo..hi /\ SegmentEnd(s, hi) \in s..(hi + 1)
    BY SegmentIs
  <2> QED
    BY <2>1, <2>2
<1>2. ASSUME NEW p \in lo..hi, Fits(p)
      PROVE  \E s \in Segments(lo, hi) : p \in KeptOf(s, lo, hi)
  <2>1. PICK s \in Segments(lo, hi) : p \in s..SegmentEnd(s, hi)
    BY SegmentOfByte
  <2>2. p <= hi
    OBVIOUS
  <2> QED
    BY <1>2, <2>1, <2>2, SegmentKeeps
<1> QED
  BY <1>1, <1>2

\* A segment is the one in which its line goes over the limit when it holds the
\* first byte the feeder drops.
LEMMA SegmentOverruns ==
  ASSUME InputOK, NEW lo \in Nat \ {0}, NEW hi \in Nat, lo <= hi, NEW s \in Segments(lo, hi),
         FeedState(lo)
  PROVE  /\ TooLong(s, lo, hi) =>
              LET p == s + Limit - Carried(s, lo)
              IN p \in s..SegmentEnd(s, hi) /\ p \in lo..hi /\ Over(p)
         /\ \A p \in lo..hi : p \in s..SegmentEnd(s, hi) /\ Over(p) =>
              TooLong(s, lo, hi) /\ p = s + Limit - Carried(s, lo)
<1> DEFINE e == SegmentEnd(s, hi)
<1>0. Limit \in Nat \ {0} /\ \A n \in newlines : n \in Nat
  BY ScanAssumption DEF InputOK
<1>1. /\ s \in lo..hi /\ e \in s..(hi + 1)
      /\ e = hi + 1 \/ e \in newlines
      /\ \A n \in newlines : ~(s <= n /\ n < e)
      /\ \A p \in s..e : LineStart(p) = LineStart(s)
  BY SegmentIs
<1>2. /\ Dropped(s, lo) \in BOOLEAN /\ Carried(s, lo) \in Nat /\ LineStart(s) \in 1..s
      /\ Dropped(s, lo) <=> s - LineStart(s) > Limit
      /\ ~Dropped(s, lo) => Carried(s, lo) = s - LineStart(s)
  BY SegmentCarries DEF Begun
<1>3. TooLong(s, lo, hi) <=> ~Dropped(s, lo) /\ e - s > Limit - Carried(s, lo)
  BY DEF TooLong
<1> HIDE DEF e
<1>4. ASSUME TooLong(s, lo, hi)
      PROVE  LET p == s + Limit - Carried(s, lo)
             IN p \in s..e /\ p \in lo..hi /\ Over(p)
  <2> DEFINE p == s + Limit - Carried(s, lo)
  <2>1. p \in s..e /\ p < e /\ p \in lo..hi /\ p - LineStart(s) = Limit
    BY <1>0, <1>1, <1>2, <1>3, <1>4
  <2> HIDE DEF p
  <2>2. p \notin newlines /\ LineStart(p) = LineStart(s)
    BY <1>1, <2>1
  <2>3. p \in s..e /\ p \in lo..hi /\ Over(p)
    BY <2>1, <2>2 DEF Over
  <2> QED
    BY <2>3 DEF p
<1>5. ASSUME NEW p \in lo..hi, p \in s..e, Over(p)
      PROVE  TooLong(s, lo, hi) /\ p = s + Limit - Carried(s, lo)
  <2>1. p \notin newlines /\ p - LineStart(s) = Limit
    BY <1>1, <1>5 DEF Over
  <2>2. p < e
    BY <1>1, <1>5, <2>1
  <2>3. ~Dropped(s, lo)
    BY <1>0, <1>1, <1>2, <1>5, <2>1
  <2> QED
    BY <1>0, <1>1, <1>2, <1>3, <1>5, <2>1, <2>2, <2>3
<1> QED
  BY <1>4, <1>5 DEF e

\* The lines counted as long in a chunk are those that go over the limit in it.
LEMMA ChunkCounts ==
  ASSUME InputOK, NEW lo \in Nat \ {0}, NEW hi \in Nat, lo <= hi, FeedState(lo)
  PROVE  Cardinality({s \in Segments(lo, hi) : TooLong(s, lo, hi)})
           = Cardinality({p \in lo..hi : Over(p)})
<1> DEFINE S == {s \in Segments(lo, hi) : TooLong(s, lo, hi)}
           T == {p \in lo..hi : Over(p)}
           f == [s \in S |-> s + Limit - Carried(s, lo)]
<1>1. IsFiniteSet(S)
  <2>1. \A s \in S : s \in lo..hi
    BY SegmentIs
  <2>2. S \in SUBSET (lo..hi)
    BY <2>1
  <2>3. IsFiniteSet(lo..hi)
    BY FS_Interval
  <2> HIDE DEF S
  <2> QED
    BY <2>2, <2>3, FS_Subset
<1>2. \A s \in S : f[s] \in T /\ f[s] \in s..SegmentEnd(s, hi)
  BY SegmentOverruns
<1>3. \A s, t \in S : f[s] = f[t] => s = t
  <2> SUFFICES ASSUME NEW s \in S, NEW t \in S, f[s] = f[t] PROVE s = t
    OBVIOUS
  <2>1. f[s] \in s..SegmentEnd(s, hi) /\ f[s] \in t..SegmentEnd(t, hi)
    BY <1>2
  <2> HIDE DEF f
  <2> QED
    BY <2>1, SegmentsApart
<1>4. \A p \in T : \E s \in S : f[s] = p
  <2> SUFFICES ASSUME NEW p \in T PROVE \E s \in S : f[s] = p
    OBVIOUS
  <2>1. PICK s \in Segments(lo, hi) : p \in s..SegmentEnd(s, hi)
    BY SegmentOfByte
  <2>2. TooLong(s, lo, hi) /\ p = s + Limit - Carried(s, lo)
    BY <2>1, SegmentOverruns
  <2> QED
    BY <2>2
<1>5. f \in [S -> T]
  BY <1>2
<1> HIDE DEF S, T, f
<1>6. f \in Bijection(S, T)
  BY <1>3, <1>4, <1>5 DEF Bijection, Injection, Surjection, IsInjective
<1>7. ExistsBijection(S, T)
  BY <1>6 DEF ExistsBijection
<1> QED
  BY <1>1, <1>7, FS_Bijection DEF S, T

\* What a chunk that is cut leaves for the next one.
LEMMA CutEnds ==
  ASSUME InputOK, NEW lo \in Nat \ {0}, NEW hi \in Nat, lo <= hi, FeedState(lo), CutChunk(lo, hi)
  PROVE  /\ dropping' \in BOOLEAN /\ (dropping' <=> Begun(hi + 1) > Limit)
         /\ unfinished' = IF dropping' THEN Limit ELSE Begun(hi + 1)
<1> DEFINE s == MaxOf(Segments(lo, hi))
<1>0. Limit \in Nat \ {0} /\ \A n \in newlines : n \in Nat /\ 1 <= n
  BY ScanAssumption DEF InputOK
<1>1. s \in Segments(lo, hi) /\ \A y \in Segments(lo, hi) : s >= y
  <2>1. Segments(lo, hi) \in SUBSET Nat /\ \A y \in Segments(lo, hi) : y <= hi
    BY SegmentIs
  <2>2. lo \in Segments(lo, hi)
    BY DEF Segments
  <2> QED
    BY <2>1, <2>2, GreatestIsThere
<1>2. IF hi \in newlines
        THEN unfinished' = 0 /\ dropping' = FALSE
        ELSE /\ dropping' = (Dropped(s, lo) \/ TooLong(s, lo, hi))
             /\ unfinished' = IF TooLong(s, lo, hi) THEN Limit
                              ELSE IF Dropped(s, lo) THEN unfinished
                              ELSE Carried(s, lo) + SegmentEnd(s, hi) - s
  BY DEF CutChunk
<1> HIDE DEF s
<1>3. CASE hi \in newlines
  <2>1. LineStart(hi + 1) = hi + 1
    <3>1. hi + 1 \in Nat \ {0} /\ hi + 1 \in 1..(hi + 1) /\ (hi + 1) - 1 \in newlines
      BY <1>3
    <3>2. \A n \in newlines : ~(hi + 1 <= n /\ n < hi + 1)
      BY <1>0
    <3> QED
      BY <3>1, <3>2, LineStartIsThis
  <2>2. Begun(hi + 1) = 0
    BY <2>1 DEF Begun
  <2>3. ~(Begun(hi + 1) > Limit)
    BY <1>0, <2>2
  <2>4. dropping' = FALSE /\ unfinished' = 0
    BY <1>2, <1>3
  <2> QED
    BY <2>2, <2>3, <2>4
<1>4. CASE hi \notin newlines
  <2> DEFINE e == SegmentEnd(s, hi)
  <2>1. /\ s \in lo..hi /\ e \in s..(hi + 1)
        /\ e = hi + 1 \/ e \in newlines
        /\ \A p \in s..e : LineStart(p) = LineStart(s)
    BY <1>1, SegmentIs
  <2>2. /\ Dropped(s, lo) \in BOOLEAN /\ Carried(s, lo) \in Nat /\ LineStart(s) \in 1..s
        /\ Dropped(s, lo) <=> s - LineStart(s) > Limit
        /\ ~Dropped(s, lo) => Carried(s, lo) = s - LineStart(s)
        /\ Dropped(s, lo) => unfinished = Limit
    BY <1>1, SegmentCarries DEF Begun
  <2>3. TooLong(s, lo, hi) <=> ~Dropped(s, lo) /\ e - s > Limit - Carried(s, lo)
    BY DEF TooLong
  <2>a. /\ dropping' = (Dropped(s, lo) \/ TooLong(s, lo, hi))
        /\ unfinished' = IF TooLong(s, lo, hi) THEN Limit
                         ELSE IF Dropped(s, lo) THEN unfinished
                         ELSE Carried(s, lo) + e - s
    BY <1>2, <1>4
  <2>b. TooLong(s, lo, hi) \in BOOLEAN
    BY DEF TooLong
  <2> HIDE DEF e
  <2>4. e = hi + 1
    <3>1. ASSUME e # hi + 1 PROVE FALSE
      <4>1. e \in newlines \cap (lo..(hi - 1))
        BY <1>4, <2>1, <3>1
      <4>2. e + 1 \in Segments(lo, hi)
        BY <4>1 DEF Segments
      <4> QED
        BY <1>1, <2>1, <4>2
    <3> QED
      BY <2>1, <3>1
  <2>5. Begun(hi + 1) = e - LineStart(s)
    <3>1. hi + 1 \in s..e
      BY <2>1, <2>4
    <3> QED
      BY <2>1, <2>4, <3>1 DEF Begun
  <2>6. CASE Dropped(s, lo)
    <3>1. ~TooLong(s, lo, hi) /\ dropping' = TRUE /\ unfinished' = Limit
      BY <2>2, <2>3, <2>6, <2>a
    <3>2. Begun(hi + 1) > Limit
      BY <1>0, <2>1, <2>2, <2>5, <2>6
    <3> QED
      BY <3>1, <3>2
  <2>7. CASE TooLong(s, lo, hi)
    <3>1. dropping' = TRUE /\ unfinished' = Limit
      BY <2>7, <2>a
    <3>2. Begun(hi + 1) > Limit
      BY <1>0, <2>1, <2>2, <2>3, <2>5, <2>7
    <3> QED
      BY <3>1, <3>2
  <2>8. CASE ~Dropped(s, lo) /\ ~TooLong(s, lo, hi)
    <3>1. dropping' = FALSE /\ unfinished' = Carried(s, lo) + e - s
      BY <2>8, <2>a
    <3>2. ~(Begun(hi + 1) > Limit) /\ Carried(s, lo) + e - s = Begun(hi + 1)
      BY <1>0, <2>1, <2>2, <2>3, <2>5, <2>8
    <3> QED
      BY <3>1, <3>2
  <2> QED
    BY <2>6, <2>7, <2>8
<1> QED
  BY <1>3, <1>4

\* The fast path is right about a chunk it lets through as it is: no line in it
\* goes over the limit.
LEMMA FastPathIsSafe ==
  ASSUME InputOK, NEW lo \in Nat \ {0}, NEW hi \in Nat, lo <= hi, FeedState(lo), ~dropping,
         AllLinesShort(lo, hi)
  PROVE  \A q \in lo..(hi + 1) : Begun(q) <= Limit
<1> DEFINE block == IF Limit \div 2 > 1 THEN Limit \div 2 ELSE 1
           first == MinOf({hi + 1} \cup (newlines \cap (lo..hi)))
<1>0. Limit \in Nat \ {0} /\ \A n \in newlines : n \in Nat /\ 1 <= n
  BY ScanAssumption DEF InputOK
<1>1. /\ first \in {hi + 1} \cup (newlines \cap (lo..hi))
      /\ \A y \in {hi + 1} \cup (newlines \cap (lo..hi)) : first <= y
  <2>1. {hi + 1} \cup (newlines \cap (lo..hi)) \in SUBSET Nat
    BY <1>0
  <2> QED
    BY <2>1, LeastIsThere
<1>2. /\ unfinished + (first - lo) <= Limit
      /\ \A start \in lo..(hi - block + 1) :
           (start - lo) % block = 0 => newlines \cap (start..(start + block - 1)) # {}
  BY DEF AllLinesShort
<1>3. block \in Nat \ {0} /\ 2 * block - 2 <= Limit
  BY <1>0
<1>4. unfinished = Begun(lo) /\ LineStart(lo) \in 1..lo
      /\ \A n \in newlines : ~(LineStart(lo) <= n /\ n < lo)
  BY LineStartIs DEF FeedState
<1> HIDE DEF block, first
<1> SUFFICES ASSUME NEW q \in lo..(hi + 1) PROVE q - LineStart(q) <= Limit
  BY DEF Begun
<1>5. /\ LineStart(q) \in 1..q
      /\ LineStart(q) = 1 \/ LineStart(q) - 1 \in newlines
      /\ \A n \in newlines : ~(LineStart(q) <= n /\ n < q)
  <2>1. q \in Nat \ {0}
    OBVIOUS
  <2> QED
    BY <2>1, LineStartIs
<1>6. CASE LineStart(q) <= lo
  <2>1. q <= first
    BY <1>0, <1>1, <1>5, <1>6
  <2>2. LineStart(lo) = LineStart(q)
    <3>1. LineStart(q) \in 1..lo /\ \A n \in newlines : ~(LineStart(q) <= n /\ n < lo)
      BY <1>0, <1>5, <1>6
    <3> QED
      BY <1>5, <3>1, LineStartIsThis
  <2> QED
    BY <1>0, <1>1, <1>2, <1>4, <1>5, <2>1, <2>2 DEF Begun
<1>7. CASE LineStart(q) > lo
  <2> DEFINE s == LineStart(q)
  <2>1. ASSUME q - s > Limit PROVE FALSE
    <3>1. s - lo \in Nat
      BY <1>5, <1>7
    <3>2. PICK t \in (s - lo)..((s - lo) + block - 1) : t % block = 0
      BY <1>3, <3>1, MultipleIsThere
    <3>3. /\ lo + t \in lo..(hi - block + 1) /\ (lo + t) - lo = t
          /\ s <= lo + t /\ lo + t + block - 1 < q
      BY <1>0, <1>3, <1>5, <1>7, <2>1, <3>2
    <3>4. newlines \cap ((lo + t)..((lo + t) + block - 1)) # {}
      BY <1>2, <3>2, <3>3
    <3>5. PICK n \in newlines : n \in (lo + t)..((lo + t) + block - 1)
      BY <3>4
    <3> QED
      BY <1>0, <1>3, <1>5, <3>2, <3>3, <3>5
  <2> QED
    BY <1>0, <1>5, <2>1
<1> QED
  BY <1>5, <1>6, <1>7

\* What a chunk that is let through as it is leaves for the next one.
LEMMA PassEnds ==
  ASSUME InputOK, NEW lo \in Nat \ {0}, NEW hi \in Nat, lo <= hi, FeedState(lo), PassChunk(lo, hi)
  PROVE  /\ \A p \in lo..hi : Fits(p) /\ ~Over(p)
         /\ dropping' = FALSE /\ unfinished' = Begun(hi + 1) /\ Begun(hi + 1) <= Limit
<1>0. Limit \in Nat \ {0} /\ \A n \in newlines : n \in Nat /\ 1 <= n
  BY ScanAssumption DEF InputOK
<1>1. \A q \in lo..(hi + 1) : Begun(q) <= Limit
  BY FastPathIsSafe DEF PassChunk
<1>2. ASSUME NEW p \in lo..hi PROVE Fits(p) /\ ~Over(p)
  <2>1. CASE p \in newlines
    BY <2>1 DEF Fits, Over
  <2>2. CASE p \notin newlines
    <3>1. /\ LineStart(p) \in 1..p
          /\ LineStart(p) = 1 \/ LineStart(p) - 1 \in newlines
          /\ \A n \in newlines : ~(LineStart(p) <= n /\ n < p)
      <4>1. p \in Nat \ {0}
        OBVIOUS
      <4> QED
        BY <4>1, LineStartIs
    <3>2. LineStart(p + 1) = LineStart(p)
      <4>1. p + 1 \in Nat \ {0} /\ LineStart(p) \in 1..(p + 1)
        BY <3>1
      <4>2. \A n \in newlines : ~(LineStart(p) <= n /\ n < p + 1)
        BY <1>0, <2>2, <3>1
      <4> QED
        BY <3>1, <4>1, <4>2, LineStartIsThis
    <3>3. p + 1 - LineStart(p) <= Limit
      <4>1. p + 1 \in lo..(hi + 1)
        OBVIOUS
      <4>2. Begun(p + 1) <= Limit
        BY <1>1, <4>1
      <4> QED
        BY <1>0, <3>1, <3>2, <4>2 DEF Begun
    <3>4. p - LineStart(p) < Limit
      BY <1>0, <3>1, <3>3
    <3> QED
      BY <1>0, <2>2, <3>1, <3>4 DEF Fits, Over
  <2> QED
    BY <2>1, <2>2
<1>3. unfinished' = Begun(hi + 1)
  <2> DEFINE S == {lo - 1} \cup (newlines \cap (lo..hi))
             last == MaxOf(S)
  <2>1. last \in S /\ \A y \in S : last >= y
    <3>1. S \in SUBSET Nat /\ S # {} /\ \A y \in S : y <= hi
      BY <1>0
    <3> HIDE DEF S
    <3> QED
      BY <3>1, GreatestIsThere
  <2>2. unfinished' = IF last < lo THEN unfinished + (hi - lo + 1) ELSE hi - last
    BY DEF PassChunk
  <2>3. unfinished = Begun(lo)
    BY DEF FeedState, PassChunk
  <2> HIDE DEF last
  <2>4. CASE last < lo
    <3>1. \A n \in newlines : ~(lo <= n /\ n < hi + 1)
      BY <1>0, <2>1, <2>4
    <3>2. /\ LineStart(lo) \in 1..lo
          /\ LineStart(lo) = 1 \/ LineStart(lo) - 1 \in newlines
          /\ \A n \in newlines : ~(LineStart(lo) <= n /\ n < lo)
      BY LineStartIs
    <3>3. hi + 1 \in Nat \ {0} /\ LineStart(lo) \in 1..(hi + 1)
      BY <3>2
    <3>4. \A n \in newlines : ~(LineStart(lo) <= n /\ n < hi + 1)
      BY <1>0, <3>1, <3>2
    <3>5. LineStart(hi + 1) = LineStart(lo)
      BY <3>2, <3>3, <3>4, LineStartIsThis
    <3> QED
      BY <2>2, <2>3, <2>4, <3>2, <3>5 DEF Begun
  <2>5. CASE ~(last < lo)
    <3>1. last \in newlines /\ last \in lo..hi
      BY <2>1, <2>5
    <3>2. \A n \in newlines : ~(last + 1 <= n /\ n < hi + 1)
      BY <1>0, <2>1, <3>1
    <3>3. hi + 1 \in Nat \ {0} /\ last + 1 \in 1..(hi + 1) /\ (last + 1) - 1 = last
      BY <3>1
    <3>4. LineStart(hi + 1) = last + 1
      BY <3>1, <3>2, <3>3, LineStartIsThis
    <3> QED
      BY <2>2, <2>5, <3>1, <3>4 DEF Begun
  <2> QED
    BY <2>4, <2>5
<1>4. dropping' = FALSE
  BY DEF PassChunk, FeedState
<1>5. Begun(hi + 1) <= Limit
  <2>1. hi + 1 \in lo..(hi + 1)
    OBVIOUS
  <2> QED
    BY <1>1, <2>1
<1> QED
  BY <1>2, <1>3, <1>4, <1>5

LEMMA FeedStep == InputOK /\ FeedInv /\ [Next]_vars => FeedInv'
<1> SUFFICES ASSUME InputOK, FeedInv, [Next]_vars PROVE FeedInv'
  OBVIOUS
<1>0. newlines' = newlines /\ request' = request /\ UNCHANGED input
  BY InputStays DEF input
<1>1. \A p : LineStart(p)' = LineStart(p)
  BY <1>0, SameLines
<1>2. \A p : (Fits(p)' <=> Fits(p)) /\ (Over(p)' <=> Over(p))
  BY <1>0, <1>1 DEF Fits, Over
<1> SUFFICES ASSUME request.task = "grep" PROVE FeedInv'
  BY <1>0 DEF FeedInv
<1>3. CASE Feed
  <2>1. PICK hi \in (at + 1)..Size : at' = hi /\ (PassChunk(at + 1, hi) \/ CutChunk(at + 1, hi))
    BY <1>3 DEF Feed
  <2>2. /\ at \in Nat /\ at + 1 \in Nat \ {0} /\ hi \in Nat /\ at + 1 <= hi /\ Size \in Nat
    BY ScanAssumption DEF InputOK
  <2>3. FeedState(at + 1)
    BY DEF FeedInv, FeedState
  <2> DEFINE A == {p \in 1..at : Over(p)}
             B == {p \in (at + 1)..hi : Over(p)}
  <2>4. /\ passed' = passed \cup {p \in (at + 1)..hi : Fits(p)}
        /\ longLines' = longLines + Cardinality(B)
        /\ dropping' \in BOOLEAN /\ (dropping' <=> Begun(hi + 1) > Limit)
        /\ unfinished' = IF dropping' THEN Limit ELSE Begun(hi + 1)
    <3>1. CASE PassChunk(at + 1, hi)
      <4>1. /\ \A p \in (at + 1)..hi : Fits(p) /\ ~Over(p)
            /\ dropping' = FALSE /\ unfinished' = Begun(hi + 1) /\ Begun(hi + 1) <= Limit
        BY <2>2, <2>3, <3>1, PassEnds
      <4>2. passed' = passed \cup {p \in (at + 1)..hi : Fits(p)}
        BY <3>1, <4>1 DEF PassChunk
      <4>3. B = {}
        BY <4>1
      <4>4. longLines' = longLines /\ longLines \in Nat
        <5>1. IsFiniteSet(A)
          <6>1. IsFiniteSet(1..at)
            BY <2>2, FS_Interval
          <6> QED
            BY <6>1, FS_Subset
        <5>2. longLines = Cardinality(A)
          BY DEF FeedInv
        <5> QED
          BY <3>1, <5>1, <5>2, FS_CardinalityType DEF PassChunk
      <4>5. longLines' = longLines + Cardinality(B)
        BY <4>3, <4>4, FS_EmptySet
      <4>6. ~(Begun(hi + 1) > Limit)
        <5>1. Begun(hi + 1) \in Int /\ Limit \in Int
          <6>1. hi + 1 \in Nat \ {0} /\ LineStart(hi + 1) \in 1..(hi + 1)
            BY <2>2, LineStartIs
          <6> QED
            BY <6>1, ScanAssumption DEF Begun
        <5> QED
          BY <4>1, <5>1
      <4> QED
        BY <4>1, <4>2, <4>5, <4>6
    <3>2. CASE CutChunk(at + 1, hi)
      <4>1. /\ dropping' \in BOOLEAN /\ (dropping' <=> Begun(hi + 1) > Limit)
            /\ unfinished' = IF dropping' THEN Limit ELSE Begun(hi + 1)
        BY <2>2, <2>3, <3>2, CutEnds
      <4>2. passed' = passed \cup {p \in (at + 1)..hi : Fits(p)}
        BY <2>2, <2>3, <3>2, ChunkKeeps DEF CutChunk
      <4>3. longLines' = longLines + Cardinality(B)
        BY <2>2, <2>3, <3>2, ChunkCounts DEF CutChunk
      <4> QED
        BY <4>1, <4>2, <4>3
    <3> QED
      BY <2>1, <3>1, <3>2
  <2>5. 1..hi = (1..at) \cup ((at + 1)..hi) /\ (1..at) \cap ((at + 1)..hi) = {}
    BY <2>2
  <2>6. passed' = {p \in 1..hi : Fits(p)}
    BY <2>4, <2>5 DEF FeedInv
  <2>7. longLines' = Cardinality({p \in 1..hi : Over(p)})
    <3>1. {p \in 1..hi : Over(p)} = A \cup B /\ A \cap B = {}
      BY <2>5
    <3>2. IsFiniteSet(A) /\ IsFiniteSet(B)
      <4>1. IsFiniteSet(1..at) /\ IsFiniteSet((at + 1)..hi)
        BY <2>2, FS_Interval
      <4> QED
        BY <4>1, FS_Subset
    <3>3. longLines = Cardinality(A)
      BY DEF FeedInv
    <3>6. longLines' = longLines + Cardinality(B)
      BY <2>4
    <3> HIDE DEF A, B
    <3>4. Cardinality(A \cup B) = Cardinality(A) + Cardinality(B) - 0
      BY <3>1, <3>2, FS_Union, FS_EmptySet
    <3>5. Cardinality(A) \in Nat /\ Cardinality(B) \in Nat
      BY <3>2, FS_CardinalityType
    <3>7. longLines + Cardinality(B) = Cardinality(A \cup B)
      BY <3>3, <3>4, <3>5
    <3>8. Cardinality({p \in 1..hi : Over(p)}) = Cardinality(A \cup B)
      BY <3>1
    <3> QED
      BY <3>6, <3>7, <3>8
  <2>8. Begun(at + 1)' = Begun(hi + 1)
    BY <1>0, <2>1 DEF Begun, LineStart
  <2> HIDE DEF A, B
  <2> QED
    BY <1>2, <2>1, <2>4, <2>6, <2>7, <2>8 DEF FeedInv
<1>4. CASE UNCHANGED <<feedVars, at>>
  <2>1. Begun(at + 1)' = Begun(at + 1)
    BY <1>0, <1>4 DEF Begun, LineStart
  <2> QED
    BY <1>2, <1>4, <2>1 DEF FeedInv, feedVars
<1>5. Collect \/ Finish => UNCHANGED <<feedVars, at>>
  BY DEF Collect, NextEvent, CountOnly, Match, ContextLine, Finish
<1>6. ~SliceChunk /\ ~SliceEnds /\ ~FetchBatch /\ ~DeadlineStops
  BY DEF SliceChunk, SliceEnds, FetchBatch, DeadlineStops
<1> QED
  BY <1>3, <1>4, <1>5, <1>6 DEF Next, vars

\* What ripgrep is fed is, however the reads cut the artifact into chunks, every
\* newline and the first Limit bytes of every line, and each longer line is
\* counted once (cut_long_lines, its fast path _all_lines_short among it).
THEOREM CutExact == Spec => []CutIsExact
<1>1. Init => FeedInv
  <2> SUFFICES ASSUME Init, request.task = "grep" PROVE FeedInv
    BY DEF FeedInv
  <2>1. /\ InputOK /\ at = 0 /\ passed = {} /\ longLines = 0
        /\ dropping = FALSE /\ unfinished = 0
    BY InputFirst DEF Init
  <2>2. LineStart(1) = 1
    <3>1. LineStart(1) \in 1..1
      BY <2>1, LineStartIs
    <3> QED
      BY <3>1
  <2>3. Begun(at + 1) = 0 /\ 1..at = {}
    BY <2>1, <2>2 DEF Begun
  <2>4. ~(Begun(at + 1) > Limit)
    BY <2>3, ScanAssumption
  <2>5. Cardinality({}) = 0
    BY FS_EmptySet
  <2> QED
    BY <2>1, <2>3, <2>4, <2>5 DEF FeedInv
<1>2. InputOK /\ FeedInv /\ [Next]_vars => FeedInv'
  BY FeedStep
<1>3. FeedInv => CutIsExact
  BY DEF FeedInv, CutIsExact, Fits, Over
<1> QED
  BY <1>1, <1>2, <1>3, InputAlways, PTL DEF Spec

-------------------------------------------------------------------------------
(* grep: the collector *)

\* The matching lines up to line e, and those before line l.
Met(e) == {m \in Matching : m <= e}
Earlier(l) == {m \in Matching : m < l}

Shows == [line : Nat, before : SUBSET Nat, after : SUBSET Nat]

\* The parts of the collector's invariant, as functions of its fields: every
\* match up to line e is counted; the kept ones are the first ones; one held
\* back is the latest, lacking only what follows e; nothing is held back when
\* enough are kept; what did not fit is the match after the kept ones; and the
\* recent lines are the latest that are no match.
Counted(e, t, s) == t = Cardinality(Met(e)) /\ (request.saveAll => s = Met(e))

KeptWell(k, u) ==
  /\ k \in Seq(Shows) /\ Len(k) <= request.maxMatches /\ u \in Nat /\ u <= Budget
  /\ \A i \in 1..Len(k) : k[i] = Shown(k[i].line) /\ Cardinality(Earlier(k[i].line)) = i - 1

Held(p, k, f, e) ==
  p # None =>
    /\ f = FALSE /\ Len(k) < request.maxMatches
    /\ p.line \in Matching /\ Met(e) = Earlier(p.line) \cup {p.line}
    /\ Cardinality(Earlier(p.line)) = Len(k)
    /\ p = [line |-> p.line, before |-> Before(p.line),
            after |-> {c \in After(p.line) : c <= e}]

Idle(p, k, f, t) == p = None /\ ~f => Len(k) = t \/ Len(k) = request.maxMatches

FullFor(f, k, u) ==
  f => \E m \in Matching :
         Cardinality(Earlier(m)) = Len(k) /\ u + SizeOf(Shown(m)) > Budget

RecentIs(r, e) ==
  /\ r \in Seq(Nat) /\ Len(r) <= request.context
  /\ \A i \in 1..Len(r) : r[i] \in Events \ Matching /\ r[i] <= e
  /\ \A i, j \in 1..Len(r) : i < j => r[i] < r[j]
  /\ \A c \in Events \ Matching : c <= e =>
       \/ \E i \in 1..Len(r) : r[i] = c
       \/ Len(r) = request.context /\ \A i \in 1..Len(r) : c < r[i]

Collected ==
  /\ event \in Nat /\ full \in BOOLEAN
  /\ Counted(event, total, saved)
  /\ KeptWell(kept, used)
  /\ Held(pending, kept, full, event)
  /\ Idle(pending, kept, full, total)
  /\ FullFor(full, kept, used)
  /\ outcome = "none" /\ ~Cheap => RecentIs(recent, event)
  /\ outcome = "answered" => pending = None /\ \A e \in Events : e <= event

\* Nothing is collected before the artifact has been fed.
Blank ==
  /\ outcome = "none" /\ event = 0 /\ kept = <<>> /\ total = 0 /\ used = 0 /\ full = FALSE
  /\ pending = None /\ recent = <<>> /\ saved = {}

CollectInv == request.task = "grep" => Blank \/ (at = Size /\ Collected)

LEMMA GrepRequest ==
  ASSUME InputOK, request.task = "grep"
  PROVE  request.context \in Nat /\ request.maxMatches \in Nat \ {0} /\ request.saveAll \in BOOLEAN
BY ScanAssumption DEF InputOK, RequestType

LEMMA EventsAreLines ==
  ASSUME InputOK, request.task = "grep"
  PROVE  /\ Matching \subseteq Events /\ Events \subseteq Lines /\ Lines \subseteq Nat \ {0}
         /\ \A e : IsFiniteSet(Met(e)) /\ IsFiniteSet(Earlier(e))
         /\ \A l \in Nat : IsFiniteSet(Before(l)) /\ IsFiniteSet(After(l))
         /\ \A l \in Nat : Shown(l) \in Shows /\ SizeOf(Shown(l)) \in Nat
<1>1. IsFiniteSet(Lines) /\ Lines \subseteq Nat \ {0}
  BY LinesAreNumbered
<1>2. Matching \subseteq Events /\ Events \subseteq Lines
  BY DEF Matching, Events
<1>3. \A e : Met(e) \in SUBSET Lines /\ Earlier(e) \in SUBSET Lines
  BY <1>2 DEF Met, Earlier
<1>4. \A e : IsFiniteSet(Met(e)) /\ IsFiniteSet(Earlier(e))
  BY <1>1, <1>3, FS_Subset
<1>5. \A l : Before(l) \in SUBSET Lines /\ After(l) \in SUBSET Lines
  BY DEF Before, After
<1>6. \A l : IsFiniteSet(Before(l)) /\ IsFiniteSet(After(l))
  BY <1>1, <1>5, FS_Subset
<1>7. \A l \in Nat : Shown(l) \in Shows /\ SizeOf(Shown(l)) \in Nat
  <2> SUFFICES ASSUME NEW l \in Nat PROVE Shown(l) \in Shows /\ SizeOf(Shown(l)) \in Nat
    OBVIOUS
  <2>1. Before(l) \in SUBSET Nat /\ After(l) \in SUBSET Nat
    BY <1>1, <1>5
  <2>2. Cardinality(Before(l)) \in Nat /\ Cardinality(After(l)) \in Nat
    BY <1>6, FS_CardinalityType
  <2>3. SizeOf(Shown(l)) = 1 + Cardinality(Before(l)) + Cardinality(After(l))
    BY DEF SizeOf, Shown
  <2> QED
    BY <2>1, <2>2, <2>3 DEF Shown, Shows
<1> QED
  BY <1>1, <1>2, <1>4, <1>6, <1>7

LEMMA BlankIsCollected ==
  ASSUME InputOK, request.task = "grep", Blank
  PROVE  Collected
<1>1. Met(0) = {}
  BY EventsAreLines DEF Met
<1>2. request.context \in Nat /\ request.maxMatches \in Nat \ {0} /\ Budget \in Nat
  BY GrepRequest, ScanAssumption
<1>3. Counted(event, total, saved)
  BY <1>1, FS_EmptySet DEF Counted, Blank
<1>4. Len(kept) = 0 /\ 1..0 = {}
  BY DEF Blank
<1>5. KeptWell(kept, used)
  <2>1. kept \in Seq(Shows) /\ used = 0
    BY DEF Blank
  <2> QED
    BY <1>2, <1>4, <2>1 DEF KeptWell
<1>6. Held(pending, kept, full, event) /\ Idle(pending, kept, full, total) /\ FullFor(full, kept, used)
  BY <1>4 DEF Held, Idle, FullFor, Blank
<1>7. RecentIs(recent, event)
  <2>1. recent = <<>> /\ Len(recent) = 0 /\ event = 0 /\ recent \in Seq(Nat)
    BY DEF Blank
  <2>2. \A c \in Events : ~(c <= 0)
    BY EventsAreLines
  <2> QED
    BY <1>2, <1>4, <2>1, <2>2 DEF RecentIs
<1>8. event \in Nat /\ full \in BOOLEAN /\ outcome # "answered"
  BY DEF Blank
<1> QED
  BY <1>3, <1>5, <1>6, <1>7, <1>8 DEF Collected

LEMMA Added ==
  ASSUME NEW S, NEW k \in Seq(S), NEW x \in S
  PROVE  /\ Append(k, x) \in Seq(S) /\ Len(Append(k, x)) = Len(k) + 1 /\ Len(k) \in Nat
         /\ \A i \in 1..Len(k) : Append(k, x)[i] = k[i]
         /\ Append(k, x)[Len(k) + 1] = x
OBVIOUS

\* _commit, of a match that has got all its context: what is kept stays the
\* first matches, and what is left out did not fit.
LEMMA CommitIsRight ==
  ASSUME InputOK, request.task = "grep", Collected,
         pending # None => pending = Shown(pending.line)
  PROVE  /\ KeptWell(Commit.kept, Commit.used) /\ Commit.full \in BOOLEAN
         /\ FullFor(Commit.full, Commit.kept, Commit.used)
         /\ ~Commit.full => Len(Commit.kept) = total \/ Len(Commit.kept) = request.maxMatches
<1>1. CASE pending = None
  <2>1. Commit.kept = kept /\ Commit.used = used /\ Commit.full = full
    BY <1>1 DEF Commit
  <2> QED
    BY <1>1, <2>1 DEF Collected, Idle
<1>2. CASE pending # None /\ used + SizeOf(pending) > Budget
  <2>1. Commit.kept = kept /\ Commit.used = used /\ Commit.full = TRUE
    BY <1>2 DEF Commit
  <2>2. FullFor(TRUE, kept, used)
    BY <1>2 DEF Collected, Held, FullFor
  <2> QED
    BY <2>1, <2>2 DEF Collected
<1>3. CASE pending # None /\ ~(used + SizeOf(pending) > Budget)
  <2>1. /\ Commit.kept = Append(kept, pending) /\ Commit.used = used + SizeOf(pending)
        /\ Commit.full = full
    BY <1>3 DEF Commit
  <2>2. /\ full = FALSE /\ Len(kept) < request.maxMatches
        /\ pending.line \in Matching /\ Met(event) = Earlier(pending.line) \cup {pending.line}
        /\ Cardinality(Earlier(pending.line)) = Len(kept)
    BY <1>3 DEF Collected, Held
  <2>3. /\ kept \in Seq(Shows) /\ Len(kept) <= request.maxMatches /\ used \in Nat
        /\ \A i \in 1..Len(kept) : kept[i] = Shown(kept[i].line)
                                   /\ Cardinality(Earlier(kept[i].line)) = i - 1
    BY DEF Collected, KeptWell
  <2>4. pending.line \in Nat /\ pending = Shown(pending.line) /\ pending \in Shows
        /\ SizeOf(pending) \in Nat
    BY <1>3, <2>2, EventsAreLines
  <2>5. request.maxMatches \in Nat /\ Budget \in Nat
    BY GrepRequest, ScanAssumption
  <2>6. /\ Commit.kept \in Seq(Shows) /\ Len(Commit.kept) = Len(kept) + 1 /\ Len(kept) \in Nat
        /\ \A i \in 1..Len(kept) : Commit.kept[i] = kept[i]
        /\ Commit.kept[Len(kept) + 1] = pending
    BY <2>1, <2>3, <2>4, Added
  <2>7. \A i \in 1..Len(Commit.kept) :
          /\ Commit.kept[i] = Shown(Commit.kept[i].line)
          /\ Cardinality(Earlier(Commit.kept[i].line)) = i - 1
    <3> SUFFICES ASSUME NEW i \in 1..Len(Commit.kept)
                 PROVE  /\ Commit.kept[i] = Shown(Commit.kept[i].line)
                        /\ Cardinality(Earlier(Commit.kept[i].line)) = i - 1
      OBVIOUS
    <3>1. i \in 1..Len(kept) \/ i = Len(kept) + 1
      BY <2>6
    <3>2. (Len(kept) + 1) - 1 = Len(kept)
      BY <2>6
    <3> QED
      BY <2>2, <2>3, <2>4, <2>6, <3>1, <3>2
  <2>8. Len(Commit.kept) <= request.maxMatches
    BY <2>2, <2>5, <2>6
  <2>9. Commit.used \in Nat /\ Commit.used <= Budget
    <3>1. used + SizeOf(pending) \in Nat /\ used + SizeOf(pending) <= Budget
      BY <1>3, <2>3, <2>4, <2>5
    <3> QED
      BY <2>1, <3>1
  <2>10. Len(Commit.kept) = total
    <3>1. pending.line \notin Earlier(pending.line)
      BY <2>4 DEF Earlier
    <3>2. IsFiniteSet(Earlier(pending.line))
      BY EventsAreLines
    <3>3. Cardinality(Met(event)) = Len(kept) + 1
      BY <2>2, <3>1, <3>2, FS_AddElement
    <3> QED
      BY <2>6, <3>3 DEF Collected, Counted
  <2> QED
    BY <2>1, <2>2, <2>6, <2>7, <2>8, <2>9, <2>10 DEF KeptWell, FullFor
<1> QED
  BY <1>1, <1>2, <1>3

\* Line l is the one ripgrep deals with after e.
After1(e, l) == l \in Events /\ l > e /\ \A x \in Events : x <= e \/ x >= l

LEMMA NextLineMet ==
  ASSUME InputOK, request.task = "grep", NEW e \in Nat, NEW l, After1(e, l)
  PROVE  /\ l \in Nat
         /\ l \in Matching => Met(l) = Met(e) \cup {l} /\ l \notin Met(e) /\ Earlier(l) = Met(e)
         /\ l \notin Matching => Met(l) = Met(e)
<1>1. /\ Matching \subseteq Events /\ \A x \in Events : x \in Nat
  BY EventsAreLines
<1>2. l \in Nat /\ l > e /\ \A m \in Matching : m \in Nat /\ (m <= e \/ m >= l)
  BY <1>1 DEF After1
<1>3. \A m \in Matching : m <= l <=> m <= e \/ m = l
  BY <1>2
<1>4. \A m \in Matching : m < l <=> m <= e
  BY <1>2
<1>5. ~(l <= e)
  BY <1>2
<1> QED
  BY <1>2, <1>3, <1>4, <1>5 DEF Met, Earlier

\* When ripgrep has come to the next match, or to its end, the match held back
\* has got all the lines after it.
LEMMA HeldIsComplete ==
  ASSUME InputOK, request.task = "grep", Collected, pending # None,
         \A c \in Events : c <= event \/ \E m \in Matching : m > event /\ m <= c
  PROVE  pending = Shown(pending.line)
<1> DEFINE p == pending.line
<1>1. /\ p \in Matching /\ Met(event) = Earlier(p) \cup {p}
      /\ pending = [line |-> p, before |-> Before(p), after |-> {c \in After(p) : c <= event}]
  BY DEF Collected, Held
<1>2. /\ \A x \in Lines : x \in Nat
      /\ \A m \in Matching : m \in Lines
  BY EventsAreLines
<1>3. event \in Nat /\ p \in Nat /\ p <= event
  BY <1>1, <1>2 DEF Collected, Met
<1> HIDE DEF p
<1>4. ASSUME NEW c \in After(p) PROVE c <= event
  <2>1. /\ c \in Lines /\ c \in Nat /\ c > p /\ c - p <= request.context
        /\ \A m \in Matching : m <= p \/ m > c
    BY <1>2 DEF After
  <2>2. c \in Events
    <3>1. p - c <= request.context
      BY <1>3, <2>1, GrepRequest
    <3> QED
      BY <1>1, <2>1, <3>1 DEF Events, Near
  <2>3. ASSUME NEW m \in Matching, m > event, m <= c PROVE FALSE
    <3>1. m \in Nat /\ (m <= p \/ m > c)
      BY <1>2, <2>1
    <3> QED
      BY <1>3, <2>1, <2>3, <3>1
  <2> QED
    BY <2>2, <2>3
<1>5. {c \in After(p) : c <= event} = After(p)
  BY <1>4
<1> QED
  BY <1>1, <1>5 DEF Shown, p

\* The recent lines hold all that a match at l shows before it.
LEMMA RecentIsEnough ==
  ASSUME InputOK, request.task = "grep", NEW e \in Nat, NEW r, RecentIs(r, e),
         NEW l \in Matching, After1(e, l)
  PROVE  {r[i] : i \in {j \in DOMAIN r : l - r[j] <= request.context}} = Before(l)
<1>0. /\ request.context \in Nat /\ l \in Nat /\ l > e
      /\ \A x \in Lines : x \in Nat
      /\ \A x \in Events : x \in Lines
  BY GrepRequest, EventsAreLines DEF After1
<1>1. /\ r \in Seq(Nat) /\ Len(r) \in Nat /\ DOMAIN r = 1..Len(r)
      /\ \A i \in 1..Len(r) : r[i] \in Events /\ r[i] \notin Matching /\ r[i] <= e /\ r[i] \in Nat
      /\ \A i, j \in 1..Len(r) : i < j => r[i] < r[j]
  BY DEF RecentIs
<1>2. ASSUME NEW i \in DOMAIN r, l - r[i] <= request.context PROVE r[i] \in Before(l)
  BY <1>0, <1>1, <1>2 DEF Before
<1>3. ASSUME NEW c \in Before(l) PROVE \E i \in DOMAIN r : r[i] = c /\ l - r[i] <= request.context
  <2>1. c \in Lines /\ c \in Nat /\ c \notin Matching /\ c < l /\ l - c <= request.context
    BY <1>0 DEF Before
  <2>2. c \in Events
    <3>1. c - l <= request.context
      BY <1>0, <2>1
    <3> QED
      BY <2>1, <3>1 DEF Events, Near
  <2>3. c <= e
    BY <1>0, <2>1, <2>2 DEF After1
  <2>4. ASSUME Len(r) = request.context, \A i \in 1..Len(r) : c < r[i] PROVE FALSE
    <3> DEFINE T == (c + 1)..(l - 1)
    <3>1. \A i \in 1..Len(r) : r[i] \in T
      BY <1>0, <1>1, <2>1, <2>4
    <3>2. r \in [1..Len(r) -> T]
      BY <1>1, <3>1
    <3>3. \A i, j \in 1..Len(r) : r[i] = r[j] => i = j
      <4> SUFFICES ASSUME NEW i \in 1..Len(r), NEW j \in 1..Len(r), r[i] = r[j] PROVE i = j
        OBVIOUS
      <4>1. ~(i < j) /\ ~(j < i)
        BY <1>1
      <4> QED
        BY <1>1, <4>1
    <3>4. IsFiniteSet(T) /\ Cardinality(T) <= l - 1 - c
      <4>1. c + 1 \in Int /\ l - 1 \in Int /\ l - 1 - c >= 0
        BY <1>0, <2>1
      <4>2. IsFiniteSet(T) /\ Cardinality(T) = IF c + 1 > l - 1 THEN 0 ELSE (l - 1) - (c + 1) + 1
        BY <4>1, FS_Interval
      <4> HIDE DEF T
      <4> QED
        BY <1>0, <2>1, <4>1, <4>2
    <3> HIDE DEF T
    <3>5. r \in Injection(1..Len(r), T)
      BY <3>2, <3>3 DEF Injection, IsInjective
    <3>6. Cardinality(1..Len(r)) <= Cardinality(T)
      BY <3>4, <3>5, FS_Injection
    <3>7. Cardinality(1..Len(r)) = Len(r)
      <4>1. 1 \in Int /\ Len(r) \in Int
        BY <1>1
      <4>2. Cardinality(1..Len(r)) = IF 1 > Len(r) THEN 0 ELSE Len(r) - 1 + 1
        BY <4>1, FS_Interval
      <4> QED
        BY <1>1, <4>2
    <3>8. Cardinality(T) \in Nat
      BY <3>4, FS_CardinalityType
    <3> QED
      BY <1>0, <1>1, <2>1, <2>4, <3>4, <3>6, <3>7, <3>8
  <2>5. \E i \in 1..Len(r) : r[i] = c
    BY <2>1, <2>2, <2>3, <2>4 DEF RecentIs
  <2> QED
    BY <1>1, <2>1, <2>5
<1> QED
  BY <1>2, <1>3

\* A line that is no match joins the recent ones, the oldest making room.
LEMMA RecentGoesOn ==
  ASSUME InputOK, request.task = "grep", NEW e \in Nat, NEW r, RecentIs(r, e),
         NEW l, l \notin Matching, After1(e, l)
  PROVE  LET longer == Append(r, l)
         IN RecentIs(IF Len(longer) > request.context THEN Tail(longer) ELSE longer, l)
<1> DEFINE longer == Append(r, l)
<1>0. /\ request.context \in Nat /\ l \in Nat /\ l > e /\ l \in Events
      /\ \A x \in Events : x \in Nat /\ (x <= e \/ x >= l)
  BY GrepRequest, EventsAreLines DEF After1
<1>1. /\ r \in Seq(Nat) /\ Len(r) \in Nat /\ Len(r) <= request.context
      /\ \A i \in 1..Len(r) : r[i] \in Events \ Matching /\ r[i] <= e /\ r[i] \in Nat
      /\ \A i, j \in 1..Len(r) : i < j => r[i] < r[j]
      /\ \A c \in Events \ Matching : c <= e =>
           \/ \E i \in 1..Len(r) : r[i] = c
           \/ Len(r) = request.context /\ \A i \in 1..Len(r) : c < r[i]
  BY DEF RecentIs
<1>2. /\ longer \in Seq(Nat) /\ Len(longer) = Len(r) + 1
      /\ \A i \in 1..Len(r) : longer[i] = r[i]
      /\ longer[Len(r) + 1] = l
  BY <1>0, <1>1, Added
<1> HIDE DEF longer
<1>3. /\ \A i \in 1..Len(longer) : longer[i] \in Events \ Matching /\ longer[i] <= l
      /\ \A i, j \in 1..Len(longer) : i < j => longer[i] < longer[j]
  <2>1. \A i \in 1..Len(longer) : i \in 1..Len(r) \/ i = Len(r) + 1
    BY <1>1, <1>2
  <2>2. \A i \in 1..Len(longer) : longer[i] \in Events \ Matching /\ longer[i] <= l
    <3> SUFFICES ASSUME NEW i \in 1..Len(longer)
                 PROVE  longer[i] \in Events \ Matching /\ longer[i] <= l
      OBVIOUS
    <3>1. CASE i \in 1..Len(r)
      BY <1>0, <1>1, <1>2, <3>1
    <3>2. CASE i = Len(r) + 1
      BY <1>0, <1>2, <3>2
    <3> QED
      BY <2>1, <3>1, <3>2
  <2>3. \A i, j \in 1..Len(longer) : i < j => longer[i] < longer[j]
    <3> SUFFICES ASSUME NEW i \in 1..Len(longer), NEW j \in 1..Len(longer), i < j
                 PROVE  longer[i] < longer[j]
      OBVIOUS
    <3>1. i \in 1..Len(r)
      BY <1>1, <1>2
    <3>2. CASE j \in 1..Len(r)
      BY <1>1, <1>2, <3>1, <3>2
    <3>3. CASE j = Len(r) + 1
      BY <1>0, <1>1, <1>2, <3>1, <3>3
    <3> QED
      BY <2>1, <3>2, <3>3
  <2> QED
    BY <2>2, <2>3
<1>4. ASSUME NEW c \in Events \ Matching, c <= l
      PROVE  \/ \E i \in 1..Len(longer) : longer[i] = c
             \/ Len(r) = request.context /\ \A i \in 1..Len(longer) : c < longer[i]
  <2>1. \A i \in 1..Len(longer) : i \in 1..Len(r) \/ i = Len(r) + 1
    BY <1>1, <1>2
  <2>2. Len(r) + 1 \in 1..Len(longer) /\ \A i \in 1..Len(r) : i \in 1..Len(longer)
    BY <1>1, <1>2
  <2>3. CASE c = l
    BY <1>2, <2>2, <2>3
  <2>4. CASE c <= e /\ \E i \in 1..Len(r) : r[i] = c
    BY <1>2, <2>2, <2>4
  <2>5. CASE c <= e /\ Len(r) = request.context /\ \A i \in 1..Len(r) : c < r[i]
    <3>1. c < l
      BY <1>0, <2>5
    <3> QED
      BY <1>2, <2>1, <2>5, <3>1
  <2>6. c <= e \/ c = l
    BY <1>0, <1>4
  <2> QED
    BY <1>1, <2>3, <2>4, <2>5, <2>6
<1>5. CASE Len(longer) > request.context
  <2> DEFINE t == Tail(longer)
  <2>1. Len(r) = request.context /\ longer # <<>>
    BY <1>0, <1>1, <1>2, <1>5
  <2>2. /\ t \in Seq(Nat) /\ Len(t) = Len(r)
        /\ \A i \in 1..Len(t) : t[i] = longer[i + 1] /\ i + 1 \in 1..Len(longer)
    BY <1>1, <1>2, <2>1
  <2> HIDE DEF t
  <2>3. \A i \in 1..Len(t) : t[i] \in Events \ Matching /\ t[i] <= l
    BY <1>3, <2>2
  <2>4. \A i, j \in 1..Len(t) : i < j => t[i] < t[j]
    <3> SUFFICES ASSUME NEW i \in 1..Len(t), NEW j \in 1..Len(t), i < j PROVE t[i] < t[j]
      OBVIOUS
    <3>1. i + 1 < j + 1 /\ i + 1 \in 1..Len(longer) /\ j + 1 \in 1..Len(longer)
      BY <2>2
    <3> QED
      BY <1>3, <2>2, <3>1
  <2>5. ASSUME NEW c \in Events \ Matching, c <= l
        PROVE  (\E i \in 1..Len(t) : t[i] = c) \/ (\A i \in 1..Len(t) : c < t[i])
    <3>1. CASE \E i \in 1..Len(longer) : longer[i] = c
      <4>1. PICK i \in 1..Len(longer) : longer[i] = c
        BY <3>1
      <4>2. CASE i = 1
        <5> SUFFICES ASSUME NEW j \in 1..Len(t) PROVE c < t[j]
          OBVIOUS
        <5>1. i < j + 1 /\ j + 1 \in 1..Len(longer) /\ t[j] = longer[j + 1]
          BY <2>2, <4>2
        <5> QED
          BY <1>3, <4>1, <5>1
      <4>3. CASE i # 1
        <5>1. i - 1 \in 1..Len(t) /\ (i - 1) + 1 = i
          BY <1>1, <1>2, <2>2, <4>3
        <5> QED
          BY <2>2, <4>1, <5>1
      <4> QED
        BY <4>2, <4>3
    <3>2. CASE \A i \in 1..Len(longer) : c < longer[i]
      BY <2>2, <3>2
    <3> QED
      BY <1>4, <2>5, <3>1, <3>2
  <2>6. RecentIs(t, l)
    BY <1>0, <2>1, <2>2, <2>3, <2>4, <2>5 DEF RecentIs
  <2> QED
    BY <1>5, <2>6 DEF t, longer
<1>6. CASE ~(Len(longer) > request.context)
  <2>1. Len(r) # request.context /\ Len(longer) <= request.context
    BY <1>0, <1>1, <1>2, <1>6
  <2>2. RecentIs(longer, l)
    BY <1>2, <1>3, <1>4, <2>1 DEF RecentIs
  <2> QED
    BY <1>6, <2>2 DEF longer
<1> QED
  BY <1>5, <1>6

\* What has been read and fed stays, and so do the lines and their matches.
LEMMA SameEvents ==
  ASSUME UNCHANGED <<newlines, hits, request, passed>>
  PROVE  /\ Matching' = Matching /\ Events' = Events
         /\ \A l : Met(l)' = Met(l)
         /\ \A l : Earlier(l)' = Earlier(l)
         /\ \A l : Before(l)' = Before(l)
         /\ \A l : After(l)' = After(l)
         /\ \A l : Shown(l)' = Shown(l)
<1>1. \A p : LineNo(p)' = LineNo(p)
  BY SameLines DEF input
<1>2. Lines' = Lines /\ request' = request
  BY SameLines DEF input
<1>3. Matching' = Matching
  BY <1>1, <1>2 DEF Matching
<1>4. \A l : Near(l)' <=> Near(l)
  BY <1>2, <1>3 DEF Near
<1>5. Events' = Events
  BY <1>2, <1>3, <1>4 DEF Events
<1>6. \A l : Before(l)' = Before(l)
  BY <1>2, <1>3 DEF Before
<1>7. \A l : After(l)' = After(l)
  BY <1>2, <1>3 DEF After
<1> QED
  BY <1>3, <1>5, <1>6, <1>7 DEF Met, Earlier, Shown

\* The parts of the invariant are about the lines and the request only.
LEMMA SameParts ==
  ASSUME UNCHANGED <<newlines, hits, request, passed>>
  PROVE  /\ Counted(event, total, saved)' <=> Counted(event', total', saved')
         /\ KeptWell(kept, used)' <=> KeptWell(kept', used')
         /\ Held(pending, kept, full, event)' <=> Held(pending', kept', full', event')
         /\ Idle(pending, kept, full, total)' <=> Idle(pending', kept', full', total')
         /\ FullFor(full, kept, used)' <=> FullFor(full', kept', used')
         /\ RecentIs(recent, event)' <=> RecentIs(recent', event')
<1>1. request' = request
  OBVIOUS
<1>2. /\ Matching' = Matching /\ Events' = Events
      /\ \A l : Met(l)' = Met(l)
      /\ \A l : Earlier(l)' = Earlier(l)
      /\ \A l : Before(l)' = Before(l)
      /\ \A l : After(l)' = After(l)
      /\ \A l : Shown(l)' = Shown(l)
  BY SameEvents
<1>3. Counted(event, total, saved)' <=> Counted(event', total', saved')
  BY <1>1, <1>2 DEF Counted
<1>4. KeptWell(kept, used)' <=> KeptWell(kept', used')
  BY <1>1, <1>2 DEF KeptWell
<1>5. Held(pending, kept, full, event)' <=> Held(pending', kept', full', event')
  BY <1>1, <1>2 DEF Held
<1>6. Idle(pending, kept, full, total)' <=> Idle(pending', kept', full', total')
  BY <1>1 DEF Idle
<1>7. FullFor(full, kept, used)' <=> FullFor(full', kept', used')
  BY <1>1, <1>2 DEF FullFor, SizeOf
<1>8. RecentIs(recent, event)' <=> RecentIs(recent', event')
  BY <1>1, <1>2 DEF RecentIs
<1> QED
  BY <1>3, <1>4, <1>5, <1>6, <1>7, <1>8

\* A line that is only counted.
LEMMA CountOnlyStep ==
  ASSUME InputOK, request.task = "grep", Collected, NEW l, CountOnly(l)
  PROVE  Collected'
<1>1. /\ UNCHANGED <<newlines, hits, request, passed, kept, used, full, pending, recent, saved>>
      /\ event' = l /\ outcome' = "none" /\ After1(event, l)
      /\ pending = None /\ ~request.saveAll /\ (full \/ ~(Len(kept) < request.maxMatches))
      /\ total' = IF l \in Matching THEN total + 1 ELSE total
  BY DEF CountOnly, NextEvent, input, feedVars, After1, Cheap, WantsMore
<1>2. event \in Nat /\ l \in Nat
  BY <1>1, NextLineMet DEF Collected
<1>3. Counted(event', total', saved')
  <2>1. total = Cardinality(Met(event)) /\ IsFiniteSet(Met(event))
    BY EventsAreLines DEF Collected, Counted
  <2>2. CASE l \in Matching
    <3>1. Met(l) = Met(event) \cup {l} /\ l \notin Met(event)
      BY <1>1, <1>2, <2>2, NextLineMet
    <3>2. Cardinality(Met(l)) = Cardinality(Met(event)) + 1
      BY <2>1, <3>1, FS_AddElement
    <3> QED
      BY <1>1, <2>1, <2>2, <3>2 DEF Counted
  <2>3. CASE l \notin Matching
    <3>1. Met(l) = Met(event)
      BY <1>1, <1>2, <2>3, NextLineMet
    <3> QED
      BY <1>1, <2>1, <2>3, <3>1 DEF Counted
  <2> QED
    BY <2>2, <2>3
<1>4. KeptWell(kept', used') /\ FullFor(full', kept', used')
  BY <1>1 DEF Collected
<1>5. Held(pending', kept', full', event')
  BY <1>1 DEF Held
<1>6. Idle(pending', kept', full', total')
  <2>1. Len(kept) <= request.maxMatches /\ Len(kept) \in Nat /\ request.maxMatches \in Nat
    BY GrepRequest DEF Collected, KeptWell
  <2> QED
    BY <1>1, <2>1 DEF Idle
<1>7. Cheap'
  BY <1>1 DEF Cheap, WantsMore
<1>8. full' \in BOOLEAN /\ outcome' # "answered"
  BY <1>1 DEF Collected
<1> QED
  BY <1>1, <1>2, <1>3, <1>4, <1>5, <1>6, <1>7, <1>8, SameParts DEF Collected

\* _match.
LEMMA MatchStep ==
  ASSUME InputOK, request.task = "grep", Collected, NEW l, Match(l)
  PROVE  Collected'
<1>1. /\ UNCHANGED <<newlines, hits, request, passed, recent>>
      /\ event' = l /\ outcome = "none" /\ outcome' = "none" /\ After1(event, l) /\ ~Cheap
      /\ l \in Matching
      /\ kept' = Commit.kept /\ used' = Commit.used /\ full' = Commit.full
      /\ total' = total + 1
      /\ saved' = IF request.saveAll THEN saved \cup {l} ELSE saved
  BY DEF Match, NextEvent, input, feedVars, After1
<1>2. event \in Nat /\ l \in Nat
  BY <1>1, NextLineMet DEF Collected
<1>3. Met(l) = Met(event) \cup {l} /\ l \notin Met(event) /\ Earlier(l) = Met(event)
  BY <1>1, <1>2, NextLineMet
<1>4. total = Cardinality(Met(event)) /\ IsFiniteSet(Met(event)) /\ total \in Nat
      /\ (request.saveAll => saved = Met(event))
  <2>1. IsFiniteSet(Met(event)) /\ total = Cardinality(Met(event))
    BY EventsAreLines DEF Collected, Counted
  <2> QED
    BY <2>1, FS_CardinalityType DEF Collected, Counted
<1>5. Counted(event', total', saved')
  <2>1. Cardinality(Met(l)) = Cardinality(Met(event)) + 1
    BY <1>3, <1>4, FS_AddElement
  <2> QED
    BY <1>1, <1>3, <1>4, <2>1 DEF Counted
<1>6. pending # None => pending = Shown(pending.line)
  <2>1. l > event
    BY <1>1 DEF After1
  <2>2. \A c \in Events : c <= event \/ \E m \in Matching : m > event /\ m <= c
    <3>1. \A c \in Events : c \in Nat /\ (c <= event \/ c >= l)
      BY <1>1, EventsAreLines DEF After1
    <3> QED
      BY <1>1, <1>2, <2>1, <3>1
  <2> QED
    BY <2>2, HeldIsComplete
<1>7. /\ KeptWell(kept', used') /\ full' \in BOOLEAN
      /\ FullFor(full', kept', used')
      /\ ~full' => Len(kept') = total \/ Len(kept') = request.maxMatches
  BY <1>1, <1>6, CommitIsRight
<1>8. Len(kept') \in Nat /\ Len(kept') <= request.maxMatches /\ request.maxMatches \in Nat
  BY <1>7, GrepRequest DEF KeptWell
<1>9. ASSUME WantsMore(full', kept')
      PROVE  Held(pending', kept', full', event') /\ Idle(pending', kept', full', total')
  <2>1. pending' = [line |-> l, after |-> {},
                       before |-> {recent[i] : i \in {j \in DOMAIN recent :
                                                        l - recent[j] <= request.context}}]
    BY <1>9 DEF Match
  <2>2. RecentIs(recent, event)
    BY <1>1 DEF Collected
  <2>3. {recent[i] : i \in {j \in DOMAIN recent : l - recent[j] <= request.context}} = Before(l)
    BY <1>1, <1>2, <2>2, RecentIsEnough
  <2>4. {c \in After(l) : c <= l} = {}
    <3>1. \A c \in After(l) : c \in Nat /\ c > l
      BY EventsAreLines DEF After
    <3> QED
      BY <1>2, <3>1
  <2>5. /\ pending' = [line |-> l, before |-> Before(l), after |-> {c \in After(l) : c <= l}]
        /\ pending'.line = l
    BY <2>1, <2>3, <2>4
  <2>6. ~full' /\ Len(kept') < request.maxMatches
    BY <1>1, <1>9 DEF WantsMore
  <2>7. Len(kept') = total
    BY <1>7, <1>8, <2>6
  <2>8. full' = FALSE
    BY <1>7, <2>6
  <2>9. Held(pending', kept', full', event')
    BY <1>1, <1>3, <1>4, <2>5, <2>6, <2>7, <2>8 DEF Held
  <2>10. pending' # None
    <3>1. None.line = 0 /\ l # 0
      BY <1>1, <1>2, EventsAreLines DEF None, After1
    <3> QED
      BY <2>5, <3>1
  <2> QED
    BY <2>9, <2>10 DEF Idle
<1>10. ASSUME ~WantsMore(full', kept')
       PROVE  Held(pending', kept', full', event') /\ Idle(pending', kept', full', total')
  <2>1. pending' = None
    BY <1>10 DEF Match
  <2>2. full' \/ Len(kept') = request.maxMatches
    BY <1>8, <1>10, <1>1 DEF WantsMore
  <2> QED
    BY <2>1, <2>2 DEF Held, Idle
<1>11. Held(pending', kept', full', event') /\ Idle(pending', kept', full', total')
  BY <1>9, <1>10
<1>12. RecentIs(recent', event')
  <2>1. RecentIs(recent, event)
    BY <1>1 DEF Collected
  <2>2. \A c \in Events \ Matching : c \in Nat /\ (c <= l => c <= event)
    <3>1. \A c \in Events : c \in Nat /\ (c <= event \/ c >= l)
      BY <1>1, EventsAreLines DEF After1
    <3> QED
      BY <1>1, <1>2, <3>1
  <2>3. \A i \in 1..Len(recent) : recent[i] <= l
    <3>1. \A i \in 1..Len(recent) : recent[i] \in Nat /\ recent[i] <= event
      BY <2>1, <2>2 DEF RecentIs
    <3>2. l > event
      BY <1>1 DEF After1
    <3> QED
      BY <1>2, <3>1, <3>2
  <2> QED
    BY <1>1, <2>1, <2>2, <2>3 DEF RecentIs
<1> QED
  BY <1>1, <1>2, <1>5, <1>7, <1>11, <1>12, SameParts DEF Collected

\* _context_line: the match held back gets line l if it is one of its own.
LEMMA HeldGoesOn ==
  ASSUME InputOK, request.task = "grep", Collected, pending # None,
         NEW l, l \notin Matching, After1(event, l)
  PROVE  {c \in After(pending.line) : c <= l} =
           IF l - pending.line <= request.context
             THEN {c \in After(pending.line) : c <= event} \cup {l}
             ELSE {c \in After(pending.line) : c <= event}
<1> DEFINE p == pending.line
<1>1. p \in Matching /\ Met(event) = Earlier(p) \cup {p}
  BY DEF Collected, Held
<1>2. /\ \A x \in Lines : x \in Nat
      /\ \A m \in Matching : m \in Nat /\ m \in Events
      /\ \A x \in Events : x \in Lines
  BY EventsAreLines
<1>3. /\ event \in Nat /\ p \in Nat /\ p <= event /\ request.context \in Nat
      /\ l \in Events /\ l \in Nat /\ l > event
      /\ \A x \in Events : x <= event \/ x >= l
  BY <1>1, <1>2, GrepRequest DEF Collected, Met, After1
<1>4. \A m \in Matching : m <= event => m <= p
  BY <1>1, <1>2, <1>3 DEF Met, Earlier
<1> HIDE DEF p
<1>5. \A c \in After(p) : c \in Nat /\ c - p <= request.context /\ (c <= event \/ c >= l)
  <2> SUFFICES ASSUME NEW c \in After(p)
               PROVE  c \in Nat /\ c - p <= request.context /\ (c <= event \/ c >= l)
    OBVIOUS
  <2>1. c \in Lines /\ c \in Nat /\ c > p /\ c - p <= request.context
    BY <1>2 DEF After
  <2>2. p - c <= request.context
    BY <1>3, <2>1
  <2>3. c \in Events
    BY <1>1, <2>1, <2>2 DEF Events, Near
  <2> QED
    BY <1>3, <2>1, <2>3
<1>6. l \in After(p) <=> l - p <= request.context
  <2>1. l > p /\ l \in Lines
    BY <1>2, <1>3
  <2>2. \A m \in Matching : m <= p \/ m > l
    <3> SUFFICES ASSUME NEW m \in Matching PROVE m <= p \/ m > l
      OBVIOUS
    <3>1. m \in Nat /\ m # l /\ (m <= event \/ m >= l) /\ (m <= event => m <= p)
      BY <1>2, <1>3, <1>4
    <3> QED
      BY <1>3, <3>1
  <2> QED
    BY <2>1, <2>2 DEF After
<1>7. \A c \in After(p) : c <= l <=> c <= event \/ c = l
  BY <1>3, <1>5
<1>8. CASE l - p <= request.context
  <2>1. {c \in After(p) : c <= l} = {c \in After(p) : c <= event} \cup {l}
    BY <1>6, <1>7, <1>8
  <2> QED
    BY <1>8, <2>1 DEF p
<1>9. CASE ~(l - p <= request.context)
  <2>1. {c \in After(p) : c <= l} = {c \in After(p) : c <= event}
    BY <1>6, <1>7, <1>9
  <2> QED
    BY <1>9, <2>1 DEF p
<1> QED
  BY <1>8, <1>9

LEMMA ContextStep ==
  ASSUME InputOK, request.task = "grep", Collected, NEW l, ContextLine(l)
  PROVE  Collected'
<1>1. /\ UNCHANGED <<newlines, hits, request, passed, kept, total, used, full, saved>>
      /\ event' = l /\ outcome = "none" /\ outcome' = "none" /\ After1(event, l) /\ ~Cheap
      /\ l \notin Matching
      /\ pending' = IF pending # None /\ l - pending.line <= request.context
                      THEN [pending EXCEPT !.after = @ \cup {l}]
                      ELSE pending
  BY DEF ContextLine, NextEvent, input, feedVars, After1
<1>2. event \in Nat /\ l \in Nat
  BY <1>1, NextLineMet DEF Collected
<1>3. Met(l) = Met(event)
  BY <1>1, <1>2, NextLineMet
<1>4. Counted(event', total', saved')
  BY <1>1, <1>3 DEF Collected, Counted
<1>5. KeptWell(kept', used') /\ FullFor(full', kept', used')
  BY <1>1 DEF Collected
<1>6. ASSUME pending = None
      PROVE  Held(pending', kept', full', event') /\ Idle(pending', kept', full', total')
  <2>1. pending' = None
    BY <1>1, <1>6
  <2>2. ~full => Len(kept) = total \/ Len(kept) = request.maxMatches
    BY <1>6 DEF Collected, Idle
  <2> QED
    BY <1>1, <2>1, <2>2 DEF Held, Idle
<1>7. ASSUME pending # None
      PROVE  Held(pending', kept', full', event') /\ Idle(pending', kept', full', total')
  <2>1. /\ full = FALSE /\ Len(kept) < request.maxMatches
        /\ pending.line \in Matching /\ Met(event) = Earlier(pending.line) \cup {pending.line}
        /\ Cardinality(Earlier(pending.line)) = Len(kept)
        /\ pending = [line |-> pending.line, before |-> Before(pending.line),
                       after |-> {c \in After(pending.line) : c <= event}]
    BY <1>7 DEF Collected, Held
  <2>2. /\ pending' = [line |-> pending.line, before |-> Before(pending.line),
                        after |-> {c \in After(pending.line) : c <= l}]
    <3>1. CASE l - pending.line <= request.context
      <4>1. pending' = [pending EXCEPT !.after = @ \cup {l}]
        BY <1>1, <1>7, <3>1
      <4>2. {c \in After(pending.line) : c <= l} =
               {c \in After(pending.line) : c <= event} \cup {l}
        BY <1>1, <1>7, <3>1, HeldGoesOn
      <4>3. pending' = [line |-> pending.line, before |-> Before(pending.line),
                        after |-> {c \in After(pending.line) : c <= event} \cup {l}]
        <5> DEFINE n == pending.line
                   b == Before(n)
                   a == {c \in After(n) : c <= event}
        <5>1. pending = [line |-> n, before |-> b, after |-> a]
          BY <2>1
        <5> HIDE DEF n, b, a
        <5>2. pending' = [line |-> n, before |-> b, after |-> a \cup {l}]
          BY <4>1, <5>1
        <5> QED
          BY <5>2 DEF n, b, a
      <4> QED
        BY <4>2, <4>3
    <3>2. CASE ~(l - pending.line <= request.context)
      <4>1. {c \in After(pending.line) : c <= l} = {c \in After(pending.line) : c <= event}
        BY <1>1, <1>7, <3>2, HeldGoesOn
      <4> QED
        BY <1>1, <2>1, <3>2, <4>1
    <3> QED
      BY <3>1, <3>2
  <2>3. pending'.line = pending.line
    BY <2>2
  <2>4. pending' # None
    <3>1. None.line = 0 /\ pending.line # 0
      BY <2>1, EventsAreLines DEF None
    <3> QED
      BY <2>3, <3>1
  <2>5. Idle(pending', kept', full', total')
    BY <2>4 DEF Idle
  <2>6. Held(pending', kept', full', event')
    <3>1. kept' = kept /\ full' = full /\ event' = l /\ request' = request /\ Met(l) = Met(event)
      BY <1>1, <1>3
    <3> QED
      BY <2>1, <2>2, <2>3, <3>1 DEF Held
  <2> QED
    BY <2>5, <2>6
<1>8. RecentIs(recent', event')
  <2>1. RecentIs(recent, event)
    BY <1>1 DEF Collected
  <2>2. recent' = LET longer == Append(recent, l)
                  IN IF Len(longer) > request.context THEN Tail(longer) ELSE longer
    BY DEF ContextLine
  <2> QED
    BY <1>1, <1>2, <2>1, <2>2, RecentGoesOn
<1> QED
  BY <1>1, <1>2, <1>4, <1>5, <1>6, <1>7, <1>8, SameParts DEF Collected

\* finish().
LEMMA FinishStep ==
  ASSUME InputOK, request.task = "grep", Collected, Finish
  PROVE  Collected'
<1>1. /\ UNCHANGED <<newlines, hits, request, passed, event, total, recent, saved>>
      /\ outcome' = "answered" /\ pending' = None /\ \A e \in Events : e <= event
      /\ kept' = Commit.kept /\ used' = Commit.used /\ full' = Commit.full
  BY DEF Finish, input, feedVars
<1>2. pending # None => pending = Shown(pending.line)
  BY <1>1, HeldIsComplete
<1>3. /\ KeptWell(kept', used') /\ full' \in BOOLEAN
      /\ FullFor(full', kept', used')
      /\ ~full' => Len(kept') = total \/ Len(kept') = request.maxMatches
  BY <1>1, <1>2, CommitIsRight
<1>4. Counted(event', total', saved') /\ event' \in Nat
  BY <1>1 DEF Collected
<1>5. Held(pending', kept', full', event') /\ Idle(pending', kept', full', total')
  BY <1>1, <1>3 DEF Held, Idle
<1>6. \A e \in Events' : e <= event'
  BY <1>1, SameEvents
<1> QED
  BY <1>1, <1>3, <1>4, <1>5, <1>6, SameParts DEF Collected

LEMMA CollectStep == InputOK /\ CollectInv /\ [Next]_vars => CollectInv'
<1> SUFFICES ASSUME InputOK, CollectInv, [Next]_vars PROVE CollectInv'
  OBVIOUS
<1>0. request' = request
  BY InputStays DEF input
<1> SUFFICES ASSUME request.task = "grep" PROVE Blank' \/ (at' = Size /\ Collected')
  BY <1>0 DEF CollectInv
<1>1. Collected
  BY BlankIsCollected DEF CollectInv
<1>2. CASE Feed
  <2>1. Blank
    BY <1>2, ScanAssumption DEF Feed, CollectInv
  <2>2. UNCHANGED <<outcome, collectVars>>
    BY <1>2 DEF Feed
  <2> QED
    BY <2>1, <2>2 DEF Blank, collectVars
<1>3. CASE Collect
  <2>1. PICK l \in Lines : CountOnly(l) \/ Match(l) \/ ContextLine(l)
    BY <1>3 DEF Collect
  <2>2. at' = Size
    BY <2>1 DEF CountOnly, Match, ContextLine, NextEvent
  <2> QED
    BY <1>1, <2>1, <2>2, CountOnlyStep, MatchStep, ContextStep
<1>4. CASE Finish
  <2>1. at' = Size
    BY <1>4 DEF Finish
  <2> QED
    BY <1>1, <1>4, <2>1, FinishStep
<1>5. CASE UNCHANGED vars
  <2>1. UNCHANGED <<newlines, hits, request, passed, outcome, at, event, kept, total, used, full,
                    pending, recent, saved>>
    BY <1>5 DEF vars, input, feedVars, collectVars
  <2>2. CASE Blank
    BY <2>1, <2>2 DEF Blank
  <2>3. CASE at = Size
    <3>1. \A e \in Events' : e \in Events
      BY <2>1, SameEvents
    <3>2. Cheap' <=> Cheap
      BY <2>1 DEF Cheap, WantsMore
    <3>3. Collected'
      BY <1>1, <2>1, <3>1, <3>2, SameParts DEF Collected
    <3> QED
      BY <2>1, <2>3, <3>3
  <2> QED
    BY <2>2, <2>3 DEF CollectInv
<1>6. ~SliceChunk /\ ~SliceEnds /\ ~FetchBatch /\ ~DeadlineStops
  BY DEF SliceChunk, SliceEnds, FetchBatch, DeadlineStops
<1> QED
  BY <1>2, <1>3, <1>4, <1>5, <1>6 DEF Next

\* Every grep's answer is right (MatchCollector of grep.py): all matching lines
\* are counted and, when asked, saved; the matches kept are the first ones, each
\* with exactly its context, within the limits; and one is left out only
\* because it does not fit.
THEOREM GrepTrue == Spec => []GrepIsTrue
<1>1. Init => CollectInv
  BY DEF Init, CollectInv, Blank
<1>2. InputOK /\ CollectInv /\ [Next]_vars => CollectInv'
  BY CollectStep
<1>3. InputOK /\ CollectInv => GrepIsTrue
  <2> SUFFICES ASSUME InputOK, CollectInv, request.task = "grep", outcome = "answered"
               PROVE  /\ total = Cardinality(Matching)
                      /\ request.saveAll => saved = Matching
                      /\ Len(kept) <= request.maxMatches /\ used <= Budget
                      /\ \A i \in DOMAIN kept :
                           /\ kept[i] = Shown(kept[i].line)
                           /\ Cardinality({m \in Matching : m < kept[i].line}) = i - 1
                      /\ Len(kept) < total /\ Len(kept) < request.maxMatches =>
                           \E m \in Matching :
                             /\ Cardinality({n \in Matching : n < m}) = Len(kept)
                             /\ used + SizeOf(Shown(m)) > Budget
    BY DEF GrepIsTrue
  <2>1. Collected
    BY BlankIsCollected DEF CollectInv
  <2>2. pending = None /\ Met(event) = Matching
    <3>1. \A e \in Events : e <= event
      BY <2>1 DEF Collected
    <3>2. Matching \subseteq Events
      BY EventsAreLines
    <3> QED
      BY <2>1, <3>1, <3>2 DEF Met, Collected
  <2>3. total = Cardinality(Matching) /\ (request.saveAll => saved = Matching)
    BY <2>1, <2>2 DEF Collected, Counted
  <2>4. /\ kept \in Seq(Shows) /\ Len(kept) <= request.maxMatches /\ used <= Budget
        /\ \A i \in 1..Len(kept) : kept[i] = Shown(kept[i].line)
                                   /\ Cardinality(Earlier(kept[i].line)) = i - 1
    BY <2>1 DEF Collected, KeptWell
  <2>5. \A i \in DOMAIN kept :
          /\ kept[i] = Shown(kept[i].line)
          /\ Cardinality({m \in Matching : m < kept[i].line}) = i - 1
    <3>1. DOMAIN kept = 1..Len(kept)
      BY <2>4
    <3> QED
      BY <2>4, <3>1 DEF Earlier
  <2>6. ASSUME Len(kept) < total, Len(kept) < request.maxMatches
        PROVE  \E m \in Matching :
                 /\ Cardinality({n \in Matching : n < m}) = Len(kept)
                 /\ used + SizeOf(Shown(m)) > Budget
    <3>1. Len(kept) # total /\ Len(kept) # request.maxMatches
      <4>1. Len(kept) \in Nat
        BY <2>4
      <4>2. total \in Nat /\ request.maxMatches \in Nat
        <5>1. IsFiniteSet(Met(event))
          BY EventsAreLines
        <5> QED
          BY <2>2, <2>3, <5>1, FS_CardinalityType, GrepRequest
      <4> QED
        BY <2>6, <4>1, <4>2
    <3>2. full
      BY <2>1, <2>2, <3>1 DEF Collected, Idle
    <3> QED
      BY <2>1, <3>2 DEF Collected, FullFor, Earlier
  <2> QED
    BY <2>3, <2>4, <2>5, <2>6
<1> QED
  BY <1>1, <1>2, <1>3, InputAlways, PTL DEF Spec

===============================================================================
