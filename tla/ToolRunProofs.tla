----------------------------- MODULE ToolRunProofs -----------------------------
(***************************************************************************)
(* What holds of a check of one tool: the config guard that must have      *)
(* returned None, the report the tool then prints (GuardedCheck), and the  *)
(* process and drain threads it runs in (ContextRun).                      *)
(*                                                                         *)
(* Guards: the scanner's jumps agree with a lexer that reads one token at  *)
(* a time (ScannerIsLexer), so each kind of search finds exactly what a    *)
(* file holds (SearchIsExact); Walk follows the walk of a chain, from its  *)
(* start (WalkStarts) to an end at which the whole chain was met           *)
(* (WalkEnds) or a value that shows it unsound (WalkRefuses); GuardInv     *)
(* puts the two together over the searches of a guard.                     *)
(*                                                                         *)
(* Reports: Clean takes every way to a file back to the file (CleanHome),  *)
(* so each form of naming it leads to it or to nothing (RecordPut,         *)
(* SarifPut); with its position, severity and context a defect becomes     *)
(* the finding it must (OneDefect), and ReportInv says so of the defects   *)
(* read so far.                                                            *)
(*                                                                         *)
(* Processes: Conservation follows the characters from the writers to the  *)
(* threads; Progress follows the caller and the processes it kills.        *)
(***************************************************************************)
EXTENDS GuardedCheck, ContextRun, FiniteSetTheorems, SequenceTheorems, TLAPS

-------------------------------------------------------------------------------
(* Induction, and what is in a sequence of sequences                           *)

\* Every set of numbers has a least one: what every induction below rests on.
LEMMA Least ==
  ASSUME NEW T \in SUBSET Nat, T # {}
  PROVE  \E x \in T : \A y \in T : x <= y
<1> DEFINE R == {ss \in Nat \X Nat : ss[1] < ss[2]}
<1>1. IsWellFoundedOn(R, Nat)
  BY NatLessThanWellFounded DEF OpToRel
<1> HIDE DEF R
<1>2. PICK x \in T : \A y \in T : ~(<<y, x>> \in R)
  BY <1>1, WFMin
<1>3. \A y \in T : ~(y < x)
  BY <1>2 DEF R
<1> QED
  BY <1>3

\* What holds of 0 and passes from each number to the next holds up to n.
LEMMA Induction ==
  ASSUME NEW n \in Nat, NEW T, 0 \in T, \A i \in 1..n : i - 1 \in T => i \in T
  PROVE  \A i \in 0..n : i \in T
<1> DEFINE U == {i \in 0..n : i \notin T}
<1>1. ASSUME U # {} PROVE FALSE
  <2>0. U \in SUBSET Nat
    OBVIOUS
  <2> HIDE DEF U
  <2>1. PICK m \in U : \A l \in U : m <= l
    BY <1>1, <2>0, Least
  <2> USE DEF U
  <2>2. m \in 1..n /\ m - 1 \in 0..n /\ ~(m <= m - 1)
    OBVIOUS
  <2>3. m - 1 \in T
    BY <2>1, <2>2
  <2> QED
    BY <2>2, <2>3
<1> QED
  BY <1>1

\* A value at 0, and a step from each value to the next, define a function.
Follows(f, v, D, n) ==
  f[0] = v /\ \A i \in 1..n : f[i] = D[<<f[i - 1], i>>]

\* A function that starts at a value and takes each next one from the last exists.
LEMMA StepsDefine ==
  ASSUME NEW S, NEW v \in S, NEW D \in [S \X Nat -> S], NEW n \in Nat
  PROVE  \E f \in [0..n -> S] : Follows(f, v, D, n)
<1> DEFINE T == {m \in Nat : ~ \E f \in [0..m -> S] : Follows(f, v, D, m)}
<1>1. ASSUME T # {} PROVE FALSE
  <2>0. T \in SUBSET Nat
    OBVIOUS
  <2> HIDE DEF T
  <2>1. PICK m \in T : \A l \in T : m <= l
    BY <1>1, <2>0, Least
  <2> USE DEF T
  <2>2. m # 0
    <3> DEFINE f == [i \in 0..0 |-> v]
    <3>1. f \in [0..0 -> S] /\ Follows(f, v, D, 0)
      BY DEF Follows
    <3> QED
      BY <3>1
  <2>3. m \in Nat /\ m - 1 \in Nat /\ ~(m <= m - 1)
    BY <2>0, <2>2
  <2>4. m - 1 \notin T
    BY <2>1, <2>3
  <2>5. PICK g \in [0..(m - 1) -> S] : Follows(g, v, D, m - 1)
    BY <2>3, <2>4
  <2> DEFINE f == [i \in 0..m |-> IF i = m THEN D[<<g[m - 1], m>>] ELSE g[i]]
  <2>6. D[<<g[m - 1], m>>] \in S
    BY <2>3
  <2>7. f \in [0..m -> S]
    BY <2>3, <2>6
  <2>8. f[0] = v
    BY <2>2, <2>3, <2>5 DEF Follows
  <2>9. ASSUME NEW i \in 1..m PROVE f[i] = D[<<f[i - 1], i>>]
    <3>1. CASE i = m
      <4>1. m - 1 \in 0..m /\ m \in 0..m /\ m - 1 # m
        BY <2>3
      <4>2. f[m - 1] = g[m - 1]
        BY <4>1
      <4> QED
        BY <3>1, <4>1, <4>2
    <3>2. CASE i # m
      <4>1. i \in 1..(m - 1) /\ i - 1 \in 0..m /\ i - 1 # m /\ i \in 0..m
        BY <2>3, <3>2
      <4>2. g[i] = D[<<g[i - 1], i>>]
        BY <2>5, <4>1 DEF Follows
      <4> QED
        BY <3>2, <4>1, <4>2
    <3> QED
      BY <3>1, <3>2
  <2>10. Follows(f, v, D, m)
    BY <2>8, <2>9 DEF Follows
  <2> QED
    BY <2>7, <2>10
<1>2. n \notin T
  BY <1>1
<1> QED
  BY <1>2

\* A function on 1..n is a sequence of length n.
LEMMA SeqOfFunction ==
  ASSUME NEW S, NEW n \in Nat, NEW f \in [1..n -> S]
  PROVE  f \in Seq(S) /\ Len(f) = n
  OBVIOUS

\* The index before one that is not the first.
LEMMA OneBefore ==
  ASSUME NEW n \in Nat, NEW k \in 1..n, k # 1
  PROVE  k - 1 \in 1..n
  OBVIOUS

\* g[i]: the first i of the sequences in s, one after the other.
Gathers(g, s) == g[0] = <<>> /\ \A i \in 1..Len(s) : g[i] = g[i - 1] \o s[i]

\* Two sequences of elements of A, one after the other, are one of elements of A.
LEMMA JoinedTo ==
  ASSUME NEW A, NEW g \in Seq(A), NEW x \in Seq(A)
  PROVE  g \o x \in Seq(A)
  OBVIOUS

\* x, then y, are z.
Adds(x, y, z) == z = x \o y

\* a and then b, and then c, are a, and then b and c.
LEMMA AddsAssociate ==
  ASSUME NEW A, NEW a \in Seq(A), NEW b \in Seq(A), NEW c \in Seq(A),
         NEW ab, NEW bc, NEW abc, Adds(a, b, ab), Adds(b, c, bc), Adds(ab, c, abc)
  PROVE  Adds(a, bc, abc)
<1>1. (a \o b) \o c = a \o (b \o c)
  BY ConcatAssociative
<1> QED
  BY <1>1 DEF Adds

\* FlattenSeq joins the sequences one after the other, from the first on.
LEMMA FlattenIs ==
  ASSUME NEW A, NEW s \in Seq(Seq(A))
  PROVE  \E g \in [0..Len(s) -> Seq(A)] : Gathers(g, s) /\ FlattenSeq(s) = g[Len(s)]
<1> DEFINE n == Len(s)
           w(k) == IF k \in 1..n THEN s[k] ELSE <<>>
           D == [q \in Seq(A) \X Nat |-> q[1] \o w(q[2])]
<1>0. n \in Nat /\ <<>> \in Seq(A) /\ \A i \in 1..n : s[i] \in Seq(A)
  OBVIOUS
<1>1. D \in [Seq(A) \X Nat -> Seq(A)]
  <2>1. \A k \in Nat : w(k) \in Seq(A)
    BY <1>0
  <2> HIDE DEF w
  <2>2. \A q \in Seq(A) \X Nat : q[1] \in Seq(A) /\ w(q[2]) \in Seq(A)
    BY <2>1
  <2>3. \A q \in Seq(A) \X Nat : q[1] \o w(q[2]) \in Seq(A)
    BY <2>2, JoinedTo
  <2> QED
    BY <2>3
<1> HIDE DEF D
<1>2. PICK g \in [0..n -> Seq(A)] : Follows(g, <<>>, D, n)
  BY <1>0, <1>1, StepsDefine
<1>3. ASSUME NEW i \in 1..n PROVE g[i] = g[i - 1] \o s[i]
  <2>1. i - 1 \in 0..n /\ i \in Nat
    BY <1>0
  <2>2. g[i] = D[<<g[i - 1], i>>] /\ g[i - 1] \in Seq(A)
    BY <1>2, <2>1 DEF Follows
  <2> QED
    BY <2>1, <2>2 DEF D
<1>4. Gathers(g, s)
  BY <1>2, <1>3 DEF Gathers, Follows, n
<1>5. CASE n = 0
  <2>1. s = <<>> /\ g[0] = <<>>
    BY <1>4, <1>5 DEF Gathers
  <2>2. FlattenSeq(s) = s
    BY <1>5 DEF FlattenSeq, n
  <2> QED
    BY <1>4, <1>5, <2>1, <2>2 DEF n
<1>6. CASE n # 0
  <2> DEFINE Flat(f) == f = [i \in 1..n |-> IF i = 1 THEN s[i] ELSE f[i - 1] \o s[i]]
             f0 == [i \in 1..n |-> g[i]]
             flatten == CHOOSE f : Flat(f)
  <2>1. Flat(f0)
    <3>1. ASSUME NEW i \in 1..n PROVE f0[i] = IF i = 1 THEN s[i] ELSE f0[i - 1] \o s[i]
      <4>1. CASE i = 1
        <5>1. g[1] = g[0] \o s[1] /\ g[0] = <<>> /\ s[1] \in Seq(A)
          <6>1. 1 - 1 = 0 /\ 1 \in 1..n
            BY <4>1
          <6> QED
            BY <1>0, <1>3, <1>4, <6>1 DEF Gathers
        <5>2. <<>> \o s[1] = s[1]
          BY <5>1, ConcatEmptySeq
        <5> QED
          BY <4>1, <5>1, <5>2
      <4>2. CASE i # 1
        <5>1. i - 1 \in 1..n
          BY <1>0, <4>2, OneBefore
        <5> QED
          BY <1>3, <4>2, <5>1
      <4> QED
        BY <4>1, <4>2
    <3> HIDE DEF f0
    <3>2. f0 = [i \in 1..n |-> f0[i]]
      BY DEF f0
    <3> QED
      BY <3>1, <3>2
  <2>2. Flat(flatten)
    BY <2>1
  <2>3. FlattenSeq(s) = flatten[n]
    BY <1>6 DEF FlattenSeq, n, flatten
  <2> HIDE DEF flatten
  <2> DEFINE T == {i \in 0..n : i # 0 => flatten[i] = g[i]}
  <2>4. 0 \in T
    BY <1>0
  <2>5. ASSUME NEW i \in 1..n, i - 1 \in T PROVE i \in T
    <3>1. i \in 0..n
      BY <1>0
    <3>2. flatten[i] = g[i]
      <4>1. CASE i = 1
        <5>1. 1 \in 1..n
          BY <4>1
        <5>2. flatten[1] = s[1]
          BY <2>2, <5>1
        <5>3. g[1] = g[0] \o s[1]
          <6>1. g[i] = g[i - 1] \o s[i]
            BY <1>3
          <6>2. i - 1 = 0
            BY <4>1
          <6> QED
            BY <4>1, <6>1, <6>2
        <5>4. g[0] = <<>> /\ s[1] \in Seq(A)
          BY <1>0, <1>4, <5>1 DEF Gathers
        <5>5. <<>> \o s[1] = s[1]
          BY <5>4, ConcatEmptySeq
        <5> QED
          BY <4>1, <5>2, <5>3, <5>4, <5>5
      <4>2. CASE i # 1
        <5>1. i - 1 \in 1..n
          BY <1>0, <4>2, OneBefore
        <5>2. flatten[i] = flatten[i - 1] \o s[i]
          BY <2>2, <4>2
        <5>3. flatten[i - 1] = g[i - 1]
          BY <2>5, <5>1
        <5> QED
          BY <1>3, <5>2, <5>3
      <4> QED
        BY <4>1, <4>2
    <3> QED
      BY <3>1, <3>2
  <2> HIDE DEF T
  <2>6. \A i \in 0..n : i \in T
    BY <1>0, <2>4, <2>5, Induction
  <2>7. n \in 0..n
    BY <1>0
  <2>8. flatten[n] = g[n]
    BY <1>6, <2>6, <2>7 DEF T
  <2> QED
    BY <1>4, <2>3, <2>8 DEF n
<1> QED
  BY <1>5, <1>6

\* Nothing is in no sequence.
LEMMA FlattenEmpty == FlattenSeq(<<>>) = <<>>
  BY DEF FlattenSeq

\* What is in one sequence is the sequence.
LEMMA FlattenOne ==
  ASSUME NEW A, NEW x \in Seq(A)
  PROVE  FlattenSeq(<<x>>) = x
<1> DEFINE s == <<x>>
<1>1. s \in Seq(Seq(A)) /\ Len(s) = 1 /\ s[1] = x
  OBVIOUS
<1> HIDE DEF s
<1>2. PICK g \in [0..Len(s) -> Seq(A)] : Gathers(g, s) /\ FlattenSeq(s) = g[Len(s)]
  BY <1>1, FlattenIs
<1>3. g[1] = g[1 - 1] \o s[1] /\ g[0] = <<>>
  <2>1. 1 \in 1..Len(s)
    BY <1>1
  <2> QED
    BY <1>2, <2>1 DEF Gathers
<1>4. <<>> \o x = x /\ 1 - 1 = 0
  BY ConcatEmptySeq
<1>5. FlattenSeq(s) = x
  BY <1>1, <1>2, <1>3, <1>4
<1> QED
  BY <1>5 DEF s

\* What is in two sequences of sequences, one after the other.
LEMMA FlattenConcat ==
  ASSUME NEW A, NEW s \in Seq(Seq(A)), NEW t \in Seq(Seq(A))
  PROVE  /\ FlattenSeq(s) \in Seq(A)
         /\ FlattenSeq(s \o t) = FlattenSeq(s) \o FlattenSeq(t)
<1> DEFINE n == Len(s)
           m == Len(t)
           st == s \o t
<1>0. n \in Nat /\ m \in Nat /\ n \in 0..n /\ m \in 0..m /\ 0 \in 0..m /\ 0 \in 0..n
  OBVIOUS
<1>1. PICK g \in [0..n -> Seq(A)] : Gathers(g, s) /\ FlattenSeq(s) = g[n]
  BY FlattenIs DEF n
<1>2. PICK h \in [0..m -> Seq(A)] : Gathers(h, t) /\ FlattenSeq(t) = h[m]
  BY FlattenIs DEF m
<1>3. /\ st \in Seq(Seq(A)) /\ Len(st) = n + m
      /\ \A i \in 1..n : st[i] = s[i]
      /\ \A j \in 1..m : st[n + j] = t[j]
  OBVIOUS
<1> HIDE DEF st
<1>4. PICK k \in [0..Len(st) -> Seq(A)] : Gathers(k, st) /\ FlattenSeq(st) = k[Len(st)]
  BY <1>3, FlattenIs
<1>5. \A i \in 1..(n + m) : Adds(k[i - 1], st[i], k[i])
  BY <1>3, <1>4 DEF Gathers, Adds
<1>6. \A i \in 1..n : Adds(g[i - 1], s[i], g[i])
  BY <1>1 DEF Gathers, Adds
<1>7. \A j \in 1..m : Adds(h[j - 1], t[j], h[j])
  BY <1>2 DEF Gathers, Adds
<1>8. g[0] = <<>> /\ h[0] = <<>> /\ k[0] = <<>>
  BY <1>1, <1>2, <1>4 DEF Gathers
<1>9. \A i \in 1..m : t[i] \in Seq(A)
  OBVIOUS
<1> HIDE DEF n, m
<1>10. k[n] = g[n]
  <2> DEFINE T == {i \in 0..n : k[i] = g[i]}
  <2>1. 0 \in T
    BY <1>0, <1>8
  <2>2. ASSUME NEW i \in 1..n, i - 1 \in T PROVE i \in T
    <3>1. i \in 0..n /\ i \in 1..(n + m)
      BY <1>0
    <3>2. Adds(k[i - 1], s[i], k[i]) /\ Adds(g[i - 1], s[i], g[i])
      BY <1>3, <1>5, <1>6, <3>1
    <3>3. k[i - 1] = g[i - 1]
      BY <2>2
    <3>4. k[i] = g[i]
      BY <3>2, <3>3 DEF Adds
    <3> QED
      BY <3>1, <3>4
  <2> HIDE DEF T
  <2>3. \A i \in 0..n : i \in T
    BY <1>0, <2>1, <2>2, Induction
  <2> QED
    BY <1>0, <2>3 DEF T
<1>11. Adds(g[n], h[m], k[n + m])
  <2> DEFINE T == {j \in 0..m : Adds(g[n], h[j], k[n + j])}
  <2>1. 0 \in T
    <3>1. g[n] \in Seq(A) /\ n + 0 = n
      BY <1>0, <1>1
    <3>2. g[n] \o <<>> = g[n]
      BY <3>1, ConcatEmptySeq
    <3>3. Adds(g[n], h[0], k[n + 0])
      BY <1>8, <1>10, <3>1, <3>2 DEF Adds
    <3> QED
      BY <1>0, <3>3
  <2>2. ASSUME NEW j \in 1..m, j - 1 \in T PROVE j \in T
    <3>1. j \in 0..m /\ n + j \in 1..(n + m) /\ n + j - 1 = n + (j - 1) /\ j - 1 \in 0..m
      BY <1>0
    <3>2. Adds(k[n + (j - 1)], t[j], k[n + j])
      <4>1. st[n + j] = t[j]
        BY <1>3
      <4>2. PICK i \in 1..(n + m) : i = n + j /\ i - 1 = n + (j - 1)
        BY <1>0
      <4>3. Adds(k[i - 1], st[i], k[i])
        BY <1>5
      <4> QED
        BY <4>1, <4>2, <4>3
    <3>3. Adds(g[n], h[j - 1], k[n + (j - 1)])
      BY <2>2
    <3>4. g[n] \in Seq(A) /\ h[j - 1] \in Seq(A) /\ t[j] \in Seq(A)
      BY <1>0, <1>1, <1>2, <1>9, <3>1
    <3>5. Adds(h[j - 1], t[j], h[j])
      BY <1>7
    <3>6. Adds(g[n], h[j], k[n + j])
      BY <3>2, <3>3, <3>4, <3>5, AddsAssociate
    <3> QED
      BY <3>1, <3>6
  <2> HIDE DEF T
  <2>3. \A j \in 0..m : j \in T
    BY <1>0, <2>1, <2>2, Induction
  <2> QED
    BY <1>0, <2>3 DEF T
<1>12. Adds(FlattenSeq(s), FlattenSeq(t), FlattenSeq(st))
  BY <1>1, <1>2, <1>3, <1>4, <1>11
<1>13. FlattenSeq(s) \in Seq(A)
  BY <1>0, <1>1
<1> QED
  BY <1>12, <1>13 DEF st, Adds

\* What f gives for each element of s, one after the other.
Along(f, s) == FlattenSeq([i \in DOMAIN s |-> f[s[i]]])

\* st is a sequence of S, and s and then t.
Concat(st, S, s, t) ==
  /\ st \in Seq(S) /\ Len(st) = Len(s) + Len(t)
  /\ \A i \in 1..Len(s) : st[i] = s[i]
  /\ \A j \in 1..Len(t) : st[Len(s) + j] = t[j]

\* Where the elements of two sequences, one after the other, come from.
LEMMA ConcatIs ==
  ASSUME NEW S, NEW s \in Seq(S), NEW t \in Seq(S)
  PROVE  Concat(s \o t, S, s, t)
  BY DEF Concat

\* Sequences as long and alike at every index are the same.
LEMMA SameSeq ==
  ASSUME NEW S, NEW s \in Seq(S), NEW t \in Seq(S), Len(s) = Len(t),
         \A i \in 1..Len(s) : s[i] = t[i]
  PROVE  s = t
  BY SeqEqual

\* A function over the elements of a sequence gives a sequence as long.
Image(f, s) == [i \in DOMAIN s |-> f[s[i]]]
IsImage(u, B, f, s) ==
  u \in Seq(B) /\ Len(u) = Len(s) /\ \A i \in 1..Len(s) : u[i] = f[s[i]]

LEMMA ImageIs ==
  ASSUME NEW D, NEW B, NEW f \in [D -> B], NEW s \in Seq(D)
  PROVE  IsImage(Image(f, s), B, f, s)
<1> USE DEF Image, IsImage
<1> DEFINE u == [i \in DOMAIN s |-> f[s[i]]]
           n == Len(s)
<1>1. DOMAIN s = 1..n /\ n \in Nat /\ \A i \in 1..n : s[i] \in D
  OBVIOUS
<1>2. u \in [1..n -> B] /\ \A i \in 1..n : u[i] = f[s[i]]
  BY <1>1
<1> HIDE DEF u, n
<1>3. u \in Seq(B) /\ Len(u) = n
  BY <1>1, <1>2, SeqOfFunction
<1> QED
  BY <1>2, <1>3 DEF u, n

\* Along two sequences, one after the other, is along the one and then along the other.
LEMMA AlongIs ==
  ASSUME NEW D, NEW A, NEW f \in [D -> Seq(A)], NEW s \in Seq(D), NEW t \in Seq(D)
  PROVE  Along(f, s) \in Seq(A) /\ Adds(Along(f, s), Along(f, t), Along(f, s \o t))
<1> DEFINE M(r) == Image(f, r)
           st == s \o t
<1>1. /\ st \in Seq(D) /\ Len(st) = Len(s) + Len(t)
      /\ \A i \in 1..Len(s) : st[i] = s[i]
      /\ \A j \in 1..Len(t) : st[Len(s) + j] = t[j]
  BY ConcatIs DEF Concat
<1> HIDE DEF st
<1>2. \A r \in Seq(D) : M(r) \in Seq(Seq(A)) /\ Len(M(r)) = Len(r)
                        /\ \A i \in 1..Len(r) : M(r)[i] = f[r[i]]
  <2> SUFFICES ASSUME NEW r \in Seq(D)
               PROVE  /\ M(r) \in Seq(Seq(A)) /\ Len(M(r)) = Len(r)
                      /\ \A i \in 1..Len(r) : M(r)[i] = f[r[i]]
    OBVIOUS
  <2> DEFINE B == Seq(A)
  <2>1. f \in [D -> B] /\ r \in Seq(D)
    OBVIOUS
  <2> HIDE DEF B
  <2>2. IsImage(Image(f, r), B, f, r)
    BY ONLY <2>1, ImageIs
  <2> QED
    BY <2>2 DEF B, IsImage
<1> HIDE DEF M
<1> DEFINE a == M(s)
           b == M(t)
           c == M(st)
           n == Len(s)
           m == Len(t)
<1>3. /\ a \in Seq(Seq(A)) /\ b \in Seq(Seq(A)) /\ c \in Seq(Seq(A))
      /\ Len(a) = n /\ Len(b) = m /\ Len(c) = n + m
  BY <1>1, <1>2
<1>4. \A i \in 1..n : c[i] = a[i]
  <2> SUFFICES ASSUME NEW i \in 1..n PROVE c[i] = a[i]
    OBVIOUS
  <2>1. i \in 1..Len(st)
    BY <1>1
  <2>2. c[i] = f[st[i]]
    BY <1>1, <1>2, <2>1
  <2>3. a[i] = f[s[i]]
    BY <1>2
  <2> QED
    BY <1>1, <2>2, <2>3
<1>5. \A j \in 1..m : c[n + j] = b[j]
  <2> SUFFICES ASSUME NEW j \in 1..m PROVE c[n + j] = b[j]
    OBVIOUS
  <2>1. n + j \in 1..Len(st)
    BY <1>1
  <2>2. c[n + j] = f[st[n + j]]
    BY <1>1, <1>2, <2>1
  <2>3. st[n + j] = t[j]
    BY <1>1
  <2>4. b[j] = f[t[j]]
    BY <1>2
  <2> QED
    BY <2>2, <2>3, <2>4
<1>6. n \in Nat /\ m \in Nat
  OBVIOUS
<1> HIDE DEF a, b, c, n, m
<1> DEFINE ab == a \o b
<1>7. /\ ab \in Seq(Seq(A)) /\ Len(ab) = n + m
      /\ \A i \in 1..n : ab[i] = a[i]
      /\ \A j \in 1..m : ab[n + j] = b[j]
  <2>1. Concat(ab, Seq(A), a, b)
    BY <1>3, ConcatIs
  <2> HIDE DEF ab
  <2> QED
    BY <1>3, <2>1 DEF Concat
<1> HIDE DEF ab
<1>8. c = ab
  <2>1. ASSUME NEW i \in 1..(n + m) PROVE c[i] = ab[i]
    <3>1. CASE i <= n
      <4>1. i \in 1..n
        BY <1>6, <3>1
      <4> QED
        BY <1>4, <1>7, <4>1
    <3>2. CASE ~(i <= n)
      <4>1. PICK j \in 1..m : i = n + j
        <5>1. i - n \in 1..m /\ i = n + (i - n)
          BY <1>6, <3>2
        <5> QED
          BY <5>1
      <4> QED
        BY <1>5, <1>7, <4>1
    <3> QED
      BY <3>1, <3>2
  <2>2. ab \in Seq(Seq(A)) /\ Len(ab) = n + m
    BY <1>7
  <2> QED
    BY <1>3, <2>1, <2>2, SameSeq
<1>9. FlattenSeq(a) \in Seq(A) /\ FlattenSeq(a \o b) = FlattenSeq(a) \o FlattenSeq(b)
  BY <1>3, FlattenConcat
<1>10. Along(f, s) = FlattenSeq(a) /\ Along(f, t) = FlattenSeq(b) /\ Along(f, st) = FlattenSeq(c)
  BY DEF Along, Image, M, a, b, c
<1> QED
  BY <1>8, <1>9, <1>10 DEF ab, st, Adds

\* Along a single element.
LEMMA AlongOne ==
  ASSUME NEW D, NEW A, NEW f \in [D -> Seq(A)], NEW n \in D
  PROVE  Along(f, <<n>>) = f[n]
<1> DEFINE u == [i \in DOMAIN <<n>> |-> f[<<n>>[i]]]
<1>1. u = <<f[n]>>
  OBVIOUS
<1> HIDE DEF u
<1>2. f[n] \in Seq(A)
  OBVIOUS
<1>3. FlattenSeq(<<f[n]>>) = f[n]
  BY <1>2, FlattenOne
<1> QED
  BY <1>1, <1>3 DEF Along, u

\* Along no element.
LEMMA AlongNone == \A f : Along(f, <<>>) = <<>>
<1> TAKE f
<1> DEFINE u == [i \in DOMAIN <<>> |-> f[<<>>[i]]]
<1>1. u = <<>>
  OBVIOUS
<1> HIDE DEF u
<1> QED
  BY <1>1, FlattenEmpty DEF Along, u

\* Functions that agree on the elements of a sequence give the same along it.
LEMMA AlongSame ==
  ASSUME NEW D, NEW s \in Seq(D), NEW f, NEW g, \A i \in 1..Len(s) : f[s[i]] = g[s[i]]
  PROVE  Along(f, s) = Along(g, s)
<1>1. DOMAIN s = 1..Len(s)
  OBVIOUS
<1>2. [i \in DOMAIN s |-> f[s[i]]] = [i \in DOMAIN s |-> g[s[i]]]
  BY <1>1
<1> QED
  BY <1>2 DEF Along

-------------------------------------------------------------------------------
(* What is in a sequence *)

\* The elements of a sequence.
LEMMA RangeIs ==
  ASSUME NEW S, NEW s \in Seq(S)
  PROVE  /\ Range(s) \subseteq S /\ \A x : x \in Range(s) <=> \E i \in 1..Len(s) : x = s[i]
         /\ s = <<>> <=> Range(s) = {}
  BY DEF Range

\* The elements of two sequences, one after the other.
LEMMA ConcatRange ==
  ASSUME NEW S, NEW s \in Seq(S), NEW t \in Seq(S)
  PROVE  Range(s \o t) = Range(s) \cup Range(t)
<1> DEFINE st == s \o t
           n == Len(s)
           m == Len(t)
<1>1. Concat(st, S, s, t) /\ n \in Nat /\ m \in Nat
  BY ConcatIs
<1> HIDE DEF st
<1>2. /\ st \in Seq(S) /\ Len(st) = n + m
      /\ \A i \in 1..n : st[i] = s[i]
      /\ \A j \in 1..m : st[n + j] = t[j]
  BY <1>1 DEF Concat
<1>3. /\ \A x : x \in Range(s) <=> \E i \in 1..n : x = s[i]
      /\ \A x : x \in Range(t) <=> \E i \in 1..m : x = t[i]
      /\ \A x : x \in Range(st) <=> \E i \in 1..(n + m) : x = st[i]
  <2>1. \A x : x \in Range(s) <=> \E i \in 1..n : x = s[i]
    BY RangeIs
  <2>2. \A x : x \in Range(t) <=> \E i \in 1..m : x = t[i]
    BY RangeIs
  <2>3. \A x : x \in Range(st) <=> \E i \in 1..Len(st) : x = st[i]
    BY <1>2, RangeIs
  <2> HIDE DEF n, m
  <2> QED
    BY <1>2, <2>1, <2>2, <2>3
<1> HIDE DEF n, m
<1>4. \A i \in 1..n : i \in 1..(n + m)
  BY <1>1
<1>5. \A j \in 1..m : n + j \in 1..(n + m)
  BY <1>1
<1>6. \A i \in 1..(n + m) : i \in 1..n \/ \E j \in 1..m : i = n + j
  <2> TAKE i \in 1..(n + m)
  <2>1. CASE i <= n
    BY <1>1, <2>1
  <2>2. CASE ~(i <= n)
    <3>1. i - n \in 1..m /\ i = n + (i - n)
      BY <1>1, <2>2
    <3> QED
      BY <3>1
  <2> QED
    BY <2>1, <2>2
<1>7. ASSUME NEW x \in Range(st) PROVE x \in Range(s) \cup Range(t)
  <2>1. PICK i \in 1..(n + m) : x = st[i]
    BY <1>3, <1>7
  <2>2. CASE i \in 1..n
    BY <1>2, <1>3, <2>1, <2>2
  <2>3. CASE \E j \in 1..m : i = n + j
    <3>1. PICK j \in 1..m : i = n + j
      BY <2>3
    <3>2. x = t[j]
      BY <1>2, <2>1, <3>1
    <3> QED
      BY <1>3, <3>2
  <2> QED
    BY <1>6, <2>2, <2>3
<1>8. ASSUME NEW x \in Range(s) PROVE x \in Range(st)
  BY <1>2, <1>3, <1>4
<1>9. ASSUME NEW x \in Range(t) PROVE x \in Range(st)
  <2>1. PICK j \in 1..m : x = t[j]
    BY <1>3
  <2>2. PICK i \in 1..(n + m) : i = n + j
    BY <1>5
  <2>3. st[i] = x
    BY <1>2, <2>1, <2>2
  <2> QED
    BY <1>3, <2>3
<1> QED
  BY <1>7, <1>8, <1>9 DEF st

\* The elements of all of the sequences of one.
LEMMA FlattenRange ==
  ASSUME NEW A, NEW s \in Seq(Seq(A))
  PROVE  /\ FlattenSeq(s) \in Seq(A)
         /\ \A x : x \in Range(FlattenSeq(s)) <=> \E i \in 1..Len(s) : x \in Range(s[i])
<1> DEFINE n == Len(s)
<1>0. n \in Nat /\ \A i \in 1..n : s[i] \in Seq(A)
  OBVIOUS
<1>1. PICK g \in [0..n -> Seq(A)] : Gathers(g, s) /\ FlattenSeq(s) = g[n]
  BY FlattenIs
<1>2. g[0] = <<>> /\ \A i \in 1..n : g[i] = g[i - 1] \o s[i]
  BY <1>1 DEF Gathers
<1> HIDE DEF n
<1> DEFINE T == {i \in 0..n : \A x : x \in Range(g[i]) <=> \E j \in 1..i : x \in Range(s[j])}
<1>3. 0 \in T
  <2>1. Range(<<>>) = {}
    BY DEF Range
  <2> QED
    BY <1>0, <1>2, <2>1
<1>4. ASSUME NEW i \in 1..n, i - 1 \in T PROVE i \in T
  <2>1. i \in 0..n /\ i - 1 \in 0..n /\ i - 1 \in Int /\ i \in 1..i
    BY <1>0
  <2>2. Range(g[i]) = Range(g[i - 1]) \cup Range(s[i])
    <3>1. g[i - 1] \in Seq(A) /\ s[i] \in Seq(A)
      BY <1>0, <1>1, <2>1
    <3>2. Range(g[i - 1] \o s[i]) = Range(g[i - 1]) \cup Range(s[i])
      BY <3>1, ConcatRange
    <3>3. g[i] = g[i - 1] \o s[i]
      BY <1>2
    <3> QED
      BY <3>2, <3>3
  <2>3. \A x : x \in Range(g[i - 1]) <=> \E j \in 1..(i - 1) : x \in Range(s[j])
    BY <1>4
  <2>4. \A j : j \in 1..i <=> j \in 1..(i - 1) \/ j = i
    BY <2>1
  <2>5. \A x : x \in Range(g[i]) <=> \E j \in 1..i : x \in Range(s[j])
    BY <2>2, <2>3, <2>4
  <2> QED
    BY <2>1, <2>5
<1> HIDE DEF T
<1>5. \A i \in 0..n : i \in T
  BY <1>0, <1>3, <1>4, Induction
<1>6. n \in 0..n
  BY <1>0
<1>7. g[n] \in Seq(A) /\ \A x : x \in Range(g[n]) <=> \E j \in 1..n : x \in Range(s[j])
  BY <1>1, <1>5, <1>6 DEF T
<1> QED
  BY <1>1, <1>7 DEF n

\* A function of the places of a sequence.
LEMMA Placed ==
  ASSUME NEW D, NEW s \in Seq(D), NEW B, NEW h, \A i \in 1..Len(s) : h[i] \in B,
         DOMAIN h = 1..Len(s), h = [i \in 1..Len(s) |-> h[i]]
  PROVE  h \in Seq(B) /\ Len(h) = Len(s)
<1>1. Len(s) \in Nat /\ h \in [1..Len(s) -> B]
  OBVIOUS
<1> QED
  BY <1>1, SeqOfFunction

\* Where the elements at some places come from, and what they give.
LEMMA ThoseIs ==
  ASSUME NEW S, NEW s \in Seq(S), NEW P
  PROVE  /\ Those(s, P) \in Seq(S)
         /\ \A x : x \in Range(Those(s, P)) <=> \E i \in 1..Len(s) : i \in P /\ x = s[i]
<1> DEFINE u == [i \in DOMAIN s |-> IF i \in P THEN <<s[i]>> ELSE <<>>]
           n == Len(s)
<1>1. n \in Nat /\ DOMAIN s = 1..n /\ \A i \in 1..n : s[i] \in S
  OBVIOUS
<1>2. /\ DOMAIN u = 1..n /\ u = [i \in 1..n |-> u[i]]
      /\ \A i \in 1..n : u[i] = IF i \in P THEN <<s[i]>> ELSE <<>>
  BY <1>1
<1> HIDE DEF u
<1>3. \A i \in 1..n : u[i] \in Seq(S)
  <2> TAKE i \in 1..n
  <2>1. s[i] \in S /\ <<>> \in Seq(S)
    BY <1>1
  <2>2. <<s[i]>> \in Seq(S)
    BY <2>1
  <2> QED
    BY <1>2, <2>1, <2>2
<1>4. u \in Seq(Seq(S)) /\ Len(u) = n
  BY <1>2, <1>3, Placed
<1>5. /\ FlattenSeq(u) \in Seq(S)
      /\ \A x : x \in Range(FlattenSeq(u)) <=> \E i \in 1..n : x \in Range(u[i])
  BY <1>4, FlattenRange
<1>6. \A i \in 1..n : \A x : x \in Range(u[i]) <=> i \in P /\ x = s[i]
  <2> TAKE i \in 1..n
  <2>1. Range(<<s[i]>>) = {s[i]} /\ Range(<<>>) = {}
    BY DEF Range
  <2> QED
    BY <1>2, <2>1
<1>7. FlattenSeq(u) = Those(s, P)
  BY DEF Those, u
<1> QED
  BY <1>5, <1>6, <1>7

\* What is kept of a sequence, and what is made of it, place by place.
LEMMA AlongThose ==
  ASSUME NEW S, NEW s \in Seq(S), NEW P, NEW A, NEW k \in [S -> Seq(A)]
  PROVE  Along(k, Those(s, P)) = FlattenSeq([i \in DOMAIN s |-> IF i \in P THEN k[s[i]] ELSE <<>>])
<1> DEFINE u == [i \in DOMAIN s |-> IF i \in P THEN <<s[i]>> ELSE <<>>]
           v == [i \in DOMAIN s |-> IF i \in P THEN k[s[i]] ELSE <<>>]
           n == Len(s)
<1>1. n \in Nat /\ n \in 0..n /\ DOMAIN s = 1..n /\ \A i \in 1..n : s[i] \in S
  OBVIOUS
<1>2. /\ DOMAIN u = 1..n /\ u = [i \in 1..n |-> u[i]]
      /\ \A i \in 1..n : u[i] = IF i \in P THEN <<s[i]>> ELSE <<>>
  BY <1>1
<1>3. /\ DOMAIN v = 1..n /\ v = [i \in 1..n |-> v[i]]
      /\ \A i \in 1..n : v[i] = IF i \in P THEN k[s[i]] ELSE <<>>
  BY <1>1
<1> HIDE DEF u, v
<1>4. \A i \in 1..n : u[i] \in Seq(S) /\ v[i] \in Seq(A)
  <2> TAKE i \in 1..n
  <2>1. s[i] \in S /\ k[s[i]] \in Seq(A) /\ <<>> \in Seq(A) /\ <<>> \in Seq(S)
    BY <1>1
  <2>2. <<s[i]>> \in Seq(S)
    BY <2>1
  <2> QED
    BY <1>2, <1>3, <2>1, <2>2
<1>5. u \in Seq(Seq(S)) /\ Len(u) = n
  BY <1>2, <1>4, Placed
<1>6. v \in Seq(Seq(A)) /\ Len(v) = n
  BY <1>3, <1>4, Placed
<1>7. PICK g \in [0..n -> Seq(S)] : Gathers(g, u) /\ FlattenSeq(u) = g[n]
  BY <1>5, FlattenIs
<1>8. PICK h \in [0..n -> Seq(A)] : Gathers(h, v) /\ FlattenSeq(v) = h[n]
  BY <1>6, FlattenIs
<1>9. /\ g[0] = <<>> /\ \A i \in 1..n : Adds(g[i - 1], u[i], g[i])
      /\ h[0] = <<>> /\ \A i \in 1..n : Adds(h[i - 1], v[i], h[i])
  BY <1>5, <1>6, <1>7, <1>8 DEF Gathers, Adds
<1>10. \A i \in 1..n : Along(k, u[i]) = v[i]
  <2> TAKE i \in 1..n
  <2>1. Along(k, <<s[i]>>) = k[s[i]]
    <3>1. s[i] \in S
      BY <1>1
    <3> DEFINE x == s[i]
    <3>2. x \in S
      BY <3>1
    <3> HIDE DEF x
    <3>3. Along(k, <<x>>) = k[x]
      BY <3>2, AlongOne
    <3> QED
      BY <3>3 DEF x
  <2>2. Along(k, <<>>) = <<>>
    BY AlongNone
  <2> QED
    BY <1>2, <1>3, <2>1, <2>2
<1> HIDE DEF n
<1> DEFINE T == {i \in 0..n : Along(k, g[i]) = h[i]}
<1>11. 0 \in T
  BY <1>1, <1>9, AlongNone
<1>12. ASSUME NEW i \in 1..n, i - 1 \in T PROVE i \in T
  <2>1. i \in 0..n /\ i - 1 \in 0..n
    BY <1>1
  <2>2. g[i - 1] \in Seq(S) /\ u[i] \in Seq(S)
    BY <1>4, <1>7, <2>1
  <2>3. Adds(Along(k, g[i - 1]), Along(k, u[i]), Along(k, g[i - 1] \o u[i]))
    BY <2>2, AlongIs
  <2>4. g[i - 1] \o u[i] = g[i] /\ h[i - 1] \o v[i] = h[i]
    BY <1>9 DEF Adds
  <2>5. Along(k, g[i - 1]) = h[i - 1]
    BY <1>12
  <2>6. Along(k, g[i]) = h[i]
    BY <1>10, <2>3, <2>4, <2>5 DEF Adds
  <2> QED
    BY <2>1, <2>6
<1> HIDE DEF T
<1>13. \A i \in 0..n : i \in T
  BY <1>1, <1>11, <1>12, Induction
<1>14. Along(k, g[n]) = h[n]
  BY <1>1, <1>13 DEF T
<1>15. Those(s, P) = g[n]
  BY <1>7 DEF Those, u
<1> QED
  BY <1>8, <1>14, <1>15 DEF v

-------------------------------------------------------------------------------
(* The scanner and the lexer *)

\* A function that is what each step makes of the value before takes those values.
Takes(F, S, v, D, n) ==
  F[0] = v /\ \A i \in 1..n : F[i - 1] \in S => F[i] = D[<<F[i - 1], i>>]

\* A function that takes its values step by step keeps them in the set.
LEMMA StepsAre ==
  ASSUME NEW S, NEW v \in S, NEW D \in [S \X Nat -> S], NEW n \in Nat, NEW F,
         Takes(F, S, v, D, n)
  PROVE  /\ \A i \in 0..n : F[i] \in S
         /\ \A i \in 1..n : F[i] = D[<<F[i - 1], i>>]
<1> DEFINE T == {i \in 0..n : F[i] \in S}
<1>0. F[0] = v /\ \A i \in 1..n : F[i - 1] \in S => F[i] = D[<<F[i - 1], i>>]
  BY DEF Takes
<1>1. 0 \in T
  BY <1>0
<1>2. ASSUME NEW i \in 1..n, i - 1 \in T PROVE i \in T
  <2>1. F[i - 1] \in S /\ i \in 0..n /\ i \in Nat
    BY <1>2
  <2>2. F[i] = D[<<F[i - 1], i>>]
    BY <1>0, <2>1
  <2>3. D[<<F[i - 1], i>>] \in S
    BY <2>1
  <2> QED
    BY <2>1, <2>2, <2>3
<1> HIDE DEF T
<1>3. \A i \in 0..n : i \in T
  BY <1>1, <1>2, Induction
<1>4. \A i \in 0..n : F[i] \in S
  BY <1>3 DEF T
<1>5. \A i \in 1..n : i - 1 \in 0..n
  OBVIOUS
<1> QED
  BY <1>0, <1>4, <1>5

\* The least of a set of numbers.
LEMMA MinIs ==
  ASSUME NEW X \in SUBSET Nat, X # {}
  PROVE  Min(X) \in X /\ \A y \in X : Min(X) <= y
<1>1. \E x \in X : \A y \in X : x <= y
  BY Least
<1> QED
  BY <1>1 DEF Min

\* A run of escapes reaches back to a place that no escape of the string precedes.
LEMMA RunStarts ==
  ASSUME NEW T, NEW text \in Seq(T), NEW i \in Nat, NEW p \in Nat, i < p, p <= Len(text),
         text[p].t = "escape"
  PROVE  \E k \in (i + 1)..p : /\ \A m \in k..p : text[m].t = "escape"
                               /\ k - 1 = i \/ text[k - 1].t # "escape"
<1> DEFINE X == {k \in (i + 1)..p : \A m \in k..p : text[m].t = "escape"}
<1>1. X \in SUBSET Nat
  OBVIOUS
<1>2. p \in X
  <2>1. \A m \in p..p : m = p
    OBVIOUS
  <2>2. p \in (i + 1)..p
    OBVIOUS
  <2> QED
    BY <2>1, <2>2
<1> HIDE DEF X
<1>3. PICK k \in X : \A y \in X : k <= y
  BY <1>1, <1>2, Least
<1>4. k \in (i + 1)..p /\ \A m \in k..p : text[m].t = "escape"
  BY <1>3 DEF X
<1>5. ASSUME k - 1 # i, text[k - 1].t = "escape" PROVE FALSE
  <2>1. k - 1 \in (i + 1)..p /\ ~(k <= k - 1)
    BY <1>4, <1>5
  <2>2. \A m \in (k - 1)..p : m = k - 1 \/ m \in k..p
    BY <1>4
  <2>3. k - 1 \in X
    BY <1>4, <1>5, <2>1, <2>2 DEF X
  <2> QED
    BY <1>3, <2>1, <2>3
<1> QED
  BY <1>4, <1>5

\* k is where the run of escapes up to j starts, in the string that starts at i.
RunFrom(text, i, j, k) ==
  /\ k \in (i + 1)..(j - 1)
  /\ \A m \in k..(j - 1) : text[m].t = "escape"
  /\ k - 1 = i \/ text[k - 1].t # "escape"

\* A run starts at one place only.
LEMMA RunIsOne ==
  ASSUME NEW text, NEW i \in Nat, NEW j \in Nat, NEW k, NEW l,
         RunFrom(text, i, j, k), RunFrom(text, i, j, l)
  PROVE  k = l
<1>1. k \in (i + 1)..(j - 1) /\ l \in (i + 1)..(j - 1) /\ k \in Int /\ l \in Int
  BY DEF RunFrom
<1>2. CASE k < l
  <2>1. l - 1 \in k..(j - 1) /\ l - 1 # i
    BY <1>1, <1>2
  <2> QED
    BY <2>1 DEF RunFrom
<1>3. CASE l < k
  <2>1. k - 1 \in l..(j - 1) /\ k - 1 # i
    BY <1>1, <1>3
  <2> QED
    BY <2>1 DEF RunFrom
<1> QED
  BY <1>1, <1>2, <1>3

\* And its length is odd.
OddRun(text, i, j, k) == RunFrom(text, i, j, k) /\ (j - k) % 2 = 1

\* Escaped, with the run named.
LEMMA EscapedIs ==
  ASSUME NEW text, NEW i, NEW j
  PROVE  Escaped(text, i, j) <=> \E k : OddRun(text, i, j, k)
  BY DEF Escaped, RunFrom, OddRun

\* A token is escaped when the one before it is an escape that is not.
LEMMA EscapedNext ==
  ASSUME NEW T, NEW text \in Seq(T), NEW i \in Nat, NEW p \in Nat, i < p, p <= Len(text)
  PROVE  Escaped(text, i, p + 1) <=> text[p].t = "escape" /\ ~Escaped(text, i, p)
<1>0. \A k : k \in (i + 1)..p => (((p + 1) - k) % 2 = 1 <=> ~((p - k) % 2 = 1))
  OBVIOUS
<1>1. ASSUME Escaped(text, i, p + 1) PROVE text[p].t = "escape" /\ ~Escaped(text, i, p)
  <2>0. PICK k : OddRun(text, i, p + 1, k)
    BY <1>1, EscapedIs
  <2>1. RunFrom(text, i, p + 1, k) /\ ((p + 1) - k) % 2 = 1
    BY <2>0 DEF OddRun
  <2>2. k \in (i + 1)..p /\ p + 1 - 1 = p /\ k \in Int
    BY <2>1 DEF RunFrom
  <2>3. \A m \in k..p : text[m].t = "escape"
    BY <2>1, <2>2 DEF RunFrom
  <2>4. text[p].t = "escape"
    <3>1. p \in k..p
      BY <2>2
    <3> QED
      BY <2>3, <3>1
  <2>5. ASSUME NEW l, RunFrom(text, i, p, l), (p - l) % 2 = 1 PROVE FALSE
    <3>1. l \in (i + 1)..(p - 1) /\ \A m \in l..(p - 1) : text[m].t = "escape"
      BY <2>5 DEF RunFrom
    <3>2. l \in (i + 1)..p /\ \A m \in l..p : m = p \/ m \in l..(p - 1)
      BY <3>1
    <3>3. RunFrom(text, i, p + 1, l)
      BY <2>2, <2>4, <2>5, <3>1, <3>2 DEF RunFrom
    <3>4. l = k
      <4>1. p + 1 \in Nat
        OBVIOUS
      <4> QED
        BY <2>1, <3>3, <4>1, RunIsOne
    <3> QED
      BY <1>0, <2>1, <2>5, <3>2, <3>4
  <2> QED
    BY <2>4, <2>5, EscapedIs DEF OddRun
<1>2. ASSUME text[p].t = "escape", ~Escaped(text, i, p) PROVE Escaped(text, i, p + 1)
  <2>1. PICK k \in (i + 1)..p : /\ \A m \in k..p : text[m].t = "escape"
                                /\ k - 1 = i \/ text[k - 1].t # "escape"
    BY <1>2, RunStarts
  <2>2. p + 1 - 1 = p /\ k \in Int
    OBVIOUS
  <2>3. RunFrom(text, i, p + 1, k)
    BY <2>1, <2>2 DEF RunFrom
  <2>4. CASE ((p + 1) - k) % 2 = 1
    BY <2>3, <2>4, EscapedIs DEF OddRun
  <2>5. CASE ~(((p + 1) - k) % 2 = 1)
    <3>1. (p - k) % 2 = 1
      BY <1>0, <2>5
    <3>2. k # p
      <4>1. (p - p) % 2 = 0
        OBVIOUS
      <4> QED
        BY <3>1, <4>1
    <3>3. k \in (i + 1)..(p - 1) /\ \A m \in k..(p - 1) : m \in k..p
      BY <3>2
    <3>4. RunFrom(text, i, p, k)
      BY <2>1, <3>3 DEF RunFrom
    <3> QED
      BY <1>2, <3>1, <3>4, EscapedIs DEF OddRun
  <2> QED
    BY <2>4, <2>5
<1> QED
  BY <1>1, <1>2

\* The first token of a string is not escaped.
LEMMA FirstNotEscaped ==
  ASSUME NEW text, NEW i \in Nat
  PROVE  ~Escaped(text, i, i + 1)
  BY DEF Escaped
\* The first place of a set of later ones, or the end.
LEMMA MinPlace ==
  ASSUME NEW n \in Nat, NEW i \in 1..n, NEW C \in SUBSET ((i + 1)..n)
  PROVE  /\ Min(C \cup {n}) + 1 \in (i + 1)..(n + 1)
         /\ Min(C \cup {n}) \in Int
         /\ \A p \in C : Min(C \cup {n}) <= p
         /\ C = {} => Min(C \cup {n}) = n
         /\ C # {} => Min(C \cup {n}) \in C
<1> DEFINE X == C \cup {n}
<1>1. X \in SUBSET Nat /\ X # {} /\ X \subseteq i..n
  OBVIOUS
<1> HIDE DEF X
<1>2. Min(X) \in X /\ \A y \in X : Min(X) <= y
  BY <1>1, MinIs
<1>3. Min(X) \in i..n
  BY <1>1, <1>2
<1>4. \A p \in C : Min(X) <= p
  BY <1>2 DEF X
<1>5. C = {} => Min(X) = n
  BY <1>2 DEF X
<1>6. ASSUME C # {} PROVE Min(X) \in C
  <2>1. PICK p \in C : TRUE
    BY <1>6
  <2>2. p \in (i + 1)..n /\ Min(X) <= p
    BY <1>4, <2>1
  <2>3. CASE Min(X) = n
    <3>1. p = n
      BY <1>3, <2>2, <2>3
    <3> QED
      BY <2>1, <2>3, <3>1
  <2>4. CASE Min(X) # n
    BY <1>2, <2>4 DEF X
  <2> QED
    BY <2>3, <2>4
<1>7. Min(X) \in Int /\ Min(X) + 1 \in (i + 1)..(n + 1)
  BY <1>3
<1> QED
  BY <1>4, <1>5, <1>6, <1>7 DEF X

\* A token that starts a line comment.
IsLine(x, hashes) == x.t = "line" \/ (hashes /\ x.t = "hash")

\* r is where the scanner goes on after what starts at i.
GoesOn(text, hashes, i, r) ==
  /\ r \in (i + 1)..(Len(text) + 1)
  /\ text[i].t = "quote" =>
       /\ \A p \in Closing(text, i) : r - 1 <= p
       /\ IF Closing(text, i) = {} THEN r = Len(text) + 1 ELSE r - 1 \in Closing(text, i)
  /\ text[i].t = "open" =>
       /\ \A p \in From(text, "close", i + 1) : r - 1 <= p
       /\ IF From(text, "close", i + 1) = {} THEN r = Len(text) + 1 ELSE r - 1 \in From(text, "close", i + 1)
  /\ IsLine(text[i], hashes) =>
       /\ \A p \in i..Len(text) : p < r => text[p].t # "newline"
       /\ r <= Len(text) => text[r].t = "newline"
  /\ text[i].t \notin {"quote", "open"} /\ ~IsLine(text[i], hashes) => r = i + 1

\* Where the scanner goes on: at the next place, or where the run it started ends.
LEMMA ResumesIs ==
  ASSUME NEW T, NEW text \in Seq(T), NEW hashes \in BOOLEAN, NEW i \in 1..Len(text)
  PROVE  GoesOn(text, hashes, i, Resumes(text, hashes, i))
<1> DEFINE n == Len(text)
           r == Resumes(text, hashes, i)
<1>1. n \in Nat /\ i \in 1..n
  OBVIOUS
<1>2. CASE text[i].t = "quote"
  <2> DEFINE C == Closing(text, i)
  <2>1. C \in SUBSET ((i + 1)..n)
    BY DEF Closing
  <2>2. r = Min(C \cup {n}) + 1
    BY <1>2 DEF Resumes
  <2>3. ~IsLine(text[i], hashes) /\ text[i].t # "open"
    BY <1>2 DEF IsLine
  <2> HIDE DEF C, n, r
  <2> DEFINE m == Min(C \cup {n})
  <2>4. /\ m + 1 \in (i + 1)..(n + 1)
        /\ m \in Int
        /\ \A p \in C : m <= p
        /\ C = {} => m = n
        /\ C # {} => m \in C
    BY <1>1, <2>1, MinPlace
  <2>5. r = m + 1
    BY <2>2
  <2> HIDE DEF m
  <2>6. m \in Int
    BY <2>4
  <2>7. r - 1 = m
    BY <2>5, <2>6
  <2>8. r \in (i + 1)..(n + 1) /\ \A p \in C : r - 1 <= p
    BY <2>4, <2>5, <2>7
  <2>9. IF C = {} THEN r = n + 1 ELSE r - 1 \in C
    BY <2>4, <2>5, <2>7
  <2> QED
    BY <1>2, <2>3, <2>8, <2>9 DEF GoesOn, C, n, r
<1>3. CASE text[i].t = "open"
  <2> DEFINE C == From(text, "close", i + 1)
  <2>1. C \in SUBSET ((i + 1)..n)
    BY DEF From
  <2>2. r = Min(C \cup {n}) + 1
    BY <1>3 DEF Resumes
  <2>3. ~IsLine(text[i], hashes) /\ text[i].t # "quote"
    BY <1>3 DEF IsLine
  <2> HIDE DEF C, n, r
  <2> DEFINE m == Min(C \cup {n})
  <2>4. /\ m + 1 \in (i + 1)..(n + 1)
        /\ m \in Int
        /\ \A p \in C : m <= p
        /\ C = {} => m = n
        /\ C # {} => m \in C
    BY <1>1, <2>1, MinPlace
  <2>5. r = m + 1
    BY <2>2
  <2> HIDE DEF m
  <2>6. m \in Int
    BY <2>4
  <2>7. r - 1 = m
    BY <2>5, <2>6
  <2>8. r \in (i + 1)..(n + 1) /\ \A p \in C : r - 1 <= p
    BY <2>4, <2>5, <2>7
  <2>9. IF C = {} THEN r = n + 1 ELSE r - 1 \in C
    BY <2>4, <2>5, <2>7
  <2> QED
    BY <1>3, <2>3, <2>8, <2>9 DEF GoesOn, C, n, r
<1>4. CASE IsLine(text[i], hashes)
  <2> DEFINE X == From(text, "newline", i) \cup {n + 1}
  <2>1. /\ X \in SUBSET Nat /\ X # {} /\ X \subseteq i..(n + 1) /\ i \notin X
        /\ text[i].t \notin {"quote", "open", "newline"}
    BY <1>4 DEF From, IsLine
  <2>2. r = Min(X)
    BY <1>4, <2>1 DEF Resumes, IsLine, First
  <2>3. \A p \in i..n : text[p].t = "newline" => p \in X
    BY DEF From
  <2>4. \A p \in X : p <= n => text[p].t = "newline"
    BY DEF From
  <2> HIDE DEF X, r
  <2>5. r \in X /\ \A y \in X : r <= y
    BY <2>1, <2>2, MinIs
  <2>6. r \in (i + 1)..(n + 1)
    BY <1>1, <2>1, <2>5
  <2>7. \A p \in i..n : p < r => text[p].t # "newline"
    BY <2>3, <2>5, <2>6
  <2>8. r <= n => text[r].t = "newline"
    BY <2>4, <2>5
  <2> QED
    BY <1>4, <2>1, <2>6, <2>7, <2>8 DEF GoesOn, n, r
<1>5. CASE text[i].t \notin {"quote", "open"} /\ ~IsLine(text[i], hashes)
  <2>1. r = i + 1
    BY <1>5 DEF Resumes, IsLine
  <2>2. i + 1 \in (i + 1)..(n + 1)
    BY <1>1
  <2> QED
    BY <1>5, <2>1, <2>2 DEF GoesOn
<1> QED
  BY <1>2, <1>3, <1>4, <1>5

\* What a lexer can be in.
States == {"code", "string", "escaped", "line", "block"}

\* A lexer is in one of its states after each token.
LEMMA AfterIs ==
  ASSUME NEW in \in States, NEW x, NEW hashes \in BOOLEAN
  PROVE  After(in, x, hashes) \in States
  BY DEF After, States

\* The lexer starts in code, and each token takes it from a state to the next.
LEMMA LexerIs ==
  ASSUME NEW T, NEW text \in Seq(T), NEW hashes \in BOOLEAN
  PROVE  /\ LexerAt(text, hashes, 1) = "code"
         /\ \A i \in 1..(Len(text) + 1) : LexerAt(text, hashes, i) \in States
         /\ \A i \in 1..Len(text) :
              LexerAt(text, hashes, i + 1) = After(LexerAt(text, hashes, i), text[i], hashes)
<1> DEFINE n == Len(text)
           e(s, i) == After(s, text[i], hashes)
           Is(f) == f = [i \in 0..n |-> IF i = 0 THEN "code" ELSE After(f[i - 1], text[i], hashes)]
           F == CHOOSE f : Is(f)
           D == [q \in States \X Nat |-> After(q[1], text[q[2]], hashes)]
<1>1. n \in Nat /\ "code" \in States /\ D \in [States \X Nat -> States]
  BY AfterIs DEF States
<1>2. PICK f \in [0..n -> States] : Follows(f, "code", D, n)
  <2> HIDE DEF D
  <2> QED
    BY <1>1, StepsDefine
<1>3. Is(f)
  <2>1. ASSUME NEW i \in 1..n PROVE f[i] = After(f[i - 1], text[i], hashes)
    <3>1. i - 1 \in 0..n /\ i \in Nat
      BY <1>1
    <3>2. f[i] = D[<<f[i - 1], i>>] /\ f[i - 1] \in States
      BY <1>2, <3>1 DEF Follows
    <3> QED
      BY <3>1, <3>2
  <2>2. f[0] = "code"
    BY <1>2 DEF Follows
  <2> QED
    BY <1>1, <1>2, <2>1, <2>2
<1>4. Is(F)
  BY <1>3
<1>5. \A i : LexerAt(text, hashes, i) = F[i - 1]
  BY DEF LexerAt
<1> HIDE DEF F
<1>6. F[0] = "code" /\ \A i \in 1..n : F[i] = After(F[i - 1], text[i], hashes)
  BY <1>1, <1>4
<1>7. \A i \in 1..n : F[i - 1] \in States => F[i] = D[<<F[i - 1], i>>]
  BY <1>6
<1> HIDE DEF D
<1>8. \A i \in 0..n : F[i] \in States
  <2>1. Takes(F, States, "code", D, n)
    BY <1>6, <1>7 DEF Takes
  <2> QED
    BY <1>1, <2>1, StepsAre
<1>9. LexerAt(text, hashes, 1) = "code"
  <2>1. 1 - 1 = 0
    OBVIOUS
  <2>2. LexerAt(text, hashes, 1) = F[1 - 1]
    BY <1>5
  <2> QED
    BY <1>6, <2>1, <2>2
<1>10. ASSUME NEW i \in 1..(n + 1) PROVE LexerAt(text, hashes, i) \in States
  <2>1. i - 1 \in 0..n
    BY <1>1
  <2> QED
    BY <1>5, <1>8, <2>1
<1>11. ASSUME NEW i \in 1..n
       PROVE  LexerAt(text, hashes, i + 1) = After(LexerAt(text, hashes, i), text[i], hashes)
  <2>1. (i + 1) - 1 = i
    BY <1>1
  <2>2. LexerAt(text, hashes, i + 1) = F[(i + 1) - 1]
    BY <1>5
  <2> QED
    BY <1>5, <1>6, <2>1, <2>2
<1> QED
  BY <1>9, <1>10, <1>11 DEF n

\* The scanner stands at the first place, and where it goes on after each it stands at.
LEMMA StartsAre ==
  ASSUME NEW T, NEW text \in Seq(T), NEW hashes \in BOOLEAN
  PROVE  /\ Starts(text, hashes) \subseteq 1..Len(text)
         /\ Len(text) # 0 => 1 \in Starts(text, hashes)
         /\ \A j \in Starts(text, hashes) : Resumes(text, hashes, j) <= Len(text)
              => Resumes(text, hashes, j) \in Starts(text, hashes)
         /\ \A i \in Starts(text, hashes) : i # 1 =>
              \E j \in Starts(text, hashes) : j < i /\ Resumes(text, hashes, j) = i
<1> DEFINE n == Len(text)
           R(j) == Resumes(text, hashes, j)
           N == Nat \ {0}
           Is(f) == f = [i \in 0..n |-> IF i = 0 THEN 1 ELSE IF f[i - 1] > n THEN f[i - 1] ELSE R(f[i - 1])]
           F == CHOOSE f : Is(f)
           D == [q \in N \X Nat |-> IF q[1] > n THEN q[1] ELSE R(q[1])]
<1>1. n \in Nat /\ 1 \in N
  OBVIOUS
<1>2. \A j \in 1..n : R(j) \in (j + 1)..(n + 1)
  BY ResumesIs DEF GoesOn
<1>3. Starts(text, hashes) = {F[i] : i \in 0..n} \cap (1..n)
  BY DEF Starts
<1> HIDE DEF n, R, F
<1>4. \A x \in N : x > n \/ (x \in 1..n /\ R(x) \in N /\ R(x) \in Nat /\ x < R(x))
  <2> TAKE x \in N
  <2>1. x > n \/ x \in 1..n
    BY <1>1
  <2>2. CASE x \in 1..n
    <3>1. R(x) \in (x + 1)..(n + 1)
      BY <1>2, <2>2
    <3> QED
      BY <1>1, <2>2, <3>1
  <2> QED
    BY <2>1, <2>2
<1>5. D \in [N \X Nat -> N]
  BY <1>4
<1>6. PICK f \in [0..n -> N] : Follows(f, 1, D, n)
  <2> HIDE DEF D, N
  <2> QED
    BY <1>1, <1>5, StepsDefine
<1>7. Is(f)
  <2>1. ASSUME NEW i \in 1..n PROVE f[i] = IF f[i - 1] > n THEN f[i - 1] ELSE R(f[i - 1])
    <3>1. i - 1 \in 0..n /\ i \in Nat
      BY <1>1
    <3>2. f[i] = D[<<f[i - 1], i>>] /\ f[i - 1] \in N
      BY <1>6, <3>1 DEF Follows
    <3> QED
      BY <3>1, <3>2
  <2>2. f[0] = 1
    BY <1>6 DEF Follows
  <2> QED
    BY <1>1, <1>6, <2>1, <2>2
<1>8. Is(F)
  BY <1>7 DEF F
<1>9. F[0] = 1 /\ \A i \in 1..n : F[i] = IF F[i - 1] > n THEN F[i - 1] ELSE R(F[i - 1])
  BY <1>1, <1>8
<1>10. \A i \in 1..n : F[i - 1] \in N => F[i] = D[<<F[i - 1], i>>]
  BY <1>9
<1> HIDE DEF D
<1>11. \A i \in 0..n : F[i] \in N
  <2> HIDE DEF N
  <2>1. Takes(F, N, 1, D, n)
    BY <1>9, <1>10 DEF Takes
  <2> QED
    BY <1>1, <1>5, <2>1, StepsAre
<1> DEFINE T2 == {i \in 0..n : i < F[i]}
<1>12. 0 \in T2
  BY <1>1, <1>9
<1>13. ASSUME NEW i \in 1..n, i - 1 \in T2 PROVE i \in T2
  <2>1. i - 1 \in 0..n /\ i \in 0..n /\ i - 1 < F[i - 1] /\ F[i - 1] \in N
    BY <1>11, <1>13
  <2>2. CASE F[i - 1] > n
    BY <1>1, <1>9, <2>1, <2>2
  <2>3. CASE ~(F[i - 1] > n)
    <3>1. F[i] = R(F[i - 1]) /\ F[i - 1] < R(F[i - 1]) /\ R(F[i - 1]) \in Nat
      BY <1>4, <1>9, <2>1, <2>3
    <3> QED
      BY <1>1, <2>1, <3>1
  <2> QED
    BY <2>2, <2>3
<1> HIDE DEF T2
<1>14. \A i \in 0..n : i \in T2
  BY <1>1, <1>12, <1>13, Induction
<1>15. \A i \in 0..n : i < F[i]
  BY <1>14 DEF T2
<1> DEFINE S == {F[i] : i \in 0..n} \cap (1..n)
<1>16. S \subseteq 1..n
  OBVIOUS
<1>17. n # 0 => 1 \in S
  <2>1. 0 \in 0..n
    BY <1>1
  <2> QED
    BY <1>1, <1>9, <2>1
<1>18. ASSUME NEW j \in S, R(j) <= n PROVE R(j) \in S
  <2>1. PICK k \in 0..n : j = F[k]
    OBVIOUS
  <2>2. j \in 1..n /\ k < j /\ j < R(j) /\ R(j) \in Nat
    <3>1. j \in 1..n /\ j \in N /\ ~(j > n)
      BY <1>1
    <3> QED
      BY <1>4, <1>15, <2>1, <3>1
  <2>3. k + 1 \in 1..n /\ k + 1 \in 0..n /\ (k + 1) - 1 = k /\ ~(j > n) /\ R(j) \in 1..n
    BY <1>1, <1>18, <2>2
  <2>4. F[k + 1] = R(j)
    <3>1. F[k + 1] = IF F[(k + 1) - 1] > n THEN F[(k + 1) - 1] ELSE R(F[(k + 1) - 1])
      BY <1>9, <2>3
    <3> QED
      BY <2>1, <2>3, <3>1
  <2> QED
    BY <2>3, <2>4
<1>19. ASSUME NEW i \in S, i # 1 PROVE \E j \in S : j < i /\ R(j) = i
  <2>1. PICK k \in 0..n : i = F[k]
    OBVIOUS
  <2>2. k # 0 /\ k \in 1..n /\ k - 1 \in 0..n /\ i \in 1..n
    BY <1>1, <1>9, <1>19, <2>1
  <2>3. F[k] = IF F[k - 1] > n THEN F[k - 1] ELSE R(F[k - 1])
    BY <1>9, <2>2
  <2>4. F[k - 1] \in N
    BY <1>11, <2>2
  <2>5. ~(F[k - 1] > n)
    <3>1. ~(i > n)
      BY <1>1, <2>2
    <3> QED
      BY <2>1, <2>3, <3>1
  <2>6. F[k - 1] \in 1..n /\ F[k - 1] < R(F[k - 1]) /\ R(F[k - 1]) = i
    BY <1>4, <2>1, <2>3, <2>4, <2>5
  <2>7. F[k - 1] \in S
    BY <2>2, <2>6
  <2> QED
    BY <2>6, <2>7
<1> QED
  BY <1>3, <1>16, <1>17, <1>18, <1>19 DEF n, R

\* What stands from place j up to place r covers every place between.
Covers(text, hashes, j, p) == j <= p /\ p < Resumes(text, hashes, j)

\* Every place belongs to what starts at one the scanner stands at.
LEMMA Covered ==
  ASSUME NEW T, NEW text \in Seq(T), NEW hashes \in BOOLEAN
  PROVE  \A p \in 1..Len(text) : \E j \in Starts(text, hashes) : Covers(text, hashes, j, p)
<1> DEFINE n == Len(text)
           S == Starts(text, hashes)
           R(j) == Resumes(text, hashes, j)
           U == {p \in 0..n : p = 0 \/ \E j \in S : j <= p /\ p < R(j)}
<1>1. /\ n \in Nat /\ S \subseteq 1..n
      /\ n # 0 => 1 \in S
      /\ \A j \in S : R(j) <= n => R(j) \in S
  BY StartsAre
<1>2. \A j \in 1..n : R(j) \in (j + 1)..(n + 1)
  BY ResumesIs DEF GoesOn
<1> HIDE DEF n, S, R
<1>3. 0 \in U
  BY <1>1
<1>4. ASSUME NEW p \in 1..n, p - 1 \in U PROVE p \in U
  <2>1. p \in 0..n /\ p \in Nat /\ n # 0
    BY <1>1
  <2>2. CASE p = 1
    <3>1. 1 \in S /\ 1 \in 1..n
      BY <1>1, <2>1
    <3>2. R(1) \in (1 + 1)..(n + 1)
      BY <1>2, <3>1
    <3>3. 1 <= p /\ p < R(1)
      BY <1>1, <2>2, <3>2
    <3> QED
      BY <2>1, <3>1, <3>3
  <2>3. CASE p # 1
    <3>1. PICK j \in S : j <= p - 1 /\ p - 1 < R(j)
      BY <1>4, <2>1, <2>3
    <3>2. j \in 1..n /\ R(j) \in (j + 1)..(n + 1)
      BY <1>1, <1>2
    <3>3. CASE R(j) = p
      <4>1. p \in S /\ R(p) \in (p + 1)..(n + 1)
        BY <1>1, <1>2, <2>1, <3>3
      <4>2. p <= p /\ p < R(p)
        BY <1>1, <2>1, <4>1
      <4> QED
        BY <2>1, <4>1, <4>2
    <3>4. CASE R(j) # p
      <4>1. j <= p /\ p < R(j)
        BY <1>1, <2>1, <3>1, <3>2, <3>4
      <4> QED
        BY <2>1, <4>1
    <3> QED
      BY <3>3, <3>4
  <2> QED
    BY <2>2, <2>3
<1> HIDE DEF U
<1>5. \A p \in 0..n : p \in U
  BY <1>1, <1>3, <1>4, Induction
<1>6. ASSUME NEW p \in 1..n PROVE \E j \in S : j <= p /\ p < R(j)
  <2>1. p \in U /\ p # 0
    BY <1>1, <1>5
  <2> QED
    BY <2>1 DEF U
<1> QED
  BY <1>6 DEF n, S, R, Covers

\* The state of the lexer before place p, in what starts at j.
StateFrom(text, hashes, j, p, st) ==
  /\ j = p => st = "code" \/ (st = "line" /\ text[p].t = "newline")
  /\ j < p /\ text[j].t = "quote" => st = IF Escaped(text, j, p) THEN "escaped" ELSE "string"
  /\ j < p /\ text[j].t = "open" => st = "block"
  /\ j < p /\ IsLine(text[j], hashes) => st = "line"
  /\ j < p => text[j].t \in {"quote", "open"} \/ IsLine(text[j], hashes)

\* The token at p, in what starts at j and goes past it, leads to the state before p + 1.
LEMMA StateGoesOn ==
  ASSUME NEW T, NEW text \in Seq(T), NEW hashes \in BOOLEAN, NEW j \in 1..Len(text),
         NEW p \in 1..Len(text), NEW r, GoesOn(text, hashes, j, r), j <= p, p + 1 < r,
         NEW st, StateFrom(text, hashes, j, p, st)
  PROVE  StateFrom(text, hashes, j, p + 1, After(st, text[p], hashes))
<1> DEFINE n == Len(text)
           af == After(st, text[p], hashes)
<1>0. n \in Nat /\ r \in (j + 1)..(n + 1) /\ j \in Nat /\ p \in Nat /\ j # p + 1 /\ j < p + 1
  BY DEF GoesOn
<1>1. CASE text[j].t = "quote"
  <2>1. text[j].t # "open" /\ ~IsLine(text[j], hashes)
    BY <1>1 DEF IsLine
  <2>2. CASE j = p
    <3>1. st = "code"
      BY <1>1, <2>2 DEF StateFrom
    <3>2. af = "string"
      BY <1>1, <2>2, <3>1 DEF After
    <3>3. ~Escaped(text, j, p + 1)
      BY <1>0, <2>2, FirstNotEscaped
    <3> HIDE DEF af
    <3> QED
      BY <1>0, <1>1, <2>1, <3>2, <3>3 DEF StateFrom, af
  <2>3. CASE j # p
    <3>1. j < p
      BY <1>0, <2>3
    <3>2. st = IF Escaped(text, j, p) THEN "escaped" ELSE "string"
      BY <1>1, <3>1 DEF StateFrom
    <3>3. p \notin Closing(text, j)
      <4>1. \A q \in Closing(text, j) : r - 1 <= q
        BY <1>1 DEF GoesOn
      <4>2. ~(r - 1 <= p)
        BY <1>0
      <4> QED
        BY <4>1, <4>2
    <3>4. ~(text[p].t = "quote" /\ ~Escaped(text, j, p))
      <4>1. p \in (j + 1)..Len(text)
        BY <1>0, <3>1
      <4> QED
        BY <3>3, <4>1 DEF Closing
    <3>5. Escaped(text, j, p + 1) <=> text[p].t = "escape" /\ ~Escaped(text, j, p)
      BY <1>0, <3>1, EscapedNext
    <3>6. af = IF Escaped(text, j, p + 1) THEN "escaped" ELSE "string"
      BY <3>2, <3>4, <3>5 DEF After
    <3> HIDE DEF af
    <3> QED
      BY <1>0, <1>1, <2>1, <3>6 DEF StateFrom, af
  <2> QED
    BY <2>2, <2>3
<1>2. CASE text[j].t = "open"
  <2>1. text[j].t # "quote" /\ ~IsLine(text[j], hashes)
    BY <1>2 DEF IsLine
  <2>2. af = "block"
    <3>1. CASE j = p
      <4>1. st = "code"
        BY <1>2, <3>1 DEF StateFrom
      <4> QED
        BY <1>2, <3>1, <4>1 DEF After
    <3>2. CASE j # p
      <4>1. j < p /\ p \in (j + 1)..n
        BY <1>0, <3>2
      <4>2. st = "block"
        BY <1>2, <4>1 DEF StateFrom
      <4>3. \A q \in From(text, "close", j + 1) : r - 1 <= q
        BY <1>2 DEF GoesOn
      <4>4. ~(r - 1 <= p)
        BY <1>0
      <4>5. text[p].t # "close"
        BY <4>1, <4>3, <4>4 DEF From
      <4> QED
        BY <4>2, <4>5 DEF After
    <3> QED
      BY <3>1, <3>2
  <2> HIDE DEF af
  <2> QED
    BY <1>0, <1>2, <2>1, <2>2 DEF StateFrom, af
<1>3. CASE IsLine(text[j], hashes)
  <2>1. text[j].t \notin {"quote", "open", "newline"}
    BY <1>3 DEF IsLine
  <2>2. af = "line"
    <3>1. CASE j = p
      <4>1. st = "code"
        BY <2>1, <3>1 DEF StateFrom
      <4> QED
        BY <1>3, <3>1, <4>1 DEF After, IsLine
    <3>2. CASE j # p
      <4>1. j < p /\ p \in j..n /\ p < r
        BY <1>0, <3>2
      <4>2. st = "line"
        BY <1>3, <4>1 DEF StateFrom
      <4>3. text[p].t # "newline"
        BY <1>3, <4>1 DEF GoesOn
      <4> QED
        BY <4>2, <4>3 DEF After
    <3> QED
      BY <3>1, <3>2
  <2> HIDE DEF af
  <2> QED
    BY <1>0, <1>3, <2>1, <2>2 DEF StateFrom, af
<1>4. CASE text[j].t \notin {"quote", "open"} /\ ~IsLine(text[j], hashes)
  <2>1. r = j + 1
    BY <1>4 DEF GoesOn
  <2> QED
    BY <1>0, <2>1
<1> QED
  BY <1>1, <1>2, <1>3, <1>4

\* The last token of what starts at j leads back to code: unless it has no end,
\* or is a line comment, which its newline ends.
Ended(text, hashes, j, st) ==
  /\ text[j].t = "quote" =>
       IF Closing(text, j) = {} THEN st \in {"string", "escaped"} ELSE st = "code"
  /\ text[j].t = "open" =>
       IF From(text, "close", j + 1) = {} THEN st = "block" ELSE st = "code"
  /\ IsLine(text[j], hashes) => st = "line"
  /\ text[j].t \notin {"quote", "open"} /\ ~IsLine(text[j], hashes) => st = "code"

\* Behind a run that ends, the lexer is back in the code.
LEMMA StateEnds ==
  ASSUME NEW T, NEW text \in Seq(T), NEW hashes \in BOOLEAN, NEW j \in 1..Len(text),
         NEW p \in 1..Len(text), GoesOn(text, hashes, j, p + 1), j <= p,
         NEW st, StateFrom(text, hashes, j, p, st)
  PROVE  Ended(text, hashes, j, After(st, text[p], hashes))
<1> DEFINE n == Len(text)
           af == After(st, text[p], hashes)
<1>0. n \in Nat /\ j \in Nat /\ p \in Nat /\ (p + 1) - 1 = p /\ p # n + 1
  OBVIOUS
<1>1. CASE text[j].t = "quote"
  <2>1. text[j].t # "open" /\ ~IsLine(text[j], hashes)
    BY <1>1 DEF IsLine
  <2>2. CASE Closing(text, j) = {}
    <3>1. CASE j = p
      <4>1. st = "code"
        BY <1>1, <3>1 DEF StateFrom
      <4>2. af = "string"
        BY <1>1, <3>1, <4>1 DEF After
      <4> QED
        BY <1>1, <2>1, <2>2, <4>2 DEF Ended
    <3>2. CASE j # p
      <4>1. j < p /\ p \in (j + 1)..Len(text)
        BY <1>0, <3>2
      <4>2. st = IF Escaped(text, j, p) THEN "escaped" ELSE "string"
        BY <1>1, <4>1 DEF StateFrom
      <4>3. ~(text[p].t = "quote" /\ ~Escaped(text, j, p))
        BY <2>2, <4>1 DEF Closing
      <4>4. af \in {"string", "escaped"}
        BY <4>2, <4>3 DEF After
      <4> QED
        BY <1>1, <2>1, <2>2, <4>4 DEF Ended
    <3> QED
      BY <3>1, <3>2
  <2>3. CASE Closing(text, j) # {}
    <3>1. p \in Closing(text, j)
      BY <1>0, <1>1, <2>3 DEF GoesOn
    <3>2. p \in (j + 1)..n /\ text[p].t = "quote" /\ ~Escaped(text, j, p)
      BY <3>1 DEF Closing
    <3>3. j < p
      BY <1>0, <3>2
    <3>4. st = "string"
      BY <1>1, <3>2, <3>3 DEF StateFrom
    <3>5. af = "code"
      BY <3>2, <3>4 DEF After
    <3> QED
      BY <1>1, <2>1, <2>3, <3>5 DEF Ended
  <2> QED
    BY <2>2, <2>3
<1>2. CASE text[j].t = "open"
  <2>1. text[j].t # "quote" /\ ~IsLine(text[j], hashes)
    BY <1>2 DEF IsLine
  <2>2. CASE From(text, "close", j + 1) = {}
    <3>1. CASE j = p
      <4>1. st = "code"
        BY <1>2, <3>1 DEF StateFrom
      <4>2. af = "block"
        BY <1>2, <3>1, <4>1 DEF After
      <4> QED
        BY <1>2, <2>1, <2>2, <4>2 DEF Ended
    <3>2. CASE j # p
      <4>1. j < p /\ p \in (j + 1)..Len(text)
        BY <1>0, <3>2
      <4>2. st = "block"
        BY <1>2, <4>1 DEF StateFrom
      <4>3. text[p].t # "close"
        BY <2>2, <4>1 DEF From
      <4>4. af = "block"
        BY <4>2, <4>3 DEF After
      <4> QED
        BY <1>2, <2>1, <2>2, <4>4 DEF Ended
    <3> QED
      BY <3>1, <3>2
  <2>3. CASE From(text, "close", j + 1) # {}
    <3>1. p \in From(text, "close", j + 1)
      BY <1>0, <1>2, <2>3 DEF GoesOn
    <3>2. p \in (j + 1)..n /\ text[p].t = "close"
      BY <3>1 DEF From
    <3>3. j < p
      BY <1>0, <3>2
    <3>4. st = "block"
      BY <1>2, <3>3 DEF StateFrom
    <3>5. af = "code"
      BY <3>2, <3>4 DEF After
    <3> QED
      BY <1>2, <2>1, <2>3, <3>5 DEF Ended
  <2> QED
    BY <2>2, <2>3
<1>3. CASE IsLine(text[j], hashes)
  <2>1. text[j].t \notin {"quote", "open", "newline"}
    BY <1>3 DEF IsLine
  <2>2. af = "line"
    <3>1. CASE j = p
      <4>1. st = "code"
        BY <2>1, <3>1 DEF StateFrom
      <4> QED
        BY <1>3, <3>1, <4>1 DEF After, IsLine
    <3>2. CASE j # p
      <4>1. j < p /\ p \in j..n /\ p < p + 1
        BY <1>0, <3>2
      <4>2. st = "line"
        BY <1>3, <4>1 DEF StateFrom
      <4>3. text[p].t # "newline"
        BY <1>3, <4>1 DEF GoesOn
      <4> QED
        BY <4>2, <4>3 DEF After
    <3> QED
      BY <3>1, <3>2
  <2> QED
    BY <1>3, <2>1, <2>2 DEF Ended
<1>4. CASE text[j].t \notin {"quote", "open"} /\ ~IsLine(text[j], hashes)
  <2>1. p + 1 = j + 1
    BY <1>4 DEF GoesOn
  <2>2. j = p
    BY <1>0, <2>1
  <2>3. st = "code" \/ (st = "line" /\ text[p].t = "newline")
    BY <2>2 DEF StateFrom
  <2>4. af = "code"
    BY <1>4, <2>2, <2>3 DEF After, IsLine
  <2> QED
    BY <1>4, <2>4 DEF Ended
<1> QED
  BY <1>1, <1>2, <1>3, <1>4

\* Before each place of what starts at one the scanner stands at, the lexer is in
\* the state that start and the escapes since give it.
LEMMA ScannerIsLexer ==
  ASSUME NEW T, NEW text \in Seq(T), NEW hashes \in BOOLEAN
  PROVE  \A p \in 1..Len(text) : \A j \in Starts(text, hashes) :
           Covers(text, hashes, j, p) => StateFrom(text, hashes, j, p, LexerAt(text, hashes, p))
<1> DEFINE n == Len(text)
           S == Starts(text, hashes)
           R(j) == Resumes(text, hashes, j)
           L(p) == LexerAt(text, hashes, p)
           Fits(p) == \A j \in S : Covers(text, hashes, j, p) => StateFrom(text, hashes, j, p, L(p))
           U == {p \in 0..n : p # 0 => Fits(p)}
<1>1. /\ n \in Nat /\ S \subseteq 1..n
      /\ \A i \in S : i # 1 => \E j \in S : j < i /\ R(j) = i
  BY StartsAre
<1>2. \A j \in 1..n : GoesOn(text, hashes, j, R(j)) /\ R(j) \in (j + 1)..(n + 1)
  BY ResumesIs DEF GoesOn
<1>3. L(1) = "code" /\ \A p \in 1..n : L(p + 1) = After(L(p), text[p], hashes)
  BY LexerIs
<1>4. \A j \in S : \A p : Covers(text, hashes, j, p) <=> j <= p /\ p < R(j)
  BY DEF Covers
<1>5. 0 \in U
  BY <1>1
<1> HIDE DEF S, R, L
<1>6. ASSUME NEW p \in 1..n, p - 1 \in U PROVE p \in U
  <2> SUFFICES ASSUME NEW j \in S, Covers(text, hashes, j, p)
               PROVE  StateFrom(text, hashes, j, p, L(p))
    BY <1>1
  <2>0. j \in 1..n /\ p \in Nat /\ p \in Int /\ (p - 1) + 1 = p
    BY <1>1
  <2>1. j <= p /\ p < R(j)
    BY <1>4
  <2>2. CASE p = 1
    <3>1. j = p /\ ~(j < p)
      BY <2>0, <2>1, <2>2
    <3> QED
      BY <1>3, <2>2, <3>1 DEF StateFrom
  <2>3. CASE p # 1
    <3>1. p - 1 \in 1..n
      BY <1>1, <2>3
    <3>2. Fits(p - 1)
      <4>1. p - 1 # 0
        BY <3>1
      <4> QED
        BY <1>6, <4>1
    <3>3. L(p) = After(L(p - 1), text[p - 1], hashes)
      <4>1. L((p - 1) + 1) = After(L(p - 1), text[p - 1], hashes)
        BY <1>3, <3>1
      <4> QED
        BY <2>0, <4>1
    <3>4. CASE j # p
      <4>1. j <= p - 1 /\ p - 1 < R(j)
        BY <1>2, <2>0, <2>1, <3>4
      <4>2. StateFrom(text, hashes, j, p - 1, L(p - 1))
        BY <1>4, <3>2, <4>1
      <4>3. GoesOn(text, hashes, j, R(j)) /\ (p - 1) + 1 < R(j)
        BY <1>2, <2>0, <2>1
      <4> DEFINE m == p - 1
      <4>4. m \in 1..n /\ j <= m /\ m + 1 < R(j) /\ StateFrom(text, hashes, j, m, L(m))
        BY <3>1, <4>1, <4>2, <4>3
      <4>5. m + 1 = p
        BY <2>0
      <4> HIDE DEF m
      <4>6. StateFrom(text, hashes, j, m + 1, After(L(m), text[m], hashes))
        BY <2>0, <4>3, <4>4, StateGoesOn DEF n
      <4> QED
        BY <3>3, <4>5, <4>6 DEF m
    <3>5. CASE j = p
      <4>1. PICK i \in S : i < p /\ R(i) = p
        BY <1>1, <2>3, <3>5
      <4>2. i \in 1..n /\ GoesOn(text, hashes, i, p) /\ p \in (i + 1)..(n + 1)
        BY <1>1, <1>2, <4>1
      <4>3. i <= p - 1 /\ p - 1 < R(i)
        BY <2>0, <4>1, <4>2
      <4>4. StateFrom(text, hashes, i, p - 1, L(p - 1))
        BY <1>4, <3>2, <4>3
      <4> DEFINE m == p - 1
      <4>5. m \in 1..n /\ i <= m /\ StateFrom(text, hashes, i, m, L(m))
        BY <3>1, <4>3, <4>4
      <4>6. m + 1 = p
        BY <2>0
      <4> HIDE DEF m
      <4>7. Ended(text, hashes, i, After(L(m), text[m], hashes))
        <5>1. GoesOn(text, hashes, i, m + 1)
          BY <4>2, <4>6
        <5> QED
          BY <4>2, <4>5, <5>1, StateEnds DEF n
      <4>8. Ended(text, hashes, i, L(p))
        BY <3>3, <4>7 DEF m
      <4>9. p <= n /\ p # n + 1
        BY <1>1
      <4>10. L(p) = "code" \/ (L(p) = "line" /\ text[p].t = "newline")
        <5>1. CASE text[i].t = "quote"
          <6>1. Closing(text, i) # {}
            BY <4>2, <4>9, <5>1 DEF GoesOn, n
          <6> QED
            BY <4>8, <5>1, <6>1 DEF Ended
        <5>2. CASE text[i].t = "open"
          <6>1. From(text, "close", i + 1) # {}
            BY <4>2, <4>9, <5>2 DEF GoesOn, n
          <6> QED
            BY <4>8, <5>2, <6>1 DEF Ended
        <5>3. CASE IsLine(text[i], hashes)
          <6>1. text[p].t = "newline"
            BY <4>2, <4>9, <5>3 DEF GoesOn, n
          <6> QED
            BY <4>8, <5>3, <6>1 DEF Ended
        <5>4. CASE text[i].t \notin {"quote", "open"} /\ ~IsLine(text[i], hashes)
          BY <4>8, <5>4 DEF Ended
        <5> QED
          BY <5>1, <5>2, <5>3, <5>4
      <4>11. ~(j < p)
        BY <2>0, <3>5
      <4> QED
        BY <3>5, <4>10, <4>11 DEF StateFrom
    <3> QED
      BY <3>4, <3>5
  <2> QED
    BY <2>2, <2>3
<1> HIDE DEF U
<1>7. \A p \in 0..n : p \in U
  BY <1>1, <1>5, <1>6, Induction
<1>8. ASSUME NEW p \in 1..n PROVE Fits(p)
  <2>1. p \in U /\ p # 0
    BY <1>1, <1>7
  <2> QED
    BY <2>1 DEF U
<1> QED
  BY <1>8 DEF n, S, L

\* Behind the last place, the lexer is where what covers that place leaves it.
LEMMA LexerEnds ==
  ASSUME NEW T, NEW text \in Seq(T), NEW hashes \in BOOLEAN, Len(text) # 0,
         NEW j \in Starts(text, hashes), Covers(text, hashes, j, Len(text))
  PROVE  /\ Resumes(text, hashes, j) = Len(text) + 1
         /\ Ended(text, hashes, j, LexerAt(text, hashes, Len(text) + 1))
<1> DEFINE n == Len(text)
           L(p) == LexerAt(text, hashes, p)
           r == Resumes(text, hashes, j)
<1>1. n \in 1..n /\ n \in Nat /\ j \in 1..n
  BY StartsAre
<1>2. GoesOn(text, hashes, j, r) /\ j <= n /\ n < r
  BY <1>1, ResumesIs DEF Covers
<1>3. r = n + 1
  BY <1>1, <1>2 DEF GoesOn
<1>4. StateFrom(text, hashes, j, n, L(n))
  BY <1>1, ScannerIsLexer
<1>5. L(n + 1) = After(L(n), text[n], hashes)
  BY <1>1, LexerIs
<1> HIDE DEF n, L, r
<1>6. GoesOn(text, hashes, j, n + 1)
  BY <1>2, <1>3
<1>7. Ended(text, hashes, j, After(L(n), text[n], hashes))
  BY <1>1, <1>2, <1>4, <1>6, StateEnds DEF n
<1> QED
  BY <1>3, <1>5, <1>7 DEF n, L, r

\* A token the lexer meets in code is one the scanner stands at, and the other way
\* round but for the newline that ends a line comment.
LEMMA CodeIsStart ==
  ASSUME NEW T, NEW text \in Seq(T), NEW hashes \in BOOLEAN, NEW p \in 1..Len(text)
  PROVE  /\ LexerAt(text, hashes, p) = "code" => p \in Starts(text, hashes)
         /\ p \in Starts(text, hashes) /\ text[p].t # "newline" => LexerAt(text, hashes, p) = "code"
<1> DEFINE S == Starts(text, hashes)
           L == LexerAt(text, hashes, p)
           n == Len(text)
<1>1. n \in Nat /\ S \subseteq 1..n
  BY StartsAre
<1>2. \A j \in S : Covers(text, hashes, j, p) => StateFrom(text, hashes, j, p, L)
  BY ScannerIsLexer
<1>3. PICK j \in S : Covers(text, hashes, j, p)
  BY Covered
<1>4. j \in 1..n /\ j <= p
  BY <1>1, <1>3 DEF Covers
<1>5. ASSUME L = "code" PROVE p \in S
  <2>1. StateFrom(text, hashes, j, p, L)
    BY <1>2, <1>3
  <2>2. ~(j < p)
    <3>1. ASSUME j < p PROVE FALSE
      <4>1. text[j].t \in {"quote", "open"} \/ IsLine(text[j], hashes)
        BY <2>1, <3>1 DEF StateFrom
      <4>2. CASE text[j].t = "quote"
        BY <1>5, <2>1, <3>1, <4>2 DEF StateFrom
      <4>3. CASE text[j].t = "open"
        BY <1>5, <2>1, <3>1, <4>3 DEF StateFrom
      <4>4. CASE IsLine(text[j], hashes)
        BY <1>5, <2>1, <3>1, <4>4 DEF StateFrom
      <4> QED
        BY <4>1, <4>2, <4>3, <4>4
    <3> QED
      BY <3>1
  <2>3. j = p
    BY <1>1, <1>4, <2>2
  <2> QED
    BY <2>3
<1>6. ASSUME p \in S, text[p].t # "newline" PROVE L = "code"
  <2>1. Resumes(text, hashes, p) \in (p + 1)..(n + 1)
    BY ResumesIs DEF GoesOn
  <2>2. Covers(text, hashes, p, p)
    BY <1>1, <2>1 DEF Covers
  <2>3. StateFrom(text, hashes, p, p, L)
    BY <1>2, <1>6, <2>2
  <2> QED
    BY <1>6, <2>3 DEF StateFrom
<1> QED
  BY <1>5, <1>6

-------------------------------------------------------------------------------
(* What each search finds *)

\* A block comment without an end is what the lexer ends in.
LEMMA UnendedIs ==
  ASSUME NEW T, NEW text \in Seq(T), NEW hashes \in BOOLEAN
  PROVE  Unended(text, hashes) <=> LexerAt(text, hashes, Len(text) + 1) = "block"
<1> DEFINE n == Len(text)
           S == Starts(text, hashes)
           E == LexerAt(text, hashes, n + 1)
           O(j) == From(text, "close", j + 1)
<1>1. n \in Nat /\ S \subseteq 1..n
  BY StartsAre
<1>2. ASSUME NEW j \in S, Covers(text, hashes, j, n), n # 0
      PROVE  Resumes(text, hashes, j) = n + 1 /\ Ended(text, hashes, j, E)
  BY <1>2, LexerEnds
<1>3. ASSUME NEW i \in S, text[i].t = "open", O(i) = {} PROVE E = "block"
  <2>1. i \in 1..n /\ n # 0 /\ n < n + 1 /\ i <= n
    BY <1>1
  <2>2. Resumes(text, hashes, i) = n + 1
    BY <1>3, <2>1, ResumesIs DEF GoesOn
  <2>3. Covers(text, hashes, i, n)
    BY <2>1, <2>2 DEF Covers
  <2> QED
    BY <1>2, <1>3, <2>1, <2>3 DEF Ended
<1>4. ASSUME E = "block" PROVE \E i \in S : text[i].t = "open" /\ O(i) = {}
  <2>1. n # 0
    <3>1. ASSUME n = 0 PROVE FALSE
      <4>1. LexerAt(text, hashes, 1) = "code"
        BY LexerIs
      <4>2. n + 1 = 1
        BY <3>1
      <4>3. E = "code"
        BY <4>1, <4>2
      <4> QED
        BY <1>4, <4>3
    <3> QED
      BY <3>1
  <2>2. PICK j \in S : Covers(text, hashes, j, n)
    <3>1. n \in 1..n
      BY <1>1, <2>1
    <3> QED
      BY <3>1, Covered
  <2>3. Ended(text, hashes, j, E)
    BY <1>2, <2>1, <2>2
  <2>4. text[j].t = "open" /\ O(j) = {}
    <3>1. CASE text[j].t = "quote"
      BY <1>4, <2>3, <3>1 DEF Ended
    <3>2. CASE text[j].t = "open"
      BY <1>4, <2>3, <3>2 DEF Ended
    <3>3. CASE IsLine(text[j], hashes)
      BY <1>4, <2>3, <3>3 DEF Ended
    <3>4. CASE text[j].t \notin {"quote", "open"} /\ ~IsLine(text[j], hashes)
      BY <1>4, <2>3, <3>4 DEF Ended
    <3> QED
      BY <3>1, <3>2, <3>3, <3>4
  <2> QED
    BY <2>4
<1> QED
  BY <1>3, <1>4 DEF Unended

\* A block is left by the comments when the lexer meets it outside them.
LEMMA KeptIs ==
  ASSUME NEW T, NEW text \in Seq(T), NEW hashes \in BOOLEAN
  PROVE  (\E i \in Kept(text, hashes) : text[i].t = "block")
           <=> \E i \in DOMAIN text : text[i].t = "block" /\ LexerAt(text, hashes, i) \notin {"line", "block"}
<1> DEFINE n == Len(text)
           S == Starts(text, hashes)
           R(j) == Resumes(text, hashes, j)
           L(p) == LexerAt(text, hashes, p)
<1>1. n \in Nat /\ S \subseteq 1..n /\ DOMAIN text = 1..n
  BY StartsAre
<1>2. \A j \in 1..n : R(j) \in (j + 1)..(n + 1)
  BY ResumesIs DEF GoesOn
<1>3. \A p \in 1..n : \A j \in S :
        Covers(text, hashes, j, p) => StateFrom(text, hashes, j, p, L(p))
  BY ScannerIsLexer
<1>4. \A i : i \in Kept(text, hashes)
               <=> \E j \in S : ~IsComment(text[j], hashes) /\ i \in j..(R(j) - 1)
  BY DEF Kept
<1>5. \A x : IsComment(x, hashes) <=> x.t = "open" \/ IsLine(x, hashes)
  BY DEF IsComment, IsLine
<1> HIDE DEF n, S, R, L
<1>6. ASSUME NEW i \in Kept(text, hashes), text[i].t = "block"
      PROVE  i \in 1..n /\ L(i) \notin {"line", "block"}
  <2>1. PICK j \in S : ~IsComment(text[j], hashes) /\ i \in j..(R(j) - 1)
    BY <1>4
  <2>2. j \in 1..n /\ R(j) \in (j + 1)..(n + 1)
    BY <1>1, <1>2
  <2>3. i \in 1..n /\ j <= i /\ i < R(j) /\ (j = i \/ j < i)
    BY <1>1, <2>1, <2>2
  <2>4. StateFrom(text, hashes, j, i, L(i))
    BY <1>3, <2>3 DEF Covers, R
  <2>5. CASE j = i
    <3>1. L(i) = "code"
      BY <1>6, <2>4, <2>5 DEF StateFrom
    <3> QED
      BY <2>3, <3>1
  <2>6. CASE j < i
    <3>1. text[j].t = "quote"
      BY <1>5, <2>1, <2>4, <2>6 DEF StateFrom
    <3>2. L(i) \in {"escaped", "string"}
      BY <2>4, <2>6, <3>1 DEF StateFrom
    <3> QED
      BY <2>3, <3>2
  <2> QED
    BY <2>3, <2>5, <2>6
<1>7. ASSUME NEW i \in 1..n, text[i].t = "block", L(i) \notin {"line", "block"}
      PROVE  i \in Kept(text, hashes)
  <2>1. PICK j \in S : Covers(text, hashes, j, i)
    BY Covered DEF n, S
  <2>2. j \in 1..n /\ R(j) \in (j + 1)..(n + 1) /\ j <= i /\ i < R(j)
    BY <1>1, <1>2, <2>1 DEF Covers, R
  <2>3. i \in j..(R(j) - 1)
    BY <1>1, <2>2
  <2>4. StateFrom(text, hashes, j, i, L(i))
    BY <1>3, <2>1
  <2>5. ~IsComment(text[j], hashes)
    <3>1. CASE j = i
      BY <1>7, <3>1 DEF IsComment
    <3>2. CASE j # i
      <4>1. j < i
        BY <1>1, <2>2, <3>2
      <4> QED
        BY <1>5, <1>7, <2>4, <4>1 DEF StateFrom
    <3> QED
      BY <3>1, <3>2
  <2> QED
    BY <1>4, <2>3, <2>5
<1> QED
  BY <1>1, <1>6, <1>7 DEF n, L

\* A newline stands in a string when it comes before the string's end.
LEMMA NewlineBefore ==
  ASSUME NEW T, NEW text \in Seq(T), NEW i \in 1..Len(text), text[i].t = "quote",
         Closing(text, i) # {}
  PROVE  /\ Min(Closing(text, i)) \in Closing(text, i)
         /\ Resumes(text, FALSE, i) = Min(Closing(text, i)) + 1
         /\ First(text, "newline", i) < Min(Closing(text, i))
              <=> \E q \in (i + 1)..Len(text) : text[q].t = "newline" /\ q < Min(Closing(text, i))
<1> DEFINE n == Len(text)
           C == Closing(text, i)
           m == Min(C)
           r == Resumes(text, FALSE, i)
           X == From(text, "newline", i) \cup {n + 1}
           a == First(text, "newline", i)
<1>1. n \in Nat /\ i \in 1..n /\ C \in SUBSET ((i + 1)..n)
  BY DEF Closing
<1>2. C \in SUBSET Nat /\ C # {}
  BY <1>1
<1>3. GoesOn(text, FALSE, i, r)
  BY ResumesIs
<1>4. r \in (i + 1)..(n + 1) /\ (\A p \in C : r - 1 <= p) /\ r - 1 \in C
  BY <1>3 DEF GoesOn
<1>5. X \in SUBSET Nat /\ X # {} /\ n + 1 \in X
  BY <1>1 DEF From
<1>6. \A q : q \in X <=> q = n + 1 \/ (q \in i..n /\ text[q].t = "newline")
  BY DEF From
<1>7. a = Min(X)
  BY DEF First
<1> HIDE DEF n, C, r, X, a
<1>8. m \in C /\ \A y \in C : m <= y
  BY <1>2, MinIs
<1> HIDE DEF m
<1>9. r = m + 1
  <2>1. r - 1 <= m /\ m <= r - 1 /\ m \in Int
    BY <1>1, <1>4, <1>8
  <2> QED
    BY <1>4, <2>1
<1>10. a \in X /\ \A y \in X : a <= y
  BY <1>5, <1>7, MinIs
<1>11. a < m <=> \E q \in (i + 1)..n : text[q].t = "newline" /\ q < m
  <2>1. ASSUME a < m PROVE a \in (i + 1)..n /\ text[a].t = "newline"
    <3>1. m \in (i + 1)..n /\ a \in Nat
      BY <1>1, <1>5, <1>8, <1>10
    <3>2. a # n + 1
      BY <1>1, <2>1, <3>1
    <3>3. a \in i..n /\ text[a].t = "newline"
      BY <1>6, <1>10, <3>2
    <3>4. a # i
      BY <3>3
    <3> QED
      BY <1>1, <3>3, <3>4
  <2>2. ASSUME NEW q \in (i + 1)..n, text[q].t = "newline", q < m PROVE a < m
    <3>1. q \in X
      BY <1>1, <1>6, <2>2
    <3>2. a <= q /\ a \in Nat /\ m \in Nat
      BY <1>1, <1>2, <1>5, <1>8, <1>10, <3>1
    <3> QED
      BY <2>2, <3>2
  <2> QED
    BY <2>1, <2>2
<1> QED
  BY <1>8, <1>9, <1>11 DEF n, C, m, r, a

\* What the lexer finds wrong with a text.
Faulty(text) ==
  \/ LexerAt(text, FALSE, Len(text) + 1) \in {"string", "escaped"}
  \/ \E i \in 1..Len(text) :
       \/ text[i].t \in {"escape", "hash", "close"} /\ LexerAt(text, FALSE, i) = "code"
       \/ text[i].t = "newline" /\ LexerAt(text, FALSE, i) \in {"string", "escaped"}

\* The scanner stands at something malformed when the lexer finds a fault.
LEMMA MalformedIs ==
  ASSUME NEW T, NEW text \in Seq(T)
  PROVE  (\E i \in Starts(text, FALSE) : Malformed(text, i)) <=> Faulty(text)
<1> DEFINE n == Len(text)
           S == Starts(text, FALSE)
           R(j) == Resumes(text, FALSE, j)
           L(p) == LexerAt(text, FALSE, p)
<1>1. n \in Nat /\ S \subseteq 1..n
  <2>1. \A h \in BOOLEAN : Starts(text, h) \subseteq 1..Len(text)
    BY StartsAre
  <2>2. FALSE \in BOOLEAN
    OBVIOUS
  <2>3. Starts(text, FALSE) \subseteq 1..Len(text)
    BY ONLY <2>1, <2>2, Zenon
  <2>4. n \in Nat
    OBVIOUS
  <2>5. S \subseteq 1..n
    BY <2>3
  <2> QED
    BY <2>4, <2>5
<1>2. \A j \in 1..n : GoesOn(text, FALSE, j, R(j)) /\ R(j) \in (j + 1)..(n + 1)
  BY ResumesIs DEF GoesOn
<1>3. \A p \in 1..n : \A j \in S :
        Covers(text, FALSE, j, p) => StateFrom(text, FALSE, j, p, L(p))
  BY ScannerIsLexer
<1>4. \A p \in 1..n : /\ L(p) = "code" => p \in S
                      /\ p \in S /\ text[p].t # "newline" => L(p) = "code"
  BY CodeIsStart
<1>5. ASSUME n # 0, NEW j \in S, Covers(text, FALSE, j, n)
      PROVE  Ended(text, FALSE, j, L(n + 1))
  BY <1>5, LexerEnds
<1>6. \A j : \A p : Covers(text, FALSE, j, p) <=> j <= p /\ p < R(j)
  BY DEF Covers
<1>7. \A p \in 1..n : \E j \in S : Covers(text, FALSE, j, p)
  BY Covered
<1> HIDE DEF n, S, R, L
<1>8. ASSUME NEW i \in S, Malformed(text, i) PROVE Faulty(text)
  <2>0. i \in 1..n /\ n # 0 /\ n \in 1..n
    BY <1>1
  <2>1. CASE text[i].t \in {"escape", "hash", "close"}
    <3>1. L(i) = "code"
      BY <1>4, <2>0, <2>1
    <3> QED
      BY <2>0, <2>1, <3>1 DEF Faulty, n, L
  <2>2. CASE text[i].t = "quote" /\ Closing(text, i) = {}
    <3>1. R(i) = n + 1
      BY <1>2, <2>0, <2>2 DEF GoesOn, n
    <3>2. Covers(text, FALSE, i, n)
      <4>1. i <= n /\ n < R(i)
        BY <1>1, <2>0, <3>1
      <4> QED
        BY <1>6, <4>1
    <3>3. Ended(text, FALSE, i, L(n + 1))
      BY <1>5, <2>0, <3>2
    <3>4. L(n + 1) \in {"string", "escaped"}
      BY <2>2, <3>3 DEF Ended
    <3> QED
      BY <3>4 DEF Faulty, n, L
  <2>3. CASE /\ text[i].t = "quote" /\ Closing(text, i) # {}
             /\ First(text, "newline", i) < Min(Closing(text, i))
    <3> DEFINE m == Min(Closing(text, i))
    <3>1. /\ m \in Closing(text, i) /\ R(i) = m + 1
          /\ \E q \in (i + 1)..n : text[q].t = "newline" /\ q < m
      BY <2>0, <2>3, NewlineBefore DEF n, R
    <3>2. m \in (i + 1)..n
      BY <3>1 DEF Closing, n
    <3> HIDE DEF m
    <3>3. PICK q \in (i + 1)..n : text[q].t = "newline" /\ q < m
      BY <3>1
    <3>4. q \in 1..n /\ i <= q /\ i < q /\ q < R(i)
      BY <1>1, <2>0, <3>1, <3>2, <3>3
    <3>5. StateFrom(text, FALSE, i, q, L(q))
      BY <1>3, <1>6, <3>4
    <3>6. L(q) \in {"string", "escaped"}
      BY <2>3, <3>4, <3>5 DEF StateFrom
    <3> QED
      BY <3>3, <3>4, <3>6 DEF Faulty, n, L
  <2> QED
    BY <1>8, <2>1, <2>2, <2>3 DEF Malformed
<1>9. ASSUME Faulty(text) PROVE \E i \in S : Malformed(text, i)
  <2>1. CASE L(n + 1) \in {"string", "escaped"}
    <3>1. n # 0
      <4>1. ASSUME n = 0 PROVE FALSE
        <5>1. L(1) = "code"
          BY LexerIs DEF L
        <5>2. n + 1 = 1
          BY <4>1
        <5> QED
          BY <2>1, <5>1, <5>2
      <4> QED
        BY <4>1
    <3>2. PICK j \in S : Covers(text, FALSE, j, n)
      <4>1. n \in 1..n
        BY <1>1, <3>1
      <4> QED
        BY <1>7, <4>1
    <3>3. Ended(text, FALSE, j, L(n + 1))
      BY <1>5, <3>1, <3>2
    <3>4. text[j].t = "quote" /\ Closing(text, j) = {}
      <4>1. CASE text[j].t = "quote"
        BY <2>1, <3>3, <4>1 DEF Ended
      <4>2. CASE text[j].t = "open"
        BY <2>1, <3>3, <4>2 DEF Ended
      <4>3. CASE IsLine(text[j], FALSE)
        BY <2>1, <3>3, <4>3 DEF Ended
      <4>4. CASE text[j].t \notin {"quote", "open"} /\ ~IsLine(text[j], FALSE)
        BY <2>1, <3>3, <4>4 DEF Ended
      <4> QED
        BY <4>1, <4>2, <4>3, <4>4
    <3> QED
      BY <3>4 DEF Malformed
  <2>2. CASE \E i \in 1..n : text[i].t \in {"escape", "hash", "close"} /\ L(i) = "code"
    BY <1>4, <2>2 DEF Malformed
  <2>3. CASE \E i \in 1..n : text[i].t = "newline" /\ L(i) \in {"string", "escaped"}
    <3>1. PICK q \in 1..n : text[q].t = "newline" /\ L(q) \in {"string", "escaped"}
      BY <2>3
    <3>2. PICK j \in S : Covers(text, FALSE, j, q)
      BY <1>7
    <3>3. j \in 1..n /\ j <= q /\ q < R(j) /\ (j = q \/ j < q)
      <4>1. j <= q /\ q < R(j)
        BY <1>6, <3>2
      <4>2. j \in 1..n
        BY <1>1
      <4>3. j \in Int /\ q \in Int
        BY <1>1, <4>2
      <4> QED
        BY <4>1, <4>2, <4>3
    <3>4. StateFrom(text, FALSE, j, q, L(q))
      BY <1>3, <3>2
    <3>5. j # q
      BY <3>1, <3>4 DEF StateFrom
    <3>6. text[j].t = "quote"
      BY <3>1, <3>3, <3>4, <3>5 DEF StateFrom
    <3>7. CASE Closing(text, j) = {}
      BY <3>6, <3>7 DEF Malformed
    <3>8. CASE Closing(text, j) # {}
      <4> DEFINE m == Min(Closing(text, j))
      <4>1. /\ m \in Closing(text, j) /\ R(j) = m + 1
            /\ First(text, "newline", j) < m
                 <=> \E p \in (j + 1)..n : text[p].t = "newline" /\ p < m
        BY <3>3, <3>6, <3>8, NewlineBefore DEF n, R
      <4>2. m \in (j + 1)..n /\ text[m].t = "quote"
        BY <4>1 DEF Closing, n
      <4> HIDE DEF m
      <4>3. q # m
        BY <3>1, <4>2
      <4>4. q \in (j + 1)..n /\ q < m
        BY <1>1, <3>3, <3>5, <4>1, <4>2, <4>3
      <4>5. First(text, "newline", j) < m
        BY <3>1, <4>1, <4>4
      <4> QED
        BY <3>6, <3>8, <4>5 DEF Malformed, m
    <3> QED
      BY <3>7, <3>8
  <2> QED
    BY <1>9, <2>1, <2>2, <2>3 DEF Faulty, n, L
<1> QED
  BY <1>8, <1>9 DEF S

\* Tokens none of which marks a broken file.
Unbroken(T) == \A x \in T : x.t # "broken"

\* A parsed document is the entries the scanner stands at, or broken.
LEMMA ParsedIs ==
  ASSUME NEW text
  PROVE  Parsed(text) = IF \E i \in Starts(text, FALSE) : Malformed(text, i)
                        THEN <<[t |-> "broken"]>>
                        ELSE Those(text, {i \in Starts(text, FALSE) : text[i].t \in {"entry", "deep", "broken"}})
  BY DEF Parsed

\* A document that holds no broken mark of its own parses when the lexer finds
\* nothing wrong with it.
LEMMA UnparseableIs ==
  ASSUME NEW T, NEW text \in Seq(T), Unbroken(T)
  PROVE  /\ Unparseable(text) <=> Garbled(text)
         /\ ~Garbled(text) => ~ \E i \in Starts(text, FALSE) : Malformed(text, i)
<1> DEFINE n == Len(text)
           Q == {i \in Starts(text, FALSE) : text[i].t \in {"entry", "deep", "broken"}}
           bad == \E i \in Starts(text, FALSE) : Malformed(text, i)
<1>1. bad <=> Faulty(text)
  BY MalformedIs
<1>2. n \in Nat /\ DOMAIN text = 1..n /\ \A i \in 1..n : text[i] \in T /\ text[i].t # "broken"
  BY DEF Unbroken
<1>3. Garbled(text) <=> Faulty(text)
  <2> HIDE DEF n
  <2>1. /\ Garbled(text) <=>
             \/ LexerAt(text, FALSE, Len(text) + 1) \in {"string", "escaped"}
             \/ \E i \in 1..n :
                  \/ text[i].t = "broken"
                  \/ text[i].t \in {"escape", "hash", "close"} /\ LexerAt(text, FALSE, i) = "code"
                  \/ text[i].t = "newline" /\ LexerAt(text, FALSE, i) \in {"string", "escaped"}
    BY <1>2 DEF Garbled
  <2>2. Faulty(text) <=>
             \/ LexerAt(text, FALSE, Len(text) + 1) \in {"string", "escaped"}
             \/ \E i \in 1..n :
                  \/ text[i].t \in {"escape", "hash", "close"} /\ LexerAt(text, FALSE, i) = "code"
                  \/ text[i].t = "newline" /\ LexerAt(text, FALSE, i) \in {"string", "escaped"}
    BY DEF Faulty, n
  <2> QED
    BY <1>2, <2>1, <2>2
<1>4. Parsed(text) = IF bad THEN <<[t |-> "broken"]>> ELSE Those(text, Q)
  BY ParsedIs
<1> HIDE DEF Q, bad
<1>5. ASSUME bad PROVE Unparseable(text)
  <2>1. Parsed(text) = <<[t |-> "broken"]>>
    BY <1>4, <1>5
  <2>2. Unreadable(<<[t |-> "broken"]>>)
    BY DEF Unreadable
  <2> QED
    BY <2>1, <2>2 DEF Unparseable
<1>6. ASSUME ~bad, Unparseable(text) PROVE FALSE
  <2> DEFINE doc == Those(text, Q)
  <2>1. Parsed(text) = doc
    BY <1>4, <1>6
  <2>2. doc \in Seq(T)
    BY ThoseIs
  <2> HIDE DEF doc
  <2>3. PICK i \in DOMAIN doc : doc[i].t = "broken"
    BY <1>6, <2>1 DEF Unparseable, Unreadable
  <2>4. doc[i] \in T
    BY <2>2
  <2> QED
    BY <2>3, <2>4 DEF Unbroken
<1>7. ~Faulty(text) => ~bad
  BY <1>1
<1> QED
  BY <1>1, <1>3, <1>5, <1>6 DEF bad

\* A broken file is one, whoever reads it.
LEMMA BrokenIs ==
  ASSUME NEW text \in Broken
  PROVE  Unreadable(text) /\ Unparseable(text) /\ Garbled(text)
<1> DEFINE T == {[t |-> "broken"]}
           Q == {i \in Starts(text, FALSE) : text[i].t \in {"entry", "deep", "broken"}}
           bad == \E i \in Starts(text, FALSE) : Malformed(text, i)
<1>1. /\ text = <<[t |-> "broken"]>> /\ Len(text) = 1 /\ DOMAIN text = 1..1
      /\ text[1] = [t |-> "broken"] /\ text[1].t = "broken"
  BY DEF Broken
<1>2. text \in Seq(T)
  BY <1>1
<1>3. 1 \in Starts(text, FALSE)
  <2>1. \A h \in BOOLEAN : Len(text) # 0 => 1 \in Starts(text, h)
    BY <1>2, StartsAre
  <2>2. Len(text) # 0
    BY <1>1
  <2>3. FALSE \in BOOLEAN
    OBVIOUS
  <2> QED
    BY ONLY <2>1, <2>2, <2>3, Zenon
<1>4. Parsed(text) = IF bad THEN <<[t |-> "broken"]>> ELSE Those(text, Q)
  BY ParsedIs
<1>5. 1 \in Q
  BY <1>1, <1>3
<1> HIDE DEF Q, bad
<1>6. Unreadable(text)
  BY <1>1 DEF Unreadable
<1>7. Unreadable(Those(text, Q))
  <2> DEFINE doc == Those(text, Q)
  <2>1. doc \in Seq(T) /\ \A x : x \in Range(doc) <=> \E i \in 1..Len(text) : i \in Q /\ x = text[i]
    BY <1>2, ThoseIs
  <2> HIDE DEF doc
  <2>2. text[1] \in Range(doc)
    BY <1>1, <1>5, <2>1
  <2>3. PICK i \in DOMAIN doc : doc[i] = text[1]
    BY <2>2 DEF Range
  <2>4. doc[i].t = "broken"
    BY <1>1, <2>3
  <2>5. Unreadable(doc)
    BY <2>3, <2>4 DEF Unreadable
  <2> QED
    BY <2>5 DEF doc
<1>8. Unreadable(Parsed(text))
  <2>1. CASE bad
    BY <1>1, <1>4, <1>6, <2>1
  <2>2. CASE ~bad
    BY <1>4, <1>7, <2>2
  <2> QED
    BY <2>1, <2>2
<1>9. Garbled(text)
  <2>1. 1 \in DOMAIN text
    BY <1>1
  <2> QED
    BY <1>1, <2>1 DEF Garbled
<1> QED
  BY <1>6, <1>8, <1>9 DEF Unparseable

\* The tokens of a chain's files.
Tokens == Entries \cup Deeps \cup Marks \cup {[t |-> "broken"]}

\* What an entry names: the name of a file, or that the place is too deep.
Names == STRING \cup {"deep"}

\* What kind of token is an entry, and what one is followed to.
LEMMA TokensAre ==
  /\ \A x \in Tokens : x.t \in {"entry", "deep"} <=> x \in Entries \cup Deeps
  /\ \A x \in Entries \cup Deeps \cup Marks : x.t # "broken" /\ x \in Tokens
  /\ \A x \in Entries \cup Deeps : Follow(x) \in Seq(Names)
<1>1. \A x \in Entries : x.t = "entry" /\ x.to \in Seq(Names)
  <2> TAKE x \in Entries
  <2>1. x.t = "entry" /\ x.to \in Seq(STRING)
    BY DEF Entries
  <2>2. Seq(STRING) \subseteq Seq(Names)
    BY DEF Names
  <2> QED
    BY <2>1, <2>2
<1>2. \A x \in Deeps : x.t = "deep"
  BY DEF Deeps
<1>3. \A x \in Marks : x.t \notin {"entry", "deep", "broken"}
  BY DEF Marks
<1>4. \A x \in Entries \cup Deeps : Follow(x) \in Seq(Names)
  <2>1. ASSUME NEW x \in Entries PROVE Follow(x) \in Seq(Names)
    <3> DEFINE P == {i \in DOMAIN x.to : x.to[i] # "number"}
    <3>1. x.t # "deep" /\ x.to \in Seq(Names)
      BY <1>1
    <3>2. Follow(x) = Those(x.to, P)
      BY <3>1 DEF Follow
    <3> HIDE DEF P
    <3>3. Those(x.to, P) \in Seq(Names)
      BY <3>1, ThoseIs
    <3> QED
      BY <3>2, <3>3
  <2>2. ASSUME NEW x \in Deeps PROVE Follow(x) \in Seq(Names)
    <3>1. <<"deep">> \in Seq(Names)
      <4>1. "deep" \in Names
        BY DEF Names
      <4> DEFINE v == "deep"
      <4>2. v \in Names
        BY <4>1
      <4> HIDE DEF v
      <4>3. <<v>> \in Seq(Names)
        BY <4>2
      <4> QED
        BY <4>3 DEF v
    <3>2. Follow(x) = <<"deep">>
      BY <1>2 DEF Follow
    <3> QED
      BY <3>1, <3>2
  <2> QED
    BY <2>1, <2>2
<1>5. [t |-> "broken"].t = "broken"
  OBVIOUS
<1>6. \A x \in Tokens : x \in Entries \cup Deeps \/ x \in Marks \/ x.t = "broken"
  BY <1>5 DEF Tokens
<1>7. \A x \in Entries \cup Deeps \cup Marks : x \in Tokens
  BY DEF Tokens
<1> QED
  BY <1>1, <1>2, <1>3, <1>4, <1>6, <1>7

\* The sequences given by the tokens of a text that are met in code and stop the search.
LEMMA NamedIs ==
  ASSUME NEW text \in Seq(Tokens), NEW section \in BOOLEAN
  PROVE  Named(text, section) \in Seq(Names)
<1> DEFINE n == Len(text)
           c(i) == /\ LexerAt(text, FALSE, i) = "code"
                   /\ text[i].t \in {"entry", "deep"} /\ Stops(text[i], section)
           u == [i \in DOMAIN text |-> IF c(i) THEN Follow(text[i]) ELSE <<>>]
<1>1. n \in Nat /\ DOMAIN text = 1..n /\ \A i \in 1..n : text[i] \in Tokens
  OBVIOUS
<1>2. Named(text, section) = FlattenSeq(u)
  BY DEF Named
<1>3. \A i \in 1..n : c(i) => text[i] \in Entries \cup Deeps
  BY <1>1, TokensAre
<1>4. DOMAIN u = 1..n /\ u = [i \in 1..n |-> u[i]] /\ \A i \in 1..n : u[i] = IF c(i) THEN Follow(text[i]) ELSE <<>>
  BY <1>1
<1> HIDE DEF u, c
<1>5. \A i \in 1..n : u[i] \in Seq(Names)
  <2> TAKE i \in 1..n
  <2>1. <<>> \in Seq(Names)
    OBVIOUS
  <2>2. CASE c(i)
    BY <1>3, <1>4, <2>2, TokensAre
  <2>3. CASE ~c(i)
    BY <1>4, <2>1, <2>3
  <2> QED
    BY <2>2, <2>3
<1>6. u \in Seq(Seq(Names))
  BY <1>4, <1>5, Placed
<1>7. FlattenSeq(u) \in Seq(Names)
  BY <1>6, FlattenRange
<1> QED
  BY <1>2, <1>7

\* The values that a chain's file is followed by are those the language names.
LEMMA ValuesAre ==
  ASSUME NEW text \in Seq(Entries \cup Deeps \cup Marks), NEW section \in BOOLEAN, ~Garbled(text)
  PROVE  Values(text, section) = Named(text, section)
<1> DEFINE T == Entries \cup Deeps \cup Marks
           E == Entries \cup Deeps
           n == Len(text)
           S == Starts(text, FALSE)
           Q == {i \in S : text[i].t \in {"entry", "deep", "broken"}}
           doc == Those(text, Q)
           P == {i \in DOMAIN doc : Stops(doc[i], section)}
           occ == Those(doc, P)
           k1 == [x \in T |-> IF x \in E THEN Follow(x) ELSE <<>>]
           k2 == [x \in T |-> IF Stops(x, section) THEN k1[x] ELSE <<>>]
<1>0. n \in Nat /\ DOMAIN text = 1..n /\ \A i \in 1..n : text[i] \in T
  OBVIOUS
<1>1. Unbroken(T) /\ E \subseteq T /\ T \subseteq Tokens
  BY TokensAre DEF Unbroken
<1>2. S \subseteq 1..n
  <2>1. \A h \in BOOLEAN : Starts(text, h) \subseteq 1..Len(text)
    BY StartsAre
  <2>2. FALSE \in BOOLEAN
    OBVIOUS
  <2>3. Starts(text, FALSE) \subseteq 1..Len(text)
    BY ONLY <2>1, <2>2, Zenon
  <2> QED
    BY <2>3
<1>3. \A p \in 1..n : /\ LexerAt(text, FALSE, p) = "code" => p \in S
                      /\ p \in S /\ text[p].t # "newline" => LexerAt(text, FALSE, p) = "code"
  BY CodeIsStart
<1>4. \A x \in T : x.t \in {"entry", "deep", "broken"} <=> x \in E
  BY <1>1, TokensAre DEF Unbroken
<1>5. Parsed(text) = doc
  <2>1. ~ \E i \in Starts(text, FALSE) : Malformed(text, i)
    BY <1>1, UnparseableIs
  <2> QED
    BY <2>1, ParsedIs
<1>6. Occurrences(text, section) = occ
  BY <1>5 DEF Occurrences
<1>6a. text \in Seq(T)
  OBVIOUS
<1>6b. \A i \in Q : i \in 1..n /\ text[i].t \in {"entry", "deep", "broken"}
  BY <1>2
<1> HIDE DEF T, E, Q
<1>7. /\ doc \in Seq(T)
      /\ \A x : x \in Range(doc) <=> \E i \in 1..n : i \in Q /\ x = text[i]
  <2> HIDE DEF doc
  <2>1. /\ Those(text, Q) \in Seq(T)
        /\ \A x : x \in Range(Those(text, Q)) <=> \E i \in 1..Len(text) : i \in Q /\ x = text[i]
    BY <1>6a, ThoseIs
  <2> QED
    BY <2>1 DEF doc
<1>8. Range(doc) \subseteq E
  <2> SUFFICES ASSUME NEW x \in Range(doc) PROVE x \in E
    OBVIOUS
  <2>1. PICK i \in 1..n : i \in Q /\ x = text[i]
    BY <1>7
  <2> QED
    BY <1>0, <1>4, <1>6b, <2>1
<1> USE DEF Q
<1> HIDE DEF doc
<1>9. /\ occ \in Seq(T)
      /\ \A x : x \in Range(occ) <=> \E i \in 1..Len(doc) : i \in P /\ x = doc[i]
  BY <1>7, ThoseIs
<1>10. \A i \in 1..Len(doc) : doc[i] \in Range(doc)
  BY <1>7, RangeIs
<1>11. Range(occ) \subseteq E
  BY <1>8, <1>9, <1>10
<1> HIDE DEF occ
<1>12. k1 \in [T -> Seq(Names)]
  <2>1. \A x \in E : Follow(x) \in Seq(Names)
    BY TokensAre DEF E
  <2>2. <<>> \in Seq(Names)
    OBVIOUS
  <2> QED
    BY <2>1, <2>2
<1>13. \A x \in T : x \in E => k1[x] = Follow(x)
  OBVIOUS
<1> HIDE DEF k1
<1>14. k2 \in [T -> Seq(Names)] /\ \A x \in T : k2[x] = IF Stops(x, section) THEN k1[x] ELSE <<>>
  <2>1. <<>> \in Seq(Names)
    OBVIOUS
  <2> QED
    BY <1>12, <2>1
<1> HIDE DEF k2
<1>15. Values(text, section) = Along(k1, occ)
  <2>1. \A i \in DOMAIN occ : occ[i] \in T /\ occ[i] \in E
    <3>1. \A i \in DOMAIN occ : occ[i] \in Range(occ)
      BY DEF Range
    <3> QED
      BY <1>9, <1>11, <3>1
  <2>2. [i \in DOMAIN occ |-> Follow(occ[i])] = [i \in DOMAIN occ |-> k1[occ[i]]]
    BY <1>13, <2>1
  <2> QED
    BY <1>6, <2>2 DEF Values, Along
<1>16. Along(k1, occ) = Along(k2, doc)
  <2> DEFINE a == [i \in DOMAIN doc |-> IF i \in P THEN k1[doc[i]] ELSE <<>>]
             b == [i \in DOMAIN doc |-> k2[doc[i]]]
  <2>1. Along(k1, Those(doc, P)) = FlattenSeq(a)
    <3> HIDE DEF P
    <3>1. doc \in Seq(T)
      BY <1>7
    <3>2. Along(k1, Those(doc, P)) = FlattenSeq([i \in DOMAIN doc |-> IF i \in P THEN k1[doc[i]] ELSE <<>>])
      BY <1>12, <3>1, AlongThose
    <3> QED
      BY <3>2
  <2>2. \A i \in DOMAIN doc : doc[i] \in T
    BY <1>7
  <2>3. a = b
    BY <1>14, <2>2
  <2>4. Along(k2, doc) = FlattenSeq(b)
    BY DEF Along
  <2> QED
    BY <2>1, <2>3, <2>4 DEF occ
<1>17. Along(k2, doc) = Named(text, section)
  <2> DEFINE a == [i \in DOMAIN text |-> IF i \in Q THEN k2[text[i]] ELSE <<>>]
             c(i) == /\ LexerAt(text, FALSE, i) = "code"
                     /\ text[i].t \in {"entry", "deep"} /\ Stops(text[i], section)
             b == [i \in DOMAIN text |-> IF c(i) THEN Follow(text[i]) ELSE <<>>]
  <2>1. Along(k2, Those(text, Q)) = FlattenSeq(a)
    <3> HIDE DEF Q
    <3> QED
      BY <1>14, AlongThose DEF T
  <2>2. ASSUME NEW i \in 1..n
        PROVE  (IF i \in Q THEN k2[text[i]] ELSE <<>>) = (IF c(i) THEN Follow(text[i]) ELSE <<>>)
    <3>0. text[i] \in T
      BY <1>0
    <3>1. text[i].t \in {"entry", "deep", "broken"} <=> text[i].t \in {"entry", "deep"}
      BY <1>1, <3>0 DEF Unbroken
    <3>2. i \in Q <=> LexerAt(text, FALSE, i) = "code" /\ text[i].t \in {"entry", "deep"}
      <4>1. text[i].t \in {"entry", "deep"} => text[i].t # "newline"
        OBVIOUS
      <4> QED
        BY <1>3, <3>1, <4>1
    <3>3. i \in Q => k1[text[i]] = Follow(text[i])
      BY <1>4, <1>13, <3>0
    <3>4. k2[text[i]] = IF Stops(text[i], section) THEN k1[text[i]] ELSE <<>>
      BY <1>14, <3>0
    <3> HIDE DEF Q
    <3>5. CASE i \in Q /\ Stops(text[i], section)
      BY <3>2, <3>3, <3>4, <3>5
    <3>6. CASE i \in Q /\ ~Stops(text[i], section)
      BY <3>2, <3>4, <3>6
    <3>7. CASE i \notin Q
      BY <3>2, <3>7
    <3> QED
      BY <3>5, <3>6, <3>7
  <2>3. a = b
    BY <1>0, <2>2
  <2>4. Named(text, section) = FlattenSeq(b)
    BY DEF Named
  <2> QED
    BY <2>1, <2>3, <2>4 DEF doc
<1> QED
  BY <1>15, <1>16, <1>17

\* In a text of nothing but entries the lexer meets every one in code.
LEMMA EntriesAreCode ==
  ASSUME NEW text \in Seq(Entries \cup Deeps)
  PROVE  \A p \in 1..(Len(text) + 1) : LexerAt(text, FALSE, p) = "code"
<1> DEFINE E == Entries \cup Deeps
           n == Len(text)
           L(p) == LexerAt(text, FALSE, p)
           U == {p \in 0..n : L(p + 1) = "code"}
<1>1. \A x \in E : x.t \in {"entry", "deep"}
  BY DEF Entries, Deeps
<1>2. n \in Nat /\ text \in Seq(E) /\ \A i \in 1..n : text[i].t \in {"entry", "deep"}
  BY <1>1
<1>3. \A h \in BOOLEAN : /\ LexerAt(text, h, 1) = "code"
                         /\ \A i \in 1..n : LexerAt(text, h, i + 1) = After(LexerAt(text, h, i), text[i], h)
  BY LexerIs
<1>4. FALSE \in BOOLEAN
  OBVIOUS
<1>5. L(1) = "code" /\ \A i \in 1..n : L(i + 1) = After(L(i), text[i], FALSE)
  <2> HIDE DEF n
  <2> QED
    BY ONLY <1>3, <1>4, Zenon
<1> HIDE DEF n, L
<1>6. 0 \in U
  <2>1. 0 + 1 = 1 /\ 0 \in 0..n
    BY <1>2
  <2> QED
    BY <1>5, <2>1
<1>7. ASSUME NEW i \in 1..n, i - 1 \in U PROVE i \in U
  <2>1. i \in 0..n /\ (i - 1) + 1 = i
    BY <1>2
  <2>2. L(i) = "code"
    <3>1. L((i - 1) + 1) = "code"
      BY <1>7
    <3> QED
      BY <2>1, <3>1
  <2>3. After("code", text[i], FALSE) = "code"
    BY <1>2 DEF After
  <2>4. L(i + 1) = "code"
    BY <1>5, <2>2, <2>3
  <2> QED
    BY <2>1, <2>4
<1> HIDE DEF U
<1>8. \A i \in 0..n : i \in U
  BY <1>2, <1>6, <1>7, Induction
<1>9. ASSUME NEW p \in 1..(n + 1) PROVE L(p) = "code"
  <2>1. p - 1 \in 0..n /\ (p - 1) + 1 = p
    BY <1>2
  <2>2. L((p - 1) + 1) = "code"
    BY <1>8, <2>1 DEF U
  <2> QED
    BY <2>1, <2>2
<1> QED
  BY <1>9 DEF n, L

\* A document of entries parses, and what stops a search is found whatever precedes it.
LEMMA KeysAreExact ==
  ASSUME NEW text \in Seq(Entries \cup Deeps), NEW section \in BOOLEAN
  PROVE  /\ ~Unreadable(text) /\ ~Unparseable(text)
         /\ Occurrences(text, section) # <<>> <=> \E i \in DOMAIN text : Stops(text[i], section)
<1> DEFINE E == Entries \cup Deeps
           n == Len(text)
           S == Starts(text, FALSE)
           Q == {i \in S : text[i].t \in {"entry", "deep", "broken"}}
           doc == Those(text, Q)
           P == {i \in DOMAIN doc : Stops(doc[i], section)}
           occ == Those(doc, P)
<1>1. \A x \in E : x.t \in {"entry", "deep"}
  BY DEF Entries, Deeps
<1>2. /\ n \in Nat /\ text \in Seq(E) /\ DOMAIN text = 1..n
      /\ \A i \in 1..n : text[i].t \in {"entry", "deep"}
  BY <1>1
<1>3. Unbroken(E)
  BY <1>1 DEF Unbroken
<1>4. ~Unreadable(text)
  BY <1>2 DEF Unreadable
<1>5. \A p \in 1..(n + 1) : LexerAt(text, FALSE, p) = "code"
  BY EntriesAreCode
<1>6. ~Garbled(text)
  <2> HIDE DEF n
  <2>0. n + 1 \in 1..(n + 1) /\ \A i \in 1..n : i \in 1..(n + 1)
    BY <1>2
  <2>1. LexerAt(text, FALSE, n + 1) = "code" /\ \A i \in 1..n : LexerAt(text, FALSE, i) = "code"
    BY <1>5, <2>0
  <2> QED
    BY <1>2, <2>1 DEF Garbled, n
<1>7. ~Unparseable(text) /\ ~ \E i \in Starts(text, FALSE) : Malformed(text, i)
  BY <1>2, <1>3, <1>6, UnparseableIs
<1>8. Parsed(text) = doc
  BY <1>7, ParsedIs
<1>9. \A i \in 1..n : i \in Q
  <2>1. \A p \in 1..n : LexerAt(text, FALSE, p) = "code" => p \in S
    BY CodeIsStart
  <2> HIDE DEF n
  <2>2. \A i \in 1..n : i \in 1..(n + 1)
    BY <1>2
  <2> QED
    BY <1>2, <1>5, <2>1, <2>2
<1>10. Occurrences(text, section) = occ
  BY <1>8 DEF Occurrences
<1> HIDE DEF E, Q
<1>11. /\ doc \in Seq(E)
       /\ \A x : x \in Range(doc) <=> \E i \in 1..n : i \in Q /\ x = text[i]
  <2>1. /\ Those(text, Q) \in Seq(E)
        /\ \A x : x \in Range(Those(text, Q)) <=> \E i \in 1..Len(text) : i \in Q /\ x = text[i]
    BY <1>2, ThoseIs
  <2> QED
    BY <2>1
<1> HIDE DEF doc
<1>12. \A x : x \in Range(doc) <=> \E i \in DOMAIN doc : x = doc[i]
  BY DEF Range
<1>13. /\ occ \in Seq(E)
       /\ \A x : x \in Range(occ) <=> \E i \in 1..Len(doc) : i \in P /\ x = doc[i]
  <2> HIDE DEF P
  <2>1. /\ Those(doc, P) \in Seq(E)
        /\ \A x : x \in Range(Those(doc, P)) <=> \E i \in 1..Len(doc) : i \in P /\ x = doc[i]
    BY <1>11, ThoseIs
  <2> QED
    BY <2>1
<1> HIDE DEF occ
<1>14. DOMAIN doc = 1..Len(doc)
  BY <1>11
<1>15. occ = <<>> <=> Range(occ) = {}
  BY <1>13, RangeIs
<1>16. ASSUME occ # <<>> PROVE \E i \in DOMAIN text : Stops(text[i], section)
  <2>1. PICK x : x \in Range(occ)
    BY <1>15, <1>16
  <2>2. PICK i \in DOMAIN doc : Stops(doc[i], section)
    BY <1>13, <2>1
  <2>3. doc[i] \in Range(doc)
    BY <1>12
  <2> QED
    BY <1>2, <1>11, <2>2, <2>3
<1>17. ASSUME NEW i \in DOMAIN text, Stops(text[i], section) PROVE occ # <<>>
  <2>1. text[i] \in Range(doc)
    BY <1>2, <1>9, <1>11
  <2>2. PICK j \in DOMAIN doc : text[i] = doc[j]
    BY <1>12, <2>1
  <2>3. j \in P
    BY <1>17, <2>2
  <2>4. doc[j] \in Range(occ)
    BY <1>13, <1>14, <2>3
  <2> QED
    BY <1>15, <2>4
<1> QED
  BY <1>4, <1>7, <1>10, <1>16, <1>17

\* Directives are refused when one is read, or found when none was, and only when one
\* may be there.
LEMMA DirectivesAreExact ==
  ASSUME NEW text \in Seq(Sqls)
  PROVE  /\ ~DirectiveRefused(text) =>
              \A p \in Range(text) :
                "unsafe" \in Range(p.lines) =>
                  /\ ~Reads(p)
                  /\ p.enc \in MarkerEncodings => Holds({q \in Range(text) : Reads(q)}, {"other"})
         /\ DirectiveRefused(text) => Holds(Range(text), {"unsafe", "other", "marker"})
<1> DEFINE read == {p \in Range(text) : Reads(p)}
           searched == {p \in Range(text) : p.enc \in MarkerEncodings}
<1>1. DirectiveRefused(text) <=>
        \/ Holds(read, {"unsafe"})
        \/ ~Holds(read, Directives) /\ Holds(searched, Directives \cup {"marker"})
  BY DEF DirectiveRefused
<1>2. ASSUME ~DirectiveRefused(text), NEW p \in Range(text), "unsafe" \in Range(p.lines)
      PROVE  ~Reads(p) /\ (p.enc \in MarkerEncodings => Holds(read, {"other"}))
  <2>1. ~Holds(read, {"unsafe"})
    BY <1>1, <1>2
  <2>2. ~Reads(p)
    BY <1>2, <2>1 DEF Holds
  <2>3. ASSUME p.enc \in MarkerEncodings PROVE Holds(read, {"other"})
    <3>1. Holds(searched, Directives \cup {"marker"})
      BY <1>2, <2>3 DEF Holds, Directives
    <3>2. Holds(read, Directives)
      BY <1>1, <1>2, <3>1
    <3> HIDE DEF read
    <3> QED
      BY <2>1, <3>2 DEF Holds, Directives
  <2> QED
    BY <2>2, <2>3
<1>3. ASSUME DirectiveRefused(text) PROVE Holds(Range(text), {"unsafe", "other", "marker"})
  <2>1. read \subseteq Range(text) /\ searched \subseteq Range(text)
    OBVIOUS
  <2> HIDE DEF read, searched
  <2>2. Holds(read, {"unsafe"}) \/ Holds(searched, Directives \cup {"marker"})
    BY <1>1, <1>3
  <2> QED
    BY <2>1, <2>2 DEF Holds, Directives
<1> QED
  BY <1>2, <1>3

\* regal's rules that are there.
LEMMA RulesAre ==
  ASSUME NEW dir
  PROVE  /\ Rules(dir) # <<>> <=> Range(RuleFiles) \cap DOMAIN dir # {}
         /\ Rules(dir) # <<>> => Head(Rules(dir)) \in Range(RuleFiles) \cap DOMAIN dir
<1> DEFINE P == {i \in DOMAIN RuleFiles : RuleFiles[i] \in DOMAIN dir}
           q == Rules(dir)
<1>1. RuleFiles \in Seq(STRING)
  BY RuleFilesAssumption
<1>2. q = Those(RuleFiles, P)
  BY DEF Rules
<1>3. \A i \in 1..Len(RuleFiles) : i \in P <=> RuleFiles[i] \in DOMAIN dir
  BY <1>1
<1> HIDE DEF P, q
<1>4. /\ q \in Seq(STRING)
      /\ \A x : x \in Range(q) <=> \E i \in 1..Len(RuleFiles) : i \in P /\ x = RuleFiles[i]
  BY <1>1, <1>2, ThoseIs
<1>5. \A x : x \in Range(q) <=> x \in Range(RuleFiles) /\ x \in DOMAIN dir
  <2>1. \A x : x \in Range(RuleFiles) <=> \E i \in 1..Len(RuleFiles) : x = RuleFiles[i]
    BY <1>1, RangeIs
  <2> QED
    BY <1>3, <1>4, <2>1
<1>6. q # <<>> => Head(q) \in Range(q)
  <2>1. q # <<>> => 1 \in DOMAIN q /\ Head(q) = q[1]
    BY <1>4
  <2> QED
    BY <2>1 DEF Range
<1>7. q = <<>> => Range(q) = {}
  BY DEF Range
<1> QED
  BY <1>5, <1>6, <1>7 DEF q

\* A search refuses every file it must, and none it need not.
Exact(s, d, f) ==
  /\ ~Refuses(s, d, f) => ~Unsafe(s, d, f, FALSE)
  /\ Refuses(s, d, f) => Unsafe(s, d, f, TRUE)

\* One that follows nothing does.
LEMMA SearchIsExact ==
  ASSUME NEW s, s.section \in BOOLEAN, NEW d, NEW f, s.how \in {"keys", "blocks", "directives", "rules"},
         d[f] \in Contents[s.how]
  PROVE  Exact(s, d, f)
<1> USE DEF Exact
<1> DEFINE text == d[f]
<1>1. CASE text \in Broken
  <2>1. Unreadable(text)
    BY <1>1, BrokenIs
  <2>2. Refuses(s, d, f) /\ \A may : Unsafe(s, d, f, may)
    BY <2>1 DEF Refuses, Unsafe, Unreadable, text
  <2> QED
    BY <2>2
<1>2. CASE s.how = "keys" /\ text \notin Broken
  <2>1. text \in Seq(Entries \cup Deeps)
    BY <1>2 DEF Contents
  <2> HIDE DEF text
  <2>2. /\ ~Unreadable(text) /\ ~Unparseable(text)
        /\ Occurrences(text, s.section) # <<>> <=> \E i \in DOMAIN text : Stops(text[i], s.section)
    BY <2>1, KeysAreExact
  <2>3. Refuses(s, d, f) <=> Occurrences(text, s.section) # <<>>
    BY <1>2, <2>2 DEF Refuses, text
  <2>4. \A may : Unsafe(s, d, f, may) <=> \E i \in DOMAIN text : Stops(text[i], s.section)
    BY <1>2, <2>2 DEF Unsafe, Unreadable, text
  <2> QED
    BY <2>2, <2>3, <2>4 DEF text
<1>3. CASE s.how = "blocks" /\ text \notin Broken
  <2>1. text \in Seq(Marks)
    BY <1>3 DEF Contents
  <2>2. ~Unreadable(text)
    <3>1. \A x \in Marks : x.t # "broken"
      BY DEF Marks
    <3> HIDE DEF text
    <3> QED
      BY <2>1, <3>1 DEF Unreadable
  <2> HIDE DEF text
  <2>3. Unended(text, TRUE) <=> LexerAt(text, TRUE, Len(text) + 1) = "block"
    <3>1. \A h \in BOOLEAN : Unended(text, h) <=> LexerAt(text, h, Len(text) + 1) = "block"
      BY <2>1, UnendedIs
    <3>2. TRUE \in BOOLEAN
      OBVIOUS
    <3> QED
      BY ONLY <3>1, <3>2, Zenon
  <2>4. (\E i \in Kept(text, TRUE) : text[i].t = "block")
          <=> \E i \in DOMAIN text : text[i].t = "block" /\ LexerAt(text, TRUE, i) \notin {"line", "block"}
    <3>1. \A h \in BOOLEAN :
            (\E i \in Kept(text, h) : text[i].t = "block")
              <=> \E i \in DOMAIN text : text[i].t = "block" /\ LexerAt(text, h, i) \notin {"line", "block"}
      BY <2>1, KeptIs
    <3>2. TRUE \in BOOLEAN
      OBVIOUS
    <3> QED
      BY ONLY <3>1, <3>2, Zenon
  <2>5. Refuses(s, d, f) <=> BlockRefused(text)
    BY <1>3, <2>2 DEF Refuses, text
  <2>6. \A may : Unsafe(s, d, f, may) <=>
          \/ \E i \in DOMAIN text : text[i].t = "heredoc"
          \/ LexerAt(text, TRUE, Len(text) + 1) = "block"
          \/ \E i \in DOMAIN text : text[i].t = "block" /\ LexerAt(text, TRUE, i) \notin {"line", "block"}
    BY <1>3, <2>2 DEF Unsafe, Unreadable, text
  <2>7. \A may : Unsafe(s, d, f, may) <=> BlockRefused(text)
    BY <2>3, <2>4, <2>6 DEF BlockRefused
  <2> QED
    BY <2>5, <2>7 DEF text
<1>4. CASE s.how = "directives" /\ text \notin Broken
  <2>1. text \in Seq(Sqls)
    BY <1>4 DEF Contents
  <2>2. ~Unreadable(text)
    <3>1. \A x \in Sqls : x.t # "broken"
      BY DEF Sqls
    <3> HIDE DEF text
    <3> QED
      BY <2>1, <3>1 DEF Unreadable
  <2> HIDE DEF text
  <2>3. /\ ~DirectiveRefused(text) =>
             \A p \in Range(text) :
               "unsafe" \in Range(p.lines) =>
                 /\ ~Reads(p)
                 /\ p.enc \in MarkerEncodings => Holds({q \in Range(text) : Reads(q)}, {"other"})
        /\ DirectiveRefused(text) => Holds(Range(text), {"unsafe", "other", "marker"})
    BY <2>1, DirectivesAreExact
  <2>4. Refuses(s, d, f) <=> DirectiveRefused(text)
    BY <1>4, <2>2 DEF Refuses, text
  <2>5. \A may : Unsafe(s, d, f, may) <=>
          \/ may /\ Holds(Range(text), {"unsafe", "other", "marker"})
          \/ \E p \in Range(text) :
               /\ "unsafe" \in Range(p.lines)
               /\ \/ Reads(p)
                  \/ p.enc \in MarkerEncodings /\ ~Holds({q \in Range(text) : Reads(q)}, {"other"})
    BY <1>4, <2>2 DEF Unsafe, Unreadable, text
  <2>6. ~DirectiveRefused(text) => ~Unsafe(s, d, f, FALSE)
    BY <2>3, <2>5
  <2>7. DirectiveRefused(text) => Unsafe(s, d, f, TRUE)
    BY <2>3, <2>5
  <2> QED
    BY <2>4, <2>6, <2>7
<1>5. CASE s.how = "rules" /\ text \notin Broken
  <2>1. text = <<>>
    BY <1>5 DEF Contents
  <2>2. ~Unreadable(text)
    BY <2>1 DEF Unreadable
  <2> HIDE DEF text
  <2>3. Refuses(s, d, f) <=> Rules(d) # <<>>
    BY <1>5, <2>2 DEF Refuses, text
  <2>4. \A may : Unsafe(s, d, f, may) <=> Range(RuleFiles) \cap DOMAIN d # {}
    BY <1>5, <2>2 DEF Unsafe, Unreadable, text
  <2> QED
    BY <2>3, <2>4, RulesAre
<1> QED
  BY <1>1, <1>2, <1>3, <1>4, <1>5

-------------------------------------------------------------------------------
(* The walk of a chain                                                         *)

\* The files of a tree, and what each names.
Web(V) == IsFiniteSet(DOMAIN V) /\ \A f \in DOMAIN V : V[f] \in Seq(Names)

\* The files n hops away, for each n up to the number of files.
LEMMA HopsAre ==
  ASSUME NEW V, Web(V), NEW from \in DOMAIN V
  PROVE  /\ Cardinality(DOMAIN V) \in Nat
         /\ DOMAIN Hops(V, from) = 0..Cardinality(DOMAIN V)
         /\ Hops(V, from)[0] = {from}
         /\ \A n \in 0..Cardinality(DOMAIN V) : Hops(V, from)[n] \subseteq DOMAIN V
         /\ \A n \in 1..Cardinality(DOMAIN V) :
              Hops(V, from)[n] = UNION {DOMAIN V \cap Range(V[f]) : f \in Hops(V, from)[n - 1]}
<1> DEFINE F == DOMAIN V
           c == Cardinality(F)
           next(H) == UNION {F \cap Range(V[f]) : f \in H}
           Is(h) == h = [n \in 0..c |-> IF n = 0 THEN {from} ELSE UNION {F \cap Range(V[f]) : f \in h[n - 1]}]
           H == CHOOSE h : Is(h)
           D == [q \in (SUBSET F) \X Nat |-> next(q[1])]
<1>1. c \in Nat /\ {from} \in SUBSET F
  BY FS_CardinalityType DEF Web
<1>2. \A X \in SUBSET F : next(X) \in SUBSET F
  OBVIOUS
<1>3. D \in [(SUBSET F) \X Nat -> SUBSET F]
  BY <1>2
<1>4. PICK h \in [0..c -> SUBSET F] : Follows(h, {from}, D, c)
  <2> HIDE DEF D, c
  <2> QED
    BY <1>1, <1>3, StepsDefine
<1>5. Is(h)
  <2>1. ASSUME NEW n \in 1..c PROVE h[n] = next(h[n - 1])
    <3>1. n - 1 \in 0..c /\ n \in Nat
      BY <1>1
    <3>2. h[n] = D[<<h[n - 1], n>>] /\ h[n - 1] \in SUBSET F
      BY <1>4, <3>1 DEF Follows
    <3> HIDE DEF next
    <3> QED
      BY <3>1, <3>2
  <2>2. h[0] = {from}
    BY <1>4 DEF Follows
  <2> HIDE DEF c
  <2> QED
    BY <1>1, <1>4, <2>1, <2>2
<1>6. Is(H)
  BY <1>5
<1>7. Hops(V, from) = H
  BY DEF Hops
<1> HIDE DEF H, c
<1>8. DOMAIN H = 0..c /\ H[0] = {from} /\ \A n \in 1..c : H[n] = next(H[n - 1])
  BY <1>1, <1>6
<1> HIDE DEF next
<1>9. \A n \in 1..c : H[n - 1] \in SUBSET F => H[n] = D[<<H[n - 1], n>>]
  BY <1>8
<1> HIDE DEF D
<1>10. \A n \in 0..c : H[n] \in SUBSET F
  <2>1. Takes(H, SUBSET F, {from}, D, c)
    BY <1>8, <1>9 DEF Takes
  <2> QED
    BY <1>1, <1>3, <2>1, StepsAre
<1> QED
  BY <1>1, <1>7, <1>8, <1>10 DEF c, next

\* The files a chain reaches.
Reach(V, from) == UNION {Hops(V, from)[n] : n \in DOMAIN Hops(V, from)}

\* One place of the files in R names g.
NamedOnce(V, R, g) ==
  \E f \in R : \E i \in 1..Len(V[f]) :
    /\ V[f][i] = g
    /\ \A h \in R : \A j \in 1..Len(V[h]) : V[h][j] = g => h = f /\ j = i

\* What makes a chain sound, when each file of V names its values and those in G
\* cannot be read.
Sound(V, G, from, max) ==
  /\ \A f \in Reach(V, from) : f \notin G /\ \A i \in 1..Len(V[f]) : V[f][i] \notin {"deep", "outside", from}
  /\ \A g \in Reach(V, from) : g # from => NamedOnce(V, Reach(V, from), g)
  /\ \A n \in DOMAIN Hops(V, from) : \A f \in Hops(V, from)[n] : V[f] # <<>> => n < max

\* What the files of a tree name, for a chain that starts at one.
Naming(dir, from, section) ==
  [f \in DOMAIN dir |-> Named(dir[f], IF f = from THEN section ELSE FALSE)]
\* The files of a tree that are no documents.
GarbledIn(dir) == {f \in DOMAIN dir : Garbled(dir[f])}

\* ChainSound, said of what the files name.
LEMMA SoundIs ==
  ASSUME NEW dir, NEW from \in DOMAIN dir, NEW section \in BOOLEAN, Web(Naming(dir, from, section))
  PROVE  ChainSound(dir, from, section)
           <=> Sound(Naming(dir, from, section), GarbledIn(dir), from, MaxChain)
<1> DEFINE V == Naming(dir, from, section)
           hops == Hops(V, from)
           R == UNION {hops[n] : n \in DOMAIN hops}
           places == UNION {{f} \X DOMAIN V[f] : f \in R}
           naming(g) == {p \in places : V[p[1]][p[2]] = g}
<1>0. DOMAIN V = DOMAIN dir
  BY DEF Naming
<1>1. ChainSound(dir, from, section) <=>
        /\ \A f \in R : ~Garbled(dir[f]) /\ Range(V[f]) \cap {"deep", "outside"} = {}
        /\ \A g \in R : IF g = from THEN naming(g) = {} ELSE \E p \in places : naming(g) = {p}
        /\ \A n \in DOMAIN hops : \A f \in hops[n] : V[f] # <<>> => n < MaxChain
  BY DEF ChainSound, Naming
<1>2. Web(V)
  OBVIOUS
<1>3. R \subseteq DOMAIN dir /\ from \in R
  <2>1. /\ DOMAIN hops = 0..Cardinality(DOMAIN V) /\ Cardinality(DOMAIN V) \in Nat
        /\ \A n \in 0..Cardinality(DOMAIN V) : hops[n] \subseteq DOMAIN V
        /\ hops[0] = {from}
    BY <1>0, <1>2, HopsAre
  <2>2. 0 \in DOMAIN hops
    BY <2>1
  <2> HIDE DEF hops, V
  <2> QED
    BY <1>0, <2>1, <2>2
<1>4. Reach(V, from) = R
  BY DEF Reach
<1>5. \A f \in R : V[f] \in Seq(Names) /\ DOMAIN V[f] = 1..Len(V[f])
  BY <1>0, <1>2, <1>3 DEF Web
<1> HIDE DEF V, hops, R
<1>6. \A f \in R : \A v : v \in Range(V[f]) <=> \E i \in 1..Len(V[f]) : v = V[f][i]
  BY <1>5, RangeIs
<1>7. \A p : p \in places <=> \E f \in R : \E i \in 1..Len(V[f]) : p = <<f, i>>
  BY <1>5
<1>8. \A f : \A i : <<f, i>>[1] = f /\ <<f, i>>[2] = i
  OBVIOUS
<1>9. \A f \in R : \A i \in 1..Len(V[f]) : <<f, i>> \in places
  BY <1>7
<1> HIDE DEF places
<1>10. ASSUME NEW g
       PROVE  /\ naming(g) = {} <=> \A f \in R : \A i \in 1..Len(V[f]) : V[f][i] # g
              /\ (\E p \in places : naming(g) = {p}) <=> NamedOnce(V, R, g)
  <2>1. \A p : p \in naming(g) <=> p \in places /\ V[p[1]][p[2]] = g
    OBVIOUS
  <2> HIDE DEF naming
  <2>2. \A f \in R : \A i \in 1..Len(V[f]) : <<f, i>> \in naming(g) <=> V[f][i] = g
    <3> SUFFICES ASSUME NEW f \in R, NEW i \in 1..Len(V[f])
                 PROVE  <<f, i>> \in naming(g) <=> V[f][i] = g
      OBVIOUS
    <3> DEFINE p == <<f, i>>
    <3>1. p[1] = f /\ p[2] = i /\ p \in places
      BY <1>8, <1>9
    <3> HIDE DEF p
    <3>2. p \in naming(g) <=> V[f][i] = g
      BY <2>1, <3>1
    <3> QED
      BY <3>2 DEF p
  <2>3. \A p \in naming(g) : \E f \in R : \E i \in 1..Len(V[f]) : p = <<f, i>> /\ V[f][i] = g
    BY <1>7, <1>8, <2>1
  <2>4. naming(g) = {} <=> \A f \in R : \A i \in 1..Len(V[f]) : V[f][i] # g
    BY <2>2, <2>3
  <2>5. ASSUME NEW p \in places, naming(g) = {p} PROVE NamedOnce(V, R, g)
    <3>1. PICK f \in R : \E i \in 1..Len(V[f]) : p = <<f, i>> /\ V[f][i] = g
      BY <2>3, <2>5
    <3>2. PICK i \in 1..Len(V[f]) : p = <<f, i>> /\ V[f][i] = g
      BY <3>1
    <3>3. ASSUME NEW h \in R, NEW j \in 1..Len(V[h]), V[h][j] = g PROVE h = f /\ j = i
      <4>1. <<h, j>> \in naming(g)
        BY <2>2, <3>3
      <4>2. <<h, j>> = <<f, i>>
        BY <2>5, <3>2, <4>1
      <4> QED
        BY <4>2
    <3> QED
      BY <3>2, <3>3 DEF NamedOnce
  <2>6. ASSUME NamedOnce(V, R, g) PROVE \E p \in places : naming(g) = {p}
    <3>1. PICK f \in R : \E i \in 1..Len(V[f]) :
            /\ V[f][i] = g
            /\ \A h \in R : \A j \in 1..Len(V[h]) : V[h][j] = g => h = f /\ j = i
      BY <2>6 DEF NamedOnce
    <3>2. PICK i \in 1..Len(V[f]) :
            /\ V[f][i] = g
            /\ \A h \in R : \A j \in 1..Len(V[h]) : V[h][j] = g => h = f /\ j = i
      BY <3>1
    <3>3. <<f, i>> \in naming(g) /\ <<f, i>> \in places
      BY <1>9, <2>2, <3>2
    <3>4. \A p \in naming(g) : p = <<f, i>>
      BY <2>3, <3>2
    <3> QED
      BY <3>3, <3>4
  <2> QED
    BY <2>4, <2>5, <2>6
<1> HIDE DEF naming
<1>11. \A f \in R : f \in GarbledIn(dir) <=> Garbled(dir[f])
  BY <1>3 DEF GarbledIn
<1>12. (\A g \in R : IF g = from THEN naming(g) = {} ELSE \E p \in places : naming(g) = {p})
         <=> /\ \A f \in R : \A i \in 1..Len(V[f]) : V[f][i] # from
             /\ \A g \in R : g # from => NamedOnce(V, R, g)
  BY <1>3, <1>10
<1>13. (\A f \in R : Range(V[f]) \cap {"deep", "outside"} = {})
         <=> \A f \in R : \A i \in 1..Len(V[f]) : V[f][i] \notin {"deep", "outside"}
  <2>1. ASSUME NEW f \in R
        PROVE  Range(V[f]) \cap {"deep", "outside"} = {}
                 <=> \A i \in 1..Len(V[f]) : V[f][i] \notin {"deep", "outside"}
    BY <1>6
  <2> QED
    BY <2>1
<1>14. Sound(V, GarbledIn(dir), from, MaxChain) <=>
         /\ \A f \in R : f \notin GarbledIn(dir) /\ \A i \in 1..Len(V[f]) : V[f][i] \notin {"deep", "outside", from}
         /\ \A g \in R : g # from => NamedOnce(V, R, g)
         /\ \A n \in DOMAIN hops : \A f \in hops[n] : V[f] # <<>> => n < MaxChain
  BY <1>4 DEF Sound, hops
<1>15. ChainSound(dir, from, section) <=> Sound(V, GarbledIn(dir), from, MaxChain)
  BY <1>1, <1>11, <1>12, <1>13, <1>14
<1> QED
  BY <1>15 DEF V

\* The calls a walk is in: the files, and what each has still to follow.
Calls(V) == [at : DOMAIN V, rest : Seq(Names)]

\* rest is what is left of a file's values v when n of them have been followed.
Left(v, n, rest) ==
  /\ rest \in Seq(Names) /\ n \in Nat /\ n + Len(rest) = Len(v)
  /\ \A i \in 1..Len(rest) : rest[i] = v[n + i]

\* What the walk knows of the files it has met: how far from the start each is, and
\* how many of its values were followed.
Met(V, G, from, max, vis, depth, done) ==
  /\ vis \subseteq DOMAIN V /\ from \in vis /\ from \in DOMAIN V
  /\ depth \in [vis -> Nat] /\ done \in [vis -> Nat] /\ depth[from] = 0
  /\ \A f \in vis : /\ f \notin G
                    /\ done[f] <= Len(V[f])
                    /\ depth[f] < Cardinality(vis)
                    /\ f \in Hops(V, from)[depth[f]]
                    /\ done[f] > 0 => depth[f] < max

\* A value followed stays in the tree, and leads to a file met one hop further.
Followed(V, from, vis, depth, done) ==
  \A f \in vis : \A i \in 1..done[f] :
    /\ V[f][i] \notin {"deep", "outside", from}
    /\ V[f][i] \in DOMAIN V => V[f][i] \in vis /\ depth[V[f][i]] = depth[f] + 1

\* One of the values followed names g.
MetOnce(V, vis, done, g) ==
  \E f \in vis : \E i \in 1..done[f] :
    /\ V[f][i] = g
    /\ \A h \in vis : \A j \in 1..done[h] : V[h][j] = g => h = f /\ j = i

\* The calls of the walk, and the files it has left behind.
InCalls(V, from, vis, depth, done, st) ==
  /\ \A k \in 1..Len(st) : /\ st[k].at \in vis /\ depth[st[k].at] = k - 1
                           /\ Left(V[st[k].at], done[st[k].at], st[k].rest)
  /\ \A f \in vis : done[f] = Len(V[f]) \/ \E k \in 1..Len(st) : st[k].at = f

Walk(V, G, from, max, vis, depth, done, st) ==
  /\ Met(V, G, from, max, vis, depth, done)
  /\ Followed(V, from, vis, depth, done)
  /\ \A g \in vis : g # from => MetOnce(V, vis, done, g)
  /\ InCalls(V, from, vis, depth, done, st)

\* The values left are the file's own, from the next on.
LEMMA LeftIs ==
  ASSUME NEW v \in Seq(Names), NEW n, NEW rest, Left(v, n, rest)
  PROVE  /\ rest = <<>> => n = Len(v)
         /\ rest # <<>> => /\ Head(rest) = v[n + 1] /\ n + 1 \in 1..Len(v)
                           /\ Left(v, n + 1, Tail(rest))
<1> DEFINE m == Len(rest)
<1>1. rest \in Seq(Names) /\ n \in Nat /\ n + m = Len(v) /\ m \in Nat /\ Len(v) \in Nat
  BY DEF Left
<1>2. rest = <<>> => n = Len(v)
  <2>1. rest = <<>> => m = 0
    OBVIOUS
  <2> HIDE DEF m
  <2> QED
    BY <1>1, <2>1
<1>3. ASSUME rest # <<>>
      PROVE  /\ Head(rest) = v[n + 1] /\ n + 1 \in 1..Len(v)
             /\ Left(v, n + 1, Tail(rest))
  <2>1. /\ m # 0 /\ Tail(rest) \in Seq(Names) /\ Len(Tail(rest)) = m - 1 /\ Head(rest) = rest[1]
        /\ \A i \in 1..(m - 1) : Tail(rest)[i] = rest[i + 1]
    BY <1>1, <1>3
  <2> DEFINE tl == Tail(rest)
  <2>2. \A i \in 1..m : rest[i] = v[n + i]
    BY DEF Left
  <2> HIDE DEF m, tl
  <2>3. 1 \in 1..m /\ n + 1 \in 1..Len(v) /\ n + 1 \in Nat /\ (n + 1) + (m - 1) = Len(v)
    BY <1>1, <2>1
  <2>4. Head(rest) = v[n + 1]
    BY <2>1, <2>2, <2>3
  <2>5. ASSUME NEW i \in 1..(m - 1) PROVE tl[i] = v[(n + 1) + i]
    <3>1. i + 1 \in 1..m /\ n + (i + 1) = (n + 1) + i
      BY <1>1
    <3>2. tl[i] = rest[i + 1]
      BY <2>1 DEF tl
    <3>3. rest[i + 1] = v[n + (i + 1)]
      BY <2>2, <3>1
    <3> QED
      BY <3>1, <3>2, <3>3
  <2>6. tl \in Seq(Names) /\ Len(tl) = m - 1
    BY <2>1 DEF tl
  <2>7. Left(v, n + 1, tl)
    BY <2>3, <2>5, <2>6 DEF Left
  <2> QED
    BY <2>3, <2>4, <2>7 DEF tl
<1> QED
  BY <1>2, <1>3

\* Before any is followed, all of a file's values are left.
LEMMA LeftWhole ==
  ASSUME NEW v \in Seq(Names)
  PROVE  Left(v, 0, v)
<1>1. Len(v) \in Nat
  OBVIOUS
<1>2. 0 + Len(v) = Len(v) /\ \A i \in 1..Len(v) : 0 + i = i
  BY <1>1
<1> QED
  BY <1>1, <1>2 DEF Left

\* A walk starts at a file that has been read, with all of its values to follow.
LEMMA WalkStarts ==
  ASSUME NEW V, Web(V), NEW G, NEW max, NEW from \in DOMAIN V, from \notin G, NEW st,
         Len(st) = 1, st[1].at = from, st[1].rest = V[from]
  PROVE  \E depth, done : Walk(V, G, from, max, {from}, depth, done, st)
<1> DEFINE z == [f \in {from} |-> 0]
           v == V[from]
<1>1. z \in [{from} -> Nat] /\ z[from] = 0
  OBVIOUS
<1>2. Cardinality({from}) = 1
  BY FS_Singleton
<1>3. from \in Hops(V, from)[0]
  BY HopsAre
<1>4. v \in Seq(Names) /\ Len(v) \in Nat
  BY DEF Web
<1> HIDE DEF z, v
<1>5. Met(V, G, from, max, {from}, z, z)
  BY <1>1, <1>2, <1>3, <1>4 DEF Met, v
<1>6. Followed(V, from, {from}, z, z)
  BY <1>1 DEF Followed
<1>7. Left(v, 0, v)
  BY <1>4, LeftWhole
<1>8. InCalls(V, from, {from}, z, z, st)
  <2>1. 1..Len(st) = {1} /\ 1 - 1 = 0
    OBVIOUS
  <2> QED
    BY <1>1, <1>7, <2>1 DEF InCalls, v
<1>9. \A g \in {from} : g # from => MetOnce(V, {from}, z, g)
  OBVIOUS
<1> QED
  BY <1>5, <1>6, <1>8, <1>9 DEF Walk

\* The calls of st, all but the last as they were, with the last one having n to follow.
Leaves(st, new, m, n) ==
  /\ \A k \in 1..(m - 1) : new[k] = st[k]
  /\ new[m].at = st[m].at /\ new[m].rest = n

\* A walk in m calls, the last of which has a value to follow.
Walks(V, G, from, max, vis, depth, done, st, m) ==
  /\ Web(V) /\ max \in Nat /\ m \in Nat \ {0} /\ Len(st) = m
  /\ Walk(V, G, from, max, vis, depth, done, st)
\* The last of them has a value to follow.
Turn(V, G, from, max, vis, depth, done, st, m) ==
  Walks(V, G, from, max, vis, depth, done, st, m) /\ st[m].rest # <<>>

\* What holds of the file a walk is at and the next value it follows.
AtValue(V, vis, depth, done, st, m) ==
  /\ st[m].at \in vis /\ st[m].at \in DOMAIN V /\ depth[st[m].at] = m - 1
  /\ V[st[m].at] \in Seq(Names)
  /\ done[st[m].at] \in Nat /\ done[st[m].at] + 1 \in 1..Len(V[st[m].at])
  /\ Head(st[m].rest) = V[st[m].at][done[st[m].at] + 1]
  /\ Left(V[st[m].at], done[st[m].at] + 1, Tail(st[m].rest))
  /\ \A k \in 1..(m - 1) : st[k].at # st[m].at
\* It is at such a file and value.
LEMMA NextValue ==
  ASSUME NEW V, NEW G, NEW from, NEW max, NEW vis, NEW depth, NEW done, NEW st, NEW m,
         Turn(V, G, from, max, vis, depth, done, st, m)
  PROVE  AtValue(V, vis, depth, done, st, m)
<1> DEFINE f == st[m].at
           v == V[f]
           rest == st[m].rest
           n == done[f]
<1>0. /\ Web(V) /\ m \in Nat \ {0} /\ Len(st) = m
      /\ Walk(V, G, from, max, vis, depth, done, st) /\ st[m].rest # <<>>
  BY DEF Turn, Walks
<1>1. m \in 1..m /\ \A k \in 1..(m - 1) : k \in 1..m /\ k - 1 # m - 1
  BY <1>0
<1>2. \A k \in 1..m : /\ st[k].at \in vis /\ depth[st[k].at] = k - 1
                      /\ Left(V[st[k].at], done[st[k].at], st[k].rest)
  BY <1>0 DEF Walk, InCalls
<1>3. f \in vis /\ depth[f] = m - 1 /\ Left(v, n, rest)
  BY <1>1, <1>2
<1>4. vis \subseteq DOMAIN V /\ done \in [vis -> Nat]
  BY <1>0 DEF Walk, Met
<1>5. v \in Seq(Names) /\ n \in Nat
  BY <1>0, <1>3, <1>4 DEF Web
<1>6. \A k \in 1..(m - 1) : st[k].at # f
  <2> SUFFICES ASSUME NEW k \in 1..(m - 1), st[k].at = f PROVE FALSE
    OBVIOUS
  <2>1. depth[st[k].at] = k - 1
    BY <1>1, <1>2
  <2> QED
    BY <1>1, <1>3, <2>1
<1> HIDE DEF f, v, rest, n
<1>7. rest # <<>>
  BY <1>0 DEF rest
<1>8. /\ Head(rest) = v[n + 1] /\ n + 1 \in 1..Len(v)
      /\ Left(v, n + 1, Tail(rest))
  BY <1>3, <1>5, <1>7, LeftIs
<1> QED
  BY <1>3, <1>4, <1>5, <1>6, <1>8 DEF AtValue, f, v, rest, n

\* A value that names no file leaves the walk where it was.
LEMMA WalkSkips ==
  ASSUME NEW V, NEW G, NEW from, NEW max, NEW vis, NEW depth, NEW done, NEW st, NEW m,
         Turn(V, G, from, max, vis, depth, done, st, m),
         Head(st[m].rest) \notin {"deep", "outside"}, m - 1 < max, Head(st[m].rest) \notin vis,
         Head(st[m].rest) \notin DOMAIN V,
         NEW new, Len(new) = m, Leaves(st, new, m, Tail(st[m].rest))
  PROVE  \E done2 : Walk(V, G, from, max, vis, depth, done2, new)
<1> DEFINE f == st[m].at
           v == Head(st[m].rest)
           i0 == done[f] + 1
           tl == Tail(st[m].rest)
<1>0. /\ st[m].at \in vis /\ st[m].at \in DOMAIN V /\ depth[st[m].at] = m - 1
      /\ V[st[m].at] \in Seq(Names)
      /\ done[st[m].at] \in Nat /\ done[st[m].at] + 1 \in 1..Len(V[st[m].at])
      /\ Head(st[m].rest) = V[st[m].at][done[st[m].at] + 1]
      /\ Left(V[st[m].at], done[st[m].at] + 1, Tail(st[m].rest))
      /\ \A k \in 1..(m - 1) : st[k].at # st[m].at
  <2> HIDE DEF f, v, i0, tl
  <2>1. AtValue(V, vis, depth, done, st, m)
    BY NextValue
  <2> QED
    BY <2>1 DEF AtValue
<1>0a. /\ Web(V) /\ m \in Nat \ {0} /\ max \in Nat /\ Len(st) = m
      /\ Walk(V, G, from, max, vis, depth, done, st)
  BY DEF Turn, Walks
<1>1. /\ f \in vis /\ f \in DOMAIN V /\ depth[f] = m - 1 /\ V[f] \in Seq(Names)
      /\ done[f] \in Nat /\ i0 \in 1..Len(V[f]) /\ v = V[f][i0]
      /\ Left(V[f], i0, tl)
      /\ \A k \in 1..(m - 1) : st[k].at # f
  BY <1>0
<1> DEFINE d2 == [g \in vis |-> IF g = f THEN i0 ELSE done[g]]
<1> HIDE DEF d2
<1>2. /\ Met(V, G, from, max, vis, depth, done)
      /\ Followed(V, from, vis, depth, done)
      /\ \A g \in vis : g # from => MetOnce(V, vis, done, g)
      /\ InCalls(V, from, vis, depth, done, st)
  BY <1>0a DEF Walk
<1>3. /\ vis \subseteq DOMAIN V /\ from \in vis /\ from \in DOMAIN V
      /\ depth \in [vis -> Nat] /\ done \in [vis -> Nat] /\ depth[from] = 0
      /\ \A g \in vis : /\ g \notin G
                        /\ done[g] <= Len(V[g])
                        /\ depth[g] < Cardinality(vis)
                        /\ g \in Hops(V, from)[depth[g]]
                        /\ done[g] > 0 => depth[g] < max
  BY <1>2 DEF Met
<1>4. v # from /\ v \notin {"deep", "outside"} /\ v \notin DOMAIN V /\ v \notin vis
  BY <1>3
<1>5. f = st[m].at /\ new[m].at = f /\ new[m].rest = tl /\ \A k \in 1..(m - 1) : new[k] = st[k]
  BY DEF Leaves
<1> HIDE DEF f, v, i0, tl
<1>6. i0 \in Nat /\ done[f] < i0 /\ i0 <= Len(V[f]) /\ \A i \in 1..i0 : i \in 1..done[f] \/ i = i0
  BY <1>1 DEF i0
<1>7. d2 \in [vis -> Nat] /\ d2[f] = i0 /\ \A g \in vis : g # f => d2[g] = done[g]
  BY <1>1, <1>3, <1>6 DEF d2
\* The values followed are those followed before, and this one.
<1>8. \A g \in vis : \A i \in 1..d2[g] : i \in 1..done[g] \/ (g = f /\ i = i0)
  BY <1>6, <1>7
<1>9. \A g \in vis : \A i \in 1..done[g] : i \in 1..d2[g]
  <2> TAKE g \in vis
  <2>1. CASE g = f
    BY <1>1, <1>6, <1>7, <2>1
  <2>2. CASE g # f
    BY <1>7, <2>2
  <2> QED
    BY <2>1, <2>2
<1>10. Met(V, G, from, max, vis, depth, d2)
  <2>1. ASSUME NEW g \in vis PROVE d2[g] <= Len(V[g]) /\ (d2[g] > 0 => depth[g] < max)
    <3>1. CASE g = f
      BY <1>1, <1>6, <1>7, <3>1
    <3>2. CASE g # f
      BY <1>3, <1>7, <3>2
    <3> QED
      BY <3>1, <3>2
  <2> QED
    BY <1>3, <1>7, <2>1 DEF Met
<1>11. Followed(V, from, vis, depth, d2)
  <2> SUFFICES ASSUME NEW g \in vis, NEW i \in 1..d2[g]
               PROVE  /\ V[g][i] \notin {"deep", "outside", from}
                      /\ V[g][i] \in DOMAIN V => V[g][i] \in vis /\ depth[V[g][i]] = depth[g] + 1
    BY DEF Followed
  <2>1. CASE i \in 1..done[g]
    BY <1>2, <2>1 DEF Followed
  <2>2. CASE g = f /\ i = i0
    BY <1>1, <1>4, <2>2
  <2> QED
    BY <1>8, <2>1, <2>2
<1>12. ASSUME NEW g \in vis, g # from PROVE MetOnce(V, vis, d2, g)
  <2>1. PICK h \in vis : \E i \in 1..done[h] :
          /\ V[h][i] = g
          /\ \A h2 \in vis : \A j \in 1..done[h2] : V[h2][j] = g => h2 = h /\ j = i
    BY <1>2, <1>12 DEF MetOnce
  <2>2. PICK i \in 1..done[h] :
          /\ V[h][i] = g
          /\ \A h2 \in vis : \A j \in 1..done[h2] : V[h2][j] = g => h2 = h /\ j = i
    BY <2>1
  <2>3. i \in 1..d2[h]
    BY <1>9
  <2>4. ASSUME NEW h2 \in vis, NEW j \in 1..d2[h2], V[h2][j] = g PROVE h2 = h /\ j = i
    <3>1. ~(h2 = f /\ j = i0)
      BY <1>1, <1>4, <2>4
    <3>2. j \in 1..done[h2]
      BY <1>8, <3>1
    <3> QED
      BY <2>2, <2>4, <3>2
  <2> QED
    BY <2>2, <2>3, <2>4 DEF MetOnce
<1>13. InCalls(V, from, vis, depth, d2, new)
  <2>0. Len(st) = m /\ m \in 1..m /\ \A k \in 1..m : k \in 1..(m - 1) \/ k = m
    BY <1>0a
  <2>1. ASSUME NEW k \in 1..Len(new)
        PROVE  /\ new[k].at \in vis /\ depth[new[k].at] = k - 1
               /\ Left(V[new[k].at], d2[new[k].at], new[k].rest)
    <3>1. CASE k = m
      BY <1>1, <1>5, <1>7, <3>1
    <3>2. CASE k \in 1..(m - 1)
      <4>1. new[k] = st[k] /\ st[k].at # f /\ k \in 1..Len(st)
        BY <1>0a, <1>1, <1>5, <3>2
      <4>2. /\ st[k].at \in vis /\ depth[st[k].at] = k - 1
            /\ Left(V[st[k].at], done[st[k].at], st[k].rest)
        BY <1>2, <4>1 DEF InCalls
      <4> QED
        BY <1>7, <4>1, <4>2
    <3> QED
      BY <2>0, <3>1, <3>2
  <2>2. ASSUME NEW g \in vis
        PROVE  d2[g] = Len(V[g]) \/ \E k \in 1..Len(new) : new[k].at = g
    <3>1. CASE g = f
      BY <1>5, <2>0, <3>1
    <3>2. CASE g # f
      <4>1. done[g] = Len(V[g]) \/ \E k \in 1..Len(st) : st[k].at = g
        BY <1>2 DEF InCalls
      <4>2. ASSUME NEW k \in 1..Len(st), st[k].at = g PROVE new[k].at = g /\ k \in 1..Len(new)
        <5>1. k # m
          BY <1>5, <3>2, <4>2
        <5>2. k \in 1..(m - 1)
          BY <2>0, <5>1
        <5> QED
          BY <1>5, <4>2, <5>2
      <4> QED
        BY <1>7, <3>2, <4>1, <4>2
    <3> QED
      BY <3>1, <3>2
  <2> QED
    BY <2>1, <2>2 DEF InCalls
<1> QED
  BY <1>10, <1>11, <1>12, <1>13 DEF Walk

\* A value that names a file not met before is followed: that file's values are
\* all left, and it is one hop further.
LEMMA WalkFollows ==
  ASSUME NEW V, NEW G, NEW from, NEW max, NEW vis, NEW depth, NEW done, NEW st, NEW m,
         Turn(V, G, from, max, vis, depth, done, st, m), m - 1 < max,
         NEW v, v = Head(st[m].rest), v \notin {"deep", "outside"}, v \notin vis,
         v \in DOMAIN V, v \notin G,
         NEW new, Len(new) = m + 1, Leaves(st, new, m, Tail(st[m].rest)),
         new[m + 1].at = v, new[m + 1].rest = V[v]
  PROVE  \E depth2, done2 : Walk(V, G, from, max, vis \cup {v}, depth2, done2, new)
<1> DEFINE f == st[m].at
           i0 == done[f] + 1
           tl == Tail(st[m].rest)
<1>0. /\ st[m].at \in vis /\ st[m].at \in DOMAIN V /\ depth[st[m].at] = m - 1
      /\ V[st[m].at] \in Seq(Names)
      /\ done[st[m].at] \in Nat /\ done[st[m].at] + 1 \in 1..Len(V[st[m].at])
      /\ Head(st[m].rest) = V[st[m].at][done[st[m].at] + 1]
      /\ Left(V[st[m].at], done[st[m].at] + 1, Tail(st[m].rest))
      /\ \A k \in 1..(m - 1) : st[k].at # st[m].at
  <2> HIDE DEF f, i0, tl
  <2>1. AtValue(V, vis, depth, done, st, m)
    BY NextValue
  <2> QED
    BY <2>1 DEF AtValue
<1>0a. /\ Web(V) /\ m \in Nat \ {0} /\ max \in Nat /\ Len(st) = m
       /\ Walk(V, G, from, max, vis, depth, done, st)
  BY DEF Turn, Walks
<1>1. /\ f \in vis /\ f \in DOMAIN V /\ depth[f] = m - 1 /\ V[f] \in Seq(Names)
      /\ done[f] \in Nat /\ i0 \in 1..Len(V[f]) /\ v = V[f][i0]
      /\ Left(V[f], i0, tl)
      /\ \A k \in 1..(m - 1) : st[k].at # f
  BY <1>0
<1> DEFINE vis2 == vis \cup {v}
           depth2 == [g \in vis2 |-> IF g = v THEN m ELSE depth[g]]
           done2 == [g \in vis2 |-> IF g = v THEN 0 ELSE IF g = f THEN i0 ELSE done[g]]
<1> HIDE DEF depth2, done2
<1>2. /\ Met(V, G, from, max, vis, depth, done)
      /\ Followed(V, from, vis, depth, done)
      /\ \A g \in vis : g # from => MetOnce(V, vis, done, g)
      /\ InCalls(V, from, vis, depth, done, st)
  BY <1>0a DEF Walk
<1>3. /\ vis \subseteq DOMAIN V /\ from \in vis /\ from \in DOMAIN V
      /\ depth \in [vis -> Nat] /\ done \in [vis -> Nat] /\ depth[from] = 0
      /\ \A g \in vis : /\ g \notin G
                        /\ done[g] <= Len(V[g])
                        /\ depth[g] < Cardinality(vis)
                        /\ g \in Hops(V, from)[depth[g]]
                        /\ done[g] > 0 => depth[g] < max
  BY <1>2 DEF Met
<1>4. v # from /\ v # f /\ V[v] \in Seq(Names) /\ Len(V[v]) \in Nat
  BY <1>0a, <1>1, <1>3 DEF Web
<1>5. f = st[m].at /\ new[m].at = f /\ new[m].rest = tl /\ \A k \in 1..(m - 1) : new[k] = st[k]
  BY DEF Leaves
<1> HIDE DEF f, i0, tl
<1>6. i0 \in Nat /\ done[f] < i0 /\ i0 <= Len(V[f]) /\ \A i \in 1..i0 : i \in 1..done[f] \/ i = i0
  BY <1>1 DEF i0
<1>7. /\ done2 \in [vis2 -> Nat] /\ done2[f] = i0 /\ done2[v] = 0
      /\ \A g \in vis : g # f => done2[g] = done[g]
  BY <1>1, <1>3, <1>4, <1>6 DEF done2
<1>7a. /\ depth2 \in [vis2 -> Nat] /\ depth2[v] = m
       /\ \A g \in vis : depth2[g] = depth[g]
  BY <1>0a, <1>3 DEF depth2
\* The values followed are those followed before, and this one.
<1>8. \A g \in vis : \A i \in 1..done2[g] : i \in 1..done[g] \/ (g = f /\ i = i0)
  BY <1>6, <1>7
<1>9. \A g \in vis : \A i \in 1..done[g] : i \in 1..done2[g]
  <2> TAKE g \in vis
  <2>1. CASE g = f
    BY <1>1, <1>6, <1>7, <2>1
  <2>2. CASE g # f
    BY <1>7, <2>2
  <2> QED
    BY <2>1, <2>2
<1>9a. i0 \in 1..done2[f] /\ 1..done2[v] = {}
  BY <1>1, <1>6, <1>7
\* One more file is met, and its distance is less than the number of those.
<1>9b. /\ Cardinality(vis) \in Nat /\ Cardinality(vis2) = Cardinality(vis) + 1
       /\ m \in 1..Cardinality(DOMAIN V)
  <2>1. IsFiniteSet(DOMAIN V)
    BY <1>0a DEF Web
  <2>2. IsFiniteSet(vis) /\ Cardinality(vis) <= Cardinality(DOMAIN V)
    BY <1>3, <2>1, FS_Subset
  <2>3. Cardinality(vis) \in Nat /\ Cardinality(DOMAIN V) \in Nat
    BY <2>1, <2>2, FS_CardinalityType
  <2>4. Cardinality(vis2) = Cardinality(vis) + 1
    BY <2>2, FS_AddElement
  <2>5. m - 1 < Cardinality(vis)
    BY <1>1, <1>3
  <2> QED
    BY <1>0a, <2>2, <2>3, <2>4, <2>5
<1>9c. v \in Hops(V, from)[m]
  <2>1. f \in Hops(V, from)[m - 1]
    BY <1>1, <1>3
  <2>2. Hops(V, from)[m] = UNION {DOMAIN V \cap Range(V[g]) : g \in Hops(V, from)[m - 1]}
    BY <1>0a, <1>3, <1>9b, HopsAre
  <2>3. v \in Range(V[f])
    BY <1>1, RangeIs
  <2> QED
    BY <2>1, <2>2, <2>3
<1>10. Met(V, G, from, max, vis2, depth2, done2)
  <2>1. ASSUME NEW g \in vis PROVE done2[g] <= Len(V[g]) /\ (done2[g] > 0 => depth[g] < max)
    <3>1. CASE g = f
      BY <1>1, <1>6, <1>7, <3>1
    <3>2. CASE g # f
      BY <1>3, <1>7, <3>2
    <3> QED
      BY <3>1, <3>2
  <2>2. ASSUME NEW g \in vis2
        PROVE  /\ g \notin G
               /\ done2[g] <= Len(V[g])
               /\ depth2[g] < Cardinality(vis2)
               /\ g \in Hops(V, from)[depth2[g]]
               /\ done2[g] > 0 => depth2[g] < max
    <3>1. CASE g = v
      <4>1. depth2[g] = m /\ m < Cardinality(vis) + 1
        BY <1>0a, <1>1, <1>3, <1>7a, <1>9b, <3>1
      <4> QED
        BY <1>4, <1>7, <1>9b, <1>9c, <3>1, <4>1
    <3>2. CASE g \in vis
      <4>1. depth[g] \in Nat /\ depth[g] < Cardinality(vis)
        BY <1>3, <3>2
      <4>2. depth[g] < Cardinality(vis) + 1
        BY <1>9b, <4>1
      <4> QED
        BY <1>3, <1>7a, <1>9b, <2>1, <3>2, <4>2
    <3> QED
      BY <3>1, <3>2
  <2>3. vis2 \subseteq DOMAIN V /\ from \in vis2 /\ depth2[from] = 0
    BY <1>3, <1>7a
  <2> HIDE DEF vis2
  <2> QED
    BY <1>3, <1>7, <1>7a, <2>2, <2>3 DEF Met
<1>11. Followed(V, from, vis2, depth2, done2)
  <2> SUFFICES ASSUME NEW g \in vis2, NEW i \in 1..done2[g]
               PROVE  /\ V[g][i] \notin {"deep", "outside", from}
                      /\ V[g][i] \in DOMAIN V => V[g][i] \in vis2 /\ depth2[V[g][i]] = depth2[g] + 1
    BY DEF Followed
  <2>1. CASE g \in vis /\ i \in 1..done[g]
    <3>1. /\ V[g][i] \notin {"deep", "outside", from}
          /\ V[g][i] \in DOMAIN V => V[g][i] \in vis /\ depth[V[g][i]] = depth[g] + 1
      BY <1>2, <2>1 DEF Followed
    <3> QED
      BY <1>7a, <2>1, <3>1
  <2>2. CASE g = f /\ i = i0
    <3>1. depth2[f] = m - 1 /\ depth2[v] = m /\ m = (m - 1) + 1
      BY <1>0a, <1>1, <1>7a
    <3> QED
      BY <1>1, <1>4, <2>2, <3>1
  <2> QED
    BY <1>8, <1>9a, <2>1, <2>2
<1>12. ASSUME NEW g \in vis2, g # from PROVE MetOnce(V, vis2, done2, g)
  <2>1. CASE g = v
    <3>1. ASSUME NEW h \in vis2, NEW j \in 1..done2[h], V[h][j] = v PROVE h = f /\ j = i0
      <4>1. h \in vis
        BY <1>9a, <3>1
      <4>2. ~(j \in 1..done[h])
        BY <1>2, <3>1, <4>1 DEF Followed
      <4> QED
        BY <1>8, <3>1, <4>1, <4>2
    <3> QED
      BY <1>1, <1>9a, <2>1, <3>1 DEF MetOnce
  <2>2. CASE g \in vis
    <3>1. PICK h \in vis : \E i \in 1..done[h] :
            /\ V[h][i] = g
            /\ \A h2 \in vis : \A j \in 1..done[h2] : V[h2][j] = g => h2 = h /\ j = i
      BY <1>2, <1>12, <2>2 DEF MetOnce
    <3>2. PICK i \in 1..done[h] :
            /\ V[h][i] = g
            /\ \A h2 \in vis : \A j \in 1..done[h2] : V[h2][j] = g => h2 = h /\ j = i
      BY <3>1
    <3>3. i \in 1..done2[h]
      BY <1>9
    <3>4. ASSUME NEW h2 \in vis2, NEW j \in 1..done2[h2], V[h2][j] = g PROVE h2 = h /\ j = i
      <4>1. ~(h2 = f /\ j = i0)
        BY <1>1, <2>2, <3>4
      <4>2. h2 \in vis
        BY <1>9a, <3>4
      <4>3. j \in 1..done[h2]
        BY <1>8, <3>4, <4>1, <4>2
      <4> QED
        BY <3>2, <3>4, <4>2, <4>3
    <3> QED
      BY <3>2, <3>3, <3>4 DEF MetOnce
  <2> QED
    BY <2>1, <2>2
<1>13. InCalls(V, from, vis2, depth2, done2, new)
  <2>0. /\ Len(st) = m /\ m \in 1..m /\ m \in 1..(m + 1) /\ (m + 1) \in 1..(m + 1) /\ (m + 1) - 1 = m
        /\ \A k \in 1..m : k \in 1..(m - 1) \/ k = m
        /\ \A k \in 1..(m + 1) : k \in 1..(m - 1) \/ k = m \/ k = m + 1
        /\ \A k \in 1..(m - 1) : k \in 1..m /\ k \in 1..(m + 1)
    BY <1>0a
  <2>1. ASSUME NEW k \in 1..Len(new)
        PROVE  /\ new[k].at \in vis2 /\ depth2[new[k].at] = k - 1
               /\ Left(V[new[k].at], done2[new[k].at], new[k].rest)
    <3>1. CASE k = m
      BY <1>1, <1>5, <1>7, <1>7a, <3>1
    <3>2. CASE k \in 1..(m - 1)
      <4>1. new[k] = st[k] /\ st[k].at # f /\ k \in 1..Len(st)
        BY <1>1, <1>5, <2>0, <3>2
      <4>2. /\ st[k].at \in vis /\ depth[st[k].at] = k - 1
            /\ Left(V[st[k].at], done[st[k].at], st[k].rest)
        BY <1>2, <4>1 DEF InCalls
      <4> QED
        BY <1>7, <1>7a, <4>1, <4>2
    <3>3. CASE k = m + 1
      <4>1. Left(V[v], 0, V[v])
        BY <1>4, LeftWhole
      <4> QED
        BY <1>7, <1>7a, <2>0, <3>3, <4>1
    <3> QED
      BY <2>0, <3>1, <3>2, <3>3
  <2>2. ASSUME NEW g \in vis2
        PROVE  done2[g] = Len(V[g]) \/ \E k \in 1..Len(new) : new[k].at = g
    <3>1. CASE g = f
      BY <1>5, <2>0, <3>1
    <3>2. CASE g \in vis /\ g # f
      <4>1. done[g] = Len(V[g]) \/ \E k \in 1..Len(st) : st[k].at = g
        BY <1>2, <3>2 DEF InCalls
      <4>2. ASSUME NEW k \in 1..Len(st), st[k].at = g PROVE new[k].at = g /\ k \in 1..Len(new)
        <5>1. k # m
          BY <1>5, <3>2, <4>2
        <5>2. k \in 1..(m - 1)
          BY <2>0, <5>1
        <5> QED
          BY <1>5, <2>0, <4>2, <5>2
      <4> QED
        BY <1>7, <3>2, <4>1, <4>2
    <3>3. CASE g = v
      BY <2>0, <3>3
    <3> QED
      BY <3>1, <3>2, <3>3
  <2> QED
    BY <2>1, <2>2 DEF InCalls
<1> QED
  BY <1>10, <1>11, <1>12, <1>13 DEF Walk

\* Every file met is one the chain reaches.
LEMMA MetReached ==
  ASSUME NEW V, NEW G, NEW from, NEW max, NEW vis, NEW depth, NEW done,
         Web(V), Met(V, G, from, max, vis, depth, done)
  PROVE  /\ vis \subseteq Reach(V, from)
         /\ Cardinality(vis) \in Nat /\ Cardinality(DOMAIN V) \in Nat
         /\ Cardinality(vis) <= Cardinality(DOMAIN V)
<1>1. /\ vis \subseteq DOMAIN V /\ from \in DOMAIN V /\ depth \in [vis -> Nat]
      /\ \A f \in vis : depth[f] < Cardinality(vis) /\ f \in Hops(V, from)[depth[f]]
  BY DEF Met
<1>2. IsFiniteSet(DOMAIN V)
  BY DEF Web
<1>3. IsFiniteSet(vis) /\ Cardinality(vis) <= Cardinality(DOMAIN V)
  BY <1>1, <1>2, FS_Subset
<1>4. Cardinality(vis) \in Nat /\ Cardinality(DOMAIN V) \in Nat
  BY <1>2, <1>3, FS_CardinalityType
<1>5. DOMAIN Hops(V, from) = 0..Cardinality(DOMAIN V)
  BY <1>1, HopsAre
<1>6. \A f \in vis : depth[f] \in DOMAIN Hops(V, from)
  BY <1>1, <1>3, <1>4, <1>5
<1>7. vis \subseteq Reach(V, from)
  BY <1>1, <1>6 DEF Reach
<1> QED
  BY <1>3, <1>4, <1>7

\* A file with nothing left to follow is left behind.
LEMMA WalkReturns ==
  ASSUME NEW V, NEW G, NEW from, NEW max, NEW vis, NEW depth, NEW done, NEW st, NEW m,
         Walks(V, G, from, max, vis, depth, done, st, m), st[m].rest = <<>>,
         NEW new, Len(new) = m - 1, \A k \in 1..(m - 1) : new[k] = st[k]
  PROVE  Walk(V, G, from, max, vis, depth, done, new)
<1>1. /\ Web(V) /\ m \in Nat \ {0} /\ Len(st) = m
      /\ Walk(V, G, from, max, vis, depth, done, st)
  BY DEF Walks
<1>2. m \in 1..m /\ \A k \in 1..m : k \in 1..(m - 1) \/ k = m
  BY <1>1
<1>3. /\ \A k \in 1..m : /\ st[k].at \in vis /\ depth[st[k].at] = k - 1
                         /\ Left(V[st[k].at], done[st[k].at], st[k].rest)
      /\ \A f \in vis : done[f] = Len(V[f]) \/ \E k \in 1..m : st[k].at = f
  BY <1>1 DEF Walk, InCalls
<1>4. done[st[m].at] = Len(V[st[m].at])
  <2> DEFINE f == st[m].at  rest == st[m].rest
  <2>1. f \in vis /\ Left(V[f], done[f], rest) /\ rest = <<>>
    BY <1>2, <1>3
  <2>2. V[f] \in Seq(Names)
    BY <1>1, <2>1 DEF Walk, Met, Web
  <2> HIDE DEF f, rest
  <2>3. done[f] = Len(V[f])
    BY <2>1, <2>2, LeftIs
  <2> QED
    BY <2>3 DEF f
<1>5. \A k \in 1..(m - 1) : k \in 1..m
  BY <1>1
<1>6. InCalls(V, from, vis, depth, done, new)
  <2>1. \A k \in 1..Len(new) : /\ new[k].at \in vis /\ depth[new[k].at] = k - 1
                               /\ Left(V[new[k].at], done[new[k].at], new[k].rest)
    BY <1>3, <1>5
  <2>2. ASSUME NEW f \in vis, done[f] # Len(V[f]) PROVE \E k \in 1..Len(new) : new[k].at = f
    <3>1. PICK k \in 1..m : st[k].at = f
      BY <1>3, <2>2
    <3>2. k # m
      BY <1>4, <2>2, <3>1
    <3> QED
      BY <1>2, <3>1, <3>2
  <2> QED
    BY <2>1, <2>2 DEF InCalls
<1> QED
  BY <1>1, <1>6 DEF Walk

\* A walk that has left all its files behind has met those the chain reaches, and
\* found nothing wrong with them.
LEMMA WalkEnds ==
  ASSUME NEW V, NEW G, NEW from, NEW max, NEW vis, NEW depth, NEW done, NEW st,
         Web(V), max \in Nat, Walk(V, G, from, max, vis, depth, done, st), Len(st) = 0
  PROVE  Sound(V, G, from, max)
<1> DEFINE hops == Hops(V, from)
           c == Cardinality(DOMAIN V)
           T == {n \in 0..c : \A f \in hops[n] : f \in vis /\ depth[f] = n}
<1>1. /\ vis \subseteq DOMAIN V /\ from \in vis /\ from \in DOMAIN V
      /\ depth \in [vis -> Nat] /\ done \in [vis -> Nat] /\ depth[from] = 0
      /\ \A f \in vis : f \notin G /\ (done[f] > 0 => depth[f] < max)
  BY DEF Walk, Met
<1>2. \A f \in vis : done[f] = Len(V[f])
  <2>1. 1..Len(st) = {}
    OBVIOUS
  <2> QED
    BY <2>1 DEF Walk, InCalls
<1>3. \A f \in vis : \A i \in 1..Len(V[f]) :
        /\ V[f][i] \notin {"deep", "outside", from}
        /\ V[f][i] \in DOMAIN V => V[f][i] \in vis /\ depth[V[f][i]] = depth[f] + 1
  BY <1>2 DEF Walk, Followed
<1>4. \A f \in vis : V[f] \in Seq(Names) /\ Len(V[f]) \in Nat
  BY <1>1 DEF Web
<1>5. /\ c \in Nat /\ DOMAIN hops = 0..c /\ hops[0] = {from}
      /\ \A n \in 1..c : hops[n] = UNION {DOMAIN V \cap Range(V[f]) : f \in hops[n - 1]}
  BY <1>1, HopsAre
<1> HIDE DEF hops, c
<1>6. 0 \in T
  BY <1>1, <1>5
<1>7. ASSUME NEW n \in 1..c, n - 1 \in T PROVE n \in T
  <2> SUFFICES ASSUME NEW g \in hops[n] PROVE g \in vis /\ depth[g] = n
    OBVIOUS
  <2>1. PICK f \in hops[n - 1] : g \in DOMAIN V /\ g \in Range(V[f])
    BY <1>5
  <2>2. f \in vis /\ depth[f] = n - 1
    BY <1>7, <2>1
  <2>3. PICK i \in 1..Len(V[f]) : g = V[f][i]
    BY <1>4, <2>1, <2>2, RangeIs
  <2>4. (n - 1) + 1 = n
    BY <1>5
  <2> QED
    BY <1>3, <2>1, <2>2, <2>3, <2>4
<1>8. \A n \in 0..c : \A f \in hops[n] : f \in vis /\ depth[f] = n
  <2>1. \A n \in 0..c : n \in T
    <3> HIDE DEF T
    <3> QED
      BY <1>5, <1>6, <1>7, Induction
  <2> QED
    BY <2>1
<1>9. Reach(V, from) = vis
  <2>1. Reach(V, from) \subseteq vis
    BY <1>5, <1>8 DEF Reach, hops
  <2>2. vis \subseteq Reach(V, from)
    BY MetReached DEF Walk
  <2> QED
    BY <2>1, <2>2
<1>10. ASSUME NEW g \in vis, g # from PROVE NamedOnce(V, vis, g)
  <2>1. MetOnce(V, vis, done, g)
    BY <1>10 DEF Walk
  <2> QED
    BY <1>2, <2>1 DEF MetOnce, NamedOnce
<1>11. ASSUME NEW n \in 0..c, NEW f \in hops[n], V[f] # <<>> PROVE n < max
  <2>1. f \in vis /\ depth[f] = n
    BY <1>5, <1>8
  <2>2. Len(V[f]) > 0
    BY <1>4, <1>11, <2>1
  <2> QED
    BY <1>1, <1>2, <2>1, <2>2
<1> QED
  BY <1>1, <1>3, <1>5, <1>9, <1>10, <1>11 DEF Sound, hops

\* A walk of a sound chain finds no reason to refuse the next value.
LEMMA WalkRefuses ==
  ASSUME NEW V, NEW G, NEW from, NEW max, NEW vis, NEW depth, NEW done, NEW st, NEW m,
         Turn(V, G, from, max, vis, depth, done, st, m), Sound(V, G, from, max),
         NEW v, v = Head(st[m].rest)
  PROVE  /\ v \notin {"deep", "outside"} /\ m - 1 < max /\ v \notin vis
         /\ v \in DOMAIN V => v \notin G
<1> DEFINE f == st[m].at
           i0 == done[f] + 1
           R == Reach(V, from)
<1>0. AtValue(V, vis, depth, done, st, m)
  <2> HIDE DEF f, i0, R
  <2> QED
    BY NextValue
<1>1. /\ f \in vis /\ f \in DOMAIN V /\ depth[f] = m - 1 /\ V[f] \in Seq(Names)
      /\ done[f] \in Nat /\ i0 \in 1..Len(V[f]) /\ v = V[f][i0]
  BY <1>0 DEF AtValue
<1>2. /\ Web(V) /\ m \in Nat \ {0} /\ max \in Nat /\ Len(st) = m
      /\ Walk(V, G, from, max, vis, depth, done, st)
  BY DEF Turn, Walks
<1>3. /\ Met(V, G, from, max, vis, depth, done)
      /\ \A g \in vis : g # from => MetOnce(V, vis, done, g)
  BY <1>2 DEF Walk
<1>4. /\ from \in DOMAIN V /\ f \in Hops(V, from)[m - 1] /\ m - 1 < Cardinality(vis)
  BY <1>1, <1>3 DEF Met
<1>5. /\ vis \subseteq R
      /\ Cardinality(vis) \in Nat /\ Cardinality(DOMAIN V) \in Nat
      /\ Cardinality(vis) <= Cardinality(DOMAIN V)
  BY <1>2, <1>3, MetReached
<1>6. /\ \A g \in R : g \notin G /\ \A i \in 1..Len(V[g]) : V[g][i] \notin {"deep", "outside", from}
      /\ \A g \in R : g # from => NamedOnce(V, R, g)
      /\ \A n \in DOMAIN Hops(V, from) : \A g \in Hops(V, from)[n] : V[g] # <<>> => n < max
  BY DEF Sound
<1>7. v \notin {"deep", "outside", from}
  BY <1>1, <1>5, <1>6
<1>8. m \in 1..Cardinality(DOMAIN V) /\ m \in 0..Cardinality(DOMAIN V) /\ m - 1 \in 0..Cardinality(DOMAIN V)
  BY <1>2, <1>4, <1>5
<1>9. DOMAIN Hops(V, from) = 0..Cardinality(DOMAIN V)
  BY <1>2, <1>4, HopsAre
<1>10. m - 1 < max
  <2>1. V[f] # <<>>
    BY <1>1
  <2> QED
    BY <1>4, <1>6, <1>8, <1>9, <2>1
<1>11. v \notin vis
  <2> SUFFICES ASSUME v \in vis PROVE FALSE
    OBVIOUS
  <2>1. MetOnce(V, vis, done, v) /\ NamedOnce(V, R, v)
    BY <1>3, <1>5, <1>6, <1>7
  <2>2. PICK h \in vis : \E i \in 1..done[h] : V[h][i] = v
    BY <2>1 DEF MetOnce
  <2>3. PICK i \in 1..done[h] : V[h][i] = v
    BY <2>2
  <2>4. i \in 1..Len(V[h])
    <3>1. done[h] \in Nat /\ done[h] <= Len(V[h]) /\ V[h] \in Seq(Names)
      BY <1>2, <1>3 DEF Met, Web
    <3>2. Len(V[h]) \in Nat
      BY <3>1
    <3> QED
      BY <3>1, <3>2
  <2>5. h = f /\ i = i0
    BY <1>1, <1>5, <2>1, <2>3, <2>4 DEF NamedOnce
  <2> QED
    BY <1>1, <2>3, <2>5
<1>12. v \in DOMAIN V => v \notin G
  <2>1. Hops(V, from)[m] = UNION {DOMAIN V \cap Range(V[g]) : g \in Hops(V, from)[m - 1]}
    BY <1>2, <1>4, <1>8, HopsAre
  <2>2. v \in Range(V[f])
    BY <1>1, RangeIs
  <2>3. v \in DOMAIN V => v \in R
    BY <1>4, <1>8, <1>9, <2>1, <2>2 DEF Reach
  <2> QED
    BY <1>6, <2>3
<1> QED
  BY <1>7, <1>10, <1>11, <1>12

-------------------------------------------------------------------------------
(* A chain of a tree                                                           *)

\* A tree as a search of its guard finds it.
Fits(dir, s) ==
  /\ IsFiniteSet(DOMAIN dir)
  /\ s.section \in BOOLEAN /\ s.how \in {"keys", "blocks", "directives", "rules", "chain"}
  /\ \A f \in DOMAIN dir : f \in Range(s.names) \/ s.how = "chain" => dir[f] \in Contents[s.how]

\* What _load_text and the parser make of a chain's file is what it holds.
LEMMA ReadIs ==
  ASSUME NEW text \in Contents["chain"]
  PROVE  /\ Unparseable(text) <=> Garbled(text)
         /\ Unreadable(text) => Garbled(text)
         /\ \A section \in BOOLEAN : /\ Named(text, section) \in Seq(Names)
                                     /\ ~Garbled(text) => Values(text, section) = Named(text, section)
<1> DEFINE T == Entries \cup Deeps \cup Marks
<1>1. text \in Seq(T) \/ text \in Broken
  BY DEF Contents
<1>2. CASE text \in Broken
  <2>1. Unreadable(text) /\ Unparseable(text) /\ Garbled(text)
    BY <1>2, BrokenIs
  <2>2. text \in Seq(Tokens)
    <3> DEFINE x == [t |-> "broken"]
    <3>1. x \in Tokens /\ text = <<x>>
      BY <1>2 DEF Broken, Tokens
    <3> HIDE DEF x
    <3> QED
      BY <3>1
  <2> QED
    BY <2>1, <2>2, NamedIs
<1>3. CASE text \in Seq(T)
  <2>1. Unbroken(T)
    BY TokensAre DEF Unbroken
  <2>2. Unparseable(text) <=> Garbled(text)
    <3> HIDE DEF T
    <3> QED
      BY <1>3, <2>1, UnparseableIs
  <2>3. text \in Seq(Tokens)
    <3>1. T \subseteq Tokens
      BY TokensAre
    <3> HIDE DEF T
    <3> QED
      BY <1>3, <3>1
  <2>4. Unreadable(text) => Garbled(text)
    BY DEF Unreadable, Garbled
  <2>5. \A section \in BOOLEAN : ~Garbled(text) => Values(text, section) = Named(text, section)
    BY <1>3, ValuesAre
  <2> QED
    BY <2>2, <2>3, <2>4, <2>5, NamedIs
<1> QED
  BY <1>1, <1>2, <1>3

\* The files of a chain's tree, and what each of them names.
LEMMA WebIs ==
  ASSUME NEW dir, NEW s, Fits(dir, s), s.how = "chain", NEW from \in DOMAIN dir
  PROVE  /\ Web(Naming(dir, from, s.section)) /\ DOMAIN Naming(dir, from, s.section) = DOMAIN dir
         /\ s.section \in BOOLEAN
         /\ \A f \in DOMAIN dir : /\ dir[f] \in Contents["chain"]
                                  /\ f \in GarbledIn(dir) <=> Garbled(dir[f])
         /\ Naming(dir, from, s.section)[from] = Named(dir[from], s.section)
         /\ \A f \in DOMAIN dir : f # from => Naming(dir, from, s.section)[f] = Named(dir[f], FALSE)
<1>1. IsFiniteSet(DOMAIN dir) /\ s.section \in BOOLEAN /\ \A f \in DOMAIN dir : dir[f] \in Contents["chain"]
  BY DEF Fits
<1>2. DOMAIN Naming(dir, from, s.section) = DOMAIN dir
  BY DEF Naming
<1>3. \A f \in DOMAIN dir : Naming(dir, from, s.section)[f] = Named(dir[f], IF f = from THEN s.section ELSE FALSE)
  BY DEF Naming
<1>4. \A f \in DOMAIN dir : Naming(dir, from, s.section)[f] \in Seq(Names)
  <2>1. \A f \in DOMAIN dir : \A section \in BOOLEAN : Named(dir[f], section) \in Seq(Names)
    BY <1>1, ReadIs
  <2>2. FALSE \in BOOLEAN
    OBVIOUS
  <2> TAKE f \in DOMAIN dir
  <2>3. CASE f = from
    BY <1>1, <1>3, <2>1, <2>3
  <2>4. CASE f # from
    BY <1>3, <2>1, <2>2, <2>4
  <2> QED
    BY <2>3, <2>4
<1>5. \A f \in DOMAIN dir : f \in GarbledIn(dir) <=> Garbled(dir[f])
  BY DEF GarbledIn
<1>6. Web(Naming(dir, from, s.section))
  BY <1>1, <1>2, <1>4 DEF Web
<1> QED
  BY <1>1, <1>2, <1>3, <1>5, <1>6

\* The walk of the chain that starts at the first call's file.
Chain(dir, s, vis, st) ==
  /\ s.how = "chain" /\ Fits(dir, s)
  /\ st # <<>> /\ st[1].at \in DOMAIN dir \cap Range(s.names)
  /\ st \in Seq(Calls(Naming(dir, st[1].at, s.section)))
  /\ \E depth, done : Walk(Naming(dir, st[1].at, s.section), GarbledIn(dir), st[1].at, MaxChain,
                           vis, depth, done, st)

\* What a refusal that names a file is about: the file f that was searched, one its
\* chain met, or a rule.
Fault(dir, s, f, vis, named) ==
  /\ Unsafe(s, dir, f, TRUE)
  /\ \/ f = named
     \/ s.how = "rules" /\ named \in Range(RuleFiles) \cap DOMAIN dir
     \/ named \in vis /\ (Garbled(dir[named]) \/ Named(dir[named], FALSE) # <<>>)

\* A chain's file is unsafe when the chain is not sound.
LEMMA UnsafeIs ==
  ASSUME NEW dir, NEW s, Fits(dir, s), s.how = "chain", NEW from \in DOMAIN dir
  PROVE  \A may : Unsafe(s, dir, from, may)
                    <=> ~Sound(Naming(dir, from, s.section), GarbledIn(dir), from, MaxChain)
<1> DEFINE V == Naming(dir, from, s.section)
           S == Sound(V, GarbledIn(dir), from, MaxChain)
<1>1. /\ Web(V) /\ DOMAIN V = DOMAIN dir /\ s.section \in BOOLEAN
      /\ from \in GarbledIn(dir) <=> Garbled(dir[from])
  BY WebIs
<1>2. ChainSound(dir, from, s.section) <=> S
  BY <1>1, SoundIs
<1>3. S => ~Garbled(dir[from])
  <2>1. DOMAIN Hops(V, from) = 0..Cardinality(DOMAIN V) /\ Cardinality(DOMAIN V) \in Nat /\ Hops(V, from)[0] = {from}
    BY <1>1, HopsAre
  <2>2. 0 \in DOMAIN Hops(V, from) /\ from \in Hops(V, from)[0]
    BY <2>1
  <2>3. from \in Reach(V, from)
    BY <2>2 DEF Reach
  <2> QED
    BY <1>1, <2>3 DEF Sound
<1>4. (\E i \in DOMAIN dir[from] : dir[from][i].t = "broken") => Garbled(dir[from])
  BY DEF Garbled
<1>5. \A may : Unsafe(s, dir, from, may) <=>
        (\E i \in DOMAIN dir[from] : dir[from][i].t = "broken") \/ ~ChainSound(dir, from, s.section)
  BY DEF Unsafe
<1> QED
  BY <1>2, <1>3, <1>4, <1>5

\* A file that a chain's search refuses is garbled, and not safe.
LEMMA ChainRefusesFile ==
  ASSUME NEW dir, NEW s, Fits(dir, s), s.how = "chain", NEW from \in DOMAIN dir, NEW vis,
         Refuses(s, dir, from)
  PROVE  Fault(dir, s, from, vis, from)
<1> DEFINE V == Naming(dir, from, s.section)
<1>1. /\ Web(V) /\ DOMAIN V = DOMAIN dir /\ dir[from] \in Contents["chain"]
      /\ from \in GarbledIn(dir) <=> Garbled(dir[from])
  BY WebIs
<1>2. Garbled(dir[from])
  BY <1>1, ReadIs DEF Refuses
<1>3. DOMAIN Hops(V, from) = 0..Cardinality(DOMAIN V) /\ Cardinality(DOMAIN V) \in Nat /\ Hops(V, from)[0] = {from}
  BY <1>1, HopsAre
<1>4. 0 \in DOMAIN Hops(V, from) /\ from \in Hops(V, from)[0]
  BY <1>3
<1>5. from \in Reach(V, from)
  BY <1>4 DEF Reach
<1>6. ~Sound(V, GarbledIn(dir), from, MaxChain)
  BY <1>1, <1>2, <1>5 DEF Sound
<1> QED
  BY <1>6, UnsafeIs DEF Fault

\* A chain starts at a file that parses.
LEMMA ChainStarts ==
  ASSUME NEW dir, NEW s, Fits(dir, s), s.how = "chain", NEW from \in DOMAIN dir \cap Range(s.names),
         ~Unparseable(dir[from])
  PROVE  Chain(dir, s, {from}, <<[at |-> from, rest |-> Values(dir[from], s.section)]>>)
<1> DEFINE V == Naming(dir, from, s.section)
           G == GarbledIn(dir)
           call == [at |-> from, rest |-> Values(dir[from], s.section)]
           st == <<call>>
<1>1. /\ Web(V) /\ DOMAIN V = DOMAIN dir /\ s.section \in BOOLEAN /\ dir[from] \in Contents["chain"]
      /\ from \in G <=> Garbled(dir[from])
      /\ V[from] = Named(dir[from], s.section)
  BY WebIs
<1>2. ~Garbled(dir[from]) /\ Values(dir[from], s.section) = V[from] /\ V[from] \in Seq(Names)
  BY <1>1, ReadIs
<1>3. call.at = from /\ call.rest = V[from] /\ call \in Calls(V)
  BY <1>1, <1>2 DEF Calls
<1> HIDE DEF V, call
<1>4. st[1] = call /\ Len(st) = 1 /\ st # <<>> /\ st \in Seq(Calls(V))
  BY <1>3
<1> HIDE DEF st
<1>5. \E depth, done : Walk(V, G, from, MaxChain, {from}, depth, done, st)
  BY <1>1, <1>2, <1>3, <1>4, WalkStarts
<1>6. Chain(dir, s, {from}, st)
  BY <1>3, <1>4, <1>5 DEF Chain, V
<1> QED
  BY <1>6 DEF st, call

\* All calls but the last.
LEMMA FrontIs ==
  ASSUME NEW S, NEW st \in Seq(S), st # <<>>
  PROVE  /\ Len(st) \in Nat \ {0} /\ st[Len(st)] \in S
         /\ Front(st) \in Seq(S) /\ Len(Front(st)) = Len(st) - 1
         /\ \A k \in 1..(Len(st) - 1) : Front(st)[k] = st[k]
<1>1. Len(st) \in Nat \ {0}
  OBVIOUS
<1>2. Front(st) = SubSeq(st, 1, Len(st) - 1)
  BY DEF Front
<1>3. Len(st) \in 1..Len(st)
  BY <1>1
<1>4. st[Len(st)] \in S
  BY <1>3
<1> DEFINE m == Len(st) - 1
<1>5. m \in Nat /\ m <= Len(st) /\ 1 \in Nat
  BY <1>1
<1>6. SubSeq(st, 1, m) \in Seq(S) /\ Len(SubSeq(st, 1, m)) = m
  <2> HIDE DEF m
  <2> QED
    BY <1>5
<1>7. \A k \in 1..m : SubSeq(st, 1, m)[k] = st[k]
  <2> HIDE DEF m
  <2> QED
    BY <1>5
<1> QED
  BY <1>1, <1>2, <1>4, <1>6, <1>7

\* The last call changed.
LEMMA AppendIs ==
  ASSUME NEW S, NEW st \in Seq(S), NEW x \in S
  PROVE  /\ Append(st, x) \in Seq(S) /\ Len(Append(st, x)) = Len(st) + 1
         /\ Append(st, x)[Len(st) + 1] = x
         /\ \A k \in 1..Len(st) : Append(st, x)[k] = st[k]
  OBVIOUS

\* The calls once the next value of the last is followed.
Advanced(st) == Append(Front(st), [at |-> st[Len(st)].at, rest |-> Tail(st[Len(st)].rest)])

\* Nothing else of the calls changes.
LEMMA AdvancedIs ==
  ASSUME NEW V, NEW st \in Seq(Calls(V)), st # <<>>, st[Len(st)].rest # <<>>
  PROVE  /\ Advanced(st) \in Seq(Calls(V)) /\ Len(Advanced(st)) = Len(st) /\ Len(st) \in Nat \ {0}
         /\ Leaves(st, Advanced(st), Len(st), Tail(st[Len(st)].rest))
         /\ Advanced(st)[1].at = st[1].at
<1> DEFINE m == Len(st)
           top == st[m]
           x == [at |-> top.at, rest |-> Tail(top.rest)]
           fr == Front(st)
<1>1. /\ m \in Nat \ {0} /\ top \in Calls(V)
      /\ fr \in Seq(Calls(V)) /\ Len(fr) = m - 1
      /\ \A k \in 1..(m - 1) : fr[k] = st[k]
  BY FrontIs
<1>2. x \in Calls(V) /\ x.at = top.at /\ x.rest = Tail(top.rest)
  <2>1. top.at \in DOMAIN V /\ top.rest \in Seq(Names) /\ top.rest # <<>>
    BY <1>1 DEF Calls
  <2>2. Tail(top.rest) \in Seq(Names)
    BY <2>1
  <2> HIDE DEF top
  <2> QED
    BY <2>1, <2>2 DEF Calls
<1>3. Advanced(st) = Append(fr, x)
  BY DEF Advanced
<1> HIDE DEF fr, x, m
<1>4. /\ Append(fr, x) \in Seq(Calls(V)) /\ Len(Append(fr, x)) = m
      /\ Append(fr, x)[m] = x
      /\ \A k \in 1..(m - 1) : Append(fr, x)[k] = st[k]
  <2>1. (m - 1) + 1 = m
    BY <1>1
  <2> QED
    BY <1>1, <1>2, <2>1, AppendIs
<1>5. Leaves(st, Append(fr, x), m, Tail(top.rest))
  BY <1>2, <1>4 DEF Leaves
<1>6. Append(fr, x)[1].at = st[1].at
  <2>1. CASE m = 1
    BY <1>2, <1>4, <2>1
  <2>2. CASE m # 1
    <3>1. 1 \in 1..(m - 1)
      BY <1>1, <2>2
    <3> QED
      BY <1>4, <3>1
  <2> QED
    BY <2>1, <2>2
<1> QED
  BY <1>1, <1>3, <1>4, <1>5, <1>6 DEF m

\* The walk behind a chain.
LEMMA ChainIs ==
  ASSUME NEW dir, NEW s, NEW vis, NEW st, Chain(dir, s, vis, st)
  PROVE  /\ s.how = "chain" /\ Fits(dir, s) /\ st # <<>>
         /\ st[1].at \in DOMAIN dir /\ st[1].at \in Range(s.names)
         /\ st \in Seq(Calls(Naming(dir, st[1].at, s.section)))
         /\ \E depth, done : Walks(Naming(dir, st[1].at, s.section), GarbledIn(dir), st[1].at, MaxChain,
                                   vis, depth, done, st, Len(st))
<1>1. /\ s.how = "chain" /\ Fits(dir, s) /\ st # <<>>
      /\ st[1].at \in DOMAIN dir /\ st[1].at \in Range(s.names)
      /\ st \in Seq(Calls(Naming(dir, st[1].at, s.section)))
      /\ \E depth, done : Walk(Naming(dir, st[1].at, s.section), GarbledIn(dir), st[1].at, MaxChain,
                               vis, depth, done, st)
  BY DEF Chain
<1>2. Web(Naming(dir, st[1].at, s.section))
  BY <1>1, WebIs
<1>3. Len(st) \in Nat \ {0}
  BY <1>1
<1> QED
  BY <1>1, <1>2, <1>3, MaxChainAssumption DEF Walks

\* SkipHop stays in the chain.
LEMMA ChainSkips ==
  ASSUME NEW dir, NEW s, NEW vis, NEW st, Chain(dir, s, vis, st), st[Len(st)].rest # <<>>,
         NEW v, v = Head(st[Len(st)].rest), v \notin {"deep", "outside"}, Len(st) - 1 < MaxChain,
         v \notin vis, v \notin DOMAIN dir
  PROVE  Chain(dir, s, vis, Advanced(st)) /\ Advanced(st)[1].at = st[1].at
<1> DEFINE from == st[1].at
           V == Naming(dir, from, s.section)
           G == GarbledIn(dir)
           m == Len(st)
           new == Advanced(st)
<1>1. /\ s.how = "chain" /\ Fits(dir, s) /\ st # <<>>
      /\ from \in DOMAIN dir /\ from \in Range(s.names) /\ st \in Seq(Calls(V))
      /\ \E depth, done : Walks(V, G, from, MaxChain, vis, depth, done, st, m)
  BY ChainIs
<1>2. DOMAIN V = DOMAIN dir
  BY DEF Naming
<1>3. PICK depth, done : Walks(V, G, from, MaxChain, vis, depth, done, st, m)
  BY <1>1
<1> HIDE DEF V
<1>4. /\ new \in Seq(Calls(V)) /\ Len(new) = m /\ m \in Nat \ {0}
      /\ Leaves(st, new, m, Tail(st[m].rest)) /\ new[1].at = from
  BY <1>1, AdvancedIs
<1>5. new # <<>>
  BY <1>4
<1> HIDE DEF from, G, m, new
<1>6. Turn(V, G, from, MaxChain, vis, depth, done, st, m)
  BY <1>3 DEF Turn, m
<1>7. \E done2 : Walk(V, G, from, MaxChain, vis, depth, done2, new)
  BY <1>2, <1>4, <1>6, WalkSkips DEF m
<1> QED
  BY <1>1, <1>4, <1>5, <1>7 DEF Chain, V, G, from, new

\* The call for a file that is followed.
CallFor(dir, v, call) == call = [at |-> v, rest |-> Values(dir[v], FALSE)]

\* The calls once that file's own is made.
Called(st, call) == Append(Advanced(st), call)

\* FollowHop stays in the chain, one call deeper.
LEMMA ChainFollows ==
  ASSUME NEW dir, NEW s, NEW vis, NEW st, Chain(dir, s, vis, st), st[Len(st)].rest # <<>>,
         NEW v, v = Head(st[Len(st)].rest), v \notin {"deep", "outside"}, Len(st) - 1 < MaxChain,
         v \notin vis, v \in DOMAIN dir, ~Unparseable(dir[v]),
         NEW call, CallFor(dir, v, call)
  PROVE  Chain(dir, s, vis \cup {v}, Called(st, call)) /\ Called(st, call)[1].at = st[1].at
<1> DEFINE from == st[1].at
           V == Naming(dir, from, s.section)
           G == GarbledIn(dir)
           m == Len(st)
           adv == Advanced(st)
           new == Append(adv, call)
<1>1. /\ s.how = "chain" /\ Fits(dir, s) /\ st # <<>>
      /\ from \in DOMAIN dir /\ from \in Range(s.names) /\ st \in Seq(Calls(V))
      /\ \E depth, done : Walks(V, G, from, MaxChain, vis, depth, done, st, m)
  BY ChainIs
<1>2. PICK depth, done : Walks(V, G, from, MaxChain, vis, depth, done, st, m)
  BY <1>1
<1>3. from \in vis
  BY <1>2 DEF Walks, Walk, Met
<1>4. /\ Web(V) /\ DOMAIN V = DOMAIN dir /\ dir[v] \in Contents["chain"]
      /\ v \in G <=> Garbled(dir[v])
      /\ V[v] = Named(dir[v], FALSE)
  <2> HIDE DEF from
  <2>1. /\ Web(V) /\ DOMAIN V = DOMAIN dir
        /\ \A g \in DOMAIN dir : dir[g] \in Contents["chain"] /\ (g \in G <=> Garbled(dir[g]))
        /\ \A g \in DOMAIN dir : g # from => V[g] = Named(dir[g], FALSE)
    BY ONLY <1>1, WebIs
  <2> HIDE DEF V, G
  <2> QED
    BY <1>3, <2>1
<1>5. v \notin G /\ Values(dir[v], FALSE) = V[v] /\ V[v] \in Seq(Names)
  <2>1. FALSE \in BOOLEAN
    OBVIOUS
  <2>2. ~Garbled(dir[v])
    BY <1>4, ReadIs
  <2>3. \A section \in BOOLEAN : Named(dir[v], section) \in Seq(Names) /\ Values(dir[v], section) = Named(dir[v], section)
    BY <1>4, <2>2, ReadIs
  <2>4. Named(dir[v], FALSE) \in Seq(Names) /\ Values(dir[v], FALSE) = Named(dir[v], FALSE)
    BY ONLY <2>1, <2>3, Zenon
  <2> QED
    BY <1>4, <2>2, <2>4
<1> HIDE DEF V
<1>6. /\ adv \in Seq(Calls(V)) /\ Len(adv) = m /\ m \in Nat \ {0}
      /\ Leaves(st, adv, m, Tail(st[m].rest)) /\ adv[1].at = from
  BY <1>1, AdvancedIs
<1>7. call.at = v /\ call.rest = V[v] /\ call \in Calls(V)
  <2>1. call = [at |-> v, rest |-> Values(dir[v], FALSE)]
    BY DEF CallFor
  <2> QED
    BY <1>4, <1>5, <2>1 DEF Calls
<1> HIDE DEF from, G, m, adv
<1>8. /\ new \in Seq(Calls(V)) /\ Len(new) = m + 1 /\ new[m + 1] = call
      /\ \A k \in 1..m : new[k] = adv[k]
  BY ONLY <1>6, <1>7, AppendIs
<1>9. new # <<>> /\ new[1].at = from
  <2>1. 1 \in 1..m
    BY <1>6
  <2> QED
    BY <1>6, <1>8, <2>1
<1> HIDE DEF new
<1>10. Leaves(st, new, m, Tail(st[m].rest))
  <2>1. m \in 1..m /\ \A k \in 1..(m - 1) : k \in 1..m
    BY <1>6
  <2> QED
    BY <1>6, <1>8, <2>1 DEF Leaves
<1>11. Turn(V, G, from, MaxChain, vis, depth, done, st, m)
  BY <1>2 DEF Turn, m
<1>12. \E depth2, done2 : Walk(V, G, from, MaxChain, vis \cup {v}, depth2, done2, new)
  <2>1. new[m + 1].at = v /\ new[m + 1].rest = V[v] /\ Len(new) = m + 1 /\ v \in DOMAIN V
    BY <1>4, <1>7, <1>8
  <2>2. v = Head(st[m].rest) /\ m - 1 < MaxChain /\ v \notin {"deep", "outside"} /\ v \notin vis
    BY DEF m
  <2> QED
    BY ONLY <1>5, <1>10, <1>11, <2>1, <2>2, WalkFollows
<1> QED
  BY <1>1, <1>8, <1>9, <1>12 DEF Chain, V, G, from, new, adv, Called

\* ReturnHop stays in the chain, or has found it sound.
LEMMA ChainReturns ==
  ASSUME NEW dir, NEW s, NEW vis, NEW st, Chain(dir, s, vis, st), st[Len(st)].rest = <<>>
  PROVE  \/ Front(st) # <<>> /\ Chain(dir, s, vis, Front(st)) /\ Front(st)[1].at = st[1].at
         \/ Front(st) = <<>> /\ ~Unsafe(s, dir, st[1].at, FALSE)
<1> DEFINE from == st[1].at
           V == Naming(dir, from, s.section)
           G == GarbledIn(dir)
           m == Len(st)
           new == Front(st)
<1>1. /\ s.how = "chain" /\ Fits(dir, s) /\ st # <<>>
      /\ from \in DOMAIN dir /\ from \in Range(s.names) /\ st \in Seq(Calls(V))
      /\ \E depth, done : Walks(V, G, from, MaxChain, vis, depth, done, st, m)
  BY ChainIs
<1>2. PICK depth, done : Walks(V, G, from, MaxChain, vis, depth, done, st, m)
  BY <1>1
<1>3. Web(V)
  BY <1>1, WebIs
<1> HIDE DEF V
<1>4. /\ m \in Nat \ {0} /\ new \in Seq(Calls(V)) /\ Len(new) = m - 1
      /\ \A k \in 1..(m - 1) : new[k] = st[k]
  BY <1>1, FrontIs
<1> HIDE DEF from, G, m, new
<1>5. Walk(V, G, from, MaxChain, vis, depth, done, new)
  BY <1>2, <1>4, WalkReturns DEF m
<1>6. CASE m = 1
  <2>1. Len(new) = 0 /\ new = <<>>
    BY <1>4, <1>6
  <2>2. Sound(V, G, from, MaxChain)
    BY <1>3, <1>5, <2>1, WalkEnds, MaxChainAssumption
  <2>3. ~Unsafe(s, dir, from, FALSE)
    BY <1>1, <2>2, UnsafeIs DEF V, G
  <2> QED
    BY <2>1, <2>3 DEF new, from
<1>7. CASE m # 1
  <2>1. 1 \in 1..(m - 1) /\ new # <<>>
    BY <1>4, <1>7
  <2>2. new[1].at = from
    BY <1>4, <2>1 DEF from
  <2> QED
    BY <1>1, <1>4, <1>5, <2>1, <2>2 DEF Chain, V, G, from, new
<1> QED
  BY <1>6, <1>7

\* The next value refused, or the file it names.
LEMMA ChainRefuses ==
  ASSUME NEW dir, NEW s, NEW vis, NEW st, Chain(dir, s, vis, st), st[Len(st)].rest # <<>>,
         NEW v, v = Head(st[Len(st)].rest)
  PROVE  /\ v \in {"deep", "outside"} \/ Len(st) - 1 >= MaxChain \/ v \in vis
              => Fault(dir, s, st[1].at, vis, st[Len(st)].at)
         /\ v \in DOMAIN dir /\ Unparseable(dir[v]) => Fault(dir, s, st[1].at, vis \cup {v}, v)
<1> DEFINE from == st[1].at
           V == Naming(dir, from, s.section)
           G == GarbledIn(dir)
           m == Len(st)
           f == st[m].at
<1>1. /\ s.how = "chain" /\ Fits(dir, s) /\ st # <<>>
      /\ from \in DOMAIN dir /\ from \in Range(s.names) /\ st \in Seq(Calls(V))
      /\ \E depth, done : Walks(V, G, from, MaxChain, vis, depth, done, st, m)
  BY ChainIs
<1>2. PICK depth, done : Walks(V, G, from, MaxChain, vis, depth, done, st, m)
  BY <1>1
<1>3. /\ Web(V) /\ DOMAIN V = DOMAIN dir
      /\ \A g \in DOMAIN dir : dir[g] \in Contents["chain"] /\ (g \in G <=> Garbled(dir[g]))
      /\ \A g \in DOMAIN dir : g # from => V[g] = Named(dir[g], FALSE)
  <2> HIDE DEF from
  <2> QED
    BY <1>1, WebIs
<1>4. m \in Nat \ {0} /\ MaxChain \in Nat
  BY <1>1, MaxChainAssumption
<1> HIDE DEF from, V, G, m, f
<1>5. Turn(V, G, from, MaxChain, vis, depth, done, st, m)
  BY <1>2 DEF Turn, m
<1>6. AtValue(V, vis, depth, done, st, m)
  BY <1>5, NextValue
<1>7. f \in vis /\ f \in DOMAIN dir /\ V[f] # <<>>
  <2>1. f \in vis /\ f \in DOMAIN V /\ V[f] \in Seq(Names) /\ done[f] + 1 \in 1..Len(V[f])
    BY <1>6 DEF AtValue, f
  <2> QED
    BY <1>3, <2>1
<1>8. Sound(V, G, from, MaxChain) =>
        /\ v \notin {"deep", "outside"} /\ m - 1 < MaxChain /\ v \notin vis
        /\ v \in DOMAIN V => v \notin G
  BY <1>5, WalkRefuses DEF m
<1>9. ~Sound(V, G, from, MaxChain) => Unsafe(s, dir, from, TRUE)
  BY <1>1, UnsafeIs DEF V, G
<1>10. ASSUME v \in {"deep", "outside"} \/ m - 1 >= MaxChain \/ v \in vis
       PROVE  Fault(dir, s, from, vis, f)
  <2>1. ~(m - 1 < MaxChain /\ m - 1 >= MaxChain)
    BY <1>4
  <2>2. Unsafe(s, dir, from, TRUE)
    BY <1>8, <1>9, <1>10, <2>1
  <2> QED
    BY <1>3, <1>7, <2>2 DEF Fault
<1>11. ASSUME v \in DOMAIN dir, Unparseable(dir[v])
       PROVE  Fault(dir, s, from, vis \cup {v}, v)
  <2>1. Garbled(dir[v])
    BY <1>3, <1>11, ReadIs
  <2>2. Unsafe(s, dir, from, TRUE)
    BY <1>3, <1>8, <1>9, <1>11, <2>1
  <2> QED
    BY <2>1, <2>2 DEF Fault
<1> QED
  BY <1>10, <1>11 DEF from, f, m

\* What a guard's search is made of.
Search(x) ==
  /\ x.section \in BOOLEAN /\ x.how \in {"keys", "blocks", "directives", "rules", "chain"}
  /\ x.names \in Seq(Range(x.names))

\* A list of up to four names is one of its own elements.
LEMMA TuplesAre ==
  ASSUME NEW a, NEW b, NEW c, NEW d
  PROVE  /\ <<a>> \in Seq(Range(<<a>>)) /\ <<a, b>> \in Seq(Range(<<a, b>>))
         /\ <<a, b, c>> \in Seq(Range(<<a, b, c>>)) /\ <<a, b, c, d>> \in Seq(Range(<<a, b, c, d>>))
<1>1. <<a>> \in Seq({a}) /\ <<a>>[1] = a
  OBVIOUS
<1>2. <<a, b>> \in Seq({a, b}) /\ <<a, b>>[1] = a /\ <<a, b>>[2] = b
  OBVIOUS
<1>3. <<a, b, c>> \in Seq({a, b, c})
  OBVIOUS
<1>4. <<a, b, c, d>> \in Seq({a, b, c, d})
  OBVIOUS
<1>5. Range(<<a>>) = {a}
  BY DEF Range
<1>6. Range(<<a, b>>) = {a, b}
  BY DEF Range
<1>7. Range(<<a, b, c>>) = {a, b, c}
  BY DEF Range
<1>8. Range(<<a, b, c, d>>) = {a, b, c, d}
  BY DEF Range
<1> QED
  BY <1>1, <1>2, <1>3, <1>4, <1>5, <1>6, <1>7, <1>8

\* Every guard is a sequence of searches.
LEMMA GuardIs ==
  ASSUME NEW l \in DOMAIN Guard
  PROVE  /\ Len(Guard[l]) \in Nat /\ DOMAIN Guard[l] = 1..Len(Guard[l])
         /\ \A s \in DOMAIN Guard[l] : Search(Guard[l][s])
<1>1. \A how \in {"keys", "blocks", "directives", "rules", "chain"} : \A n :
        n \in Seq(Range(n)) => Search(Whole(how, n)) /\ Search(Section(how, n))
  BY DEF Search, Whole, Section
<1>2. \A a, b, c, d : /\ <<a>> \in Seq(Range(<<a>>)) /\ <<a, b>> \in Seq(Range(<<a, b>>))
                      /\ <<a, b, c>> \in Seq(Range(<<a, b, c>>)) /\ <<a, b, c, d>> \in Seq(Range(<<a, b, c, d>>))
  BY TuplesAre
<1> DEFINE Is(g) == Len(g) \in Nat /\ DOMAIN g = 1..Len(g) /\ \A s \in DOMAIN g : Search(g[s])
<1>3. \A x, y, z, w : Search(x) /\ Search(y) /\ Search(z) /\ Search(w) =>
        Is(<<x>>) /\ Is(<<x, y>>) /\ Is(<<x, y, z>>) /\ Is(<<x, y, z, w>>)
  OBVIOUS
<1>4. Is(<<>>)
  OBVIOUS
<1> HIDE DEF Is
<1>5. Is(pylint)
  BY <1>1, <1>2, <1>3 DEF pylint
<1>6. Is(flake8) /\ Is(checkov) /\ Is(vale) /\ Is(tflint)
  BY <1>1, <1>2, <1>3 DEF flake8, checkov, vale, tflint
<1>7. Is(sqlfluff)
  BY <1>1, <1>2, <1>3 DEF sqlfluff
<1>8. Is(buf) /\ Is(ast_grep) /\ Is(regal) /\ Is(ruff) /\ Is(biome)
  BY <1>1, <1>2, <1>3 DEF buf, ast_grep, regal, ruff, biome
<1>9. Is(Guard[l])
  BY <1>4, <1>5, <1>6, <1>7, <1>8 DEF Guard
<1> QED
  BY <1>9 DEF Is

\* Every tree of a guard is one its searches can look at.
LEMMA TreesFit ==
  ASSUME NEW l \in DOMAIN Guard, NEW d \in Trees[l], NEW s \in DOMAIN Guard[l]
  PROVE  Fits(d, Guard[l][s])
<1>1. Search(Guard[l][s])
  BY GuardIs
<1> QED
  BY <1>1, TreesAssumption DEF Search, Fits

-------------------------------------------------------------------------------
(* The guard                                                                   *)

\* The files that are still to be looked at, and the chain being walked, are those
\* of the search the guard is at.
AtSearch ==
  /\ tool \in DOMAIN Guard /\ (tool = "unguarded" \/ tree \in Trees[tool])
  /\ search \in 0..Len(Guard[tool])
  /\ todo = <<>> \/ (search \in DOMAIN Guard[tool] /\ todo \in Seq(Searched(search)))
  /\ \/ stack = <<>> \/ verdict.is = "refused"
     \/ (search \in DOMAIN Guard[tool] /\ Chain(tree, Guard[tool][search], visited, stack))

\* A file that search s has still to look at, or has not yet done with.
Pending(s, f) ==
  s = search /\ (f \in Range(todo) \/ (stack # <<>> /\ f = stack[1].at))

\* Every other file of the searches so far holds nothing a guard must refuse.
SafeSoFar ==
  \A s \in DOMAIN Guard[tool] : \A f \in Searched(s) :
    s <= search => Pending(s, f) \/ ~Unsafe(Guard[tool][s], tree, f, FALSE)

\* An approval comes when nothing is left to look at, a refusal with a fault.
Decided ==
  /\ verdict.is = "safe" => todo = <<>> /\ stack = <<>> /\ search = Len(Guard[tool])
  /\ verdict.is = "refused" =>
       \E s \in DOMAIN Guard[tool] : \E f \in Searched(s) :
         Fault(tree, Guard[tool][s], f, visited, verdict.at)

\* The inductive invariant of the guard.
GuardInv == AtSearch /\ SafeSoFar /\ Decided
\* A search of the guard at work.
LEMMA SearchFits ==
  ASSUME AtSearch, NEW s \in DOMAIN Guard[tool]
  PROVE  /\ Fits(tree, Guard[tool][s]) /\ Search(Guard[tool][s])
         /\ Len(Guard[tool]) \in Nat /\ DOMAIN Guard[tool] = 1..Len(Guard[tool])
         /\ Searched(s) \subseteq DOMAIN tree /\ Searched(s) \subseteq Range(Guard[tool][s].names)
<1>1. tool \in DOMAIN Guard /\ (tool = "unguarded" \/ tree \in Trees[tool])
  BY DEF AtSearch
<1>2. tool # "unguarded"
  <2>1. Guard["unguarded"] = <<>>
    BY DEF Guard
  <2> QED
    BY <2>1
<1> QED
  BY <1>1, <1>2, GuardIs, TreesFit DEF Searched, Files

\* The verdicts.
LEMMA VerdictsAre ==
  /\ Undecided.is = "none" /\ Safe.is = "safe"
  /\ \A f : Refused(f).is = "refused" /\ Refused(f).at = f
  BY DEF Undecided, Safe, Refused

\* It holds before the first search,
LEMMA InitSafe ==
  ASSUME GuardInit
  PROVE  GuardInv
<1>1. Len(Guard[tool]) \in Nat /\ DOMAIN Guard[tool] = 1..Len(Guard[tool])
  BY GuardIs DEF GuardInit
<1>2. AtSearch
  BY <1>1 DEF GuardInit, AtSearch
<1>3. SafeSoFar
  BY <1>1 DEF GuardInit, SafeSoFar
<1>4. Decided
  BY VerdictsAre DEF GuardInit, Decided
<1> QED
  BY <1>2, <1>3, <1>4 DEF GuardInv

\* it is kept when the files of the next search are selected,
LEMMA NextSearchSafe ==
  ASSUME GuardInv, NextSearch
  PROVE  GuardInv'
<1> DEFINE s1 == search + 1
           names == Guard[tool][s1].names
           P == {i \in DOMAIN names : names[i] \in Files}
<1>1. /\ verdict = Undecided /\ todo = <<>> /\ stack = <<>>
      /\ search < Len(Guard[tool]) /\ search' = s1
      /\ todo' = Those(names, P)
      /\ tool' = tool /\ tree' = tree /\ stack' = stack /\ visited' = visited /\ verdict' = verdict
  BY DEF NextSearch
<1>2. AtSearch /\ SafeSoFar /\ Decided
  BY DEF GuardInv
<1>3. Len(Guard[tool]) \in Nat /\ DOMAIN Guard[tool] = 1..Len(Guard[tool]) /\ search \in Nat
  BY <1>2, GuardIs DEF AtSearch
<1>4. s1 \in DOMAIN Guard[tool] /\ s1 \in 0..Len(Guard[tool]) /\ \A s \in Nat : s <= s1 => s <= search \/ s = s1
  BY <1>1, <1>3
<1>5. names \in Seq(Range(names))
  BY <1>2, <1>4, SearchFits DEF Search
<1> HIDE DEF names, P, s1
<1>6. /\ Those(names, P) \in Seq(Range(names))
      /\ \A x : x \in Range(Those(names, P)) <=> \E i \in 1..Len(names) : i \in P /\ x = names[i]
  BY <1>5, ThoseIs
<1>7. \A x : x \in Range(Those(names, P)) <=> x \in Searched(s1)
  <2>1. \A x : x \in Range(names) <=> \E i \in 1..Len(names) : x = names[i]
    BY <1>5, RangeIs
  <2>2. \A i \in 1..Len(names) : i \in P <=> names[i] \in Files
    BY <1>5 DEF P
  <2>3. \A x : x \in Searched(s1) <=> x \in Files /\ x \in Range(names)
    BY DEF Searched, names
  <2> QED
    BY <1>6, <2>1, <2>2, <2>3
<1>8. Those(names, P) \in Seq(Searched(s1))
  <2> DEFINE q == Those(names, P)
  <2>1. q \in Seq(Range(names)) /\ \A x \in Range(q) : x \in Searched(s1)
    BY <1>6, <1>7
  <2> HIDE DEF q
  <2>2. \A i \in 1..Len(q) : q[i] \in Searched(s1)
    BY <2>1, RangeIs
  <2> QED
    BY <2>1, <2>2 DEF q
<1>9. \A s : Searched(s)' = Searched(s)
  BY <1>1 DEF Searched, Files
<1>10. AtSearch'
  BY <1>1, <1>2, <1>4, <1>8, <1>9 DEF AtSearch
<1>11. SafeSoFar'
  <2> SUFFICES ASSUME NEW s \in DOMAIN Guard[tool], NEW f \in Searched(s), s <= s1
               PROVE  Pending(s, f)' \/ ~Unsafe(Guard[tool][s], tree, f, FALSE)
    BY <1>1, <1>9 DEF SafeSoFar
  <2>1. CASE s <= search
    <3>1. ~Pending(s, f)
      <4>1. Range(<<>>) = {}
        BY DEF Range
      <4> QED
        BY <1>1, <4>1 DEF Pending
    <3> QED
      BY <1>2, <2>1, <3>1 DEF SafeSoFar
  <2>2. CASE s = s1
    <3>1. f \in Range(todo')
      BY <1>1, <1>7, <2>2
    <3> QED
      BY <1>1, <2>2, <3>1 DEF Pending
  <2>3. s \in Nat
    BY <1>3
  <2> QED
    BY <1>4, <2>1, <2>2, <2>3
<1>12. Decided'
  BY <1>1, VerdictsAre DEF Decided
<1> QED
  BY <1>10, <1>11, <1>12 DEF GuardInv

\* when the guard approves,
LEMMA ApproveSafe ==
  ASSUME GuardInv, Approve
  PROVE  GuardInv'
<1>1. /\ verdict = Undecided /\ todo = <<>> /\ stack = <<>>
      /\ search = Len(Guard[tool]) /\ verdict' = Safe
      /\ tool' = tool /\ tree' = tree /\ search' = search /\ todo' = todo /\ stack' = stack /\ visited' = visited
  BY DEF Approve
<1>2. AtSearch /\ SafeSoFar
  BY DEF GuardInv
<1>3. AtSearch'
  BY <1>1, <1>2 DEF AtSearch, Searched, Files
<1>4. SafeSoFar'
  BY <1>1, <1>2 DEF SafeSoFar, Pending, Searched, Files
<1>5. Decided'
  BY <1>1, VerdictsAre DEF Decided
<1> QED
  BY <1>3, <1>4, <1>5 DEF GuardInv

\* The next file to look at.
LEMMA HeadIs ==
  ASSUME GuardInv, todo # <<>>
  PROVE  /\ search \in DOMAIN Guard[tool]
         /\ Head(todo) \in Searched(search) /\ Tail(todo) \in Seq(Searched(search))
         /\ \A f \in Range(todo) : f = Head(todo) \/ f \in Range(Tail(todo))
         /\ Fits(tree, Guard[tool][search]) /\ Head(todo) \in DOMAIN tree
         /\ Head(todo) \in Range(Guard[tool][search].names)
<1>1. AtSearch /\ search \in DOMAIN Guard[tool] /\ todo \in Seq(Searched(search))
  BY DEF GuardInv, AtSearch
<1> DEFINE S == Searched(search)
<1> HIDE DEF S
<1>2. todo \in Seq(S)
  BY <1>1 DEF S
<1>3. Head(todo) \in S /\ Tail(todo) \in Seq(S) /\ Len(todo) \in Nat \ {0}
      /\ Head(todo) = todo[1] /\ Len(Tail(todo)) = Len(todo) - 1
      /\ \A i \in 1..(Len(todo) - 1) : Tail(todo)[i] = todo[i + 1]
  BY <1>2
<1>4. ASSUME NEW f \in Range(todo), f # Head(todo) PROVE f \in Range(Tail(todo))
  <2>1. PICK i \in 1..Len(todo) : f = todo[i]
    BY <1>2, RangeIs
  <2>2. i # 1
    BY <1>3, <1>4, <2>1
  <2>3. i - 1 \in 1..(Len(todo) - 1) /\ (i - 1) + 1 = i
    BY <1>3, <2>2
  <2> DEFINE tl == Tail(todo)
  <2>4. f = tl[i - 1] /\ tl \in Seq(S) /\ Len(tl) = Len(todo) - 1
    BY <1>3, <2>1, <2>3
  <2> HIDE DEF tl
  <2>5. f \in Range(tl)
    BY <2>3, <2>4, RangeIs
  <2> QED
    BY <2>5 DEF tl
<1>5. Fits(tree, Guard[tool][search]) /\ S \subseteq DOMAIN tree /\ S \subseteq Range(Guard[tool][search].names)
  BY <1>1, SearchFits DEF S
<1> QED
  BY <1>1, <1>3, <1>4, <1>5 DEF S

\* A search that follows nothing decides a file exactly.
LEMMA FileIsExact ==
  ASSUME GuardInv, todo # <<>>, Guard[tool][search].how # "chain"
  PROVE  Exact(Guard[tool][search], tree, Head(todo))
<1> DEFINE s == Guard[tool][search]
           f == Head(todo)
<1>1. Fits(tree, s) /\ f \in DOMAIN tree /\ f \in Range(s.names) /\ s.how # "chain"
  BY HeadIs
<1> HIDE DEF s, f
<1>2. s.section \in BOOLEAN /\ s.how \in {"keys", "blocks", "directives", "rules"} /\ tree[f] \in Contents[s.how]
  BY <1>1 DEF Fits
<1>3. Exact(s, tree, f)
  BY <1>2, SearchIsExact
<1> QED
  BY <1>3 DEF s, f
\* A refusal of a file at fault ends the search and changes nothing else.
LEMMA RefusalSafe ==
  ASSUME GuardInv, verdict = Undecided, NEW f, NEW named, verdict' = Refused(named),
         tool' = tool, tree' = tree, search' = search, todo' = todo, stack' = stack,
         search \in DOMAIN Guard[tool], f \in Searched(search),
         Fault(tree, Guard[tool][search], f, visited', named)
  PROVE  GuardInv'
<1>1. AtSearch /\ SafeSoFar
  BY DEF GuardInv
<1>2. verdict'.is = "refused" /\ verdict'.at = named
  BY VerdictsAre
<1>3. AtSearch'
  BY <1>1, <1>2 DEF AtSearch, Searched, Files
<1>4. SafeSoFar'
  BY <1>1 DEF SafeSoFar, Pending, Searched, Files
<1>5. Decided'
  BY <1>2 DEF Decided, Searched, Files
<1> QED
  BY <1>3, <1>4, <1>5 DEF GuardInv

\* when a file is refused as it stands,
LEMMA RefuseFileSafe ==
  ASSUME GuardInv, RefuseFile
  PROVE  GuardInv'
<1> DEFINE s == Guard[tool][search]
           f == Head(todo)
<1>1. /\ verdict = Undecided /\ stack = <<>> /\ todo # <<>>
      /\ Refuses(s, tree, f) /\ verdict' = Refused(AtFault(s, tree, f))
      /\ tool' = tool /\ tree' = tree /\ search' = search /\ todo' = todo /\ stack' = stack /\ visited' = visited
  BY DEF RefuseFile
<1>2. search \in DOMAIN Guard[tool] /\ f \in Searched(search) /\ f \in DOMAIN tree /\ Fits(tree, s)
  BY <1>1, HeadIs
<1>3. Fault(tree, s, f, visited', AtFault(s, tree, f))
  <2>1. CASE s.how = "chain"
    <3> HIDE DEF s, f
    <3>1. AtFault(s, tree, f) = f
      BY <2>1 DEF AtFault
    <3>2. \A vis : Fault(tree, s, f, vis, f)
      BY ONLY <1>1, <1>2, <2>1, ChainRefusesFile
    <3> QED
      BY <3>1, <3>2
  <2>2. CASE s.how # "chain"
    <3>1. Exact(s, tree, f)
      BY <1>1, <2>2, FileIsExact
    <3>2. Unsafe(s, tree, f, TRUE)
      BY <1>1, <3>1 DEF Exact
    <3> HIDE DEF s, f
    <3>3. CASE s.how = "rules" /\ ~Unreadable(tree[f])
      <4>1. Rules(tree) # <<>> /\ AtFault(s, tree, f) = Head(Rules(tree))
        BY <1>1, <3>3 DEF Refuses, AtFault
      <4>2. AtFault(s, tree, f) \in Range(RuleFiles) \cap DOMAIN tree
        BY <4>1, RulesAre
      <4> QED
        BY <3>2, <3>3, <4>2 DEF Fault
    <3>4. CASE ~(s.how = "rules" /\ ~Unreadable(tree[f]))
      <4>1. AtFault(s, tree, f) = f
        BY <3>4 DEF AtFault
      <4> QED
        BY <3>2, <4>1 DEF Fault
    <3> QED
      BY <3>3, <3>4
  <2> QED
    BY <2>1, <2>2
<1> QED
  BY <1>1, <1>2, <1>3, RefusalSafe

\* when a file is found harmless,
LEMMA PassFileSafe ==
  ASSUME GuardInv, PassFile
  PROVE  GuardInv'
<1> DEFINE s == Guard[tool][search]
           f == Head(todo)
<1>1. /\ verdict = Undecided /\ stack = <<>> /\ todo # <<>> /\ s.how # "chain"
      /\ ~Refuses(s, tree, f) /\ todo' = Tail(todo)
      /\ tool' = tool /\ tree' = tree /\ search' = search /\ stack' = stack /\ visited' = visited /\ verdict' = verdict
  BY DEF PassFile
<1>2. AtSearch /\ SafeSoFar
  BY DEF GuardInv
<1>3. /\ search \in DOMAIN Guard[tool] /\ Tail(todo) \in Seq(Searched(search))
      /\ \A g \in Range(todo) : g = f \/ g \in Range(Tail(todo))
  BY <1>1, HeadIs
<1>4. ~Unsafe(s, tree, f, FALSE)
  <2>1. Exact(s, tree, f)
    BY <1>1, FileIsExact
  <2> QED
    BY <1>1, <2>1 DEF Exact
<1> HIDE DEF f
<1>5. AtSearch'
  BY <1>1, <1>2, <1>3 DEF AtSearch, Searched, Files
<1>6. SafeSoFar'
  <2> SUFFICES ASSUME NEW q \in DOMAIN Guard[tool], NEW g \in Searched(q), q <= search
               PROVE  Pending(q, g)' \/ ~Unsafe(Guard[tool][q], tree, g, FALSE)
    BY <1>1 DEF SafeSoFar, Searched, Files
  <2>1. Pending(q, g) \/ ~Unsafe(Guard[tool][q], tree, g, FALSE)
    BY <1>2 DEF SafeSoFar
  <2>2. CASE Pending(q, g)
    <3>1. q = search /\ (g = f \/ g \in Range(todo'))
      BY <1>1, <1>3, <2>2 DEF Pending
    <3> QED
      BY <1>1, <1>4, <3>1 DEF Pending
  <2> QED
    BY <2>1, <2>2
<1>7. Decided'
  BY <1>1, VerdictsAre DEF Decided
<1> QED
  BY <1>5, <1>6, <1>7 DEF GuardInv

\* when a chain is started,
LEMMA StartChainSafe ==
  ASSUME GuardInv, StartChain
  PROVE  GuardInv'
<1> DEFINE s == Guard[tool][search]
           f == Head(todo)
           st == <<[at |-> f, rest |-> Values(tree[f], s.section)]>>
<1>1. /\ verdict = Undecided /\ stack = <<>> /\ todo # <<>> /\ s.how = "chain"
      /\ ~Unparseable(tree[f]) /\ stack' = st /\ visited' = {f} /\ todo' = Tail(todo)
      /\ tool' = tool /\ tree' = tree /\ search' = search /\ verdict' = verdict
  BY DEF StartChain
<1>2. AtSearch /\ SafeSoFar
  BY DEF GuardInv
<1>3. /\ search \in DOMAIN Guard[tool] /\ f \in Searched(search) /\ Tail(todo) \in Seq(Searched(search))
      /\ \A g \in Range(todo) : g = f \/ g \in Range(Tail(todo))
      /\ Fits(tree, s) /\ f \in DOMAIN tree /\ f \in Range(s.names)
  BY <1>1, HeadIs
<1>4. st # <<>> /\ st[1].at = f
  OBVIOUS
<1>5. Chain(tree, s, {f}, st)
  <2> HIDE DEF s, f
  <2> QED
    BY <1>1, <1>3, ChainStarts
<1> HIDE DEF f, st
<1>6. AtSearch'
  BY <1>1, <1>2, <1>3, <1>5 DEF AtSearch, Searched, Files
<1>7. SafeSoFar'
  <2> SUFFICES ASSUME NEW q \in DOMAIN Guard[tool], NEW g \in Searched(q), q <= search
               PROVE  Pending(q, g)' \/ ~Unsafe(Guard[tool][q], tree, g, FALSE)
    BY <1>1 DEF SafeSoFar, Searched, Files
  <2>1. Pending(q, g) \/ ~Unsafe(Guard[tool][q], tree, g, FALSE)
    BY <1>2 DEF SafeSoFar
  <2>2. CASE Pending(q, g)
    <3>1. q = search /\ (g = f \/ g \in Range(todo'))
      BY <1>1, <1>3, <2>2 DEF Pending
    <3> QED
      BY <1>1, <1>4, <3>1 DEF Pending
  <2> QED
    BY <2>1, <2>2
<1>8. Decided'
  BY <1>1, VerdictsAre DEF Decided
<1> QED
  BY <1>6, <1>7, <1>8 DEF GuardInv

\* The chain being walked.
LEMMA WalkingIs ==
  ASSUME GuardInv, Walking
  PROVE  /\ verdict = Undecided /\ stack # <<>> /\ search \in DOMAIN Guard[tool]
         /\ Chain(tree, Guard[tool][search], visited, stack)
         /\ stack[1].at \in Searched(search) /\ stack[1].at \in DOMAIN tree
         /\ Depth = Len(stack) - 1 /\ Top = stack[Len(stack)]
<1>1. verdict = Undecided /\ stack # <<>> /\ AtSearch /\ verdict.is # "refused"
  BY VerdictsAre DEF GuardInv, Walking
<1>2. search \in DOMAIN Guard[tool] /\ Chain(tree, Guard[tool][search], visited, stack)
  BY <1>1 DEF AtSearch
<1>3. stack[1].at \in DOMAIN tree /\ stack[1].at \in Range(Guard[tool][search].names)
  BY <1>2, ChainIs
<1> QED
  BY <1>1, <1>2, <1>3 DEF Searched, Files, Depth, Top

\* when a value of the chain is refused,
LEMMA RefuseHopSafe ==
  ASSUME GuardInv, RefuseHop
  PROVE  GuardInv'
<1> DEFINE s == Guard[tool][search]
           from == stack[1].at
           f == stack[Len(stack)].at
           v == Head(stack[Len(stack)].rest)
<1>1. Walking
  BY DEF RefuseHop
<1>2. /\ verdict = Undecided /\ search \in DOMAIN Guard[tool] /\ Chain(tree, s, visited, stack)
      /\ from \in Searched(search) /\ Depth = Len(stack) - 1 /\ Top = stack[Len(stack)]
  BY <1>1, WalkingIs
<1>3. /\ stack[Len(stack)].rest # <<>> /\ verdict' = Refused(f)
      /\ v \in {"deep", "outside"} \/ Len(stack) - 1 >= MaxChain \/ v \in visited
      /\ tool' = tool /\ tree' = tree /\ search' = search /\ todo' = todo /\ stack' = stack /\ visited' = visited
  BY <1>2 DEF RefuseHop, BadHop
<1>4. Fault(tree, s, from, visited, f)
  <2>1. v = Head(stack[Len(stack)].rest)
    OBVIOUS
  <2> HIDE DEF s, v
  <2> QED
    BY ONLY <1>2, <1>3, <2>1, ChainRefuses
<1> HIDE DEF from, f
<1> QED
  BY <1>2, <1>3, <1>4, RefusalSafe

\* A step along a chain that stays in it.
LEMMA StepSafe ==
  ASSUME GuardInv, Walking, tool' = tool, tree' = tree, search' = search, todo' = todo, verdict' = verdict,
         stack' # <<>>, Chain(tree, Guard[tool][search], visited', stack'), stack'[1].at = stack[1].at
  PROVE  GuardInv'
<1>1. verdict = Undecided /\ stack # <<>> /\ search \in DOMAIN Guard[tool]
  BY WalkingIs
<1>2. AtSearch /\ SafeSoFar
  BY DEF GuardInv
<1>3. AtSearch'
  BY <1>1, <1>2 DEF AtSearch, Searched, Files
<1>4. SafeSoFar'
  BY <1>1, <1>2 DEF SafeSoFar, Pending, Searched, Files
<1>5. Decided'
  BY <1>1, VerdictsAre DEF Decided
<1> QED
  BY <1>3, <1>4, <1>5 DEF GuardInv

\* when it names no file,
LEMMA SkipHopSafe ==
  ASSUME GuardInv, SkipHop
  PROVE  GuardInv'
<1> DEFINE s == Guard[tool][search]
           v == Head(stack[Len(stack)].rest)
<1>1. Walking
  BY DEF SkipHop
<1>2. /\ verdict = Undecided /\ stack # <<>> /\ Chain(tree, s, visited, stack)
      /\ Depth = Len(stack) - 1 /\ Top = stack[Len(stack)]
  BY <1>1, WalkingIs
<1>3. /\ stack[Len(stack)].rest # <<>>
      /\ v \notin {"deep", "outside"} /\ ~(Len(stack) - 1 >= MaxChain) /\ v \notin visited
      /\ v \notin DOMAIN tree /\ stack' = Advanced(stack)
      /\ tool' = tool /\ tree' = tree /\ search' = search /\ todo' = todo /\ visited' = visited /\ verdict' = verdict
  BY <1>2 DEF SkipHop, BadHop, Files, Rest, Advanced
<1>4. Chain(tree, s, visited, Advanced(stack)) /\ Advanced(stack)[1].at = stack[1].at
  <2> HIDE DEF s
  <2>1. Len(stack) \in Nat
    BY <1>2, ChainIs
  <2>2. Len(stack) - 1 < MaxChain
    BY <1>3, <2>1, MaxChainAssumption
  <2> QED
    BY <1>2, <1>3, <2>2, ChainSkips
<1>5. Advanced(stack) # <<>>
  BY <1>4, ChainIs
<1> QED
  BY <1>1, <1>3, <1>4, <1>5, StepSafe

\* when its file is read, and refused or followed,
LEMMA FollowHopSafe ==
  ASSUME GuardInv, FollowHop
  PROVE  GuardInv'
<1> DEFINE s == Guard[tool][search]
           from == stack[1].at
           v == Head(stack[Len(stack)].rest)
           call == [at |-> v, rest |-> Values(tree[v], FALSE)]
           new == Called(stack, call)
<1>1. Walking
  BY DEF FollowHop
<1>2. /\ verdict = Undecided /\ stack # <<>> /\ search \in DOMAIN Guard[tool] /\ Chain(tree, s, visited, stack)
      /\ from \in Searched(search) /\ Depth = Len(stack) - 1 /\ Top = stack[Len(stack)]
  BY <1>1, WalkingIs
<1>3. /\ stack[Len(stack)].rest # <<>>
      /\ v \notin {"deep", "outside"} /\ ~(Len(stack) - 1 >= MaxChain) /\ v \notin visited
      /\ v \in DOMAIN tree /\ visited' = visited \cup {v}
      /\ IF Unparseable(tree[v]) THEN verdict' = Refused(v) /\ stack' = stack
         ELSE stack' = new /\ verdict' = verdict
      /\ tool' = tool /\ tree' = tree /\ search' = search /\ todo' = todo
  BY <1>2 DEF FollowHop, BadHop, Files, Rest, Advanced, Called
<1>4. Len(stack) - 1 < MaxChain
  <2>1. Len(stack) \in Nat
    BY <1>2, ChainIs
  <2> QED
    BY <1>3, <2>1, MaxChainAssumption
<1>4a. v = Head(stack[Len(stack)].rest) /\ CallFor(tree, v, call)
  BY DEF CallFor
<1> HIDE DEF s, v, call
<1>5. CASE Unparseable(tree[v])
  <2>1. Fault(tree, s, from, visited \cup {v}, v)
    BY ONLY <1>2, <1>3, <1>4a, <1>5, ChainRefuses
  <2> QED
    BY <1>2, <1>3, <1>5, <2>1, RefusalSafe DEF s
<1>6. CASE ~Unparseable(tree[v])
  <2>1. Chain(tree, s, visited \cup {v}, new) /\ new[1].at = stack[1].at
    <3>1. /\ Chain(tree, s, visited, stack) /\ stack[Len(stack)].rest # <<>>
          /\ v = Head(stack[Len(stack)].rest) /\ v \notin {"deep", "outside"} /\ Len(stack) - 1 < MaxChain
          /\ v \notin visited /\ v \in DOMAIN tree /\ ~Unparseable(tree[v]) /\ CallFor(tree, v, call)
      BY <1>2, <1>3, <1>4, <1>4a, <1>6
    <3> QED
      BY ONLY <3>1, ChainFollows
  <2> HIDE DEF new
  <2>2. new # <<>>
    BY <2>1, ChainIs
  <2> QED
    BY <1>1, <1>3, <1>6, <2>1, <2>2, StepSafe DEF s
<1> QED
  BY <1>5, <1>6

\* and when a file of the chain is done with.
LEMMA ReturnHopSafe ==
  ASSUME GuardInv, ReturnHop
  PROVE  GuardInv'
<1> DEFINE s == Guard[tool][search]
           from == stack[1].at
           new == Front(stack)
<1>1. Walking
  BY DEF ReturnHop
<1>2. /\ verdict = Undecided /\ stack # <<>> /\ search \in DOMAIN Guard[tool] /\ Chain(tree, s, visited, stack)
      /\ Top = stack[Len(stack)]
  BY <1>1, WalkingIs
<1>3. /\ stack[Len(stack)].rest = <<>> /\ stack' = new
      /\ tool' = tool /\ tree' = tree /\ search' = search /\ todo' = todo /\ visited' = visited /\ verdict' = verdict
  BY <1>2 DEF ReturnHop
<1>4. \/ new # <<>> /\ Chain(tree, s, visited, new) /\ new[1].at = from
      \/ new = <<>> /\ ~Unsafe(s, tree, from, FALSE)
  <2> HIDE DEF s
  <2> QED
    BY <1>2, <1>3, ChainReturns
<1> HIDE DEF new, from
<1>5. CASE new # <<>>
  BY <1>1, <1>3, <1>4, <1>5, StepSafe DEF from
<1>6. CASE new = <<>>
  <2>1. AtSearch /\ SafeSoFar
    BY DEF GuardInv
  <2>2. AtSearch'
    BY <1>3, <1>6, <2>1 DEF AtSearch, Searched, Files
  <2>3. SafeSoFar'
    <3> SUFFICES ASSUME NEW q \in DOMAIN Guard[tool], NEW g \in Searched(q), q <= search
                 PROVE  Pending(q, g)' \/ ~Unsafe(Guard[tool][q], tree, g, FALSE)
      BY <1>3 DEF SafeSoFar, Searched, Files
    <3>1. Pending(q, g) \/ ~Unsafe(Guard[tool][q], tree, g, FALSE)
      BY <2>1 DEF SafeSoFar
    <3>2. CASE Pending(q, g)
      <4>1. q = search /\ (g = from \/ g \in Range(todo'))
        BY <1>3, <3>2 DEF Pending, from
      <4> QED
        BY <1>3, <1>4, <1>6, <4>1 DEF Pending
    <3> QED
      BY <3>1, <3>2
  <2>4. Decided'
    BY <1>2, <1>3, VerdictsAre DEF Decided
  <2> QED
    BY <2>2, <2>3, <2>4 DEF GuardInv
<1> QED
  BY <1>5, <1>6
\* Every step of a guard keeps the invariant.
LEMMA GuardStepSafe ==
  ASSUME GuardInv, GuardNext
  PROVE  GuardInv'
  BY NextSearchSafe, ApproveSafe, RefuseFileSafe, PassFileSafe, StartChainSafe,
     RefuseHopSafe, SkipHopSafe, FollowHopSafe, ReturnHopSafe DEF GuardNext

\* A step that leaves the guard alone keeps it too.
LEMMA GuardStutters ==
  ASSUME GuardInv, UNCHANGED guardVars
  PROVE  GuardInv'
<1>1. /\ tool' = tool /\ tree' = tree /\ search' = search /\ todo' = todo /\ stack' = stack
      /\ visited' = visited /\ verdict' = verdict
  BY DEF guardVars
<1> QED
  BY <1>1 DEF GuardInv, AtSearch, SafeSoFar, Decided, Pending, Searched, Files

\* The tool runs, and nothing is left of the guard's walk.
LEMMA RunToolSafe ==
  ASSUME GuardInv, RunTool
  PROVE  GuardInv'
<1>1. /\ verdict = Safe /\ tree' = <<>> /\ search' = 0 /\ stack' = <<>> /\ visited' = {}
      /\ verdict' = Undecided /\ tool' = "unguarded" /\ todo' = todo
  BY DEF RunTool
<1>2. todo = <<>>
  BY <1>1, VerdictsAre DEF GuardInv, Decided
<1>3. "unguarded" \in DOMAIN Guard /\ Guard["unguarded"] = <<>> /\ DOMAIN <<>> = {} /\ Len(<<>>) = 0
  BY DEF Guard
<1>4. AtSearch'
  BY <1>1, <1>2, <1>3 DEF AtSearch
<1>5. SafeSoFar'
  BY <1>1, <1>3 DEF SafeSoFar
<1>6. Decided'
  BY <1>1, VerdictsAre DEF Decided
<1> QED
  BY <1>4, <1>5, <1>6 DEF GuardInv

\* What the invariant says of a guard that has decided.
LEMMA InvIsExact ==
  ASSUME GuardInv
  PROVE  GuardIsExact
<1>1. AtSearch /\ SafeSoFar /\ Decided
  BY DEF GuardInv
<1>2. ASSUME verdict.is = "safe", NEW s \in DOMAIN Guard[tool], NEW f \in Searched(s)
      PROVE  ~Unsafe(Guard[tool][s], tree, f, FALSE)
  <2>1. todo = <<>> /\ stack = <<>> /\ search = Len(Guard[tool])
    BY <1>1, <1>2 DEF Decided
  <2>2. Len(Guard[tool]) \in Nat /\ DOMAIN Guard[tool] = 1..Len(Guard[tool])
    BY <1>1, GuardIs DEF AtSearch
  <2>3. s <= search
    BY <2>1, <2>2
  <2>4. Range(<<>>) = {}
    BY DEF Range
  <2>5. ~Pending(s, f)
    BY <2>1, <2>4 DEF Pending
  <2> QED
    BY <1>1, <2>3, <2>5 DEF SafeSoFar
<1>3. ASSUME verdict.is = "refused"
      PROVE  \E s \in DOMAIN Guard[tool] : \E f \in Searched(s) :
               /\ Unsafe(Guard[tool][s], tree, f, TRUE)
               /\ \/ f = verdict.at
                  \/ Guard[tool][s].how = "rules" /\ verdict.at \in Range(RuleFiles) \cap Files
                  \/ /\ verdict.at \in visited
                     /\ Garbled(tree[verdict.at]) \/ Named(tree[verdict.at], FALSE) # <<>>
  BY <1>1, <1>3 DEF Decided, Fault, Files
<1> QED
  BY <1>2, <1>3 DEF GuardIsExact

\* Each of the eleven guards refuses what it must and only what it may, and names a
\* file that was read and found at fault, or a rule that is there, for every tree,
\* every text and every chain bound.
THEOREM GuardAlone == GuardSpec => []GuardIsExact
<1>1. GuardInit => GuardInv
  BY InitSafe
<1>2. GuardInv /\ [GuardNext]_guardVars => GuardInv'
  BY GuardStepSafe, GuardStutters
<1>3. GuardInv => GuardIsExact
  BY InvIsExact
<1> QED
  BY <1>1, <1>2, <1>3, PTL DEF GuardSpec

\* So does the guard of every check, which runs before the tool.
THEOREM GuardBeforeTool == CheckSpec => []GuardIsExact
<1>1. CheckInit => GuardInv
  BY InitSafe DEF CheckInit
<1>2. GuardInv /\ [CheckNext]_<<guardVars, reportVars>> => GuardInv'
  BY GuardStepSafe, GuardStutters, RunToolSafe DEF CheckNext, Guarding, Reporting
<1>3. GuardInv => GuardIsExact
  BY InvIsExact
<1> QED
  BY <1>1, <1>2, <1>3, PTL DEF CheckSpec

-------------------------------------------------------------------------------
(* Paths                                                                       *)

\* The names in a path, and the two that are none of a file.
Steps == FileNames \cup {".", ".."}

LEMMA StepsDiffer ==
  /\ FileNames \subseteq Steps /\ "." \in Steps /\ ".." \in Steps
  /\ \A x \in FileNames : x # "." /\ x # ".."
  BY Zenon DEF Steps, FileNames

\* What path leads to, from the names in out on.
Leads(out, path, to) ==
  \E f \in [0..Len(path) -> Seq(Steps)] :
    f[0] = out /\ f[Len(path)] = to /\ \A i \in 1..Len(path) : f[i] = Enter(f[i - 1], path[i])

\* A name is put behind the names before it, or takes one away.
LEMMA EnterIs ==
  ASSUME NEW out \in Seq(Steps), NEW name \in Steps
  PROVE  Enter(out, name) \in Seq(Steps)
<1>1. CASE name = "."
  BY <1>1 DEF Enter
<1>2. CASE name = ".."
  <2>1. Append(out, "..") \in Seq(Steps)
    BY StepsDiffer
  <2>2. out # <<>> => Front(out) \in Seq(Steps)
    BY DEF Front
  <2> QED
    BY <1>2, <2>1, <2>2 DEF Enter
<1>3. CASE name \notin {".", ".."}
  <2>1. Enter(out, name) = Append(out, name)
    BY <1>3 DEF Enter
  <2> QED
    BY <2>1
<1> QED
  BY <1>1, <1>2, <1>3

\* Two paths, one after the other.
LEMMA LeadsOn ==
  ASSUME NEW a \in Seq(Steps), NEW p \in Seq(Steps), NEW b \in Seq(Steps),
         NEW q \in Seq(Steps), NEW c, Leads(a, p, b), Leads(b, q, c)
  PROVE  Leads(a, p \o q, c)
<1> DEFINE n == Len(p)
           m == Len(q)
           pq == p \o q
<1>1. Concat(pq, Steps, p, q) /\ n \in Nat /\ m \in Nat
  BY ConcatIs
<1> HIDE DEF pq
<1>2. PICK f \in [0..n -> Seq(Steps)] :
        f[0] = a /\ f[n] = b /\ \A i \in 1..n : f[i] = Enter(f[i - 1], p[i])
  BY DEF Leads
<1>3. PICK g \in [0..m -> Seq(Steps)] :
        g[0] = b /\ g[m] = c /\ \A i \in 1..m : g[i] = Enter(g[i - 1], q[i])
  BY DEF Leads
<1>4. Len(pq) = n + m /\ (\A i \in 1..n : pq[i] = p[i]) /\ \A j \in 1..m : pq[n + j] = q[j]
  BY <1>1 DEF Concat
<1> HIDE DEF n, m
<1> DEFINE h == [i \in 0..(n + m) |-> IF i <= n THEN f[i] ELSE g[i - n]]
<1>5. h \in [0..(n + m) -> Seq(Steps)]
  <2> SUFFICES ASSUME NEW i \in 0..(n + m) PROVE (IF i <= n THEN f[i] ELSE g[i - n]) \in Seq(Steps)
    OBVIOUS
  <2>1. i <= n => i \in 0..n
    BY <1>1
  <2>2. ~(i <= n) => i - n \in 0..m
    BY <1>1
  <2> QED
    BY <1>2, <1>3, <2>1, <2>2
<1>6. h[0] = a
  BY <1>1, <1>2
<1>7. h[n + m] = c
  <2>1. CASE m = 0
    BY <1>1, <1>2, <1>3, <2>1
  <2>2. CASE m # 0
    <3>1. ~(n + m <= n) /\ (n + m) - n = m /\ n + m \in 0..(n + m)
      BY <1>1, <2>2
    <3> QED
      BY <1>3, <3>1
  <2> QED
    BY <2>1, <2>2
<1>8. ASSUME NEW i \in 1..(n + m) PROVE h[i] = Enter(h[i - 1], pq[i])
  <2>0. i \in 0..(n + m) /\ i - 1 \in 0..(n + m)
    BY <1>1
  <2>1. CASE i <= n
    <3>1. i \in 1..n /\ i - 1 <= n
      BY <1>1, <2>1
    <3>2. h[i] = f[i] /\ h[i - 1] = f[i - 1]
      BY <2>0, <2>1, <3>1
    <3> QED
      BY <1>2, <1>4, <3>1, <3>2
  <2>2. CASE ~(i <= n)
    <3> DEFINE j == i - n
    <3>1. j \in 1..m /\ n + j = i /\ (i - 1) - n = j - 1
      BY <1>1, <2>2
    <3>2. h[i] = g[j]
      BY <2>0, <2>2
    <3>3. h[i - 1] = g[j - 1]
      <4>1. CASE i - 1 <= n
        <5>1. i - 1 = n /\ j - 1 = 0
          BY <1>1, <2>2, <4>1
        <5> QED
          BY <1>2, <1>3, <2>0, <4>1, <5>1
      <4>2. CASE ~(i - 1 <= n)
        BY <2>0, <3>1, <4>2
      <4> QED
        BY <4>1, <4>2
    <3>4. pq[i] = q[j]
      BY <1>4, <3>1
    <3> HIDE DEF j, h
    <3> QED
      BY <1>3, <3>1, <3>2, <3>3, <3>4
  <2> QED
    BY <2>1, <2>2
<1>9. \A i \in 1..(n + m) : h[i] = Enter(h[i - 1], pq[i])
  BY <1>8
<1> HIDE DEF h
<1>10. h \in [0..Len(pq) -> Seq(Steps)] /\ h[0] = a /\ h[Len(pq)] = c
  BY <1>4, <1>5, <1>6, <1>7
<1>11. \A i \in 1..Len(pq) : h[i] = Enter(h[i - 1], pq[i])
  BY <1>4, <1>9
<1>12. Leads(a, pq, c)
  BY <1>10, <1>11 DEF Leads
<1> QED
  BY <1>12 DEF pq

\* A path leads from nothing to what Clean makes of it.
LEMMA CleanIs ==
  ASSUME NEW p \in Seq(Steps), NEW r, Leads(<<>>, p, r)
  PROVE  Clean(p) = r
<1> DEFINE n == Len(p)
           w(k) == IF k \in 1..n THEN p[k] ELSE "."
           D == [q \in Seq(Steps) \X Nat |-> Enter(q[1], w(q[2]))]
           Run0(F) == F = [i \in 0..n |-> IF i = 0 THEN <<>> ELSE Enter(F[i - 1], p[i])]
           out == CHOOSE F : Run0(F)
<1>0. n \in Nat /\ <<>> \in Seq(Steps) /\ \A i \in 1..n : p[i] \in Steps
  OBVIOUS
<1>1. D \in [Seq(Steps) \X Nat -> Seq(Steps)]
  <2>1. \A k \in Nat : w(k) \in Steps
    BY <1>0, StepsDiffer
  <2> HIDE DEF w
  <2>2. \A q \in Seq(Steps) \X Nat : Enter(q[1], w(q[2])) \in Seq(Steps)
    BY <2>1, EnterIs
  <2> QED
    BY <2>2
<1>2. PICK f \in [0..n -> Seq(Steps)] :
        f[0] = <<>> /\ f[n] = r /\ \A i \in 1..n : f[i] = Enter(f[i - 1], p[i])
  BY DEF Leads
<1>3. Run0(f)
  <2>1. \A i \in 0..n : f[i] = IF i = 0 THEN <<>> ELSE Enter(f[i - 1], p[i])
    <3> TAKE i \in 0..n
    <3>1. i = 0 \/ i \in 1..n
      BY <1>0
    <3> QED
      BY <1>2, <3>1
  <2>2. f = [i \in 0..n |-> f[i]]
    BY <1>2
  <2> QED
    BY <2>1, <2>2
<1>4. Run0(out)
  BY <1>3
<1>5. Clean(p) = out[n]
  BY DEF Clean, out, n
<1> HIDE DEF out
<1>6. ASSUME NEW i \in 1..n, out[i - 1] \in Seq(Steps) PROVE out[i] = D[<<out[i - 1], i>>]
  <2>1. i \in 0..n /\ i # 0 /\ i \in Nat
    BY <1>0
  <2>2. out[i] = Enter(out[i - 1], p[i])
    BY <1>4, <2>1
  <2> QED
    BY <1>6, <2>1, <2>2
<1>7. out[0] = <<>>
  BY <1>0, <1>4
<1>8. \A i \in 1..n : out[i - 1] \in Seq(Steps) => out[i] = Enter(out[i - 1], p[i])
  BY <1>0, <1>4
<1> DEFINE T == {i \in 0..n : out[i] = f[i]}
<1>9. 0 \in T
  BY <1>0, <1>2, <1>7
<1>10. ASSUME NEW i \in 1..n, i - 1 \in T PROVE i \in T
  <2>1. i \in 0..n /\ i - 1 \in 0..n
    BY <1>0
  <2>2. out[i - 1] = f[i - 1] /\ f[i - 1] \in Seq(Steps)
    BY <1>2, <1>10, <2>1
  <2> QED
    BY <1>2, <1>8, <2>1, <2>2
<1> HIDE DEF T, Run0
<1>11. \A i \in 0..n : i \in T
  BY <1>0, <1>9, <1>10, Induction
<1>12. out[n] = f[n]
  BY <1>0, <1>11 DEF T
<1> QED
  BY <1>2, <1>5, <1>12

\* Some first elements of a sequence, and one more.
LEMMA FirstIs ==
  ASSUME NEW S, NEW s \in Seq(S), NEW i \in 0..Len(s)
  PROVE  /\ SubSeq(s, 1, i) \in Seq(S) /\ Len(SubSeq(s, 1, i)) = i
         /\ \A j \in 1..i : SubSeq(s, 1, i)[j] = s[j]
  OBVIOUS

LEMMA FirstNext ==
  ASSUME NEW S, NEW s \in Seq(S), NEW i \in 1..Len(s)
  PROVE  /\ SubSeq(s, 1, i) = Append(SubSeq(s, 1, i - 1), s[i])
         /\ Front(SubSeq(s, 1, i)) = SubSeq(s, 1, i - 1)
         /\ Last(SubSeq(s, 1, i)) = s[i]
<1>0. i \in 0..Len(s) /\ i - 1 \in 0..Len(s) /\ s[i] \in S /\ i \in 1..i
  OBVIOUS
<1> DEFINE a == SubSeq(s, 1, i)
           b == SubSeq(s, 1, i - 1)
<1>1. a \in Seq(S) /\ Len(a) = i /\ \A j \in 1..i : a[j] = s[j]
  BY <1>0, FirstIs
<1>2. b \in Seq(S) /\ Len(b) = i - 1 /\ \A j \in 1..(i - 1) : b[j] = s[j]
  BY <1>0, FirstIs
<1> HIDE DEF a, b
<1>3. a = Append(b, s[i])
  <2> DEFINE c == Append(b, s[i])
  <2>1. c \in Seq(S) /\ Len(c) = i /\ \A j \in 1..i : c[j] = s[j]
    BY <1>0, <1>2
  <2> HIDE DEF c
  <2>2. a = c
    BY <1>1, <2>1, SameSeq
  <2> QED
    BY <2>2 DEF c
<1>4. Last(a) = s[i]
  BY <1>0, <1>1 DEF Last
<1>5. Front(a) = b
  <2> DEFINE c == SubSeq(a, 1, i - 1)
  <2>1. c \in Seq(S) /\ Len(c) = i - 1 /\ \A j \in 1..(i - 1) : c[j] = a[j]
    BY <1>0, <1>1, FirstIs
  <2>2. \A j \in 1..(i - 1) : j \in 1..i
    BY <1>0
  <2> HIDE DEF c
  <2>3. b = c
    BY <1>1, <1>2, <2>1, <2>2, SameSeq
  <2> QED
    BY <1>1, <2>3 DEF c, Front
<1> QED
  BY <1>3, <1>4, <1>5 DEF a, b

\* A sequence is all of its first elements, and none is the empty one.
LEMMA FirstAll ==
  ASSUME NEW S, NEW s \in Seq(S)
  PROVE  SubSeq(s, 1, Len(s)) = s /\ SubSeq(s, 1, 0) = <<>>
<1>1. SubSeq(s, 1, Len(s)) \in Seq(S) /\ Len(SubSeq(s, 1, Len(s))) = Len(s)
      /\ \A j \in 1..Len(s) : SubSeq(s, 1, Len(s))[j] = s[j]
  OBVIOUS
<1> QED
  BY <1>1, SameSeq

\* The elements of one sequence behind those of another, and one more.
BehindBoth(o, s, x) == Append(o \o s, x) = o \o Append(s, x)

LEMMA Behind ==
  ASSUME NEW S, NEW o \in Seq(S), NEW s \in Seq(S), NEW x \in S
  PROVE  BehindBoth(o, s, x)
<1> DEFINE a == Append(o \o s, x)
           t == Append(s, x)
           b == o \o t
           os == o \o s
           n == Len(o)
           m == Len(s)
<1>2. Concat(os, S, o, s) /\ t \in Seq(S) /\ Len(t) = m + 1 /\ n \in Nat /\ m \in Nat
      /\ t[m + 1] = x /\ \A i \in 1..m : t[i] = s[i]
  BY ConcatIs
<1>3. Concat(b, S, o, t)
  BY <1>2, ConcatIs
<1>4. a = Append(os, x)
  OBVIOUS
<1> HIDE DEF os, b, t, a
<1>5. os \in Seq(S) /\ Len(os) = n + m /\ (\A i \in 1..n : os[i] = o[i])
      /\ \A j \in 1..m : os[n + j] = s[j]
  BY <1>2 DEF Concat
<1>6. b \in Seq(S) /\ Len(b) = n + (m + 1) /\ (\A i \in 1..n : b[i] = o[i])
      /\ \A j \in 1..(m + 1) : b[n + j] = t[j]
  BY <1>2, <1>3 DEF Concat
<1>11. n \in Nat /\ m \in Nat
  OBVIOUS
<1> HIDE DEF n, m
<1>7. a \in Seq(S) /\ Len(a) = n + m + 1 /\ a[n + m + 1] = x /\ \A i \in 1..(n + m) : a[i] = os[i]
  BY <1>2, <1>4, <1>5
<1>8. \A i \in 1..(n + m + 1) : a[i] = b[i]
  <2> TAKE i \in 1..(n + m + 1)
  <2>1. CASE i \in 1..n
    BY <1>2, <1>5, <1>6, <1>7, <2>1
  <2>2. CASE i = n + m + 1
    <3>1. m + 1 \in 1..(m + 1) /\ n + (m + 1) = i
      BY <1>11, <2>2
    <3> QED
      BY <1>2, <1>6, <1>7, <2>2, <3>1
  <2>3. CASE i \notin 1..n /\ i # n + m + 1
    <3> DEFINE j == i - n
    <3>1. j \in 1..m /\ j \in 1..(m + 1) /\ n + j = i /\ i \in 1..(n + m)
      BY <1>11, <2>3
    <3> HIDE DEF j
    <3> QED
      BY <1>2, <1>5, <1>6, <1>7, <3>1
  <2> QED
    BY <2>1, <2>2, <2>3
<1>9. Len(a) = Len(b)
  BY <1>2, <1>6, <1>7
<1>10. a = b
  BY <1>6, <1>7, <1>8, <1>9, SameSeq
<1> QED
  BY <1>10 DEF a, b, t, os, BehindBoth

\* The names of a file go behind any.
LEMMA LeadsTo ==
  ASSUME NEW o \in Seq(Steps), NEW file \in Paths
  PROVE  Leads(o, file, o \o file) /\ o \o file \in Seq(Steps) /\ file \in Seq(Steps)
<1> DEFINE n == Len(file)
           f == [i \in 0..n |-> o \o SubSeq(file, 1, i)]
<1>1. file \in Seq(FileNames) /\ n \in Nat
  BY DEF Paths
<1>2. \A i \in 1..n : file[i] \in FileNames
  BY <1>1
<1>3. file \in Seq(Steps)
  BY <1>1, StepsDiffer
<1>4. o \o file \in Seq(Steps)
  BY <1>3, JoinedTo
<1>5. \A i \in 0..n : SubSeq(file, 1, i) \in Seq(Steps)
  BY <1>3, FirstIs
<1>6. f \in [0..n -> Seq(Steps)]
  BY <1>5, JoinedTo
<1>7. f[0] = o /\ f[n] = o \o file
  <2>1. SubSeq(file, 1, n) = file /\ SubSeq(file, 1, 0) = <<>>
    BY <1>3, FirstAll
  <2>2. 0 \in 0..n /\ n \in 0..n /\ o \o <<>> = o
    BY <1>1, ConcatEmptySeq
  <2> QED
    BY <2>1, <2>2
<1>8. ASSUME NEW i \in 1..n PROVE f[i] = Enter(f[i - 1], file[i])
  <2>1. i \in 0..n /\ i - 1 \in 0..n /\ file[i] \in FileNames /\ file[i] \in Steps
    BY <1>1, <1>2, StepsDiffer
  <2>2. SubSeq(file, 1, i) = Append(SubSeq(file, 1, i - 1), file[i])
    BY <1>3, FirstNext
  <2>3. f[i] = o \o SubSeq(file, 1, i) /\ f[i - 1] = o \o SubSeq(file, 1, i - 1)
    BY <2>1
  <2>4. f[i] = Append(f[i - 1], file[i])
    <3> DEFINE s == SubSeq(file, 1, i - 1)
               x == file[i]
    <3>1. o \in Seq(Steps) /\ s \in Seq(Steps) /\ x \in Steps
      BY <1>5, <2>1
    <3> HIDE DEF s, x
    <3>2. BehindBoth(o, s, x)
      BY <3>1, Behind
    <3> QED
      BY <2>2, <2>3, <3>2 DEF s, x, BehindBoth
  <2>5. file[i] # "." /\ file[i] # ".."
    BY <2>1, StepsDiffer
  <2> HIDE DEF f
  <2> QED
    BY <2>4, <2>5 DEF Enter
<1> HIDE DEF f
<1> QED
  BY <1>3, <1>4, <1>6, <1>7, <1>8 DEF Leads

\* A "." leads nowhere else.
LEMMA LeadsNowhere ==
  ASSUME NEW o \in Seq(Steps)
  PROVE  Leads(o, <<".">>, o) /\ <<".">> \in Seq(Steps)
<1> DEFINE f == [i \in 0..1 |-> o]
           p == <<".">>
<1>1. f \in [0..1 -> Seq(Steps)] /\ f[0] = o /\ f[1] = o
  OBVIOUS
<1>2. Len(p) = 1 /\ p[1] = "."
  OBVIOUS
<1>3. p \in Seq(Steps)
  BY StepsDiffer
<1>4. Enter(o, ".") = o
  BY DEF Enter
<1>5. \A i \in 1..1 : i = 1 /\ i - 1 = 0
  OBVIOUS
<1> HIDE DEF f, p
<1>6. \A i \in 1..1 : f[i] = Enter(f[i - 1], p[i])
  BY <1>1, <1>2, <1>4, <1>5
<1>7. Leads(o, p, o)
  BY <1>1, <1>2, <1>6 DEF Leads
<1> QED
  BY <1>3, <1>7 DEF p

\* As many ".." as there are names in a path, with nothing before them or after.
Ups(cwd) == [i \in 1..Len(cwd) |-> ".."]

LEMMA UpsAre ==
  ASSUME NEW cwd \in Paths
  PROVE  /\ Ups(cwd) \in Seq(Steps) /\ Len(Ups(cwd)) = Len(cwd) /\ Len(cwd) \in Nat
         /\ \A i \in 1..Len(cwd) : Ups(cwd)[i] = ".."
<1>1. Len(cwd) \in Nat
  BY DEF Paths
<1>2. Ups(cwd) \in [1..Len(cwd) -> Steps]
  BY <1>1, StepsDiffer DEF Ups
<1>3. \A i \in 1..Len(cwd) : Ups(cwd)[i] = ".."
  BY DEF Ups
<1> HIDE DEF Ups
<1> QED
  BY <1>1, <1>2, <1>3, SeqOfFunction

\* They lead back to before the path.
LEMMA LeadsBack ==
  ASSUME NEW pre \in Paths, NEW cwd \in Paths
  PROVE  Leads(pre \o cwd, Ups(cwd), pre)
<1> DEFINE w == pre \o cwd
           n == Len(pre)
           m == Len(cwd)
           u == Ups(cwd)
<1>0. pre \in Seq(FileNames) /\ cwd \in Seq(FileNames) /\ n \in Nat /\ m \in Nat
  BY DEF Paths
<1>1. Concat(w, FileNames, pre, cwd)
  BY <1>0, ConcatIs
<1>2. Len(u) = m /\ \A i \in 1..m : u[i] = ".."
  BY UpsAre
<1> HIDE DEF w, u
<1>3. w \in Seq(FileNames) /\ Len(w) = n + m /\ \A i \in 1..n : w[i] = pre[i]
  BY <1>1 DEF Concat
<1>4. w \in Seq(Steps)
  BY <1>3, StepsDiffer
<1> HIDE DEF n, m
<1> DEFINE f == [i \in 0..m |-> SubSeq(w, 1, (n + m) - i)]
<1>5. \A i \in 0..m : (n + m) - i \in 0..Len(w)
  BY <1>0, <1>3
<1>6. f \in [0..m -> Seq(Steps)]
  BY <1>4, <1>5, FirstIs
<1>7. f[0] = w
  <2>1. (n + m) - 0 = Len(w) /\ 0 \in 0..m
    BY <1>0, <1>3
  <2> QED
    BY <1>4, <2>1, FirstAll
<1>8. f[m] = pre
  <2>1. (n + m) - m = n /\ m \in 0..m /\ n \in 0..Len(w)
    BY <1>0, <1>3
  <2> DEFINE s == SubSeq(w, 1, n)
  <2>2. s \in Seq(FileNames) /\ Len(s) = n /\ \A j \in 1..n : s[j] = w[j]
    BY <1>3, <2>1, FirstIs
  <2>3. f[m] = s
    BY <2>1
  <2> HIDE DEF s
  <2>4. Len(s) = Len(pre) /\ \A j \in 1..Len(s) : s[j] = pre[j]
    BY <1>3, <2>2 DEF n
  <2>5. s = pre
    BY <1>0, <2>2, <2>4, SameSeq
  <2> QED
    BY <2>3, <2>5
<1>9. ASSUME NEW i \in 1..m PROVE f[i] = Enter(f[i - 1], u[i])
  <2> DEFINE k == (n + m) - (i - 1)
  <2>1. k \in 1..Len(w) /\ k - 1 = (n + m) - i /\ i \in 0..m /\ i - 1 \in 0..m
    BY <1>0, <1>3
  <2>2. f[i] = SubSeq(w, 1, k - 1) /\ f[i - 1] = SubSeq(w, 1, k)
    BY <2>1
  <2> HIDE DEF k, f
  <2>3. Front(SubSeq(w, 1, k)) = SubSeq(w, 1, k - 1) /\ Last(SubSeq(w, 1, k)) = w[k]
    BY <1>4, <2>1, FirstNext
  <2>4. w[k] # ".."
    BY <1>3, <2>1, StepsDiffer
  <2>5. SubSeq(w, 1, k) # <<>>
    <3>1. k \in 0..Len(w) /\ k # 0
      BY <1>3, <2>1
    <3>2. Len(SubSeq(w, 1, k)) = k
      BY <1>4, <3>1, FirstIs
    <3> QED
      BY <3>1, <3>2
  <2>6. Enter(f[i - 1], "..") = Front(f[i - 1])
    BY <2>2, <2>3, <2>4, <2>5 DEF Enter
  <2> QED
    BY <1>2, <2>2, <2>3, <2>6
<1> HIDE DEF f
<1>10. Leads(w, u, pre)
  BY <1>2, <1>6, <1>7, <1>8, <1>9 DEF Leads
<1> QED
  BY <1>10 DEF w, u

\* Without a path before them they stay.
LEMMA LeadsUp ==
  ASSUME NEW cwd \in Paths
  PROVE  Leads(<<>>, Ups(cwd), Ups(cwd))
<1> DEFINE m == Len(cwd)
           u == Ups(cwd)
           f == [i \in 0..m |-> SubSeq(u, 1, i)]
<1>1. u \in Seq(Steps) /\ Len(u) = m /\ m \in Nat /\ \A i \in 1..m : u[i] = ".."
  BY UpsAre
<1> HIDE DEF u
<1>2. f \in [0..m -> Seq(Steps)]
  BY <1>1, FirstIs
<1>3. f[0] = <<>> /\ f[m] = u
  BY <1>1, FirstAll
<1>4. ASSUME NEW i \in 1..m PROVE f[i] = Enter(f[i - 1], u[i])
  <2>1. i \in 0..m /\ i - 1 \in 0..m /\ i \in 1..Len(u)
    BY <1>1
  <2>2. f[i] = SubSeq(u, 1, i) /\ f[i - 1] = SubSeq(u, 1, i - 1)
    BY <2>1
  <2> HIDE DEF f
  <2>3. f[i] = Append(f[i - 1], "..")
    BY <1>1, <2>1, <2>2, FirstNext
  <2>4. f[i - 1] = <<>> \/ Last(f[i - 1]) = ".."
    <3>1. CASE i = 1
      <4>1. i - 1 = 0
        BY <3>1
      <4> QED
        BY <1>3, <4>1
    <3>2. CASE i # 1
      <4>1. i - 1 \in 1..m
        BY <1>1, <3>2, OneBefore
      <4>2. Last(SubSeq(u, 1, i - 1)) = u[i - 1]
        BY <1>1, <4>1, FirstNext
      <4> QED
        BY <1>1, <2>2, <4>1, <4>2
    <3> QED
      BY <3>1, <3>2
  <2>5. Enter(f[i - 1], "..") = Append(f[i - 1], "..")
    BY <2>4 DEF Enter
  <2> QED
    BY <1>1, <2>3, <2>5
<1> HIDE DEF f
<1>5. Leads(<<>>, u, u)
  BY <1>1, <1>2, <1>3, <1>4 DEF Leads
<1> QED
  BY <1>5 DEF u

\* What a sequence begins with, and what comes then.
LEMMA RestIs ==
  ASSUME NEW S, NEW s \in Seq(S), NEW u \in Seq(S), NEW t, Adds(s, u, t)
  PROVE  /\ t \in Seq(S) /\ IsPrefix(s, t) /\ SubSeq(t, Len(s) + 1, Len(t)) = u
         /\ Len(t) = Len(s) + Len(u)
<1> DEFINE n == Len(s)
           m == Len(u)
           x == SubSeq(t, 1, n)
           y == SubSeq(t, n + 1, n + m)
           z == SubSeq(s, 1, n)
<1>1. n \in Nat /\ m \in Nat
  OBVIOUS
<1>2. Concat(t, S, s, u)
  BY ConcatIs DEF Adds
<1>3. t \in Seq(S) /\ Len(t) = n + m /\ (\A i \in 1..n : t[i] = s[i]) /\ \A j \in 1..m : t[n + j] = u[j]
  BY <1>2 DEF Concat
<1>4. z = s
  BY FirstAll
<1>5. n \in 0..Len(t)
  BY <1>1, <1>3
<1>6. x \in Seq(S) /\ Len(x) = n /\ \A i \in 1..n : x[i] = t[i]
  BY <1>3, <1>5, FirstIs
<1>7. y \in Seq(S) /\ Len(y) = m /\ \A j \in 1..m : y[j] = t[n + j]
  BY <1>1, <1>3
<1> HIDE DEF x, y, z
<1>8. x = s
  BY <1>3, <1>6, SameSeq
<1>9. y = u
  BY <1>3, <1>7, SameSeq
<1>10. Len(s) <= Len(t)
  BY <1>1, <1>3
<1> QED
  BY <1>3, <1>4, <1>8, <1>9, <1>10 DEF x, y, z, IsPrefix

LEMMA PrefixIs ==
  ASSUME NEW S, NEW s \in Seq(S), NEW t \in Seq(S), IsPrefix(s, t)
  PROVE  /\ SubSeq(t, Len(s) + 1, Len(t)) \in Seq(S)
         /\ Adds(s, SubSeq(t, Len(s) + 1, Len(t)), t)
<1> DEFINE n == Len(s)
           k == Len(t)
           y == SubSeq(t, n + 1, k)
           x == SubSeq(t, 1, n)
           a == s \o y
<1>1. n \in Nat /\ k \in Nat
  OBVIOUS
<1>2. n <= k /\ x = SubSeq(s, 1, n)
  BY DEF IsPrefix
<1>3. x = s
  BY <1>2, FirstAll
<1>4. n \in 0..k
  BY <1>1, <1>2
<1>5. Len(x) = n /\ \A i \in 1..n : x[i] = t[i]
  BY <1>4, FirstIs
<1>6. y \in Seq(S) /\ Len(y) = k - n /\ \A j \in 1..(k - n) : y[j] = t[n + j]
  BY <1>1, <1>4
<1> HIDE DEF x, y
<1>7. Concat(a, S, s, y)
  BY <1>6, ConcatIs
<1> HIDE DEF a
<1>8. a \in Seq(S) /\ Len(a) = n + (k - n) /\ (\A i \in 1..n : a[i] = s[i])
      /\ \A j \in 1..(k - n) : a[n + j] = y[j]
  BY <1>6, <1>7 DEF Concat
<1> HIDE DEF n, k
<1>9. Len(a) = k
  BY <1>1, <1>8
<1>10. \A i \in 1..k : a[i] = t[i]
  <2> TAKE i \in 1..k
  <2>1. CASE i <= n
    <3>1. i \in 1..n
      BY <1>1, <2>1
    <3> QED
      BY <1>3, <1>5, <1>8, <3>1
  <2>2. CASE ~(i <= n)
    <3> DEFINE j == i - n
    <3>1. j \in 1..(k - n) /\ n + j = i
      BY <1>1, <2>2
    <3> HIDE DEF j
    <3> QED
      BY <1>6, <1>8, <3>1
  <2> QED
    BY <2>1, <2>2
<1>11. a = t
  BY <1>8, <1>9, <1>10, SameSeq DEF k
<1> QED
  BY <1>6, <1>11 DEF a, y, n, k, Adds

\* Paths, one after the other.
LEMMA PathsJoin ==
  ASSUME NEW p \in Paths, NEW q \in Paths
  PROVE  /\ p \o q \in Paths /\ Adds(p, q, p \o q) /\ Len(p \o q) = Len(p) + Len(q)
         /\ \A r \in Paths : Adds(p, r, p \o q) => r = q
<1>1. p \in Seq(FileNames) /\ q \in Seq(FileNames)
  BY DEF Paths
<1> DEFINE pq == p \o q
<1>2. Adds(p, q, pq)
  BY DEF Adds
<1> HIDE DEF pq
<1>3. /\ pq \in Seq(FileNames) /\ SubSeq(pq, Len(p) + 1, Len(pq)) = q
      /\ Len(pq) = Len(p) + Len(q)
  BY <1>1, <1>2, RestIs
<1>4. ASSUME NEW r \in Paths, Adds(p, r, pq) PROVE r = q
  <2>1. r \in Seq(FileNames)
    BY DEF Paths
  <2>2. SubSeq(pq, Len(p) + 1, Len(pq)) = r
    BY <1>1, <1>4, <2>1, RestIs
  <2> QED
    BY <1>3, <2>2
<1> QED
  BY <1>2, <1>3, <1>4 DEF pq, Paths

LEMMA PathSteps ==
  ASSUME NEW p \in Paths
  PROVE  p \in Seq(Steps)
<1>1. <<>> \in Seq(Steps)
  OBVIOUS
<1> QED
  BY <1>1, LeadsTo

\* A file's path from the directory the tool runs in leads from there to the file.
LEMMA RelativeIs ==
  ASSUME NEW b, b.cwd \in Paths, NEW file \in Paths
  PROVE  /\ IsPrefix(b.cwd, file) =>
              /\ Relative(b, file) \in Paths /\ Adds(b.cwd, Relative(b, file), file)
         /\ ~IsPrefix(b.cwd, file) =>
              Relative(b, file) = Ups(b.cwd) \o file
         /\ Relative(b, file) \in Seq(Steps)
<1>1. b.cwd \in Seq(FileNames) /\ file \in Seq(FileNames)
  BY DEF Paths
<1> DEFINE rel == SubSeq(file, Len(b.cwd) + 1, Len(file))
<1>2. ASSUME IsPrefix(b.cwd, file)
      PROVE  /\ Relative(b, file) \in Paths /\ Adds(b.cwd, Relative(b, file), file)
             /\ Relative(b, file) \in Seq(Steps)
  <2>1. rel \in Seq(FileNames) /\ Adds(b.cwd, rel, file)
    BY <1>1, <1>2, PrefixIs
  <2>2. Relative(b, file) = rel
    BY <1>2 DEF Relative
  <2>3. rel \in Paths
    BY <2>1 DEF Paths
  <2>4. rel \in Seq(Steps)
    BY <2>3, PathSteps
  <2> QED
    BY <2>1, <2>2, <2>3, <2>4
<1>3. ASSUME ~IsPrefix(b.cwd, file)
      PROVE  Relative(b, file) = Ups(b.cwd) \o file /\ Relative(b, file) \in Seq(Steps)
  <2>1. Relative(b, file) = Ups(b.cwd) \o file
    BY <1>3 DEF Relative, Ups
  <2>2. Ups(b.cwd) \in Seq(Steps)
    BY UpsAre
  <2>3. Ups(b.cwd) \o file \in Seq(Steps)
    BY <2>2, LeadsTo
  <2> QED
    BY <2>1, <2>3
<1> QED
  BY <1>2, <1>3

LEMMA LeadsHome ==
  ASSUME NEW pre \in Paths, NEW b, b.cwd \in Paths, NEW file \in Paths
  PROVE  Leads(pre \o b.cwd, Relative(b, file), pre \o file)
<1> DEFINE cwd == b.cwd
           rel == Relative(b, file)
           here == pre \o cwd
<1>1. here \in Paths /\ cwd \in Paths
  BY PathsJoin
<1>2. pre \in Seq(Steps) /\ here \in Seq(Steps)
  BY <1>1, PathSteps
<1>3. CASE IsPrefix(cwd, file)
  <2>1. rel \in Paths /\ Adds(cwd, rel, file)
    BY <1>3, RelativeIs
  <2>2. Leads(here, rel, here \o rel)
    BY <1>2, <2>1, LeadsTo
  <2>3. here \o rel = pre \o file
    <3>1. pre \in Seq(FileNames) /\ cwd \in Seq(FileNames) /\ rel \in Seq(FileNames)
      BY <1>1, <2>1 DEF Paths
    <3> HIDE DEF rel, cwd
    <3>2. Adds(pre, cwd, here) /\ Adds(here, rel, here \o rel)
      BY DEF Adds
    <3> HIDE DEF here
    <3>3. Adds(pre, file, here \o rel)
      BY <2>1, <3>1, <3>2, AddsAssociate
    <3> QED
      BY <3>3 DEF Adds
  <2> QED
    BY <2>2, <2>3
<1>4. CASE ~IsPrefix(cwd, file)
  <2>1. rel = Ups(cwd) \o file
    BY <1>4, RelativeIs
  <2>2. Leads(here, Ups(cwd), pre) /\ Ups(cwd) \in Seq(Steps)
    BY <1>1, LeadsBack, UpsAre
  <2>3. Leads(pre, file, pre \o file) /\ file \in Seq(Steps)
    BY <1>2, LeadsTo
  <2> HIDE DEF rel, here
  <2>4. Leads(here, Ups(cwd) \o file, pre \o file)
    BY <1>2, <2>2, <2>3, LeadsOn
  <2> QED
    BY <2>1, <2>4 DEF rel, here
<1> QED
  BY <1>3, <1>4

\* Clean leaves a path of names as it is.
LEMMA CleanPath ==
  ASSUME NEW p \in Paths
  PROVE  Clean(p) = p /\ Leads(<<>>, p, p)
<1>1. <<>> \in Seq(Steps)
  OBVIOUS
<1>2. Leads(<<>>, p, <<>> \o p) /\ p \in Seq(Steps)
  BY <1>1, LeadsTo
<1>3. <<>> \o p = p
  BY <1>2, ConcatEmptySeq
<1> QED
  BY <1>2, <1>3, CleanIs

\* It takes the ways a tool goes to a file back to the file's own path.
LEMMA CleanHome ==
  ASSUME NEW pre \in Paths, NEW b, b.cwd \in Paths, NEW file \in Paths
  PROVE  /\ Clean((pre \o b.cwd) \o Relative(b, file)) = pre \o file
         /\ Clean(b.cwd \o Relative(b, file)) = file
         /\ Clean((b.cwd \o <<".">>) \o Relative(b, file)) = file
<1> DEFINE cwd == b.cwd
           rel == Relative(b, file)
           none == SubSeq(cwd, 1, 0)
<1>1. rel \in Seq(Steps) /\ cwd \in Paths
  BY RelativeIs
<1>2. none = <<>> /\ none \in Paths
  <2>1. cwd \in Seq(FileNames)
    BY DEF Paths
  <2> QED
    BY <2>1, FirstAll DEF Paths
<1>3. Leads(<<>> \o cwd, rel, <<>> \o file)
  BY <1>1, <1>2, LeadsHome
<1>4. Leads(pre \o cwd, rel, pre \o file)
  BY LeadsHome
<1>5. cwd \in Seq(Steps) /\ file \in Seq(Steps) /\ Leads(<<>>, cwd, cwd)
  BY <1>1, CleanPath, LeadsTo, <1>2
<1>6. <<>> \o cwd = cwd /\ <<>> \o file = file
  BY <1>5, ConcatEmptySeq
<1> DEFINE here == pre \o cwd
<1>7. here \in Paths
  BY PathsJoin
<1>8. here \in Seq(Steps) /\ Leads(<<>>, here, here)
  BY <1>5, <1>7, CleanPath, LeadsTo
<1>9. Leads(cwd, <<".">>, cwd) /\ <<".">> \in Seq(Steps)
  BY <1>5, LeadsNowhere
<1> DEFINE dotted == cwd \o <<".">>
<1>10. <<>> \in Seq(Steps) /\ dotted \in Seq(Steps)
  <2> DEFINE dot == <<".">>
  <2>1. dot \in Seq(Steps)
    BY <1>9
  <2> HIDE DEF dot
  <2>2. cwd \o dot \in Seq(Steps)
    BY <1>5, <2>1, JoinedTo
  <2> QED
    BY <2>2 DEF dot
<1>11. Leads(<<>>, dotted, cwd)
  BY <1>5, <1>9, <1>10, LeadsOn
<1>12. Leads(cwd, rel, file)
  BY <1>3, <1>6
<1>13. pre \o file \in Paths
  BY PathsJoin
<1>14. pre \o file \in Seq(Steps)
  BY <1>5, <1>13, LeadsTo
<1> HIDE DEF rel, cwd, here, dotted
<1>15. here \o rel \in Seq(Steps) /\ cwd \o rel \in Seq(Steps) /\ dotted \o rel \in Seq(Steps)
  BY <1>1, <1>5, <1>8, <1>10, JoinedTo
<1>16. Leads(<<>>, here \o rel, pre \o file)
  BY <1>1, <1>4, <1>8, <1>10, LeadsOn DEF here
<1>17. Leads(<<>>, cwd \o rel, file)
  BY <1>1, <1>5, <1>10, <1>12, LeadsOn
<1>18. Leads(<<>>, dotted \o rel, file)
  BY <1>1, <1>5, <1>10, <1>11, <1>12, LeadsOn
<1>19. Clean(here \o rel) = pre \o file /\ Clean(cwd \o rel) = file /\ Clean(dotted \o rel) = file
  BY <1>15, <1>16, <1>17, <1>18, CleanIs
<1> QED
  BY <1>19 DEF here, cwd, rel, dotted

\* From a directory the file is not in, the way begins with "..".
LEMMA CleanAbove ==
  ASSUME NEW b, b.cwd \in Paths, NEW file \in Paths, ~IsPrefix(b.cwd, file)
  PROVE  Clean(Relative(b, file)) # <<>> /\ Head(Clean(Relative(b, file))) = ".."
<1> DEFINE u == Ups(b.cwd)
           n == Len(u)
           c == u \o file
<1>1. Relative(b, file) = c
  BY RelativeIs
<1>2. u \in Seq(Steps) /\ n = Len(b.cwd) /\ n \in Nat /\ \A i \in 1..n : u[i] = ".."
  BY UpsAre
<1>3. <<>> \in Seq(Steps) /\ file \in Seq(Steps) /\ Leads(u, file, c) /\ c \in Seq(Steps)
  BY <1>2, LeadsTo
<1>4. Leads(<<>>, u, u)
  BY LeadsUp
<1> HIDE DEF u
<1>5. Leads(<<>>, c, c)
  BY <1>2, <1>3, <1>4, LeadsOn
<1>6. Clean(c) = c
  BY <1>3, <1>5, CleanIs
<1>7. n # 0
  <2> SUFFICES ASSUME n = 0 PROVE IsPrefix(b.cwd, file)
    OBVIOUS
  <2>1. Len(b.cwd) = 0 /\ b.cwd \in Seq(FileNames) /\ file \in Seq(FileNames)
    BY <1>2 DEF Paths
  <2>2. SubSeq(b.cwd, 1, 0) = <<>> /\ SubSeq(file, 1, 0) = <<>> /\ 0 <= Len(file)
    BY <2>1, FirstAll
  <2> QED
    BY <2>1, <2>2 DEF IsPrefix
<1>8. Concat(c, Steps, u, file)
  BY <1>2, <1>3, ConcatIs
<1> HIDE DEF c, n
<1>9. Len(c) = n + Len(file) /\ Len(file) \in Nat /\ 1 \in 1..n /\ c[1] = u[1] /\ u[1] = ".."
  BY <1>2, <1>3, <1>7, <1>8 DEF Concat, n
<1>10. c # <<>> /\ Head(c) = ".."
  <2>1. Len(c) # 0
    BY <1>2, <1>7, <1>9
  <2> QED
    BY <1>3, <1>9, <2>1
<1> QED
  BY <1>1, <1>6, <1>10


\* Paths with the same beginning go on alike.
LEMMA PrefixBehind ==
  ASSUME NEW pre \in Paths, NEW cwd \in Paths, NEW file \in Paths
  PROVE  /\ IsPrefix(cwd, file) =>
              /\ IsPrefix(pre \o cwd, pre \o file)
              /\ SubSeq(pre \o file, Len(pre \o cwd) + 1, Len(pre \o file))
                   = SubSeq(file, Len(cwd) + 1, Len(file))
         /\ IsPrefix(pre \o cwd, pre \o file) => IsPrefix(cwd, file)
         /\ pre \o file = pre \o cwd => file = cwd
<1> DEFINE here == pre \o cwd
           there == pre \o file
<1>1. here \in Paths /\ there \in Paths /\ Adds(pre, cwd, here) /\ Adds(pre, file, there)
  BY PathsJoin
<1>2. \A r \in Paths : Adds(pre, r, there) => r = file
  BY PathsJoin
<1> HIDE DEF here, there
<1>3. /\ pre \in Seq(FileNames) /\ cwd \in Seq(FileNames) /\ file \in Seq(FileNames)
      /\ here \in Seq(FileNames) /\ there \in Seq(FileNames)
  BY <1>1 DEF Paths
<1>4. ASSUME IsPrefix(cwd, file)
      PROVE  /\ IsPrefix(here, there)
             /\ SubSeq(there, Len(here) + 1, Len(there)) = SubSeq(file, Len(cwd) + 1, Len(file))
  <2> DEFINE rest == SubSeq(file, Len(cwd) + 1, Len(file))
             end == here \o rest
  <2>1. rest \in Seq(FileNames) /\ Adds(cwd, rest, file)
    BY <1>3, <1>4, PrefixIs
  <2>2. Adds(here, rest, end)
    BY DEF Adds
  <2> HIDE DEF rest, end
  <2>3. Adds(pre, file, end)
    BY <1>1, <1>3, <2>1, <2>2, AddsAssociate
  <2>4. end = there
    BY <1>1, <2>3 DEF Adds
  <2>5. IsPrefix(here, there) /\ SubSeq(there, Len(here) + 1, Len(there)) = rest
    BY <1>3, <2>1, <2>2, <2>4, RestIs
  <2> QED
    BY <2>5 DEF rest
<1>5. ASSUME IsPrefix(here, there) PROVE IsPrefix(cwd, file)
  <2> DEFINE rest == SubSeq(there, Len(here) + 1, Len(there))
             end == cwd \o rest
  <2>1. rest \in Seq(FileNames) /\ Adds(here, rest, there)
    BY <1>3, <1>5, PrefixIs
  <2>2. Adds(cwd, rest, end)
    BY DEF Adds
  <2> HIDE DEF rest
  <2>3. end \in Seq(FileNames)
    BY <1>3, <2>1, JoinedTo
  <2> HIDE DEF end
  <2>4. Adds(pre, end, there)
    BY <1>1, <1>3, <2>1, <2>2, AddsAssociate
  <2>5. end = file
    BY <1>2, <2>3, <2>4 DEF Paths
  <2> QED
    BY <1>3, <2>1, <2>2, <2>5, RestIs
<1>6. ASSUME there = here PROVE file = cwd
  BY <1>1, <1>2, <1>6
<1> QED
  BY <1>4, <1>5, <1>6 DEF here, there

\* Where the paths of the tree and of Dropped differ.
LEMMA DroppedIs ==
  /\ Dropped \notin Paths /\ Dropped # <<".">> /\ Dropped # NoFile
  /\ \A p \in Paths : p # <<>> => Head(p) # ".." /\ Head(p) \in FileNames
  /\ \A p \in Paths : p \o <<".">> \notin Paths
<1>1. ".." \notin FileNames /\ "." \notin FileNames /\ "." # ".."
  BY StepsDiffer
<1>2. \A p \in Seq(FileNames) : p # <<>> => Head(p) \in FileNames
  OBVIOUS
<1>3. Dropped \notin Seq(FileNames)
  <2> SUFFICES ASSUME Dropped \in Seq(FileNames) PROVE FALSE
    OBVIOUS
  <2>1. Dropped # <<>> /\ Head(Dropped) = ".."
    BY DEF Dropped
  <2> QED
    BY <1>1, <1>2, <2>1
<1>4. Dropped # <<".">>
  <2>1. Dropped[1] = ".." /\ <<".">>[1] = "."
    BY DEF Dropped
  <2> QED
    BY <1>1, <2>1
<1>5. Dropped # NoFile
  BY DEF Dropped, NoFile
<1>6. ASSUME NEW p \in Paths PROVE p \o <<".">> \notin Paths
  <2> DEFINE q == p \o <<".">>
             dot == <<".">>
  <2> SUFFICES ASSUME q \in Seq(FileNames) PROVE FALSE
    BY DEF Paths
  <2>1. p \in Seq(Steps) /\ dot \in Seq(Steps)
    BY PathSteps, LeadsNowhere
  <2>2. Len(dot) = 1 /\ dot[1] = "."
    OBVIOUS
  <2> HIDE DEF dot
  <2>3. Concat(p \o dot, Steps, p, dot)
    BY <2>1, ConcatIs
  <2>4. Concat(q, Steps, p, dot)
    BY <2>3 DEF dot
  <2> HIDE DEF q
  <2>5. Len(q) = Len(p) + 1 /\ q[Len(p) + 1] = "." /\ Len(p) \in Nat
    BY <2>1, <2>2, <2>4 DEF Concat
  <2>6. q[Len(p) + 1] \in FileNames
    BY <2>5
  <2> QED
    BY <1>1, <2>5, <2>6
<1> QED
  BY <1>1, <1>2, <1>3, <1>4, <1>5, <1>6 DEF Paths

\* A location with this path that can be in the tree, absolute or not.
Locates(uri, abs, path) == uri.scheme \in {"", "file"} /\ uri.abs = abs /\ uri.path = path

\* normalize_uri of a relative location.
LEMMA NormalizeRelative ==
  ASSUME NEW uri, NEW path, Locates(uri, FALSE, path), NEW root
  PROVE  /\ Clean(path) \in Paths /\ Clean(path) # <<>> => NormalizeUri(uri, root) = Clean(path)
         /\ Clean(path) = <<>> => NormalizeUri(uri, root) = Dropped
         /\ Head(Clean(path)) = ".." => NormalizeUri(uri, root) = Dropped
<1> DEFINE clean == Clean(path)
<1>1. NormalizeUri(uri, root) = IF clean = <<>> \/ Head(clean) = ".." THEN Dropped ELSE clean
  BY DEF NormalizeUri, Locates
<1> HIDE DEF clean
<1>2. ASSUME clean \in Paths, clean # <<>> PROVE NormalizeUri(uri, root) = clean
  BY <1>1, <1>2, DroppedIs
<1> QED
  BY <1>1, <1>2 DEF clean

LEMMA PrefixSelf ==
  ASSUME NEW p \in Paths
  PROVE  IsPrefix(p, p)
<1>1. Len(p) \in Nat
  BY DEF Paths
<1> QED
  BY <1>1 DEF IsPrefix

\* normalize_uri of an absolute location: of a file below the root, of the root
\* itself, and of a file elsewhere.
LEMMA NormalizeBelow ==
  ASSUME NEW uri, NEW path, Locates(uri, TRUE, path),
         NEW pre \in Paths, NEW cwd \in Paths, NEW file \in Paths, Adds(pre, file, Clean(path)),
         NEW root, Adds(pre, cwd, root), IsPrefix(cwd, file), file # cwd
  PROVE  NormalizeUri(uri, root) \in Paths /\ Adds(cwd, NormalizeUri(uri, root), file)
<1> DEFINE here == pre \o cwd
           there == pre \o file
           rest == SubSeq(file, Len(cwd) + 1, Len(file))
<1>1. NormalizeUri(uri, root) =
        IF ~IsPrefix(here, there) THEN Dropped
        ELSE IF there = here THEN <<".">> ELSE SubSeq(there, Len(here) + 1, Len(there))
  BY DEF NormalizeUri, Adds, Locates
<1>2. /\ IsPrefix(here, there) /\ SubSeq(there, Len(here) + 1, Len(there)) = rest
      /\ there = here => file = cwd
  BY PrefixBehind
<1>3. rest \in Paths /\ Adds(cwd, rest, file)
  BY PrefixIs DEF Paths
<1> HIDE DEF here, there, rest
<1> QED
  BY <1>1, <1>2, <1>3

LEMMA NormalizeHere ==
  ASSUME NEW uri, NEW path, Locates(uri, TRUE, path), NEW root \in Paths, Clean(path) = root
  PROVE  NormalizeUri(uri, root) = <<".">>
<1>1. IsPrefix(root, root)
  BY PrefixSelf
<1> QED
  BY <1>1 DEF NormalizeUri, Locates

LEMMA NormalizeElsewhere ==
  ASSUME NEW uri, NEW path, Locates(uri, TRUE, path),
         NEW pre \in Paths, NEW cwd \in Paths, NEW file \in Paths, Adds(pre, file, Clean(path)),
         NEW root, Adds(pre, cwd, root), ~IsPrefix(cwd, file)
  PROVE  NormalizeUri(uri, root) = Dropped
<1> DEFINE here == pre \o cwd
           there == pre \o file
<1>1. ~IsPrefix(here, there)
  BY PrefixBehind
<1>2. Clean(path) = there /\ root = here
  BY DEF Adds
<1> HIDE DEF here, there
<1> QED
  BY <1>1, <1>2 DEF NormalizeUri, Locates

LEMMA EmptyPath ==
  /\ <<>> \in Paths
  /\ \A file \in Paths : Adds(<<>>, file, file) /\ Adds(file, <<>>, file) /\ IsPrefix(<<>>, file)
<1>1. <<>> \in Paths
  <2>1. <<>> \in Seq(FileNames)
    OBVIOUS
  <2> QED
    BY <2>1 DEF Paths
<1>2. ASSUME NEW file \in Paths
      PROVE  Adds(<<>>, file, file) /\ Adds(file, <<>>, file) /\ IsPrefix(<<>>, file)
  <2>1. file \in Seq(FileNames)
    BY DEF Paths
  <2>2. <<>> \o file = file /\ file \o <<>> = file
    BY <2>1, ConcatEmptySeq
  <2>3. <<>> \in Seq(FileNames)
    OBVIOUS
  <2>4. Adds(<<>>, file, file) /\ Adds(file, <<>>, file)
    BY <2>2 DEF Adds
  <2> QED
    BY <2>1, <2>3, <2>4, RestIs
<1> QED
  BY <1>1, <1>2

\* Nothing in it is read as a URI.
Odd == DOMAIN ReadAs \cup Colons

LEMMA NothingOdd ==
  /\ "." \notin Odd /\ ".." \notin Odd /\ Range(TreeRoot) \cap Odd = {}
  /\ TreeRoot \in Paths /\ ViewRoot \in Paths
<1>1. ".." \notin FileNames /\ "." \notin FileNames
  BY StepsDiffer
<1>2. Odd \subseteq FileNames /\ Odd \cap Range(TreeRoot) = {}
  BY ReportsAssumption DEF Odd
<1> QED
  BY <1>1, <1>2, ReportsAssumption

LEMMA UriPathIs ==
  ASSUME NEW path \in Seq(Steps), Range(path) \cap Odd = {}
  PROVE  /\ UriPath(path) = path
         /\ path # <<>> => Head(path) \notin Colons
<1>1. \A i \in DOMAIN path : path[i] \notin DOMAIN ReadAs
  BY DEF Range, Odd
<1>2. {i \in DOMAIN path : path[i] \in DOMAIN ReadAs} = {}
  BY <1>1
<1>3. UriPath(path) = path
  BY <1>2 DEF UriPath
<1>4. ASSUME path # <<>> PROVE Head(path) \notin Colons
  <2>1. 1 \in DOMAIN path /\ Head(path) = path[1]
    BY <1>4
  <2> QED
    BY <2>1 DEF Range, Odd
<1> QED
  BY <1>3, <1>4

\* The names on a tool's way to a file.
LEMMA NamesOnTheWay ==
  ASSUME NEW b, b.cwd \in Paths, NEW file \in Paths,
         Range(b.cwd) \cap Odd = {}, Range(file) \cap Odd = {}
  PROVE  /\ Range(b.cwd \o Relative(b, file)) \cap Odd = {}
         /\ Range((b.cwd \o <<".">>) \o Relative(b, file)) \cap Odd = {}
         /\ b.cwd \o Relative(b, file) \in Seq(Steps)
         /\ (b.cwd \o <<".">>) \o Relative(b, file) \in Seq(Steps)
<1> DEFINE cwd == b.cwd
           rel == Relative(b, file)
           dot == <<".">>
<1>1. cwd \in Seq(Steps) /\ file \in Seq(Steps) /\ rel \in Seq(Steps) /\ dot \in Seq(Steps)
  <2>1. cwd \in Paths
    OBVIOUS
  <2>2. cwd \in Seq(Steps) /\ file \in Seq(Steps)
    BY <2>1, PathSteps
  <2> QED
    BY <2>2, RelativeIs, LeadsNowhere
<1>2. Range(rel) \cap Odd = {}
  <2>1. CASE IsPrefix(cwd, file)
    <3>1. Adds(cwd, rel, file)
      BY <2>1, RelativeIs
    <3> HIDE DEF cwd, rel
    <3>2. Range(file) = Range(cwd) \cup Range(rel)
      BY <1>1, <3>1, ConcatRange DEF Adds
    <3> QED
      BY <3>2
  <2>2. CASE ~IsPrefix(cwd, file)
    <3> DEFINE u == Ups(cwd)
    <3>1. rel = u \o file
      BY <2>2, RelativeIs
    <3>2. u \in Seq(Steps) /\ \A i \in 1..Len(u) : u[i] = ".."
      <4>1. cwd \in Paths
        OBVIOUS
      <4> QED
        BY <4>1, UpsAre
    <3> HIDE DEF u, rel, cwd
    <3>3. DOMAIN u = 1..Len(u)
      BY <3>2
    <3>4. Range(u) \subseteq {".."}
      BY <3>2, <3>3 DEF Range
    <3>5. Range(rel) = Range(u) \cup Range(file)
      BY <1>1, <3>1, <3>2, ConcatRange
    <3> QED
      BY <3>4, <3>5, NothingOdd
  <2> QED
    BY <2>1, <2>2
<1>3. Range(dot) \cap Odd = {}
  <2>1. Range(dot) = {"."}
    <3>1. DOMAIN dot = {1} /\ dot[1] = "."
      OBVIOUS
    <3> QED
      BY <3>1 DEF Range
  <2> QED
    BY <2>1, NothingOdd
<1>4. Range(cwd) \cap Odd = {}
  OBVIOUS
<1> HIDE DEF cwd, rel, dot
<1>5. Range(cwd \o rel) = Range(cwd) \cup Range(rel) /\ Range(cwd \o dot) = Range(cwd) \cup Range(dot)
  BY <1>1, ConcatRange
<1>6. cwd \o rel \in Seq(Steps) /\ cwd \o dot \in Seq(Steps)
  BY <1>1, JoinedTo
<1> DEFINE here == cwd \o dot
<1>7. here \in Seq(Steps) /\ Range(here) \cap Odd = {}
  BY <1>3, <1>4, <1>5, <1>6
<1> HIDE DEF here
<1>8. Range(here \o rel) = Range(here) \cup Range(rel) /\ here \o rel \in Seq(Steps)
  BY <1>1, <1>7, ConcatRange, JoinedTo
<1>9. Range(here \o rel) \cap Odd = {} /\ Range(cwd \o rel) \cap Odd = {}
  BY <1>2, <1>4, <1>5, <1>7, <1>8
<1> QED
  BY <1>6, <1>8, <1>9 DEF here, cwd, rel, dot

\* A record's path is the file's, whichever way the tool writes it.
LEMMA RecordPathIs ==
  ASSUME NEW b, b.cwd \in Paths, Plain(b.cwd), NEW d, d.file \in Paths, d.file # <<>>, Plain(d.file)
  PROVE  NormalizeUri(RecordUri(b, d), TreeRoot) = d.file
<1> DEFINE cwd == b.cwd
           file == d.file
           way == cwd \o Relative(b, file)
           dotted == (cwd \o <<".">>) \o Relative(b, file)
           whole == TreeRoot \o file
           uri == RecordUri(b, d)
           Path == CASE d.form = "absolute" -> whole [] d.form = "dotted" -> dotted [] OTHER -> way
           abs == d.form = "absolute"
<1>1. cwd \in Paths /\ file \in Paths /\ TreeRoot \in Paths /\ file # <<>>
  BY NothingOdd
<1>2. Range(cwd) \cap Odd = {} /\ Range(file) \cap Odd = {}
  BY DEF Plain, Odd
<1>3. /\ Range(way) \cap Odd = {} /\ way \in Seq(Steps)
      /\ Range(dotted) \cap Odd = {} /\ dotted \in Seq(Steps)
  BY <1>1, <1>2, NamesOnTheWay
<1>4. Range(whole) \cap Odd = {} /\ whole \in Seq(Steps) /\ whole \in Paths
  <2>1. TreeRoot \in Seq(FileNames) /\ file \in Seq(FileNames)
    BY <1>1 DEF Paths
  <2>2. Range(whole) = Range(TreeRoot) \cup Range(file)
    BY <2>1, ConcatRange
  <2>3. whole \in Paths
    BY <1>1, PathsJoin
  <2> QED
    BY <1>2, <2>2, <2>3, NothingOdd, PathSteps
<1>5. Clean(way) = file /\ Clean(dotted) = file /\ Clean(whole) = whole
  BY <1>1, <1>4, CleanHome, CleanPath
<1>6. <<>> \in Paths /\ Clean(<<>>) = <<>>
  <2>1. <<>> \in Seq(FileNames)
    OBVIOUS
  <2> QED
    BY <2>1, CleanPath DEF Paths
<1>7. uri.abs = abs /\ uri.scheme = (IF ~abs /\ Head(Path) \in Colons THEN "a" ELSE "") /\ uri.path = UriPath(Path)
  BY DEF RecordUri
<1>8. way # <<>> /\ dotted # <<>>
  BY <1>1, <1>5, <1>6
<1> HIDE DEF way, dotted, whole, uri, file
<1>9. CASE abs
  <2>1. Path = whole /\ uri.abs = TRUE /\ uri.scheme = ""
    BY <1>7, <1>9
  <2> HIDE DEF Path, abs
  <2>2. uri.path = whole
    BY <1>4, <1>7, <2>1, UriPathIs
  <2>3. <<>> \in Paths /\ Adds(TreeRoot, <<>>, TreeRoot) /\ IsPrefix(<<>>, file)
    BY <1>1, EmptyPath
  <2>4. Locates(uri, TRUE, whole) /\ Adds(TreeRoot, file, Clean(whole))
    BY <1>5, <2>1, <2>2 DEF whole, Adds, Locates
  <2> DEFINE found == NormalizeUri(uri, TreeRoot)
  <2>5. found \in Paths /\ Adds(<<>>, found, file)
    BY <1>1, <2>3, <2>4, NormalizeBelow
  <2> HIDE DEF found
  <2>6. Adds(<<>>, found, found)
    BY <2>5, EmptyPath
  <2>7. found = file
    BY <2>5, <2>6 DEF Adds
  <2> QED
    BY <2>7 DEF uri, file, found
<1>10. CASE ~abs
  <2>1. Path \in {way, dotted} /\ uri.abs = FALSE
    BY <1>7, <1>10
  <2>2. Range(Path) \cap Odd = {} /\ Path \in Seq(Steps) /\ Path # <<>> /\ Clean(Path) = file
    BY <1>3, <1>5, <1>8, <2>1
  <2> HIDE DEF Path
  <2>3. UriPath(Path) = Path /\ Head(Path) \notin Colons
    BY <2>2, UriPathIs
  <2>4. Locates(uri, FALSE, Path)
    BY <1>7, <2>1, <2>2, <2>3 DEF Locates
  <2> HIDE DEF abs
  <2>5. NormalizeUri(uri, TreeRoot) = Clean(Path)
    BY <1>1, <2>2, <2>4, NormalizeRelative
  <2> QED
    BY <2>2, <2>5 DEF uri, file
<1> QED
  BY <1>9, <1>10


LEMMA AddsOnce ==
  ASSUME NEW p \in Paths, NEW q \in Paths, NEW r \in Paths, NEW t, Adds(p, q, t), Adds(p, r, t)
  PROVE  q = r
<1>1. \A x \in Paths : Adds(p, x, p \o r) => x = r
  BY PathsJoin
<1>2. t = p \o r
  BY DEF Adds
<1>3. Adds(p, q, p \o r)
  BY <1>2
<1> QED
  BY <1>1, <1>3

\* A SARIF result's path, from the directory the tool runs in.
LEMMA SarifPathIs ==
  ASSUME NEW l, NEW b, b.cwd \in Paths, NEW d, d.file \in Paths, d.file # <<>>
  PROVE  LET path == NormalizeUri(SarifUri(l, b, d), Root(l, b))
         IN /\ d.form \in {"plain", "absolute", "based"} =>
                 IF IsPrefix(b.cwd, d.file) /\ d.file # b.cwd
                 THEN path \in Paths /\ Adds(b.cwd, path, d.file)
                 ELSE path \in {Dropped, <<".">>}
            /\ d.form = "web" => path = Dropped
            /\ d.form = "input" => path = <<Last(d.file)>> /\ path \in Paths
<1> DEFINE cwd == b.cwd
           file == d.file
           pre == IF l = "gitleaks" THEN ViewRoot ELSE TreeRoot
           root == Root(l, b)
           uri == SarifUri(l, b, d)
           path == NormalizeUri(uri, root)
           way == Relative(b, file)
           there == pre \o file
           far == root \o way
<1>1. cwd \in Paths /\ file \in Paths /\ file # <<>> /\ pre \in Paths
  BY NothingOdd
<1>2. root = pre \o cwd /\ Adds(pre, cwd, root) /\ root \in Paths
  BY <1>1, PathsJoin DEF Root, Adds
<1>3. Adds(pre, file, Clean(there)) /\ Adds(pre, file, Clean(far))
  <2>1. there \in Paths
    BY <1>1, PathsJoin
  <2>2. Clean(there) = there
    BY <2>1, CleanPath
  <2>3. Clean(far) = there
    <3> HIDE DEF pre
    <3>1. Clean((pre \o b.cwd) \o Relative(b, file)) = pre \o file
      <4>1. pre \in Paths /\ b.cwd \in Paths /\ file \in Paths
        BY <1>1
      <4> HIDE DEF file
      <4> QED
        BY <4>1, CleanHome
    <3> QED
      BY <1>2, <3>1
  <2> QED
    BY <2>2, <2>3 DEF Adds
<1>4. d.form \in {"absolute", "based"} => Locates(uri, TRUE, there) \/ Locates(uri, TRUE, far)
  BY DEF SarifUri, Locates
<1>5. d.form = "plain" => Locates(uri, FALSE, way)
  BY DEF SarifUri, Locates
<1>6. ASSUME d.form = "input" PROVE path = <<Last(file)>> /\ path \in Paths
  <2> DEFINE one == <<Last(file)>>
  <2>1. file \in Seq(FileNames)
    BY <1>1 DEF Paths
  <2>2. Len(file) \in 1..Len(file)
    BY <1>1, <2>1
  <2>3. Last(file) \in FileNames
    BY <2>1, <2>2 DEF Last
  <2>4. one \in Seq(FileNames) /\ one # <<>>
    BY <2>3
  <2>5. Locates(uri, FALSE, one)
    BY <1>6 DEF SarifUri, Locates
  <2>6. one \in Paths /\ one # <<>>
    BY <2>4 DEF Paths
  <2> HIDE DEF one, uri, root, file
  <2>7. Clean(one) = one
    BY <2>6, CleanPath
  <2>8. path = one
    BY <2>5, <2>6, <2>7, NormalizeRelative
  <2> QED
    BY <2>6, <2>8 DEF one
<1>7. ASSUME d.form = "web" PROVE path = Dropped
  <2>1. uri.scheme = "https"
    BY <1>7 DEF SarifUri
  <2> HIDE DEF uri
  <2> QED
    BY <2>1 DEF NormalizeUri
<1>8. IsPrefix(cwd, file) => way \in Paths /\ Adds(cwd, way, file)
  BY <1>1, RelativeIs
<1>9. ~IsPrefix(cwd, file) => Clean(way) # <<>> /\ Head(Clean(way)) = ".."
  BY <1>1, CleanAbove
<1> HIDE DEF uri, root, pre, way, there, far, cwd, file
<1>10. ASSUME d.form = "plain"
       PROVE  IF IsPrefix(cwd, file) /\ file # cwd
              THEN path \in Paths /\ Adds(cwd, path, file)
              ELSE path \in {Dropped, <<".">>}
  <2>1. Locates(uri, FALSE, way)
    BY <1>5, <1>10
  <2>2. CASE IsPrefix(cwd, file)
    <3>1. Clean(way) = way /\ way \in Paths /\ Adds(cwd, way, file)
      BY <1>8, <2>2, CleanPath
    <3>2. Clean(way) # <<>> => path = Clean(way)
      BY <2>1, <3>1, NormalizeRelative
    <3>3. Clean(way) = <<>> => path = Dropped
      BY <2>1, NormalizeRelative
    <3>4. (Clean(way) = <<>>) = (file = cwd)
      <4>1. Adds(cwd, <<>>, cwd) /\ <<>> \in Paths
        BY <1>1, EmptyPath
      <4>2. way = <<>> => file = cwd
        BY <3>1, <4>1 DEF Adds
      <4>3. file = cwd => way = <<>>
        BY <1>1, <3>1, <4>1, AddsOnce
      <4> QED
        BY <3>1, <4>2, <4>3
    <3> QED
      BY <2>2, <3>1, <3>2, <3>3, <3>4
  <2>3. CASE ~IsPrefix(cwd, file)
    <3>1. path = Dropped
      BY <1>9, <2>1, <2>3, NormalizeRelative
    <3> QED
      BY <2>3, <3>1
  <2> QED
    BY <2>2, <2>3
<1>11. ASSUME d.form \in {"absolute", "based"}
       PROVE  IF IsPrefix(cwd, file) /\ file # cwd
              THEN path \in Paths /\ Adds(cwd, path, file)
              ELSE path \in {Dropped, <<".">>}
  <2>1. PICK way2 \in {there, far} : Locates(uri, TRUE, way2)
    BY <1>4, <1>11
  <2>2. Adds(pre, file, Clean(way2))
    BY <1>3
  <2>3. cwd \in Paths /\ file \in Paths /\ pre \in Paths /\ Adds(pre, cwd, root)
    BY <1>1, <1>2
  <2>4. ASSUME IsPrefix(cwd, file), file # cwd PROVE path \in Paths /\ Adds(cwd, path, file)
    BY <2>1, <2>2, <2>3, <2>4, NormalizeBelow
  <2>5. ASSUME file = cwd PROVE path = <<".">>
    <3>1. Clean(way2) = root
      BY <2>2, <2>3, <2>5 DEF Adds
    <3> QED
      BY <1>2, <2>1, <3>1, NormalizeHere
  <2>6. ASSUME ~IsPrefix(cwd, file) PROVE path = Dropped
    BY <2>1, <2>2, <2>3, <2>6, NormalizeElsewhere
  <2> QED
    BY <2>4, <2>5, <2>6
<1> QED
  BY <1>1, <1>6, <1>7, <1>10, <1>11 DEF uri, root, cwd, file


-------------------------------------------------------------------------------
(* Positions                                                                   *)

LEMMA LineIs ==
  ASSUME NEW file \in DOMAIN Lines, NEW i \in DOMAIN Lines[file]
  PROVE  /\ Lines[file][i]["chars"] \in Nat /\ Lines[file][i]["bytes"] \in Nat
         /\ Len(Lines[file]) \in Nat /\ DOMAIN Lines[file] = 1..Len(Lines[file])
<1> DEFINE R == [text : STRING, chars : Nat, bytes : Nat]
<1>1. Lines[file] \in Seq(R)
  BY ReportsAssumption DEF TextLines
<1>2. \A r \in R : r["chars"] \in Nat /\ r["bytes"] \in Nat
  OBVIOUS
<1> HIDE DEF R
<1>3. Lines[file][i] \in R
  BY <1>1
<1> QED
  BY <1>1, <1>2, <1>3

\* What the lines up to one measure grows line by line.
LEMMA SizesAre ==
  ASSUME NEW file \in DOMAIN Lines, NEW unit \in {"chars", "bytes"}
  PROVE  LET n == Len(Lines[file])
             upTo == SizesUpTo(file, unit)
         IN /\ upTo[0] = 0 /\ \A i \in 0..n : upTo[i] \in Nat
            /\ \A i \in 1..n : upTo[i] = upTo[i - 1] + Lines[file][i][unit] + 1
<1> DEFINE n == Len(Lines[file])
           w(k) == IF k \in 1..n THEN Lines[file][k][unit] ELSE 0
           D == [q \in Nat \X Nat |-> q[1] + w(q[2]) + 1]
           Is(F) == F = [i \in 0..n |-> IF i = 0 THEN 0 ELSE F[i - 1] + Lines[file][i][unit] + 1]
           upTo == CHOOSE F : Is(F)
<1>0. n \in Nat /\ DOMAIN Lines[file] = 1..n
  BY ReportsAssumption DEF TextLines
<1>1. \A i \in 1..n : Lines[file][i][unit] \in Nat
  <2> TAKE i \in 1..n
  <2>1. i \in DOMAIN Lines[file]
    BY <1>0
  <2>2. Lines[file][i]["chars"] \in Nat /\ Lines[file][i]["bytes"] \in Nat
    BY <2>1, LineIs
  <2> QED
    BY <2>2
<1>2. D \in [Nat \X Nat -> Nat]
  <2>1. \A k \in Nat : w(k) \in Nat
    BY <1>1
  <2> HIDE DEF w
  <2> QED
    BY <2>1
<1>3. PICK f \in [0..n -> Nat] : Follows(f, 0, D, n)
  BY <1>0, <1>2, StepsDefine
<1>4. Is(f)
  <2>1. \A i \in 0..n : f[i] = IF i = 0 THEN 0 ELSE f[i - 1] + Lines[file][i][unit] + 1
    <3> TAKE i \in 0..n
    <3>1. CASE i = 0
      BY <1>3, <3>1 DEF Follows
    <3>2. CASE i # 0
      <4>1. i \in 1..n /\ i - 1 \in 0..n /\ i \in Nat
        BY <1>0, <3>2
      <4>2. f[i] = D[<<f[i - 1], i>>] /\ f[i - 1] \in Nat
        BY <1>3, <4>1 DEF Follows
      <4>3. D[<<f[i - 1], i>>] = f[i - 1] + w(i) + 1
        BY <4>1, <4>2
      <4>4. w(i) = Lines[file][i][unit]
        BY <4>1
      <4> QED
        BY <3>2, <4>2, <4>3, <4>4
    <3> QED
      BY <3>1, <3>2
  <2>2. f = [i \in 0..n |-> f[i]]
    BY <1>3
  <2> QED
    BY <2>1, <2>2
<1>5. Is(upTo)
  BY <1>4
<1>6. SizesUpTo(file, unit) = upTo
  BY DEF SizesUpTo, upTo, n
<1> HIDE DEF upTo
<1>7. /\ upTo[0] = 0
      /\ \A i \in 1..n : upTo[i] = upTo[i - 1] + Lines[file][i][unit] + 1
  <2>1. 0 \in 0..n /\ \A i \in 1..n : i \in 0..n /\ i # 0
    BY <1>0
  <2> QED
    BY <1>5, <2>1
<1> HIDE DEF Is
<1> DEFINE T == {i \in 0..n : upTo[i] \in Nat}
<1>8. 0 \in T
  BY <1>0, <1>7
<1>9. ASSUME NEW i \in 1..n, i - 1 \in T PROVE i \in T
  <2>1. i \in 0..n /\ upTo[i - 1] \in Nat
    BY <1>0, <1>9
  <2> QED
    BY <1>1, <1>7, <2>1
<1> HIDE DEF T
<1>10. \A i \in 0..n : i \in T
  BY <1>0, <1>8, <1>9, Induction
<1>11. \A i \in 0..n : upTo[i] \in Nat
  BY <1>10 DEF T
<1> HIDE DEF n
<1> QED
  BY <1>6, <1>7, <1>11 DEF n

\* Where every character is a byte, biome's offset is of the line it is in.
LEMMA BiomeLineIs ==
  ASSUME NEW file \in DOMAIN Lines, NEW line \in DOMAIN Lines[file],
         \A k \in DOMAIN Lines[file] : Lines[file][k].bytes = Lines[file][k].chars
  PROVE  BiomeLine(file, line) = line
<1> DEFINE n == Len(Lines[file])
           c == SizesUpTo(file, "chars")
           B == SizesUpTo(file, "bytes")
<1>0. n \in Nat /\ DOMAIN Lines[file] = 1..n /\ line \in 1..n
  BY LineIs
<1>1. /\ c[0] = 0 /\ \A i \in 0..n : c[i] \in Nat
      /\ \A i \in 1..n : c[i] = c[i - 1] + Lines[file][i]["chars"] + 1
  BY SizesAre
<1>2. /\ B[0] = 0 /\ \A i \in 0..n : B[i] \in Nat
      /\ \A i \in 1..n : B[i] = B[i - 1] + Lines[file][i]["bytes"] + 1
  BY SizesAre
<1>3. \A i \in 1..n : Lines[file][i]["chars"] \in Nat /\ Lines[file][i]["bytes"] = Lines[file][i]["chars"]
  BY <1>0, LineIs
<1>4. BiomeLine(file, line) = Cardinality({k \in 1..n : c[k] <= B[line - 1]}) + 1
  <2>1. line # 0
    BY <1>0
  <2>2. Offset(file, line) = B[line - 1]
    BY <2>1 DEF Offset
  <2>3. BiomeLine(file, line) = Cardinality({k \in DOMAIN Lines[file] : c[k] <= Offset(file, line)}) + 1
    BY DEF BiomeLine
  <2> HIDE DEF c, B
  <2> QED
    BY <1>0, <2>2, <2>3
<1> HIDE DEF c, B, n
<1> DEFINE T == {i \in 0..n : B[i] = c[i]}
           U == {j \in 0..n : \A i \in 0..n : i < j => c[i] < c[j]}
<1>5. \A i \in 0..n : B[i] = c[i]
  <2>1. 0 \in T
    BY <1>0, <1>1, <1>2
  <2>2. ASSUME NEW i \in 1..n, i - 1 \in T PROVE i \in T
    <3>1. i \in 0..n /\ B[i - 1] = c[i - 1]
      BY <1>0, <2>2
    <3> QED
      BY <1>1, <1>2, <1>3, <3>1
  <2> HIDE DEF T
  <2>3. \A i \in 0..n : i \in T
    BY <1>0, <2>1, <2>2, Induction
  <2> QED
    BY <2>3 DEF T
<1>6. \A j \in 0..n : \A i \in 0..n : i < j => c[i] < c[j]
  <2>1. 0 \in U
    BY <1>0
  <2>2. ASSUME NEW j \in 1..n, j - 1 \in U PROVE j \in U
    <3>1. j \in 0..n /\ j - 1 \in 0..n /\ \A i \in 0..n : i < j - 1 => c[i] < c[j - 1]
      BY <1>0, <2>2
    <3>2. c[j - 1] < c[j] /\ c[j] \in Nat /\ c[j - 1] \in Nat
      BY <1>1, <1>3, <3>1
    <3>3. ASSUME NEW i \in 0..n, i < j PROVE c[i] < c[j]
      <4>1. i = j - 1 \/ i < j - 1
        BY <1>0, <3>3
      <4>2. c[i] \in Nat
        BY <1>1
      <4> QED
        BY <3>1, <3>2, <4>1, <4>2
    <3> QED
      BY <3>1, <3>3
  <2> HIDE DEF U
  <2>3. \A j \in 0..n : j \in U
    BY <1>0, <2>1, <2>2, Induction
  <2> QED
    BY <2>3 DEF U
<1>7. {k \in 1..n : c[k] <= B[line - 1]} = 1..(line - 1)
  <2>1. line - 1 \in 0..n /\ B[line - 1] = c[line - 1]
    BY <1>0, <1>5
  <2>2. ASSUME NEW k \in 1..n PROVE c[k] <= c[line - 1] <=> k \in 1..(line - 1)
    <3>1. k \in 0..n /\ c[k] \in Nat /\ c[line - 1] \in Nat
      BY <1>0, <1>1, <2>1
    <3>2. k < line - 1 => c[k] < c[line - 1]
      BY <1>6, <2>1, <3>1
    <3>3. line - 1 < k => c[line - 1] < c[k]
      BY <1>6, <2>1, <3>1
    <3>4. k = line - 1 \/ k < line - 1 \/ line - 1 < k
      BY <1>0
    <3> QED
      BY <1>0, <3>1, <3>2, <3>3, <3>4
  <2>3. 1..(line - 1) \subseteq 1..n
    BY <1>0
  <2> QED
    BY <2>1, <2>2, <2>3
<1>8. Cardinality(1..(line - 1)) = line - 1
  <2>1. 1 \in Int /\ line - 1 \in Int
    BY <1>0
  <2>2. Cardinality(1..(line - 1)) = IF 1 > line - 1 THEN 0 ELSE (line - 1) - 1 + 1
    BY <2>1, FS_Interval
  <2> QED
    BY <1>0, <2>2
<1>9. Cardinality({k \in 1..n : c[k] <= B[line - 1]}) = line - 1
  BY <1>7, <1>8
<1>10. BiomeLine(file, line) = (line - 1) + 1
  BY <1>4, <1>9
<1> QED
  BY <1>0, <1>10


\* An adapter's severities are ours, and it reports a line.
Adapts(a) ==
  /\ \A w \in DOMAIN a.severity : a.severity[w] \in Severities
  /\ a.default \in Severities
  /\ "line" \in DOMAIN a.adds /\ DOMAIN a.adds \subseteq Fields

\* It adds one to what the tool counts from zero.
AddsTo(a, zero) == \A f \in DOMAIN a.adds : a.adds[f] = IF f \in zero THEN 1 ELSE 0

LEMMA AdaptersAre ==
  ASSUME NEW l \in Lints
  PROVE  /\ Adapts(AdapterOf(l)) /\ AddsTo(AdapterOf(l), CountsFromZero(l))
         /\ l = "biome" => DOMAIN AdapterOf(l).adds = {"line"} /\ l \in DOMAIN Records
         /\ l \in DOMAIN Sarif <=> l \notin DOMAIN Records
<1> DEFINE Is(a) == Adapts(a) /\ AddsTo(a, {})
           Copies(adds) == "line" \in DOMAIN adds /\ DOMAIN adds \subseteq Fields
                         /\ \A f \in DOMAIN adds : adds[f] = 0
           Words(s) == \A w \in DOMAIN s : s[w] \in Severities
<1>1. ASSUME NEW adds, NEW s, NEW default \in Severities, Copies(adds), Words(s)
      PROVE  Is(Adapter(adds, s, default))
  BY <1>1 DEF Adapter, Adapts, AddsTo
<1>2. /\ Copies(OneBased) /\ Copies(Only({"line"})) /\ Copies(Only({"line", "column"}))
      /\ Copies(Only({"line", "column", "endColumn"}))
  BY DEF OneBased, Only, Fields
<1>3. "error" \in Severities /\ "warning" \in Severities /\ "note" \in Severities
  BY DEF Severities
<1> HIDE DEF Is, Copies
<1>4. Is(shellcheck) /\ Is(hadolint)
  BY <1>1, <1>2, <1>3 DEF shellcheck, hadolint
<1>5. Is(yamllint) /\ Is(regalReport) /\ Is(from_level)
  BY <1>1, <1>2, <1>3 DEF yamllint, regalReport, from_level, Levels
<1>6. Is(actionlint) /\ Is(dotenv_linter) /\ Is(bufReport) /\ Is(sqlfluffReport)
  BY <1>1, <1>2, <1>3 DEF actionlint, dotenv_linter, bufReport, sqlfluffReport
<1>7. Is(biomeReport) /\ Is(valeReport) /\ Is(flake8Report)
  BY <1>1, <1>2, <1>3 DEF biomeReport, valeReport, flake8Report
<1>8. Is(by_rule_prefix) /\ Is(constant("error")) /\ Is(constant("warning"))
  BY <1>1, <1>2, <1>3 DEF by_rule_prefix, constant
<1>9. Adapts(pylintReport) /\ AddsTo(pylintReport, {"column", "endColumn"})
  BY <1>3 DEF pylintReport, Adapter, Adapts, AddsTo, Fields
<1>10. Adapts(ast_grepReport) /\ AddsTo(ast_grepReport, Fields)
  BY <1>3 DEF ast_grepReport, Adapter, Adapts, AddsTo, Fields
<1>11. DOMAIN biomeReport.adds = {"line"}
  BY DEF biomeReport, Adapter, Only
<1> DEFINE S == {"zizmor", "tflint", "ruff", "gitleaks", "osv_scanner", "checkov"}
           R == {"shellcheck", "hadolint", "yamllint", "actionlint", "pylint", "sqlfluff",
                 "biome", "ast_grep", "regal", "vale", "flake8", "dotenv_linter", "buf"}
<1>12. DOMAIN Sarif = S /\ DOMAIN Records = R
  BY DEF Sarif, Records
<1>13. CASE l \in S
  <2>1. Is(Sarif[l])
    BY <1>5, <1>8, <1>13 DEF Sarif
  <2>2. AdapterOf(l) = Sarif[l]
    BY <1>12, <1>13 DEF AdapterOf
  <2>3. CountsFromZero(l) = {}
    BY <1>13 DEF CountsFromZero
  <2> QED
    BY <1>12, <1>13, <2>1, <2>2, <2>3 DEF Is
<1>14. CASE l \in R
  <2>1. AdapterOf(l) = Records[l]
    BY <1>12, <1>14 DEF AdapterOf
  <2>2. CASE l = "pylint"
    <3>1. Records[l] = pylintReport /\ CountsFromZero(l) = {"column", "endColumn"}
      BY <2>2 DEF Records, CountsFromZero
    <3> QED
      BY <1>9, <1>12, <2>1, <2>2, <3>1
  <2>3. CASE l = "ast_grep"
    <3>1. Records[l] = ast_grepReport /\ CountsFromZero(l) = Fields
      BY <2>3 DEF Records, CountsFromZero
    <3> QED
      BY <1>10, <1>12, <2>1, <2>3, <3>1
  <2>4. CASE l = "biome"
    <3>1. Records[l] = biomeReport /\ CountsFromZero(l) = {}
      BY <2>4 DEF Records, CountsFromZero
    <3> QED
      BY <1>7, <1>11, <1>12, <2>1, <2>4, <3>1 DEF Is
  <2>5. CASE l \notin {"pylint", "ast_grep", "biome"}
    <3>1. Is(Records[l])
      BY <1>4, <1>5, <1>6, <1>7, <1>14, <2>5 DEF Records
    <3>2. CountsFromZero(l) = {}
      BY <2>5 DEF CountsFromZero
    <3> QED
      BY <1>12, <1>14, <2>1, <2>5, <3>1, <3>2 DEF Is
  <2> QED
    BY <2>2, <2>3, <2>4, <2>5
<1> QED
  BY <1>12, <1>13, <1>14 DEF Lints

\* The position of a finding is that of the defect, where the tool reports one.
LEMMA PositionIs ==
  ASSUME NEW l \in Lints, NEW b, NEW d \in Found[l], Ordinary(l, b, d)
  PROVE  /\ Position(l, d) = [f \in Fields |-> IF f \in DOMAIN AdapterOf(l).adds THEN d.pos[f] ELSE 0]
         /\ Position(l, d)["line"] = d.pos["line"] /\ d.pos["line"] \in Nat
<1> DEFINE adds == AdapterOf(l).adds
           pos == d.pos
           At(f) == IF f \notin DOMAIN adds THEN 0
                    ELSE IF l = "biome" THEN BiomeLine(d.file, pos[f])
                    ELSE IF pos[f] = 0 THEN Missing(l, f)
                    ELSE Counted(l, f, pos[f]) + adds[f]
<1>1. /\ DOMAIN adds \subseteq Fields /\ "line" \in DOMAIN adds
      /\ \A f \in DOMAIN adds : adds[f] = IF f \in CountsFromZero(l) THEN 1 ELSE 0
      /\ l = "biome" => DOMAIN adds = {"line"}
  BY AdaptersAre DEF Adapts, AddsTo
<1>2. pos \in [Fields -> Nat]
  BY ReportsAssumption DEF Defects
<1>3. Position(l, d) = [f \in Fields |-> At(f)]
  BY DEF Position
<1>4. CASE l = "biome"
  <2>1. d.file \in DOMAIN Lines /\ pos["line"] \in DOMAIN Lines[d.file]
    BY <1>4, ReportsAssumption DEF Ordinary
  <2>2. \A k \in DOMAIN Lines[d.file] : Lines[d.file][k].bytes = Lines[d.file][k].chars
    BY <1>4 DEF Ordinary
  <2>3. BiomeLine(d.file, pos["line"]) = pos["line"]
    BY <2>1, <2>2, BiomeLineIs
  <2> HIDE DEF adds, pos
  <2>4. \A f \in Fields : At(f) = IF f \in DOMAIN adds THEN pos[f] ELSE 0
    BY <1>1, <1>4, <2>3
  <2> HIDE DEF At
  <2>5. Position(l, d) = [f \in Fields |-> IF f \in DOMAIN adds THEN pos[f] ELSE 0]
    BY <1>3, <2>4
  <2> QED
    BY <1>1, <1>2, <2>5 DEF adds, pos
<1>5. CASE l # "biome"
  <2>0. \A f \in Fields : pos[f] = 0 => Missing(l, f) = 0
    BY DEF Ordinary, Missing
  <2> HIDE DEF adds, pos
  <2>1. ASSUME NEW f \in DOMAIN adds PROVE At(f) = pos[f]
    <3>1. /\ pos[f] \in Nat /\ adds[f] = IF f \in CountsFromZero(l) THEN 1 ELSE 0
          /\ pos[f] = 0 => Missing(l, f) = 0
      BY <1>1, <1>2, <2>0, <2>1
    <3>2. CASE f \in CountsFromZero(l)
      <4>1. Counted(l, f, pos[f]) = pos[f] - 1 /\ adds[f] = 1
        BY <3>1, <3>2 DEF Counted
      <4> QED
        BY <1>5, <2>1, <3>1, <4>1
    <3>3. CASE f \notin CountsFromZero(l)
      <4>1. Counted(l, f, pos[f]) = pos[f] /\ adds[f] = 0
        BY <3>1, <3>3 DEF Counted
      <4> QED
        BY <1>5, <2>1, <3>1, <4>1
    <3> QED
      BY <3>2, <3>3
  <2>2. \A f \in Fields : At(f) = IF f \in DOMAIN adds THEN pos[f] ELSE 0
    BY <2>1
  <2> HIDE DEF At
  <2>3. Position(l, d) = [f \in Fields |-> IF f \in DOMAIN adds THEN pos[f] ELSE 0]
    BY <1>3, <2>2
  <2> QED
    BY <1>1, <1>2, <2>3 DEF adds, pos
<1> QED
  BY <1>4, <1>5

LEMMA SeverityIs ==
  ASSUME NEW l \in Lints, NEW word
  PROVE  Level(Mapped(l, word)) = Mapped(l, word)
<1>1. Adapts(AdapterOf(l))
  BY AdaptersAre
<1>2. Mapped(l, word) \in Severities
  BY <1>1 DEF Mapped, Adapts
<1> QED
  BY <1>2 DEF Level


-------------------------------------------------------------------------------
(* Findings                                                                    *)

\* A batch's files are below the directory the tool runs in.
LEMMA BatchIs ==
  ASSUME NEW l, NEW b \in BatchesOf(l)
  PROVE  /\ b.cwd \in Paths
         /\ l \in AtRoot => b.cwd = <<>>
         /\ \A x \in Range(b.files) : x \in DOMAIN Lines /\ x \in Paths /\ x # <<>>
                                      /\ IsPrefix(b.cwd, x) /\ x # b.cwd
<1>1. b \in Batches /\ (l \in AtRoot => b.cwd = <<>>)
  BY DEF BatchesOf
<1>2. b \in Invocations /\ \A x \in Range(b.files) : IsStrictPrefix(b.cwd, x)
  BY <1>1, ReportsAssumption
<1>3. b.cwd \in Paths /\ b.files \in Seq(DOMAIN Lines)
  BY <1>2 DEF Invocations
<1>4. \A x \in Range(b.files) : x \in DOMAIN Lines
  <2> DEFINE files == b.files
  <2>1. files \in Seq(DOMAIN Lines)
    BY <1>3
  <2> HIDE DEF files
  <2>2. \A i \in DOMAIN files : files[i] \in DOMAIN Lines
    BY <2>1
  <2>3. \A x \in Range(files) : x \in DOMAIN Lines
    BY <2>2 DEF Range
  <2> QED
    BY <2>3 DEF files
<1>5. \A x \in DOMAIN Lines : x \in Paths /\ x # <<>>
  BY ReportsAssumption
<1> QED
  BY <1>1, <1>2, <1>3, <1>4, <1>5 DEF IsStrictPrefix

LEMMA DefectIs ==
  ASSUME NEW l \in Lints, NEW d \in Found[l]
  PROVE  /\ d.file \in Paths /\ d.file # <<>> /\ d.form \in Forms(l)
         /\ d.form = "input" => d.quoted
<1>1. d \in Defects(l) /\ (d.form = "input" => d.quoted)
  BY ReportsAssumption
<1> QED
  BY <1>1 DEF Defects

\* Realigning leaves a file of the batch, and a tool's paths that are not realigned.
LEMMA AlignedSame ==
  ASSUME NEW l, NEW b, NEW path, path \in Range(b.files) \/ l \notin Realigned \/ path = <<>>
  PROVE  Aligned(l, b, path) = path
<1>1. path = <<>> => Candidates(b, path) = {}
  BY DEF Candidates
<1> QED
  BY <1>1 DEF Aligned

\* It makes a name that only one file of the batch has that file.
LEMMA AlignedName ==
  ASSUME NEW l \in Realigned, NEW b, NEW file \in Range(b.files),
         \A x \in Range(b.files) : x \in Paths /\ x # <<>>,
         \A x \in Range(b.files) \ {file} : Last(x) # Last(file)
  PROVE  Aligned(l, b, <<Last(file)>>) = file
<1> DEFINE n == Last(file)
           one == <<n>>
<1>1. Len(one) = 1 /\ one[1] = n /\ Last(one) = n /\ one # <<>>
  BY DEF Last
<1>2. CASE one \in Range(b.files)
  <2>1. Last(one) = Last(file)
    BY <1>1
  <2>2. one = file
    BY <1>2, <2>1
  <2> QED
    BY AlignedSame, <1>2, <2>2
<1>3. CASE one \notin Range(b.files)
  <2>1. file \in Candidates(b, one)
    BY <1>1 DEF Candidates
  <2>2. ASSUME NEW x \in Candidates(b, one) PROVE x = file
    <3>1. x \in Range(b.files) /\ (IsSuffix(one, x) \/ <<Last(x)>> = one)
      BY DEF Candidates
    <3>2. x \in Seq(FileNames)
      BY <3>1 DEF Paths
    <3>3. ASSUME IsSuffix(one, x) PROVE Last(x) = n
      <4> DEFINE r == Reverse(x)
                 o == Reverse(one)
      <4>1. Len(x) \in Nat /\ Len(r) = Len(x) /\ r \in Seq(FileNames) /\ \A i \in 1..Len(x) : r[i] = x[Len(x) - i + 1]
        BY <3>2 DEF Reverse
      <4>2. Len(o) = 1 /\ o[1] = n /\ SubSeq(o, 1, 1)[1] = n
        BY <1>1 DEF Reverse
      <4>3. IsPrefix(o, r)
        BY <3>3 DEF IsSuffix
      <4> HIDE DEF r, o, one
      <4>4. 1 <= Len(r) /\ SubSeq(r, 1, 1) = SubSeq(o, 1, 1)
        BY <4>2, <4>3 DEF IsPrefix
      <4>5. SubSeq(r, 1, 1)[1] = r[1]
        BY <4>1, <4>4
      <4>6. r[1] = x[Len(x)]
        BY <4>1, <4>4
      <4> QED
        BY <4>2, <4>4, <4>5, <4>6 DEF Last
    <3>4. ASSUME <<Last(x)>> = one PROVE Last(x) = n
      <4>1. <<Last(x)>>[1] = one[1]
        BY <3>4
      <4> QED
        BY <1>1, <4>1
    <3>5. Last(x) = Last(file)
      BY <3>1, <3>3, <3>4
    <3> QED
      BY <3>1, <3>5
  <2>3. Candidates(b, one) = {file}
    BY <2>1, <2>2
  <2> QED
    BY <1>3, <2>3 DEF Aligned
<1> QED
  BY <1>2, <1>3

\* The file a finding is on before it is realigned.
PutOn(l, b, d) == IF l \in DOMAIN Sarif THEN b.cwd \o PathOf(l, b, d) ELSE PathOf(l, b, d)

\* What is located is put on its file; what is not is dropped, or put on no file
\* of the batch.
RightlyPut(l, b, d) ==
  IF Located(b, d)
  THEN /\ PathOf(l, b, d) # Dropped /\ Aligned(l, b, PutOn(l, b, d)) = d.file
       /\ d.quoted \/ (PathOf(l, b, d) # NoFile /\ PutOn(l, b, d) = d.file)
  ELSE PathOf(l, b, d) # Dropped => Aligned(l, b, PutOn(l, b, d)) \notin Range(b.files)

\* A path that is the file's own.
LEMMA OwnPath ==
  ASSUME NEW l \in Lints, NEW b \in BatchesOf(l), NEW d \in Found[l], Ordinary(l, b, d),
         d.form \notin {"nowhere", "web", "input"},
         PathOf(l, b, d) \in Paths, PathOf(l, b, d) # <<>>, PutOn(l, b, d) = d.file
  PROVE  RightlyPut(l, b, d)
<1>1. PathOf(l, b, d) # Dropped /\ PathOf(l, b, d) # NoFile
  BY DroppedIs DEF NoFile
<1>2. CASE d.file \in Range(b.files)
  <2>1. Aligned(l, b, PutOn(l, b, d)) = d.file
    BY <1>2, AlignedSame
  <2> QED
    BY <1>1, <1>2, <2>1 DEF RightlyPut, Located
<1>3. CASE d.file \notin Range(b.files)
  <2>1. l \notin Realigned
    BY <1>3 DEF Ordinary
  <2>2. Aligned(l, b, PutOn(l, b, d)) = d.file
    BY <2>1, AlignedSame
  <2> QED
    BY <1>3, <2>2 DEF RightlyPut, Located
<1> QED
  BY <1>2, <1>3

LEMMA RecordPut ==
  ASSUME NEW l \in DOMAIN Records, NEW b \in BatchesOf(l), NEW d \in Found[l], Ordinary(l, b, d)
  PROVE  RightlyPut(l, b, d)
<1>1. l \in Lints /\ l \notin DOMAIN Sarif
  <2>1. l \in Lints
    BY DEF Lints
  <2> QED
    BY <2>1, AdaptersAre
<1>2. d.file \in Paths /\ d.file # <<>> /\ d.form \in Forms(l) /\ b.cwd \in Paths
  BY <1>1, DefectIs, BatchIs
<1>3. d.form \notin {"nowhere", "web", "input"}
  BY <1>2 DEF Forms
<1>4. Plain(b.cwd) /\ Plain(d.file)
  BY DEF Ordinary
<1>5. NormalizeUri(RecordUri(b, d), TreeRoot) = d.file
  BY <1>2, <1>4, RecordPathIs
<1>6. PathOf(l, b, d) = d.file
  BY <1>5 DEF PathOf
<1>7. PutOn(l, b, d) = d.file
  BY <1>1, <1>6 DEF PutOn
<1> QED
  BY <1>1, <1>2, <1>3, <1>6, <1>7, OwnPath

LEMMA SarifPut ==
  ASSUME NEW l \in DOMAIN Sarif, NEW b \in BatchesOf(l), NEW d \in Found[l], Ordinary(l, b, d)
  PROVE  RightlyPut(l, b, d)
<1> DEFINE path == NormalizeUri(SarifUri(l, b, d), Root(l, b))
           cwd == b.cwd
           file == d.file
<1>1. l \in Lints /\ l \notin DOMAIN Records
  <2>1. l \in Lints
    BY DEF Lints
  <2> QED
    BY <2>1, AdaptersAre
<1>2. file \in Paths /\ file # <<>> /\ d.form \in Forms(l) /\ cwd \in Paths /\ (d.form = "input" => d.quoted)
  BY <1>1, DefectIs, BatchIs
<1>3. /\ l \in AtRoot => cwd = <<>>
      /\ \A x \in Range(b.files) : x \in Paths /\ x # <<>> /\ IsPrefix(cwd, x) /\ x # cwd
  BY BatchIs
<1>4. l \in Realigned => l \in AtRoot
  BY <1>1 DEF Realigned, AtRoot, Sarif
<1>5. /\ d.form \in {"plain", "absolute", "based"} =>
           IF IsPrefix(cwd, file) /\ file # cwd
           THEN path \in Paths /\ Adds(cwd, path, file)
           ELSE path \in {Dropped, <<".">>}
      /\ d.form = "web" => path = Dropped
      /\ d.form = "input" => path = <<Last(file)>> /\ path \in Paths
  BY <1>2, SarifPathIs
<1>6. /\ d.form # "nowhere" => PathOf(l, b, d) = path
      /\ d.form = "nowhere" => PathOf(l, b, d) = <<>>
      /\ PutOn(l, b, d) = cwd \o PathOf(l, b, d)
  BY <1>1 DEF PathOf, PutOn, NoFile
<1> HIDE DEF path
<1>7. CASE d.form \in {"plain", "absolute", "based"} /\ IsPrefix(cwd, file) /\ file # cwd
  <2>1. PathOf(l, b, d) = path /\ path \in Paths /\ Adds(cwd, path, file)
    BY <1>5, <1>6, <1>7
  <2>2. PutOn(l, b, d) = file
    BY <1>6, <2>1 DEF Adds
  <2>3. path # <<>>
    <3>1. Adds(cwd, <<>>, cwd)
      BY <1>2, EmptyPath
    <3> QED
      BY <1>7, <2>1, <3>1 DEF Adds
  <2>4. d.form \notin {"nowhere", "web", "input"}
    BY <1>7
  <2> QED
    BY <1>1, <2>1, <2>2, <2>3, <2>4, OwnPath
<1>8. CASE d.form \in {"plain", "absolute", "based"} /\ ~(IsPrefix(cwd, file) /\ file # cwd)
  <2>1. file \notin Range(b.files)
    BY <1>3, <1>8
  <2>2. l \notin Realigned
    BY <1>8, <2>1 DEF Ordinary
  <2>3. PathOf(l, b, d) \in {Dropped, <<".">>}
    BY <1>5, <1>6, <1>8
  <2>4. cwd \o <<".">> \notin Range(b.files)
    BY <1>2, <1>3, DroppedIs
  <2>5. ASSUME PathOf(l, b, d) # Dropped PROVE Aligned(l, b, PutOn(l, b, d)) \notin Range(b.files)
    <3>1. PutOn(l, b, d) = cwd \o <<".">>
      BY <1>6, <2>3, <2>5
    <3>2. Aligned(l, b, PutOn(l, b, d)) = PutOn(l, b, d)
      BY <2>2, AlignedSame
    <3> QED
      BY <2>4, <3>1, <3>2
  <2> QED
    BY <2>1, <2>5 DEF RightlyPut, Located
<1>9. CASE d.form = "web"
  <2>1. PathOf(l, b, d) = Dropped
    BY <1>5, <1>6, <1>9
  <2> QED
    BY <1>9, <2>1 DEF RightlyPut, Located
<1>10. CASE d.form = "nowhere"
  <2>1. PutOn(l, b, d) = cwd
    <3>1. Adds(cwd, <<>>, cwd)
      BY <1>2, EmptyPath
    <3> QED
      BY <1>6, <1>10, <3>1 DEF Adds
  <2>2. Aligned(l, b, cwd) = cwd
    BY <1>3, <1>4, AlignedSame
  <2>3. cwd \notin Range(b.files)
    BY <1>3
  <2> QED
    BY <1>10, <2>1, <2>2, <2>3 DEF RightlyPut, Located
<1>11. CASE d.form = "input"
  <2>1. l = "zizmor" /\ l \in Realigned /\ l \in AtRoot
    BY <1>1, <1>2, <1>11 DEF Forms, Realigned, AtRoot
  <2>2. file \in Range(b.files) /\ \A x \in Range(b.files) \ {file} : Last(x) # Last(file)
    BY <1>11, <2>1 DEF Ordinary
  <2>3. PathOf(l, b, d) = <<Last(file)>> /\ PathOf(l, b, d) \in Paths
    BY <1>5, <1>6, <1>11
  <2>4. PutOn(l, b, d) = <<Last(file)>>
    <3> DEFINE one == <<Last(file)>>
    <3>1. one \in Paths /\ PutOn(l, b, d) = <<>> \o one
      BY <1>3, <1>6, <2>1, <2>3
    <3> HIDE DEF one
    <3>2. Adds(<<>>, one, one)
      BY <3>1, EmptyPath
    <3> QED
      BY <3>1, <3>2 DEF Adds, one
  <2>5. Aligned(l, b, <<Last(file)>>) = file
    BY <1>3, <2>1, <2>2, AlignedName
  <2>6. PathOf(l, b, d) # Dropped
    BY <2>3, DroppedIs
  <2> QED
    BY <1>2, <1>11, <2>2, <2>4, <2>5, <2>6 DEF RightlyPut, Located
<1>12. d.form \in {"plain", "absolute", "based", "web", "nowhere", "input"}
  BY <1>1, <1>2 DEF Forms
<1> QED
  BY <1>7, <1>8, <1>9, <1>10, <1>11, <1>12


\* What is located has the context its line gives it.
LEMMA ContextIs ==
  ASSUME NEW l \in Lints, NEW b \in BatchesOf(l), NEW d \in Found[l], Ordinary(l, b, d),
         Located(b, d), NEW file, d.quoted \/ file = d.file, NEW lines, file = d.file => lines = Lines[file]
  PROVE  Context(l, b, file, d, lines) = Expected(l, d).context
<1> DEFINE text == IF d.quoted THEN "quoted"
                   ELSE IF d.pos["line"] \in DOMAIN Lines[d.file] THEN Lines[d.file][d.pos["line"]].text
                   ELSE ""
<1>1. Expected(l, d).context = text
  BY DEF Expected
<1>2. CASE d.quoted
  BY <1>1, <1>2 DEF Context
<1>3. CASE ~d.quoted
  <2>1. file = d.file /\ lines = Lines[file] /\ d.file \in Range(b.files)
    BY <1>3 DEF Located
  <2>2. Readable(l, b, file) /\ file # NoFile
    BY <2>1, BatchIs DEF Readable, NoFile
  <2>3. Position(l, d)["line"] = d.pos["line"] /\ d.pos["line"] \in Nat
    BY PositionIs
  <2>4. NeedsLine(l, file, d) <=> d.pos["line"] > 0
    BY <1>3, <2>2, <2>3 DEF NeedsLine
  <2>5. 0 \notin DOMAIN Lines[d.file]
    <3>1. d.file \in DOMAIN Lines
      BY <2>1, BatchIs
    <3>2. \A i \in DOMAIN Lines[d.file] : i \in 1..Len(Lines[d.file]) /\ Len(Lines[d.file]) \in Nat
      BY <3>1, LineIs
    <3> QED
      BY <3>2
  <2>6. CASE d.pos["line"] = 0
    <3>1. text = ""
      BY <1>3, <2>5, <2>6
    <3>2. Context(l, b, file, d, lines) = ""
      BY <1>3, <2>4, <2>6 DEF Context
    <3> QED
      BY <1>1, <3>1, <3>2
  <2>7. CASE d.pos["line"] # 0
    <3>1. NeedsLine(l, file, d)
      BY <2>3, <2>4, <2>7
    <3>2. Context(l, b, file, d, lines) =
            IF d.pos["line"] \in DOMAIN Lines[d.file] THEN Lines[d.file][d.pos["line"]].text ELSE ""
      BY <1>3, <2>1, <2>2, <2>3, <3>1 DEF Context
    <3> QED
      BY <1>1, <1>3, <3>2
  <2> QED
    BY <2>6, <2>7
<1> QED
  BY <1>2, <1>3

LEMMA KeptThere ==
  ASSUME NEW l, NEW b, NEW f, NEW p, p = Aligned(l, b, f.path), p \in Range(b.files)
  PROVE  KeptOf(l, b, f) = <<[f EXCEPT !.path = p]>>
  BY DEF KeptOf

LEMMA KeptNowhere ==
  ASSUME NEW l, NEW b, NEW f, Aligned(l, b, f.path) \notin Range(b.files)
  PROVE  KeptOf(l, b, f) = <<>>
  BY DEF KeptOf

\* One defect becomes the finding it must, or none.
LEMMA OneDefect ==
  ASSUME NEW l \in Lints, NEW b \in BatchesOf(l), NEW d \in Found[l], Ordinary(l, b, d), NEW context,
         Located(b, d) => context = Expected(l, d).context
  PROVE  /\ PathOf(l, b, d) = Dropped => ExpectedOf(l, b, d) = <<>>
         /\ PathOf(l, b, d) # Dropped =>
              KeptOf(l, b, Finding(PutOn(l, b, d), l, d, context)) = ExpectedOf(l, b, d)
<1> DEFINE path == PutOn(l, b, d)
           f == Finding(path, l, d, context)
<1>1. RightlyPut(l, b, d)
  BY RecordPut, SarifPut DEF Lints
<1>2. CASE Located(b, d)
  <2>1. PathOf(l, b, d) # Dropped /\ Aligned(l, b, path) = d.file /\ d.file \in Range(b.files)
    BY <1>1, <1>2 DEF RightlyPut, Located
  <2>2. f.path = path
    BY DEF Finding
  <2>3. [f EXCEPT !.path = d.file] = [path |-> d.file, pos |-> Position(l, d), severity |-> Level(Mapped(l, d.word)),
                            context |-> context]
    BY DEF Finding
  <2>4. Expected(l, d) =
          [path |-> d.file, pos |-> Position(l, d), severity |-> Level(Mapped(l, d.word)),
           context |-> Expected(l, d).context]
    <3>1. Position(l, d) = [g \in Fields |-> IF g \in DOMAIN AdapterOf(l).adds THEN d.pos[g] ELSE 0]
      BY PositionIs
    <3>2. Level(Mapped(l, d.word)) = Mapped(l, d.word)
      BY SeverityIs
    <3> QED
      BY <3>1, <3>2 DEF Expected
  <2>5. [f EXCEPT !.path = d.file] = Expected(l, d)
    BY <1>2, <2>3, <2>4
  <2> HIDE DEF f
  <2>6. KeptOf(l, b, f) = <<[f EXCEPT !.path = d.file]>>
    <3>1. Aligned(l, b, f.path) = d.file
      BY <2>1, <2>2
    <3> QED
      BY <2>1, <3>1, KeptThere
  <2> QED
    BY <1>2, <2>1, <2>5, <2>6 DEF ExpectedOf, f
<1>3. CASE ~Located(b, d)
  <2>1. PathOf(l, b, d) # Dropped => Aligned(l, b, path) \notin Range(b.files)
    BY <1>1, <1>3 DEF RightlyPut
  <2>2. f.path = path
    BY DEF Finding
  <2> HIDE DEF f
  <2>3. ASSUME PathOf(l, b, d) # Dropped PROVE KeptOf(l, b, f) = <<>>
    <3>1. Aligned(l, b, f.path) \notin Range(b.files)
      BY <2>1, <2>2, <2>3
    <3> QED
      BY <3>1, KeptNowhere
  <2> QED
    BY <1>3, <2>3 DEF ExpectedOf, f
<1> QED
  BY <1>2, <1>3

\* What the first n + 1 give is what the first n give, and the last.
LEMMA FlattenNext ==
  ASSUME NEW A, NEW n \in Nat, NEW g \in [1..(n + 1) -> Seq(A)]
  PROVE  FlattenSeq([i \in 1..(n + 1) |-> g[i]]) = FlattenSeq([i \in 1..n |-> g[i]]) \o g[n + 1]
<1> DEFINE s == [i \in 1..n |-> g[i]]
           t == <<g[n + 1]>>
           all == [i \in 1..(n + 1) |-> g[i]]
           st == s \o t
           B == Seq(A)
<1>1. g[n + 1] \in B /\ \A i \in 1..n : g[i] \in B
  OBVIOUS
<1> HIDE DEF B
<1>2. s \in Seq(B) /\ t \in Seq(B) /\ Len(s) = n /\ Len(t) = 1 /\ t[1] = g[n + 1]
  BY <1>1
<1>3. Concat(st, B, s, t)
  BY <1>2, ConcatIs
<1>4. all \in Seq(B) /\ Len(all) = n + 1
  BY <1>1
<1>5. \A i \in 1..(n + 1) : i \in 1..n \/ i = n + 1
  OBVIOUS
<1>6. \A i \in 1..n : s[i] = g[i]
  OBVIOUS
<1> HIDE DEF st, s, t
<1>7. st \in Seq(B) /\ Len(st) = n + 1 /\ (\A i \in 1..n : st[i] = g[i]) /\ st[n + 1] = g[n + 1]
  BY <1>2, <1>3, <1>6 DEF Concat
<1>8. \A i \in 1..Len(all) : all[i] = st[i]
  BY <1>4, <1>5, <1>7
<1> HIDE DEF all
<1>9. all = st
  BY <1>4, <1>7, <1>8, SameSeq
<1>10. FlattenSeq(st) = FlattenSeq(s) \o FlattenSeq(t)
  BY <1>2, FlattenConcat DEF B, st
<1>11. FlattenSeq(t) = g[n + 1]
  BY <1>1, FlattenOne DEF B, t
<1> QED
  BY <1>9, <1>10, <1>11 DEF all, s


-------------------------------------------------------------------------------
(* Reports                                                                     *)

\* The lines at hand are those of a file.
MemoRight == memo.of # NoFile => memo.lines = Lines[memo.of]

KeptSoFar == FlattenSeq([i \in DOMAIN parsed |-> KeptOf(lint, inv, parsed[i])])
ExpectedSoFar == FlattenSeq([i \in 1..at |-> ExpectedOf(lint, inv, defects[i])])
Refusable == lint \in DOMAIN Sarif /\ TooLarge

\* At every moment of reading a report, what it has given so far is what must be
\* given for the defects that have been read.
ReportInv ==
  /\ rpc \in {"idle", "parse", "done", "refused"}
  /\ MemoRight
  /\ parsed \in Seq(Range(parsed))
  /\ rpc = "idle" => at = 0 /\ parsed = <<>>
  /\ rpc # "idle" =>
       /\ lint \in Lints /\ inv \in BatchesOf(lint)
       /\ defects \in Seq(Found[lint]) /\ at \in 0..Len(defects)
       /\ lint \in DOMAIN Sarif => size \in Sizes
       /\ OrdinaryReport => KeptSoFar = ExpectedSoFar
  /\ rpc = "done" => at = Len(defects) /\ result = KeptSoFar /\ ~Refusable
  /\ rpc = "refused" => Refusable

\* A report is too large by its bytes, whichever way they are found.
LEMMA TooLargeIs ==
  ASSUME size \in Sizes
  PROVE  TooLarge <=> size.bytes > SarifBudget
<1> DEFINE c == size.chars
           k == size.bytes
<1>1. size \in [chars : Nat, bytes : Nat] /\ c <= k /\ k <= 4 * c /\ SarifBudget \in Nat
  BY ReportsAssumption
<1>2. c \in Nat /\ k \in Nat
  BY <1>1
<1>3. TooLarge <=> c > SarifBudget \/ (c * 4 > SarifBudget /\ k > SarifBudget)
  BY DEF TooLarge
<1> HIDE DEF c, k
<1>4. TooLarge <=> k > SarifBudget
  BY <1>1, <1>2, <1>3
<1> QED
  BY <1>4 DEF k

LEMMA ReportStarts == ReportInit => ReportInv
<1> SUFFICES ASSUME ReportInit PROVE ReportInv
  OBVIOUS
<1>1. rpc = "idle" /\ at = 0 /\ parsed = <<>> /\ memo.of = NoFile
  BY DEF ReportInit, NoMemo
<1>2. parsed \in Seq(Range(parsed))
  BY <1>1
<1> QED
  BY <1>1, <1>2 DEF ReportInv, MemoRight

\* One more defect is read: it adds nothing, or one finding.
LEMMA ReadsOne ==
  ASSUME ReportInv, Reading, at' = at + 1, MemoRight',
         UNCHANGED <<lint, inv, size, defects, result, rpc>>,
         \/ /\ parsed' = parsed
            /\ OrdinaryReport => ExpectedOf(lint, inv, Current) = <<>>
         \/ \E f : /\ parsed' = Append(parsed, f)
                   /\ OrdinaryReport => KeptOf(lint, inv, f) = ExpectedOf(lint, inv, Current)
  PROVE  ReportInv'
<1>1. /\ rpc = "parse" /\ at < Len(defects) /\ lint \in Lints /\ inv \in BatchesOf(lint)
      /\ defects \in Seq(Found[lint]) /\ at \in Nat /\ at + 1 \in 1..Len(defects)
      /\ lint \in DOMAIN Sarif => size \in Sizes
      /\ parsed \in Seq(Range(parsed))
      /\ OrdinaryReport => KeptSoFar = ExpectedSoFar
  <2>1. rpc = "parse" /\ at < Len(defects)
    BY DEF Reading
  <2>2. /\ lint \in Lints /\ inv \in BatchesOf(lint) /\ defects \in Seq(Found[lint]) /\ at \in 0..Len(defects)
        /\ lint \in DOMAIN Sarif => size \in Sizes
        /\ parsed \in Seq(Range(parsed))
        /\ OrdinaryReport => KeptSoFar = ExpectedSoFar
    BY <2>1 DEF ReportInv
  <2>3. at \in Nat /\ at + 1 \in 1..Len(defects)
    BY <2>1, <2>2
  <2> QED
    BY <2>1, <2>2, <2>3
<1>2. ExpectedSoFar' = ExpectedSoFar \o ExpectedOf(lint, inv, Current)
  <2> DEFINE A == {Expected(lint, d) : d \in Found[lint]}
             g == [i \in 1..(at + 1) |-> ExpectedOf(lint, inv, defects[i])]
  <2>1. \A i \in 1..(at + 1) : defects[i] \in Found[lint]
    BY <1>1
  <2>2. \A d \in Found[lint] : ExpectedOf(lint, inv, d) \in Seq(A)
    <3> TAKE d \in Found[lint]
    <3>1. Expected(lint, d) \in A
      OBVIOUS
    <3> HIDE DEF A
    <3> QED
      BY <3>1 DEF ExpectedOf
  <2> HIDE DEF A
  <2>3. g \in [1..(at + 1) -> Seq(A)]
    BY <2>1, <2>2
  <2>4. [i \in 1..(at + 1) |-> g[i]] = g /\ g[at + 1] = ExpectedOf(lint, inv, Current)
    BY <1>1 DEF Current
  <2>5. [i \in 1..at |-> g[i]] = [i \in 1..at |-> ExpectedOf(lint, inv, defects[i])]
    BY <1>1
  <2>6. ExpectedSoFar' = FlattenSeq(g)
    BY DEF ExpectedSoFar
  <2> HIDE DEF g
  <2>7. FlattenSeq([i \in 1..(at + 1) |-> g[i]]) = FlattenSeq([i \in 1..at |-> g[i]]) \o g[at + 1]
    BY <1>1, <2>3, FlattenNext
  <2> QED
    BY <2>4, <2>5, <2>6, <2>7 DEF ExpectedSoFar
<1>3. /\ OrdinaryReport' => KeptSoFar' = ExpectedSoFar'
      /\ parsed' \in Seq(Range(parsed'))
  <2>1. OrdinaryReport' = OrdinaryReport
    BY DEF OrdinaryReport
  <2>2. CASE parsed' = parsed /\ (OrdinaryReport => ExpectedOf(lint, inv, Current) = <<>>)
    <3>1. KeptSoFar' = KeptSoFar
      BY <2>2 DEF KeptSoFar
    <3>2. ASSUME OrdinaryReport PROVE ExpectedSoFar' = ExpectedSoFar
      <4> DEFINE e == ExpectedSoFar
                 A == {Expected(lint, d) : d \in Found[lint]}
                 s == [i \in 1..at |-> ExpectedOf(lint, inv, defects[i])]
      <4>1. \A i \in 1..at : defects[i] \in Found[lint]
        BY <1>1
      <4>2. \A d \in Found[lint] : ExpectedOf(lint, inv, d) \in Seq(A)
        <5> TAKE d \in Found[lint]
        <5>1. Expected(lint, d) \in A
          OBVIOUS
        <5> HIDE DEF A
        <5> QED
          BY <5>1 DEF ExpectedOf
      <4> HIDE DEF A
      <4>3. s \in Seq(Seq(A))
        BY <1>1, <4>1, <4>2
      <4>4. e = FlattenSeq(s)
        BY DEF ExpectedSoFar
      <4>5. e \in Seq(A)
        BY <4>3, <4>4, FlattenConcat
      <4> HIDE DEF e
      <4>6. e \o <<>> = e
        BY <4>5, ConcatEmptySeq
      <4>7. ExpectedSoFar' = e \o <<>>
        BY <1>2, <2>2, <3>2 DEF e
      <4> QED
        BY <4>6, <4>7 DEF e
    <3>3. parsed' \in Seq(Range(parsed'))
      BY <1>1, <2>2
    <3> QED
      BY <1>1, <2>1, <3>1, <3>2, <3>3
  <2>3. ASSUME NEW f, parsed' = Append(parsed, f),
               OrdinaryReport => KeptOf(lint, inv, f) = ExpectedOf(lint, inv, Current)
        PROVE  (OrdinaryReport' => KeptSoFar' = ExpectedSoFar') /\ parsed' \in Seq(Range(parsed'))
    <3> DEFINE n == Len(parsed)
               R == Range(parsed) \cup {f}
               more == Append(parsed, f)
    <3>1. n \in Nat /\ DOMAIN parsed = 1..n /\ \A i \in 1..n : parsed[i] \in Range(parsed)
      BY <1>1
    <3>2. /\ more \in Seq(R) /\ Len(more) = n + 1 /\ DOMAIN more = 1..(n + 1) /\ more[n + 1] = f
          /\ \A i \in 1..n : more[i] = parsed[i]
      BY <1>1, <3>1
    <3> HIDE DEF more, n
    <3>3. Range(more) = R
      <4>1. \A i \in 1..(n + 1) : i \in 1..n \/ i = n + 1
        BY <3>1
      <4>2. \A i \in 1..(n + 1) : more[i] \in R
        BY <3>1, <3>2, <4>1
      <4>3. \A x \in Range(parsed) : \E i \in 1..n : parsed[i] = x
        BY <3>1 DEF Range
      <4>4. \A i \in 1..n : i \in 1..(n + 1)
        BY <3>1
      <4>5. \A x \in Range(parsed) : \E i \in 1..(n + 1) : more[i] = x
        BY <3>2, <4>3, <4>4
      <4>6. n + 1 \in 1..(n + 1)
        BY <3>1
      <4> HIDE DEF R
      <4>7. Range(more) \subseteq R
        BY <3>2, <4>2 DEF Range
      <4>8. \A x \in R : x \in Range(more)
        BY <3>2, <4>5, <4>6 DEF Range, R
      <4> QED
        BY <4>7, <4>8
    <3>4. more \in Seq(Range(more))
      BY <3>2, <3>3
    <3>5. ASSUME OrdinaryReport PROVE KeptSoFar' = KeptSoFar \o KeptOf(lint, inv, f)
      <4> DEFINE A == UNION {Range(KeptOf(lint, inv, x)) : x \in R}
                 g == [i \in 1..(n + 1) |-> KeptOf(lint, inv, more[i])]
      <4>1. \A x \in R : KeptOf(lint, inv, x) \in Seq(A)
        <5> TAKE x \in R
        <5> DEFINE k == KeptOf(lint, inv, x)
        <5>1. k \in Seq(Range(k))
          <6> DEFINE p == Aligned(lint, inv, x.path)
                     y == [x EXCEPT !.path = p]
          <6>1. CASE p \in Range(inv.files)
            <7>1. k = <<y>>
              BY <6>1, KeptThere
            <7> HIDE DEF k, y
            <7>2. k \in Seq({y}) /\ k[1] = y /\ 1 \in DOMAIN k
              BY <7>1
            <7>3. y \in Range(k)
              BY <7>2 DEF Range
            <7> QED
              BY <7>1, <7>3
          <6>2. CASE p \notin Range(inv.files)
            <7>1. k = <<>>
              BY <6>2, KeptNowhere
            <7> HIDE DEF k
            <7> QED
              BY <7>1
          <6> QED
            BY <6>1, <6>2
        <5>2. Range(k) \subseteq A
          OBVIOUS
        <5> HIDE DEF k, A
        <5>3. k \in Seq(A)
          BY <5>1, <5>2
        <5> QED
          BY <5>3 DEF k
      <4> HIDE DEF A
      <4>2. \A i \in 1..(n + 1) : more[i] \in R
        BY <3>2
      <4>3. g \in [1..(n + 1) -> Seq(A)]
        BY <4>1, <4>2
      <4>4. [i \in 1..(n + 1) |-> g[i]] = g /\ g[n + 1] = KeptOf(lint, inv, f)
        BY <3>1, <3>2
      <4>5. [i \in 1..n |-> g[i]] = [i \in 1..n |-> KeptOf(lint, inv, parsed[i])]
        BY <3>1, <3>2
      <4>6. KeptSoFar' = FlattenSeq(g)
        <5>1. parsed' = more
          BY <2>3 DEF more
        <5> QED
          BY <3>2, <5>1 DEF KeptSoFar
      <4>7. KeptSoFar = FlattenSeq([i \in 1..n |-> KeptOf(lint, inv, parsed[i])])
        BY <3>1 DEF KeptSoFar
      <4> HIDE DEF g
      <4>8. FlattenSeq([i \in 1..(n + 1) |-> g[i]]) = FlattenSeq([i \in 1..n |-> g[i]]) \o g[n + 1]
        BY <3>1, <4>3, FlattenNext
      <4> QED
        BY <4>4, <4>5, <4>6, <4>7, <4>8
    <3>6. parsed' = more
      BY <2>3 DEF more
    <3> QED
      BY <1>1, <1>2, <2>1, <2>3, <3>4, <3>5, <3>6
  <2> QED
    BY <2>2, <2>3
<1>4. at' \in 0..Len(defects)'
  BY <1>1
<1> QED
  BY <1>1, <1>3, <1>4 DEF ReportInv


\* The defect being read.
LEMMA CurrentIs ==
  ASSUME ReportInv, Reading
  PROVE  /\ rpc = "parse" /\ lint \in Lints /\ inv \in BatchesOf(lint) /\ Current \in Found[lint]
         /\ MemoRight
         /\ OrdinaryReport => Ordinary(lint, inv, Current)
<1>1. rpc = "parse" /\ at < Len(defects)
  BY DEF Reading
<1>2. /\ lint \in Lints /\ inv \in BatchesOf(lint) /\ defects \in Seq(Found[lint]) /\ at \in 0..Len(defects)
      /\ MemoRight
  BY <1>1 DEF ReportInv
<1>3. at + 1 \in 1..Len(defects) /\ DOMAIN defects = 1..Len(defects)
  BY <1>1, <1>2
<1>4. Current \in Found[lint]
  BY <1>2, <1>3 DEF Current
<1>5. OrdinaryReport => Ordinary(lint, inv, Current)
  BY <1>3 DEF OrdinaryReport, Current
<1> QED
  BY <1>1, <1>2, <1>4, <1>5

LEMMA ReportBegins ==
  ASSUME ReportInv, NEW l \in Lints, Run(l)
  PROVE  ReportInv'
<1>1. /\ rpc' = "parse" /\ lint' = l /\ inv' \in BatchesOf(l)
      /\ size' \in IF l \in DOMAIN Sarif THEN Sizes ELSE {size}
      /\ at' = at /\ memo' = memo /\ parsed' = parsed /\ rpc = "idle"
  BY DEF Run
<1>2. at' = 0 /\ parsed' = <<>> /\ parsed \in Seq(Range(parsed))
  BY <1>1 DEF ReportInv
<1>3. defects' \in Seq(Found[l])
  <2>1. PICK n \in 0..MaxDefects : defects' \in [1..n -> Found[l]]
    BY DEF Run
  <2>2. n \in Nat
    BY ReportsAssumption
  <2> QED
    BY <2>1, <2>2
<1>4. MemoRight'
  BY <1>1 DEF MemoRight, ReportInv
<1>5. KeptSoFar' = ExpectedSoFar'
  <2> DEFINE k == [i \in DOMAIN parsed' |-> KeptOf(lint', inv', parsed'[i])]
             e == [i \in 1..at' |-> ExpectedOf(lint', inv', defects'[i])]
  <2>1. DOMAIN parsed' = {} /\ 1..at' = {}
    BY <1>2
  <2>2. k = e
    BY <2>1
  <2>3. KeptSoFar' = FlattenSeq(k) /\ ExpectedSoFar' = FlattenSeq(e)
    BY DEF KeptSoFar, ExpectedSoFar
  <2> HIDE DEF k, e
  <2> QED
    BY <2>2, <2>3
<1>6. at' \in 0..Len(defects')
  <2>1. Len(defects') \in Nat
    BY <1>3
  <2> QED
    BY <1>2, <2>1
<1> QED
  BY <1>1, <1>2, <1>3, <1>4, <1>5, <1>6 DEF ReportInv

LEMMA RefuseReportKeeps ==
  ASSUME ReportInv, RefuseReport
  PROVE  ReportInv'
<1>1. /\ rpc = "parse" /\ rpc' = "refused" /\ Refusable
      /\ UNCHANGED <<lint, inv, size, defects, at, memo, parsed, result>>
  BY DEF RefuseReport, Refusable
<1> QED
  BY <1>1 DEF ReportInv, MemoRight, OrdinaryReport, KeptSoFar, ExpectedSoFar, Refusable, TooLarge

LEMMA DropOneKeeps ==
  ASSUME ReportInv, DropOne
  PROVE  ReportInv'
<1>1. /\ Reading /\ PathOf(lint, inv, Current) = Dropped /\ at' = at + 1
      /\ UNCHANGED <<lint, inv, size, defects, memo, parsed, result, rpc>>
  BY DEF DropOne
<1>2. /\ lint \in Lints /\ inv \in BatchesOf(lint) /\ Current \in Found[lint] /\ MemoRight
      /\ OrdinaryReport => Ordinary(lint, inv, Current)
  BY <1>1, CurrentIs
<1>3. ASSUME OrdinaryReport PROVE ExpectedOf(lint, inv, Current) = <<>>
  <2> DEFINE c == Expected(lint, Current).context
  <2>1. Ordinary(lint, inv, Current)
    BY <1>2, <1>3
  <2>2. Located(inv, Current) => c = Expected(lint, Current).context
    OBVIOUS
  <2> HIDE DEF c
  <2> QED
    BY <1>1, <1>2, <2>1, <2>2, OneDefect
<1>4. MemoRight'
  BY <1>1, <1>2 DEF MemoRight
<1> QED
  BY <1>1, <1>3, <1>4, ReadsOne

LEMMA ParseOneKeeps ==
  ASSUME ReportInv, ParseOne
  PROVE  ReportInv'
<1> DEFINE path == PathOf(lint, inv, Current)
           file == IF path = NoFile THEN NoFile ELSE inv.cwd \o path
           lines == LinesOf(file)
           context == Context(lint, inv, file, Current, lines)
           f == Finding(inv.cwd \o path, lint, Current, context)
<1>1. /\ Reading /\ lint \in DOMAIN Sarif /\ path # Dropped /\ parsed' = Append(parsed, f)
      /\ memo' = IF NeedsLine(lint, file, Current) /\ Readable(lint, inv, file)
                 THEN [of |-> file, lines |-> lines] ELSE memo
      /\ at' = at + 1
      /\ UNCHANGED <<lint, inv, size, defects, result, rpc>>
  BY DEF ParseOne
<1>2. /\ lint \in Lints /\ inv \in BatchesOf(lint) /\ Current \in Found[lint] /\ MemoRight
      /\ OrdinaryReport => Ordinary(lint, inv, Current)
  BY <1>1, CurrentIs
<1>3. file # NoFile => lines = Lines[file]
  BY <1>2 DEF LinesOf, MemoRight
<1>4. PutOn(lint, inv, Current) = inv.cwd \o path
  BY <1>1 DEF PutOn
<1>5. file = IF path = NoFile THEN NoFile ELSE PutOn(lint, inv, Current)
  BY <1>4
<1>6. f = Finding(PutOn(lint, inv, Current), lint, Current, context)
  BY <1>4
<1> HIDE DEF lines, f
<1>7. MemoRight'
  <2>1. CASE NeedsLine(lint, file, Current) /\ Readable(lint, inv, file)
    <3>1. file # NoFile
      BY <2>1 DEF NeedsLine
    <3>2. memo'.of = file /\ memo'.lines = lines
      BY <1>1, <2>1
    <3> QED
      BY <1>3, <3>1, <3>2 DEF MemoRight
  <2>2. CASE ~(NeedsLine(lint, file, Current) /\ Readable(lint, inv, file))
    <3>1. memo' = memo
      BY <1>1, <2>2
    <3> QED
      BY <1>2, <3>1 DEF MemoRight
  <2> QED
    BY <2>1, <2>2
<1> HIDE DEF file
<1>8. ASSUME OrdinaryReport PROVE KeptOf(lint, inv, f) = ExpectedOf(lint, inv, Current)
  <2>1. Ordinary(lint, inv, Current)
    BY <1>2, <1>8
  <2>2. RightlyPut(lint, inv, Current)
    BY <1>1, <1>2, <2>1, SarifPut
  <2>3. ASSUME Located(inv, Current) PROVE context = Expected(lint, Current).context
    <3>1. Current.quoted \/ file = Current.file
      BY <1>5, <2>2, <2>3 DEF RightlyPut
    <3>2. Current.file # NoFile
      BY <1>2, DefectIs DEF NoFile
    <3>3. file = Current.file => lines = Lines[file]
      BY <1>3, <3>2
    <3> QED
      BY <1>2, <2>1, <2>3, <3>1, <3>3, ContextIs
  <2> HIDE DEF context, path
  <2>4. KeptOf(lint, inv, Finding(PutOn(lint, inv, Current), lint, Current, context)) = ExpectedOf(lint, inv, Current)
    BY <1>1, <1>2, <2>1, <2>3, OneDefect DEF path
  <2> QED
    BY <1>6, <2>4
<1> QED
  BY <1>1, <1>7, <1>8, ReadsOne

LEMMA ConvertOneKeeps ==
  ASSUME ReportInv, ConvertOne
  PROVE  ReportInv'
<1> DEFINE path == PathOf(lint, inv, Current)
           context == Context(lint, inv, path, Current, Lines[path])
           f == Finding(path, lint, Current, context)
<1>1. /\ Reading /\ lint \in DOMAIN Records /\ path # Dropped /\ parsed' = Append(parsed, f)
      /\ at' = at + 1
      /\ UNCHANGED <<lint, inv, size, defects, memo, result, rpc>>
  BY DEF ConvertOne
<1>2. /\ lint \in Lints /\ inv \in BatchesOf(lint) /\ Current \in Found[lint] /\ MemoRight
      /\ OrdinaryReport => Ordinary(lint, inv, Current)
  BY <1>1, CurrentIs
<1>3. PutOn(lint, inv, Current) = path
  BY <1>1, <1>2, AdaptersAre DEF PutOn
<1>4. f = Finding(PutOn(lint, inv, Current), lint, Current, context)
  BY <1>3
<1> HIDE DEF f
<1>5. MemoRight'
  BY <1>1, <1>2 DEF MemoRight
<1>6. ASSUME OrdinaryReport PROVE KeptOf(lint, inv, f) = ExpectedOf(lint, inv, Current)
  <2>1. Ordinary(lint, inv, Current)
    BY <1>2, <1>6
  <2>2. RightlyPut(lint, inv, Current)
    BY <1>1, <1>2, <2>1, RecordPut
  <2>3. ASSUME Located(inv, Current) PROVE context = Expected(lint, Current).context
    <3>1. Current.quoted \/ path = Current.file
      BY <1>3, <2>2, <2>3 DEF RightlyPut
    <3> HIDE DEF path
    <3> QED
      BY <1>2, <2>1, <2>3, <3>1, ContextIs
  <2> HIDE DEF context, path
  <2>4. KeptOf(lint, inv, Finding(PutOn(lint, inv, Current), lint, Current, context)) = ExpectedOf(lint, inv, Current)
    BY <1>1, <1>2, <2>1, <2>3, OneDefect DEF path
  <2> QED
    BY <1>4, <2>4
<1> QED
  BY <1>1, <1>5, <1>6, ReadsOne

LEMMA PlaceKeeps ==
  ASSUME ReportInv, Place
  PROVE  ReportInv'
<1>1. /\ rpc = "parse" /\ rpc' = "done" /\ ~Refusable /\ at = Len(defects) /\ result' = KeptSoFar
      /\ UNCHANGED <<lint, inv, size, defects, at, memo, parsed>>
  BY DEF Place, Refusable, KeptSoFar
<1>2. KeptSoFar' = KeptSoFar /\ ExpectedSoFar' = ExpectedSoFar /\ OrdinaryReport' = OrdinaryReport
      /\ Refusable' = Refusable
  BY <1>1 DEF KeptSoFar, ExpectedSoFar, OrdinaryReport, Refusable, TooLarge
<1> QED
  BY <1>1, <1>2 DEF ReportInv, MemoRight

LEMMA ReportStutters ==
  ASSUME ReportInv, UNCHANGED reportVars
  PROVE  ReportInv'
<1>1. UNCHANGED <<lint, inv, size, defects, at, memo, parsed, result, rpc>>
  BY DEF reportVars
<1> QED
  BY <1>1 DEF ReportInv, MemoRight, KeptSoFar, ExpectedSoFar, OrdinaryReport, Refusable, TooLarge

\* A tool with a guard reports.
LEMMA RunToolStarts ==
  ASSUME ReportInv, GuardInv, RunTool
  PROVE  ReportInv'
<1>1. tool \in DOMAIN Guard
  BY DEF GuardInv, AtSearch
<1>2. \A l \in DOMAIN Guard : l # "unguarded" => l \in Lints
  BY DEF Guard, Lints, Records, Sarif
<1>3. \E l \in Lints : Run(l)
  <2>1. CASE tool = "unguarded"
    BY <2>1 DEF RunTool
  <2>2. CASE tool # "unguarded"
    BY <1>1, <1>2, <2>2 DEF RunTool
  <2> QED
    BY <2>1, <2>2
<1> QED
  BY <1>3, ReportBegins

LEMMA InvAgrees ==
  ASSUME ReportInv
  PROVE  RefusedExactly /\ (OrdinaryReport => FindingsAgree)
<1>1. ASSUME rpc \in {"done", "refused"}
      PROVE  (rpc = "refused") = (lint \in DOMAIN Sarif /\ size.bytes > SarifBudget)
  <2>1. lint \in DOMAIN Sarif => size \in Sizes
    BY <1>1 DEF ReportInv
  <2>2. Refusable <=> lint \in DOMAIN Sarif /\ size.bytes > SarifBudget
    BY <2>1, TooLargeIs DEF Refusable
  <2>3. (rpc = "done" => ~Refusable) /\ (rpc = "refused" => Refusable)
    BY DEF ReportInv
  <2> QED
    BY <1>1, <2>2, <2>3
<1>2. ASSUME OrdinaryReport, rpc = "done"
      PROVE  result = FlattenSeq([i \in DOMAIN defects |-> ExpectedOf(lint, inv, defects[i])])
  <2>1. result = KeptSoFar /\ KeptSoFar = ExpectedSoFar /\ at = Len(defects) /\ defects \in Seq(Found[lint])
    BY <1>2 DEF ReportInv
  <2>2. 1..at = DOMAIN defects
    BY <2>1
  <2> QED
    BY <2>1, <2>2 DEF ExpectedSoFar
<1> QED
  BY <1>1, <1>2 DEF RefusedExactly, FindingsAgree

\* Whichever of the 19 tools reports them, however it counts, and in whatever form
\* it names files, an ordinary report of any length becomes, defect by defect and
\* in its order, the findings it must and no others; and a report is refused
\* exactly when it is SARIF with more bytes than the budget, ordinary or not.
THEOREM ReportsAgree == CheckSpec => [](RefusedExactly /\ (OrdinaryReport => EveryWayAgrees))
<1> DEFINE Inv == GuardInv /\ ReportInv
<1>1. CheckInit => Inv
  BY InitSafe, ReportStarts DEF CheckInit
<1>2. Inv /\ [CheckNext]_<<guardVars, reportVars>> => Inv'
  <2> SUFFICES ASSUME Inv, [CheckNext]_<<guardVars, reportVars>> PROVE Inv'
    OBVIOUS
  <2>1. GuardInv'
    BY GuardStepSafe, GuardStutters, RunToolSafe DEF CheckNext, Guarding, Reporting
  <2>2. ASSUME ReportStep PROVE ReportInv'
    BY <2>2, RefuseReportKeeps, DropOneKeeps, ParseOneKeeps, ConvertOneKeeps, PlaceKeeps DEF ReportStep
  <2>3. ReportInv'
    BY <2>2, RunToolStarts, ReportStutters DEF CheckNext, Guarding, Reporting
  <2> QED
    BY <2>1, <2>3
<1>3. Inv => RefusedExactly /\ (OrdinaryReport => EveryWayAgrees)
  BY InvAgrees DEF EveryWayAgrees
<1> QED
  BY <1>1, <1>2, <1>3, PTL DEF CheckSpec

-------------------------------------------------------------------------------
(* Context.run                                                                 *)

\* Every character written is in the pipe, in the reader's hands or counted;
\* what is kept is everything counted until the budget is exceeded; a thread
\* ends, and its stream is closed, at end of file only.
Flow(s) ==
  /\ written[s] = pipe[s] + held[s] + total[s]
  /\ chunks[s] <= Budget[s]
  /\ ~over[s] => chunks[s] = total[s]
  /\ over[s] => total[s] > Budget[s]
  /\ thread[s] = "done" => held[s] = 0 /\ pipe[s] = 0 /\ ~Writers
  /\ closed[s] => thread[s] = "done"

Verdict ==
  /\ caller = "collect" /\ closed["out"] => ~over["out"]
  /\ caller = "ok" /\ closed["out"] => returned = written["out"]
  /\ caller = "too_large" => over["out"]

Conservation == (\A s \in Streams : Flow(s)) /\ Verdict

CInv == TypeOK /\ Conservation

\* The tool is reaped before the threads are joined, and a kill reaches the
\* group before the caller moves on.
Progress ==
  /\ caller \in {"joinOut", "joinErr", "close", "check", "collect"} \cup Outcomes
       => child = "reaped"
  /\ caller \in {"reap", "kill"} => timedOut
  /\ timedOut /\ caller # "kill" => grandchild # "group" /\ child # "running"
  /\ over["out"] => thread["out"] = "killing" \/ (grandchild # "group" /\ child # "running")
  /\ caller \in {"check", "collect", "ok", "too_large"} => ~timedOut
  /\ caller = "timeout" => timedOut
  /\ caller = "too_large" => over["out"]

-------------------------------------------------------------------------------

LEMMA Constants ==
  /\ Budget["out"] \in Nat /\ Budget["err"] \in Nat
  /\ Output["out"] \in Nat /\ Output["err"] \in Nat
  /\ PipeSize \in Nat /\ PipeSize > 0 /\ Chunk \in Nat /\ Chunk > 0
BY RunAssumption DEF Streams

LEMMA InitType == Init => TypeOK
<1> SUFFICES ASSUME Init PROVE TypeOK
  OBVIOUS
<1>1. /\ written \in [Streams -> Nat] /\ pipe \in [Streams -> 0..PipeSize]
      /\ held \in [Streams -> 0..Chunk]
      /\ chunks \in [Streams -> Nat] /\ total \in [Streams -> Nat]
  BY Constants DEF Init, Zero
<1>2. \A s \in Streams : written[s] <= Output[s]
  BY RunAssumption DEF Init, Zero
<1>3. /\ thread \in [Streams -> {"reading", "killing", "done"}] /\ thread["err"] # "killing"
      /\ over \in [Streams -> BOOLEAN] /\ closed \in [Streams -> BOOLEAN]
  BY DEF Init, No, Streams
<1>4. /\ child = "running" /\ grandchild = "none" /\ caller = "wait" /\ timedOut = FALSE
      /\ owed = 0 /\ returned = 0
  BY DEF Init
<1> QED
  BY <1>1, <1>2, <1>3, <1>4 DEF TypeOK

LEMMA NextType == TypeOK /\ [Next]_vars => TypeOK'
<1> SUFFICES ASSUME TypeOK, [Next]_vars PROVE TypeOK'
  OBVIOUS
<1> USE DEF TypeOK
<1>1. ASSUME NEW s \in Streams, Write(s) PROVE TypeOK'
  <2>1. pipe' \in [Streams -> 0..PipeSize]
    BY <1>1, Constants DEF Write
  <2>2. written' \in [Streams -> Nat] /\ \A q \in Streams : written'[q] <= Output[q]
    <3>1. written' = [written EXCEPT ![s] = written[s] + 1]
      BY <1>1 DEF Write
    <3>2. written' \in [Streams -> Nat]
      BY <3>1
    <3>3. ASSUME NEW q \in Streams PROVE written'[q] <= Output[q]
      <4>1. CASE q = s
        <5>1. written[s] < Output[s] /\ written[s] \in Nat /\ Output[s] \in Nat
          BY <1>1, RunAssumption DEF Write
        <5> QED
          BY <3>1, <4>1, <5>1
      <4>2. CASE q # s
        BY <3>1, <4>2
      <4> QED
        BY <4>1, <4>2
    <3> QED
      BY <3>2, <3>3
  <2> QED
    BY <1>1, <2>1, <2>2 DEF Write, procVars, drainVars, callVars
<1>2. CASE Fork
  BY <1>2 DEF Fork, pipeVars, drainVars, callVars
<1>3. CASE Exit
  BY <1>3, Constants DEF Exit, pipeVars, drainVars, Streams
<1>4. CASE GrandchildExits
  BY <1>4 DEF GrandchildExits, pipeVars, drainVars, callVars
<1>5. ASSUME NEW s \in Streams, Gather(s) PROVE TypeOK'
  BY <1>5, RunAssumption DEF Gather, procVars, callVars
<1>6. ASSUME NEW s \in Streams, Keep(s) PROVE TypeOK'
  BY <1>6, RunAssumption DEF Keep, PieceRead, procVars, pipeVars, callVars
<1>7. ASSUME NEW s \in Streams, Exceed(s) PROVE TypeOK'
  BY <1>7, RunAssumption DEF Exceed, PieceRead, procVars, pipeVars, callVars, Streams
<1>8. ASSUME NEW s \in Streams, Discard(s) PROVE TypeOK'
  BY <1>8, RunAssumption DEF Discard, PieceRead, procVars, pipeVars, callVars
<1>9. ASSUME NEW s \in Streams, Finish(s) PROVE TypeOK'
  BY <1>9 DEF Finish, procVars, pipeVars, callVars, Streams
<1>10. ASSUME KillGroup
       PROVE  /\ child' \in {"running", "zombie", "reaped"}
              /\ grandchild' \in {"none", "group", "detached", "dead"}
              /\ owed' \in Nat
  BY <1>10, Constants DEF KillGroup, Streams
<1>11. CASE ThreadKills
  BY <1>10, <1>11 DEF ThreadKills, pipeVars, Streams
<1>12. CASE WaitReturns
  BY <1>12 DEF WaitReturns, pipeVars, drainVars
<1>13. CASE TimeoutExpires
  BY <1>13 DEF TimeoutExpires, procVars, pipeVars, drainVars
<1>14. CASE CallerKills
  BY <1>10, <1>14 DEF CallerKills, pipeVars, drainVars
<1>15. ASSUME NEW s \in Streams, Join(s) \/ JoinGivesUp(s) PROVE TypeOK'
  BY <1>15 DEF Join, JoinGivesUp, AfterJoin, procVars, pipeVars, drainVars
<1>16. CASE Close
  BY <1>16 DEF Close, procVars, pipeVars, drainVars, Outcomes
<1>17. CASE Check
  BY <1>17 DEF Check, procVars, pipeVars, drainVars, Outcomes
<1>18. CASE Collect
  BY <1>18 DEF Collect, procVars, pipeVars, drainVars, Outcomes, Streams
<1>19. CASE UNCHANGED vars
  BY <1>19 DEF vars, procVars, pipeVars, drainVars, callVars
<1> QED
  BY <1>1, <1>2, <1>3, <1>4, <1>5, <1>6, <1>7, <1>8, <1>9, <1>11, <1>12, <1>13, <1>14,
     <1>15, <1>16, <1>17, <1>18, <1>19
     DEF Next, Processes, Drain, Call, Over

\* Every variable keeps its type, and stderr never kills the tool.
THEOREM TypeCorrect == Spec => []TypeOK
BY InitType, NextType, PTL DEF Spec

-------------------------------------------------------------------------------
(* Characters *)

LEMMA StreamTypes ==
  ASSUME TypeOK, NEW q \in Streams
  PROVE  /\ written[q] \in Nat /\ pipe[q] \in Nat /\ held[q] \in Nat
         /\ chunks[q] \in Nat /\ total[q] \in Nat /\ Budget[q] \in Nat
         /\ over[q] \in BOOLEAN /\ closed[q] \in BOOLEAN
BY RunAssumption, Constants DEF TypeOK

LEMMA InitConservation == Init => Conservation
<1> SUFFICES ASSUME Init PROVE Conservation
  OBVIOUS
<1>1. ASSUME NEW s \in Streams PROVE Flow(s)
  <2>1. Budget[s] \in Nat
    BY RunAssumption
  <2> QED
    BY <2>1 DEF Init, Flow, Zero, No
<1>2. Verdict
  BY DEF Init, Verdict
<1> QED
  BY <1>1, <1>2 DEF Conservation

\* What a process does touches a stream only while it can write.
LEMMA ProcessesConserve == CInv /\ Processes => Conservation'
<1> SUFFICES ASSUME CInv, Processes PROVE Conservation'
  OBVIOUS
<1> USE DEF CInv, Conservation
<1>0. "out" \in Streams
  BY DEF Streams
<1>1. ASSUME NEW s \in Streams, Write(s) PROVE Conservation'
  <2>1. ASSUME NEW q \in Streams PROVE Flow(q)' /\ ~closed'[q]
    <3>1. Flow(q) /\ thread[q] # "done" /\ Writers
      BY <1>1 DEF Flow, Write
    <3>2. ~closed[q] /\ UNCHANGED <<held, chunks, total, over, thread, closed>>
      BY <1>1, <3>1 DEF Flow, Write, drainVars, callVars
    <3>3. written'[q] = pipe'[q] + held[q] + total[q]
      <4>1. CASE q = s
        BY <1>1, <3>1, <4>1, StreamTypes DEF Write, Flow, TypeOK
      <4>2. CASE q # s
        BY <1>1, <3>1, <4>2 DEF Write, Flow, TypeOK
      <4> QED
        BY <4>1, <4>2
    <3> QED
      BY <3>1, <3>2, <3>3 DEF Flow
  <2>2. caller' = caller /\ over' = over
    BY <1>1 DEF Write, callVars, drainVars
  <2>3. Verdict'
    BY <1>0, <2>1, <2>2 DEF Verdict
  <2> QED
    BY <2>1, <2>3
<1>2. ASSUME UNCHANGED <<pipe, written, drainVars, closed, caller, returned>>,
             ~Writers => ~Writers'
      PROVE  Conservation'
  <2>1. ASSUME NEW q \in Streams PROVE Flow(q)'
    <3>1. Flow(q)
      OBVIOUS
    <3> QED
      BY <1>2, <3>1 DEF Flow, drainVars
  <2>2. Verdict'
    BY <1>2 DEF Verdict, drainVars
  <2> QED
    BY <2>1, <2>2
<1>3. CASE Fork
  BY <1>2, <1>3 DEF Fork, Writers, pipeVars, callVars
<1>4. CASE Exit
  BY <1>2, <1>4 DEF Exit, Writers, pipeVars
<1>5. CASE GrandchildExits
  BY <1>2, <1>5 DEF GrandchildExits, Writers, pipeVars, callVars
<1> QED
  BY <1>1, <1>3, <1>4, <1>5 DEF Processes

\* A drain thread moves characters on and loses none before the budget.
LEMMA DrainConserves ==
  ASSUME CInv, NEW s \in Streams, Drain(s)
  PROVE  Conservation'
<1> USE DEF CInv, Conservation
<1>1. /\ UNCHANGED <<child, grandchild, written, closed, caller, returned>>
      /\ Writers' = Writers /\ Flow(s)
      /\ thread[s] # "done"
  BY DEF Drain, Gather, Keep, Exceed, Discard, Finish, PieceRead, procVars, pipeVars, callVars,
         Writers
<1>2. ASSUME NEW q \in Streams, q # s PROVE Flow(q)' /\ over'[q] = over[q]
  <2>1. /\ pipe'[q] = pipe[q] /\ held'[q] = held[q] /\ chunks'[q] = chunks[q]
        /\ total'[q] = total[q] /\ over'[q] = over[q] /\ thread'[q] = thread[q]
    BY <1>2 DEF Drain, Gather, Keep, Exceed, Discard, Finish, PieceRead, pipeVars, TypeOK
  <2>2. Flow(q)
    OBVIOUS
  <2> QED
    BY <1>1, <2>1, <2>2 DEF Flow
<1>3. /\ written[s] \in Nat /\ pipe[s] \in Nat /\ held[s] \in Nat
      /\ chunks[s] \in Nat /\ total[s] \in Nat /\ Budget[s] \in Nat
  BY StreamTypes
<1>4. ~closed[s] /\ ~closed'[s]
  BY <1>1 DEF Flow
<1>5. ASSUME Gather(s) PROVE Flow(s)'
  <2>1. /\ pipe'[s] = pipe[s] - 1 /\ held'[s] = held[s] + 1
        /\ UNCHANGED <<thread, chunks, total, over>>
    BY <1>5 DEF Gather, TypeOK
  <2>2. written'[s] = pipe'[s] + held'[s] + total'[s]
    BY <1>1, <1>3, <2>1 DEF Flow
  <2> QED
    BY <1>1, <1>4, <2>1, <2>2 DEF Flow
<1>6. ASSUME PieceRead(s) PROVE held'[s] = 0 /\ total'[s] = total[s] + held[s]
  BY <1>6 DEF PieceRead, TypeOK
<1>7. ASSUME Keep(s) PROVE Flow(s)'
  <2>1. /\ ~over[s] /\ total'[s] <= Budget[s] /\ chunks'[s] = chunks[s] + held[s]
        /\ held'[s] = 0 /\ total'[s] = total[s] + held[s]
        /\ UNCHANGED <<pipe, thread, over>>
    BY <1>6, <1>7 DEF Keep, TypeOK, pipeVars
  <2> QED
    BY <1>1, <1>3, <1>4, <2>1 DEF Flow
<1>8. ASSUME Exceed(s) PROVE Flow(s)'
  <2>1. /\ total'[s] > Budget[s] /\ over'[s] /\ thread'[s] # "done"
        /\ held'[s] = 0 /\ total'[s] = total[s] + held[s]
        /\ UNCHANGED <<pipe, chunks>>
    BY <1>1, <1>6, <1>8 DEF Exceed, TypeOK, pipeVars
  <2> QED
    BY <1>1, <1>3, <1>4, <2>1 DEF Flow
<1>9. ASSUME Discard(s) PROVE Flow(s)'
  <2>1. /\ over[s] /\ held'[s] = 0 /\ total'[s] = total[s] + held[s]
        /\ UNCHANGED <<pipe, chunks, thread, over>>
    BY <1>6, <1>9 DEF Discard, pipeVars
  <2> QED
    BY <1>1, <1>3, <1>4, <2>1 DEF Flow
<1>10. ASSUME Finish(s) PROVE Flow(s)'
  <2>1. /\ held[s] = 0 /\ pipe[s] = 0 /\ ~Writers
        /\ UNCHANGED <<pipe, held, chunks, total, over>>
    BY <1>10 DEF Finish, Eof, pipeVars
  <2> QED
    BY <1>1, <1>3, <1>4, <2>1 DEF Flow
<1>11. Flow(s)'
  BY <1>5, <1>7, <1>8, <1>9, <1>10 DEF Drain
<1>12. over["out"] => over'["out"]
  <2>1. CASE s # "out"
    BY <1>2, <2>1 DEF Streams
  <2>2. CASE s = "out"
    BY <2>2 DEF Drain, Gather, Keep, Exceed, Discard, Finish
  <2> QED
    BY <2>1, <2>2
<1>13. closed["out"] => s # "out" /\ (~over["out"] => ~over'["out"])
  BY <1>2, <1>4 DEF Streams
<1>14. Verdict'
  BY <1>1, <1>12, <1>13 DEF Verdict
<1> QED
  BY <1>2, <1>11, <1>14

\* A kill ends writers and moves no character.
LEMMA KillsConserve == CInv /\ (ThreadKills \/ CallerKills) => Conservation'
<1> SUFFICES ASSUME CInv, ThreadKills \/ CallerKills PROVE Conservation'
  OBVIOUS
<1> USE DEF CInv, Conservation
<1>1. /\ UNCHANGED <<pipe, written, held, chunks, total, over, closed, returned>>
      /\ ~Writers => ~Writers'
  BY DEF ThreadKills, CallerKills, KillGroup, Writers, pipeVars, drainVars
<1>2. \A q \in Streams : thread'[q] = "done" <=> thread[q] = "done"
  BY DEF ThreadKills, CallerKills, drainVars, TypeOK, Streams
<1>3. ASSUME NEW q \in Streams PROVE Flow(q)'
  <2>1. Flow(q)
    OBVIOUS
  <2> QED
    BY <1>1, <1>2, <2>1 DEF Flow
<1>4. Verdict'
  BY <1>1 DEF Verdict, ThreadKills, CallerKills
<1> QED
  BY <1>3, <1>4

\* The calling thread closes what its reader has finished with, looks at the
\* flag, and collects.
LEMMA CallConserves == CInv /\ Call => Conservation'
<1> SUFFICES ASSUME CInv, Call PROVE Conservation'
  OBVIOUS
<1> USE DEF CInv, Conservation
<1>1. ASSUME UNCHANGED <<pipeVars, drainVars, closed>>, ~Writers => ~Writers'
      PROVE  \A q \in Streams : Flow(q)'
  <2> SUFFICES ASSUME NEW q \in Streams PROVE Flow(q)'
    OBVIOUS
  <2>1. Flow(q)
    OBVIOUS
  <2> QED
    BY <1>1, <2>1 DEF Flow, pipeVars, drainVars
<1>2. CASE WaitReturns
  BY <1>1, <1>2 DEF WaitReturns, Writers, Verdict
<1>3. CASE TimeoutExpires
  BY <1>1, <1>3 DEF TimeoutExpires, Writers, Verdict, procVars
<1>4. CASE CallerKills
  BY <1>4, KillsConserve
<1>5. ASSUME NEW s \in Streams, Join(s) \/ JoinGivesUp(s) PROVE Conservation'
  BY <1>1, <1>5 DEF Join, JoinGivesUp, AfterJoin, Writers, Verdict, procVars
<1>6. CASE Close
  <2>1. ASSUME NEW q \in Streams PROVE Flow(q)'
    <3>1. Flow(q) /\ (closed'[q] => thread[q] = "done")
      BY <1>6 DEF Close
    <3> QED
      BY <1>6, <3>1 DEF Close, Flow, Writers, procVars, pipeVars, drainVars
  <2>2. Verdict'
    BY <1>6 DEF Close, Verdict
  <2> QED
    BY <2>1, <2>2
<1>7. CASE Check
  <2>1. Verdict'
    BY <1>7 DEF Check, Verdict, drainVars
  <2> QED
    BY <1>1, <1>7, <2>1 DEF Check, Writers, procVars
<1>8. CASE Collect
  <2>1. closed["out"] => returned' = written["out"]
    <3>1. Flow("out") /\ "out" \in Streams
      BY DEF Streams
    <3>2. ASSUME closed["out"]
          PROVE  /\ thread["out"] = "done" /\ held["out"] = 0 /\ pipe["out"] = 0
                 /\ chunks["out"] = total["out"]
      BY <1>8, <3>1, <3>2 DEF Collect, Flow, Verdict
    <3> QED
      BY <1>8, <3>1, <3>2, StreamTypes DEF Collect, Flow
  <2>2. Verdict'
    BY <1>8, <2>1 DEF Collect, Verdict, drainVars, pipeVars
  <2> QED
    BY <1>1, <1>8, <2>2 DEF Collect, Writers, procVars
<1> QED
  BY <1>2, <1>3, <1>4, <1>5, <1>6, <1>7, <1>8 DEF Call

LEMMA NextConservation == CInv /\ [Next]_vars => CInv'
<1> SUFFICES ASSUME CInv, [Next]_vars PROVE CInv'
  OBVIOUS
<1>1. TypeOK'
  BY NextType DEF CInv
<1>2. ASSUME UNCHANGED vars PROVE Conservation'
  BY <1>2 DEF CInv, Conservation, Flow, Verdict, Writers, vars, procVars, pipeVars, drainVars,
              callVars
<1>3. Conservation'
  BY <1>2, ProcessesConserve, DrainConserves, KillsConserve, CallConserves DEF Next, Over
<1> QED
  BY <1>1, <1>3 DEF CInv

\* However much is written and whoever reads when: what is kept never exceeds
\* a stream's budget, run refuses stdout only above it and returns everything
\* whenever the drain thread came to its end, and no stream is closed under
\* its reader.
THEOREM OutputIsBoundedAndWhole ==
  Spec => [](KeptBounded /\ VerdictIsRight /\ NeverClosedUnderReader)
<1>1. CInv => KeptBounded /\ VerdictIsRight /\ NeverClosedUnderReader
  <2> SUFFICES ASSUME CInv PROVE KeptBounded /\ VerdictIsRight /\ NeverClosedUnderReader
    OBVIOUS
  <2>1. KeptBounded /\ NeverClosedUnderReader
    BY DEF CInv, Conservation, Flow, KeptBounded, NeverClosedUnderReader
  <2>2. Flow("out") /\ "out" \in Streams /\ TypeOK
    BY DEF CInv, Conservation, Streams
  <2>3. over["out"] => written["out"] > Budget["out"]
    BY <2>2, StreamTypes DEF Flow
  <2> QED
    BY <2>1, <2>3 DEF CInv, Conservation, Verdict, VerdictIsRight
<1>2. Init => CInv
  BY InitType, InitConservation DEF CInv
<1> QED
  BY <1>1, <1>2, NextConservation, PTL DEF Spec

\* The outcome run reports is the one its drain threads saw: a refusal of stdout
\* only above the budget, everything when the drain came to its end.
THEOREM VerdictsAreRight == Spec => []VerdictIsRight
BY OutputIsBoundedAndWhole, PTL

-------------------------------------------------------------------------------
(* Processes *)

LEMMA NextProgress == TypeOK /\ Progress /\ [Next]_vars => Progress'
<1> SUFFICES ASSUME TypeOK, Progress, [Next]_vars PROVE Progress'
  OBVIOUS
<1> USE DEF Progress, Outcomes
<1>1. ASSUME NEW s \in Streams, Write(s) PROVE Progress'
  BY <1>1 DEF Write, procVars, drainVars, callVars
<1>2. CASE Fork
  BY <1>2 DEF Fork, drainVars, callVars
<1>3. CASE Exit
  BY <1>3 DEF Exit, drainVars
<1>4. CASE GrandchildExits
  BY <1>4 DEF GrandchildExits, drainVars, callVars
<1>5. ASSUME NEW s \in Streams, Gather(s) \/ Keep(s) \/ Discard(s) PROVE Progress'
  BY <1>5 DEF Gather, Keep, Discard, PieceRead, procVars, callVars
<1>6. ASSUME NEW s \in Streams, Exceed(s) PROVE Progress'
  BY <1>6 DEF Exceed, PieceRead, procVars, callVars, TypeOK
<1>7. ASSUME NEW s \in Streams, Finish(s) PROVE Progress'
  BY <1>7 DEF Finish, procVars, callVars, TypeOK
<1>8. CASE ThreadKills
  BY <1>8 DEF ThreadKills, KillGroup, TypeOK
<1>9. CASE WaitReturns
  BY <1>9 DEF WaitReturns, drainVars
<1>10. CASE TimeoutExpires
  BY <1>10 DEF TimeoutExpires, procVars, drainVars
<1>11. CASE CallerKills
  BY <1>11 DEF CallerKills, KillGroup, drainVars, TypeOK
<1>12. ASSUME NEW s \in Streams, Join(s) \/ JoinGivesUp(s) PROVE Progress'
  BY <1>12 DEF Join, JoinGivesUp, Joins, AfterJoin, procVars, drainVars
<1>13. CASE Close
  BY <1>13 DEF Close, procVars, drainVars
<1>14. CASE Check
  BY <1>14 DEF Check, procVars, drainVars
<1>15. CASE Collect
  BY <1>15 DEF Collect, procVars, drainVars
<1>16. CASE UNCHANGED vars
  BY <1>16 DEF vars, procVars, drainVars, callVars
<1> QED
  BY <1>1, <1>2, <1>3, <1>4, <1>5, <1>6, <1>7, <1>8, <1>9, <1>10, <1>11, <1>12, <1>13,
     <1>14, <1>15, <1>16 DEF Next, Processes, Drain, Call, Over

\* Whenever run ends the tool has been reaped, and when it raises no process of
\* the tool's group survives a kill that has been sent.
THEOREM NothingIsLeft == Spec => []NoLeftovers
<1>1. Init => Progress
  BY DEF Init, Progress, Outcomes, No, Streams
<1>2. Progress => NoLeftovers
  BY DEF Progress, NoLeftovers, Outcomes
<1> QED
  BY <1>1, <1>2, InitType, NextType, NextProgress, PTL DEF Spec
================================================================================
