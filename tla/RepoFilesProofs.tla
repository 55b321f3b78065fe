---------------------------- MODULE RepoFilesProofs ----------------------------
(***************************************************************************)
(* What is proved of reads of parts of a file, for every file, ranges,     *)
(* budget and room, and of grep and ls, for every tree and everything that *)
(* becomes unreadable while they walk it.  The definitions of RepoRead and *)
(* what there is to find on a walk are recursive functions and choices, so *)
(* what they compute is proved by least counterexample: Least, Induction   *)
(* and StepsDefine stand for induction over numbers.                       *)
(***************************************************************************)
EXTENDS RepoFiles, FiniteSetTheorems, SequenceTheorems, TLAPS

-------------------------------------------------------------------------------
(* Numbers *)

\* Every set of numbers has a least one: what every induction below rests on.
LEMMA Least ==
  ASSUME NEW T \in SUBSET Nat, T # {}
  PROVE  \E x \in T : \A y \in T : x <= y
<1> DEFINE R == {ss \in Nat \X Nat : ss[1] < ss[2]}
<1>1. IsWellFoundedOn(R, Nat)
  BY NatLessThanWellFounded DEF OpToRel
<1> HIDE DEF R
<1>2. PICK x \in T : \A y \in T : ~(<<y, x>> \in R)
  BY <1>1, WFMin
<1>3. \A y \in T : ~(y < x)
  BY <1>2 DEF R
<1> QED
  BY <1>3

\* A bounded one has a greatest.
LEMMA Greatest ==
  ASSUME NEW n \in Nat, NEW T \in SUBSET (0..n), T # {}
  PROVE  \E x \in T : \A y \in T : y <= x
<1> DEFINE U == {n - y : y \in T}
<1>1. U \in SUBSET Nat /\ U # {}
  <2>1. \A y \in T : n - y \in Nat
    OBVIOUS
  <2> QED
    BY <2>1
<1>2. PICK u \in U : \A v \in U : u <= v
  BY <1>1, Least
<1>3. PICK x \in T : u = n - x
  OBVIOUS
<1>4. ASSUME NEW y \in T PROVE y <= x
  <2>1. n - y \in U
    OBVIOUS
  <2>2. n - x <= n - y
    BY <1>2, <1>3, <2>1
  <2>3. x \in Nat /\ y \in Nat
    OBVIOUS
  <2> QED
    BY <2>2, <2>3
<1> QED
  BY <1>4

\* What holds of 0 and passes from each number to the next holds up to n.
LEMMA Induction ==
  ASSUME NEW n \in Nat, NEW T, 0 \in T, \A i \in 1..n : i - 1 \in T => i \in T
  PROVE  \A i \in 0..n : i \in T
<1> DEFINE U == {i \in 0..n : i \notin T}
<1>1. ASSUME U # {} PROVE FALSE
  <2>0. U \in SUBSET Nat
    OBVIOUS
  <2> HIDE DEF U
  <2>1. PICK m \in U : \A l \in U : m <= l
    BY <1>1, <2>0, Least
  <2> USE DEF U
  <2>2. m \in 1..n /\ m - 1 \in 0..n /\ ~(m <= m - 1)
    OBVIOUS
  <2>3. m - 1 \in T
    BY <2>1, <2>2
  <2> QED
    BY <2>2, <2>3
<1> QED
  BY <1>1

\* A value at 0, and a step from each value to the next, define a function.
Follows(f, v, D, n) ==
  f[0] = v /\ \A i \in 1..n : f[i] = D[<<f[i - 1], i>>]

\* A function that starts at a value and takes each next one from the last exists.
LEMMA StepsDefine ==
  ASSUME NEW S, NEW v \in S, NEW D \in [S \X Nat -> S], NEW n \in Nat
  PROVE  \E f \in [0..n -> S] : Follows(f, v, D, n)
<1> DEFINE T == {m \in Nat : ~ \E f \in [0..m -> S] : Follows(f, v, D, m)}
<1>1. ASSUME T # {} PROVE FALSE
  <2>0. T \in SUBSET Nat
    OBVIOUS
  <2> HIDE DEF T
  <2>1. PICK m \in T : \A l \in T : m <= l
    BY <1>1, <2>0, Least
  <2> USE DEF T
  <2>2. m # 0
    <3> DEFINE f == [i \in 0..0 |-> v]
    <3>1. f \in [0..0 -> S] /\ Follows(f, v, D, 0)
      BY DEF Follows
    <3> QED
      BY <3>1
  <2>3. m \in Nat /\ m - 1 \in Nat /\ ~(m <= m - 1)
    BY <2>0, <2>2
  <2>4. m - 1 \notin T
    BY <2>1, <2>3
  <2>5. PICK g \in [0..(m - 1) -> S] : Follows(g, v, D, m - 1)
    BY <2>3, <2>4
  <2> DEFINE f == [i \in 0..m |-> IF i = m THEN D[<<g[m - 1], m>>] ELSE g[i]]
  <2>6. D[<<g[m - 1], m>>] \in S
    BY <2>3
  <2>7. f \in [0..m -> S]
    BY <2>3, <2>6
  <2>8. f[0] = v
    BY <2>2, <2>3, <2>5 DEF Follows
  <2>9. ASSUME NEW i \in 1..m PROVE f[i] = D[<<f[i - 1], i>>]
    <3>1. CASE i = m
      <4>1. m - 1 \in 0..m /\ m \in 0..m /\ m - 1 # m
        BY <2>3
      <4>2. f[m - 1] = g[m - 1]
        BY <4>1
      <4> QED
        BY <3>1, <4>1, <4>2
    <3>2. CASE i # m
      <4>1. i \in 1..(m - 1) /\ i - 1 \in 0..m /\ i - 1 # m /\ i \in 0..m
        BY <2>3, <3>2
      <4>2. g[i] = D[<<g[i - 1], i>>]
        BY <2>5, <4>1 DEF Follows
      <4> QED
        BY <3>2, <4>1, <4>2
    <3> QED
      BY <3>1, <3>2
  <2>10. Follows(f, v, D, m)
    BY <2>8, <2>9 DEF Follows
  <2> QED
    BY <2>7, <2>10
<1>2. n \notin T
  BY <1>1
<1> QED
  BY <1>2

\* In a finite set with a strict order, there is one element for every number of
\* elements before it.
Before(S, R, x) == {y \in S : <<y, x>> \in R}

\* In a finite total order, how many come before tells each element from the others.
LEMMA Ranks ==
  ASSUME NEW S, IsFiniteSet(S), NEW R,
         \A x \in S : <<x, x>> \notin R,
         \A x, y, z \in S : <<x, y>> \in R /\ <<y, z>> \in R => <<x, z>> \in R,
         \A x, y \in S : x = y \/ <<x, y>> \in R \/ <<y, x>> \in R
  PROVE  /\ Cardinality(S) \in Nat
         /\ \A x \in S : Cardinality(Before(S, R, x)) \in 0..(Cardinality(S) - 1)
         /\ \A n \in 1..Cardinality(S) : \E x \in S : Cardinality(Before(S, R, x)) = n - 1
         /\ \A x, y \in S : <<x, y>> \in R <=>
              Cardinality(Before(S, R, x)) < Cardinality(Before(S, R, y))
<1> DEFINE N == Cardinality(S)
           rank == [x \in S |-> Cardinality(Before(S, R, x))]
<1>1. N \in Nat
  BY FS_CardinalityType
<1>2. ASSUME NEW x \in S
      PROVE IsFiniteSet(Before(S, R, x)) /\ Cardinality(Before(S, R, x)) \in 0..(N - 1)
  <2>1. Before(S, R, x) \subseteq S /\ x \notin Before(S, R, x)
    BY DEF Before
  <2>2. IsFiniteSet(Before(S, R, x)) /\ Cardinality(Before(S, R, x)) <= N
        /\ Cardinality(Before(S, R, x)) # N
    BY <2>1, FS_Subset
  <2>3. Cardinality(Before(S, R, x)) \in Nat
    BY <2>2, FS_CardinalityType
  <2> QED
    BY <1>1, <2>2, <2>3
<1>3. ASSUME NEW x \in S, NEW y \in S, <<x, y>> \in R
      PROVE  Cardinality(Before(S, R, x)) < Cardinality(Before(S, R, y))
  <2>1. Before(S, R, x) \subseteq Before(S, R, y) /\ x \in Before(S, R, y) /\ x \notin Before(S, R, x)
    BY <1>3 DEF Before
  <2>2. Cardinality(Before(S, R, x)) <= Cardinality(Before(S, R, y))
        /\ Cardinality(Before(S, R, x)) # Cardinality(Before(S, R, y))
    BY <1>2, <2>1, FS_Subset
  <2>3. Cardinality(Before(S, R, x)) \in 0..(N - 1) /\ Cardinality(Before(S, R, y)) \in 0..(N - 1)
    BY <1>2
  <2> QED
    BY <1>1, <2>2, <2>3
<1>4. ASSUME NEW x \in S, NEW y \in S,
             Cardinality(Before(S, R, x)) < Cardinality(Before(S, R, y))
      PROVE  <<x, y>> \in R
  <2>1. Cardinality(Before(S, R, x)) \in Int /\ Cardinality(Before(S, R, y)) \in Int
    BY <1>2
  <2>2. x # y /\ ~(Cardinality(Before(S, R, y)) < Cardinality(Before(S, R, x)))
    BY <1>4, <2>1
  <2> QED
    BY <1>3, <2>2
<1>5. rank \in [S -> 0..(N - 1)]
  BY <1>2
<1>6. \A x, y \in S : rank[x] = rank[y] => x = y
  <2> SUFFICES ASSUME NEW x \in S, NEW y \in S, rank[x] = rank[y], x # y PROVE FALSE
    OBVIOUS
  <2>1. rank[x] \in Int /\ rank[y] \in Int /\ ~(rank[x] < rank[y]) /\ ~(rank[y] < rank[x])
    BY <1>2
  <2> QED
    BY <1>3, <2>1
<1> HIDE DEF rank
<1>7. rank \in Surjection(S, 0..(N - 1))
  <2>1. rank \in Injection(S, 0..(N - 1))
    BY <1>5, <1>6 DEF Injection, IsInjective
  <2>2. IsFiniteSet(0..(N - 1)) /\ Cardinality(0..(N - 1)) = IF 0 > N - 1 THEN 0 ELSE (N - 1) - 0 + 1
    BY <1>1, FS_Interval
  <2>3. Cardinality(0..(N - 1)) = N
    BY <1>1, <2>2
  <2> QED
    BY <2>1, <2>2, <2>3, FS_Injection
<1>8. ASSUME NEW n \in 1..N PROVE \E x \in S : Cardinality(Before(S, R, x)) = n - 1
  <2>1. n - 1 \in 0..(N - 1)
    BY <1>1
  <2>2. PICK x \in S : rank[x] = n - 1
    BY <1>7, <2>1 DEF Surjection
  <2> QED
    BY <2>2 DEF rank
<1> QED
  BY <1>1, <1>2, <1>3, <1>4, <1>8

-------------------------------------------------------------------------------
(* The text of some lines, and what a result costs *)

\* The lines s..e hold some number of bytes; one line, its own.
LEMMA TextIs ==
  ASSUME NEW lines \in Seq(Nat), NEW s \in 1..Len(lines), NEW e \in s..Len(lines)
  PROVE  Text(lines, s, e) \in Nat /\ Text(lines, s, s) = lines[s]
<1>0. Len(lines) \in Nat /\ s \in Nat /\ e \in Nat /\ s <= e /\ s >= 1 /\ e <= Len(lines)
      /\ \A i \in s..e : lines[i] \in Nat
  OBVIOUS
<1>1. ASSUME NEW d \in s..e
      PROVE  Text(lines, s, d) \in Nat /\ (d = s => Text(lines, s, d) = lines[s])
  <2> DEFINE w(k) == IF s - 1 + k \in s..e THEN lines[s - 1 + k] ELSE 0
             D == [q \in Nat \X Nat |-> q[1] + w(q[2])]
  <2>1. D \in [Nat \X Nat -> Nat]
    <3>1. \A k \in Nat : w(k) \in Nat
      BY <1>0
    <3> HIDE DEF w
    <3>2. \A q \in Nat \X Nat : q[1] \in Nat /\ w(q[2]) \in Nat
      BY <3>1
    <3>3. \A a, b \in Nat : a + b \in Nat
      OBVIOUS
    <3>4. \A q \in Nat \X Nat : q[1] + w(q[2]) \in Nat
      BY <3>2, <3>3
    <3> QED
      BY <3>4
  <2>2. d - s + 1 \in Nat /\ d \in Nat
    BY <1>0
  <2> HIDE DEF D
  <2>3. PICK g \in [0..(d - s + 1) -> Nat] : Follows(g, 0, D, d - s + 1)
    BY <2>1, <2>2, StepsDefine
  <2> DEFINE f == [i \in (s - 1)..d |-> g[i - (s - 1)]]
  <2>4. ASSUME NEW i \in (s - 1)..d
        PROVE  f[i] = IF i < s THEN 0 ELSE f[i - 1] + lines[i]
    <3>1. CASE i < s
      <4>1. i - (s - 1) = 0
        BY <1>0, <3>1
      <4>2. g[0] = 0
        BY <2>3 DEF Follows
      <4> QED
        BY <3>1, <4>1, <4>2
    <3>2. CASE ~(i < s)
      <4>1. i - (s - 1) \in 1..(d - s + 1) /\ i - 1 \in (s - 1)..d /\ i \in s..e /\ i - s + 1 \in Nat
            /\ i - s \in Nat /\ i - 1 - (s - 1) = i - s /\ i - (s - 1) = i - s + 1 
            /\ i - s + 1 - 1 = i - s /\ s - 1 + (i - s + 1) = i /\ i - s \in 0..(d - s + 1)
        BY <1>0, <3>2
      <4>2. g[i - s + 1] = D[<<g[i - s], i - s + 1>>]
        BY <2>3, <4>1 DEF Follows
      <4>3. g[i - s] \in Nat
        BY <4>1
      <4>4. D[<<g[i - s], i - s + 1>>] = g[i - s] + lines[i]
        BY <4>1, <4>3 DEF D
      <4>5. f[i] = g[i - s + 1] /\ f[i - 1] = g[i - s]
        BY <4>1
      <4> QED
        BY <3>2, <4>2, <4>4, <4>5
    <3> QED
      BY <3>1, <3>2
  <2>5. f = [i \in (s - 1)..d |-> IF i < s THEN 0 ELSE f[i - 1] + lines[i]]
    BY <2>4
  <2> HIDE DEF f
  <2> DEFINE sum[i \in (s - 1)..d] == IF i < s THEN 0 ELSE sum[i - 1] + lines[i]
  <2>6. sum = [i \in (s - 1)..d |-> IF i < s THEN 0 ELSE sum[i - 1] + lines[i]]
    BY <2>5
  <2> HIDE DEF sum
  <2>7. \A i \in 0..(d - s + 1) : i \in {j \in 0..(d - s + 1) : sum[j + (s - 1)] \in Nat}
    <3> DEFINE U == {j \in 0..(d - s + 1) : sum[j + (s - 1)] \in Nat}
    <3>1. 0 \in U
      <4>1. 0 + (s - 1) \in (s - 1)..d /\ 0 + (s - 1) < s /\ 0 \in 0..(d - s + 1)
        BY <1>0
      <4>2. sum[0 + (s - 1)] = 0
        BY <2>6, <4>1
      <4> QED
        BY <4>1, <4>2
    <3>2. ASSUME NEW i \in 1..(d - s + 1), i - 1 \in U PROVE i \in U
      <4>1. i + (s - 1) \in (s - 1)..d /\ ~(i + (s - 1) < s) /\ i + (s - 1) \in s..e
            /\ i + (s - 1) - 1 = i - 1 + (s - 1) /\ i \in 0..(d - s + 1)
        BY <1>0
      <4>2. sum[i + (s - 1)] = sum[i - 1 + (s - 1)] + lines[i + (s - 1)]
        BY <2>6, <4>1
      <4>3. sum[i - 1 + (s - 1)] \in Nat /\ lines[i + (s - 1)] \in Nat
        BY <3>2, <4>1, <1>0
      <4> QED
        BY <4>1, <4>2, <4>3
    <3> HIDE DEF U
    <3>3. \A i \in 0..(d - s + 1) : i \in U
      BY <2>2, <3>1, <3>2, Induction
    <3> QED
      BY <3>3 DEF U
  <2>8. sum[d] \in Nat
    <3>1. d - s + 1 \in 0..(d - s + 1) /\ d - s + 1 + (s - 1) = d
      BY <1>0
    <3> QED
      BY <2>7, <3>1
  <2>9. d = s => sum[d] = lines[s]
    <3> SUFFICES ASSUME d = s PROVE sum[s] = lines[s]
      OBVIOUS
    <3>1. s - 1 \in (s - 1)..d /\ s \in (s - 1)..d /\ s - 1 < s /\ ~(s < s) /\ lines[s] \in Nat
      BY <1>0
    <3>2. sum[s - 1] = 0 /\ sum[s] = sum[s - 1] + lines[s]
      BY <2>6, <3>1
    <3> QED
      BY <3>1, <3>2
  <2>10. Text(lines, s, d) = sum[d] + (d - s)
    BY <1>0 DEF Text, sum
  <2>11. d - s \in Nat /\ s - s = 0 /\ s \in s..e /\ lines[s] + 0 = lines[s]
    BY <1>0
  <2>12. Text(lines, s, d) \in Nat
    BY <2>8, <2>10, <2>11
  <2>13. d = s => Text(lines, s, d) = lines[s]
    BY <2>9, <2>10, <2>11
  <2> QED
    BY <2>12, <2>13
<1>2. s \in s..e /\ e \in s..e
  BY <1>0
<1> QED
  BY <1>1, <1>2

\* A part of a file in a result: where it begins and ends, how long it is.
Part == [start : Nat, end : Nat, bytes : Nat]

\* Nothing costs nothing, and each range its envelope and its bytes.
LEMMA CostIs ==
  ASSUME NEW ranges \in Seq(Part), NEW n \in 0..Len(ranges)
  PROVE  /\ Cost(ranges, n) \in Nat
         /\ Cost(ranges, 0) = 0
         /\ n # 0 => Cost(ranges, n) = Cost(ranges, n - 1) + Envelope + ranges[n].bytes
<1>0. Envelope \in Nat /\ n \in Nat /\ Len(ranges) \in Nat
      /\ \A i \in 1..Len(ranges) : ranges[i].bytes \in Nat
  <2>1. Envelope \in Nat /\ n \in Nat /\ Len(ranges) \in Nat
    BY ReadAssumption
  <2>2. \A i \in 1..Len(ranges) : ranges[i] \in Part
    OBVIOUS
  <2> QED
    BY <2>1, <2>2 DEF Part
<1> DEFINE Total(f, m) == f = [i \in 0..m |-> IF i = 0 THEN 0
                                             ELSE f[i - 1] + Envelope + ranges[i].bytes]
           used(m) == CHOOSE f : Total(f, m)
<1>1. ASSUME NEW m \in 0..Len(ranges)
      PROVE  Total(used(m), m) /\ \A i \in 0..m : used(m)[i] \in Nat
  <2>0. m \in Nat /\ 0 \in 0..m /\ \A i \in 1..m : i \in 1..Len(ranges)
    BY <1>0
  <2> DEFINE w(k) == IF k \in 1..Len(ranges) THEN ranges[k].bytes ELSE 0
             D == [q \in Nat \X Nat |-> q[1] + Envelope + w(q[2])]
  <2>1. D \in [Nat \X Nat -> Nat]
    <3>1. \A k \in Nat : w(k) \in Nat
      BY <1>0
    <3> HIDE DEF w
    <3>2. \A q \in Nat \X Nat : q[1] \in Nat /\ w(q[2]) \in Nat
      BY <3>1
    <3>3. \A a, b \in Nat : a + Envelope + b \in Nat
      BY <1>0
    <3>4. \A q \in Nat \X Nat : q[1] + Envelope + w(q[2]) \in Nat
      BY <3>2, <3>3
    <3> QED
      BY <3>4
  <2> HIDE DEF D
  <2>2. PICK f \in [0..m -> Nat] : Follows(f, 0, D, m)
    BY <2>0, <2>1, StepsDefine
  <2>3. ASSUME NEW i \in 0..m, i # 0 PROVE f[i] = f[i - 1] + Envelope + ranges[i].bytes
    <3>1. i \in 1..m /\ i \in 1..Len(ranges) /\ i - 1 \in 0..m /\ i \in Nat
      BY <1>0, <2>3
    <3>2. f[i] = D[<<f[i - 1], i>>] /\ f[i - 1] \in Nat
      BY <2>2, <3>1 DEF Follows
    <3> QED
      BY <3>1, <3>2 DEF D
  <2>4. f[0] = 0
    BY <2>2 DEF Follows
  <2>5. Total(f, m)
    BY <2>3, <2>4
  <2> HIDE DEF Total
  <2>6. Total(used(m), m)
    BY <2>5
  <2> DEFINE g == used(m)
             U == {i \in 0..m : g[i] \in Nat}
  <2>7. \A i \in 0..m : g[i] = IF i = 0 THEN 0 ELSE g[i - 1] + Envelope + ranges[i].bytes
    BY <2>6 DEF Total
  <2> HIDE DEF g
  <2>8. 0 \in U
    BY <2>0, <2>7
  <2>9. ASSUME NEW i \in 1..m, i - 1 \in U PROVE i \in U
    <3>1. i \in 0..m /\ i # 0 /\ ranges[i].bytes \in Nat
      BY <1>0, <2>0
    <3>2. g[i] = g[i - 1] + Envelope + ranges[i].bytes
      BY <2>7, <3>1
    <3>3. g[i - 1] \in Nat
      BY <2>9
    <3> DEFINE a == g[i - 1]
               b == ranges[i].bytes
               c == Envelope
    <3>4. a \in Nat /\ b \in Nat /\ c \in Nat /\ g[i] = a + c + b
      BY <1>0, <3>1, <3>2, <3>3
    <3> HIDE DEF a, b, c
    <3>5. g[i] \in Nat
      BY <3>4
    <3> QED
      BY <3>1, <3>5
  <2> HIDE DEF U
  <2>10. \A i \in 0..m : i \in U
    BY <2>0, <2>8, <2>9, Induction
  <2> QED
    BY <2>6, <2>10 DEF U, g
<1> HIDE DEF used
<1>2. ASSUME NEW m \in 0..Len(ranges), NEW k \in 0..m
      PROVE  used(m)[k] = used(k)[k]
  <2> DEFINE g == used(m)
             h == used(k)
             U == {i \in 0..k : g[i] = h[i]}
  <2>1. Total(g, m) /\ Total(h, k)
    <3>1. k \in 0..Len(ranges)
      BY <1>0
    <3> QED
      BY <1>1, <3>1
  <2> HIDE DEF g, h
  <2>2. /\ \A i \in 0..m : g[i] = IF i = 0 THEN 0 ELSE g[i - 1] + Envelope + ranges[i].bytes
        /\ \A i \in 0..k : h[i] = IF i = 0 THEN 0 ELSE h[i - 1] + Envelope + ranges[i].bytes
    BY <2>1
  <2>3. k \in Nat /\ 0 \in U
    <3>1. k \in Nat /\ 0 \in 0..k /\ 0 \in 0..m
      BY <1>0
    <3> QED
      BY <2>2, <3>1
  <2>4. ASSUME NEW i \in 1..k, i - 1 \in U PROVE i \in U
    <3>1. i \in 0..k /\ i \in 0..m /\ i # 0 /\ g[i - 1] = h[i - 1]
      BY <1>0, <2>4
    <3> QED
      BY <2>2, <3>1
  <2> HIDE DEF U
  <2>5. \A i \in 0..k : i \in U
    BY <2>3, <2>4, Induction
  <2> QED
    BY <2>5 DEF U, g, h
<1>3. \A m : Cost(ranges, m) = used(m)[m]
  BY DEF Cost, used
<1>4. Total(used(n), n) /\ used(n)[n] \in Nat
  <2>1. n \in 0..n /\ n \in 0..Len(ranges)
    BY <1>0
  <2> HIDE DEF Total
  <2> QED
    BY <1>1, <2>1
<1>5. Total(used(0), 0)
  <2>1. 0 \in 0..Len(ranges)
    BY <1>0
  <2> HIDE DEF Total
  <2> QED
    BY <1>1, <2>1
<1>6. Cost(ranges, 0) = 0
  BY <1>3, <1>5
<1>7. ASSUME n # 0 PROVE Cost(ranges, n) = Cost(ranges, n - 1) + Envelope + ranges[n].bytes
  <2>1. n - 1 \in 0..n /\ n \in 0..n
    BY <1>0, <1>7
  <2>2. used(n)[n - 1] = used(n - 1)[n - 1]
    BY <1>2, <2>1
  <2>3. used(n)[n] = used(n)[n - 1] + Envelope + ranges[n].bytes
    BY <1>4, <1>7, <2>1
  <2> QED
    BY <1>3, <2>2, <2>3
<1> QED
  BY <1>3, <1>4, <1>6, <1>7

\* It is a matter of the ranges it counts.
LEMMA CostOfPrefix ==
  ASSUME NEW r \in Seq(Part), NEW s \in Seq(Part), NEW n \in 0..Len(r), n <= Len(s),
         \A i \in 1..n : r[i] = s[i]
  PROVE  Cost(r, n) = Cost(s, n)
<1> DEFINE U == {i \in 0..n : Cost(r, i) = Cost(s, i)}
<1>0. Len(r) \in Nat /\ Len(s) \in Nat /\ n \in Nat /\ 0 \in 0..Len(r) /\ 0 \in 0..Len(s)
  OBVIOUS
<1>1. 0 \in U
  BY <1>0, CostIs
<1>2. ASSUME NEW i \in 1..n, i - 1 \in U PROVE i \in U
  <2>1. i \in 0..Len(r) /\ i \in 0..Len(s) /\ i # 0 /\ i \in 0..n
    BY <1>0
  <2>2. Cost(r, i) = Cost(r, i - 1) + Envelope + r[i].bytes
        /\ Cost(s, i) = Cost(s, i - 1) + Envelope + s[i].bytes
    BY <2>1, CostIs
  <2> QED
    BY <1>2, <2>1, <2>2
<1> HIDE DEF U
<1>3. \A i \in 0..n : i \in U
  BY <1>0, <1>1, <1>2, Induction
<1> QED
  BY <1>0, <1>3 DEF U

\* The part s..e of a file with b bytes, of a range of the file: it holds what it
\* says, or is cut inside its only line.
Honest(lines, s, e, b, cut) ==
  /\ s \in Nat \ {0} /\ e \in 0..Len(lines) /\ b \in Nat
  /\ \/ b = Text(lines, s, e)
     \/ cut /\ s = e /\ b < lines[s]

\* SelectLines gives an honest run of lines from the start on, within the budget.
LEMMA SelectIs ==
  ASSUME NEW lines \in Seq(Nat), NEW start \in Nat \ {0}, NEW end \in 0..Len(lines),
         NEW budget \in Nat
  PROVE  LET r == SelectLines(lines, start, end, budget)
         IN /\ r.start = start /\ r.cut \in BOOLEAN /\ r.bytes <= budget
            /\ Honest(lines, start, r.end, r.bytes, r.cut)
            /\ start..r.end \subseteq start..end
            /\ ~r.cut => start..r.end = start..end
<1>0. start \in Nat /\ start >= 1 /\ end \in Nat /\ end <= Len(lines) /\ Len(lines) \in Nat
  OBVIOUS
<1>1. Min2(end, Len(lines)) = end
  BY <1>0 DEF Min2
<1> DEFINE r == SelectLines(lines, start, end, budget)
           fits == {k \in start..end : Text(lines, start, k) <= budget}
           whole == CHOOSE k \in fits : \A j \in fits : j <= k
<1>2. CASE start > end
  <2>1. Min2(start - 1, Len(lines)) \in 0..Len(lines) /\ Min2(start - 1, Len(lines)) < start
    BY <1>0 DEF Min2
  <2>2. r.start = start /\ r.end = Min2(start - 1, Len(lines)) /\ r.bytes = 0 /\ r.cut = FALSE
    BY <1>1, <1>2 DEF SelectLines
  <2>3. Text(lines, start, r.end) = 0
    BY <2>1, <2>2 DEF Text
  <2>4. start..r.end = {} /\ start..end = {}
    BY <1>0, <1>2, <2>1, <2>2
  <2>5. 0 \in Nat /\ 0 <= budget
    OBVIOUS
  <2> HIDE DEF r
  <2>6. Honest(lines, start, r.end, r.bytes, r.cut)
    BY <2>1, <2>2, <2>3, <2>5 DEF Honest
  <2> QED
    BY <2>2, <2>4, <2>5, <2>6 DEF r
<1>3. CASE ~(start > end) /\ fits = {}
  <2>1. start \in start..end /\ start \in 1..Len(lines) /\ start \in 0..Len(lines)
        /\ start..start = {start}
    BY <1>0, <1>3
  <2>2. lines[start] \in Nat /\ Text(lines, start, start) = lines[start]
    <3>1. end \in start..Len(lines)
      BY <1>0, <1>3
    <3> QED
      BY <2>1, <3>1, TextIs
  <2>3. budget < lines[start]
    <3>1. ~(lines[start] <= budget)
      BY <1>3, <2>1, <2>2
    <3> QED
      BY <2>2, <3>1
  <2>4. r.start = start /\ r.end = start /\ r.bytes = budget /\ r.cut = TRUE
    BY <1>1, <1>3 DEF SelectLines
  <2> HIDE DEF r
  <2>5. Honest(lines, start, r.end, r.bytes, r.cut)
    BY <2>1, <2>3, <2>4 DEF Honest
  <2>6. budget <= budget
    OBVIOUS
  <2> QED
    BY <2>1, <2>4, <2>5, <2>6 DEF r
<1>4. CASE ~(start > end) /\ fits # {}
  <2>1. fits \in SUBSET (0..end)
    BY <1>0
  <2>2. \E k \in fits : \A j \in fits : j <= k
    <3> HIDE DEF fits
    <3> QED
      BY <1>0, <1>4, <2>1, Greatest
  <2>3. whole \in fits
    <3> HIDE DEF fits
    <3> QED
      BY <2>2
  <2> HIDE DEF whole
  <2>4. whole \in start..end /\ Text(lines, start, whole) <= budget
    BY <2>3
  <2>5. whole \in start..Len(lines) /\ whole \in 0..Len(lines) /\ start \in 1..Len(lines)
        /\ start..whole \subseteq start..end /\ (~(whole < end) => whole = end)
    BY <1>0, <1>4, <2>4
  <2>6. Text(lines, start, whole) \in Nat
    BY <2>5, TextIs
  <2>7. r.start = start /\ r.end = whole /\ r.bytes = Text(lines, start, whole)
        /\ r.cut = (whole < end)
    BY <1>1, <1>4 DEF SelectLines, whole
  <2> HIDE DEF r, fits
  <2>8. Honest(lines, start, r.end, r.bytes, r.cut)
    BY <2>5, <2>6, <2>7 DEF Honest
  <2>9. ~r.cut => start..r.end = start..end
    BY <2>5, <2>7
  <2>10. r.cut \in BOOLEAN
    BY <2>7
  <2>11. r.start = start /\ r.bytes <= budget /\ start..r.end \subseteq start..end
    BY <2>4, <2>5, <2>7
  <2> QED
    BY <2>8, <2>9, <2>10, <2>11 DEF r
<1> QED
  BY <1>2, <1>3, <1>4

-------------------------------------------------------------------------------
(* Merging ranges *)

\* The lines of two ranges that overlap or touch, the first beginning first.
LEMMA Union ==
  ASSUME NEW a \in Nat, NEW b \in Nat, NEW s \in Nat, NEW e \in Nat, a <= s, s <= b + 1,
         NEW x \in Nat
  PROVE  x \in a..Max2(b, e) <=> (x \in a..b \/ x \in s..e)
<1>1. Max2(b, e) \in Nat /\ b <= Max2(b, e) /\ e <= Max2(b, e)
      /\ (Max2(b, e) = b \/ Max2(b, e) = e)
  BY DEF Max2
<1> QED
  BY <1>1

\* Numbers in order, strictly if one of the two steps is.
LEMMA Ordered ==
  ASSUME NEW a \in Nat, NEW b \in Nat, NEW c \in Nat, a <= b, b <= c
  PROVE  a <= c /\ (a < b \/ b < c => a < c)
  OBVIOUS

\* A function on 1..n is a sequence of length n.
LEMMA SeqOfFunction ==
  ASSUME NEW S, NEW n \in Nat, NEW f \in [1..n -> S]
  PROVE  f \in Seq(S) /\ Len(f) = n
  OBVIOUS

\* Sorting keeps the ranges and puts them in the order of their starts.
LEMMA SortedIs ==
  ASSUME NEW c \in Seq(Nat \X Nat)
  PROVE  /\ Sorted(c) \in Seq(Nat \X Nat) /\ Len(Sorted(c)) = Len(c)
         /\ \A n \in 1..Len(c) : \E i \in 1..Len(c) : Sorted(c)[n] = c[i]
         /\ \A i \in 1..Len(c) : \E n \in 1..Len(c) : Sorted(c)[n] = c[i]
         /\ \A m, n \in 1..Len(c) : m < n => Sorted(c)[m][1] <= Sorted(c)[n][1]
<1> DEFINE D == 1..Len(c)
           Precedes(i, j) ==
             \/ c[i][1] < c[j][1]
             \/ c[i][1] = c[j][1] /\ c[i][2] < c[j][2]
             \/ c[i] = c[j] /\ i < j
           R == {p \in D \X D : Precedes(p[1], p[2])}
           rank(i) == Cardinality(Before(D, R, i))
           at(n) == CHOOSE i \in D : rank(i) = n - 1
<1>0. /\ Len(c) \in Nat /\ DOMAIN c = D
      /\ \A i \in D : c[i] \in Nat \X Nat
      /\ \A i \in D : i \in Nat
  OBVIOUS
<1>1. \A i \in D : c[i][1] \in Nat /\ c[i][2] \in Nat /\ c[i] = <<c[i][1], c[i][2]>>
  BY <1>0
<1>2. IsFiniteSet(D) /\ Cardinality(D) = Len(c)
  BY <1>0, FS_Interval
<1>3. \A i, j \in D : <<i, j>> \in R <=> Precedes(i, j)
  OBVIOUS
<1>4. \A i \in D : ~Precedes(i, i)
  BY <1>0, <1>1
<1>5. \A i, j, k \in D : Precedes(i, j) /\ Precedes(j, k) => Precedes(i, k)
  BY <1>0, <1>1
<1>6. \A i, j \in D : i = j \/ Precedes(i, j) \/ Precedes(j, i)
  <2> SUFFICES ASSUME NEW i \in D, NEW j \in D, i # j, ~Precedes(i, j) PROVE Precedes(j, i)
    OBVIOUS
  <2>1. CASE c[i] = c[j]
    BY <1>0, <2>1
  <2>2. CASE c[i] # c[j]
    <3>1. c[i][1] # c[j][1] \/ c[i][2] # c[j][2]
      BY <1>1, <2>2
    <3> QED
      BY <1>1, <3>1
  <2> QED
    BY <2>1, <2>2
<1>7. \A i \in D : {j \in D : Precedes(j, i)} = Before(D, R, i)
  BY <1>3 DEF Before
<1> HIDE DEF R, D
<1>8. /\ \A x \in D : rank(x) \in 0..(Len(c) - 1)
      /\ \A n \in 1..Len(c) : \E x \in D : rank(x) = n - 1
      /\ \A x, y \in D : <<x, y>> \in R <=> rank(x) < rank(y)
  <2>1. \A x \in D : <<x, x>> \notin R
    BY <1>3, <1>4
  <2>2. \A x, y, z \in D : <<x, y>> \in R /\ <<y, z>> \in R => <<x, z>> \in R
    BY <1>3, <1>5
  <2>3. \A x, y \in D : x = y \/ <<x, y>> \in R \/ <<y, x>> \in R
    BY <1>3, <1>6
  <2> HIDE DEF Precedes
  <2> QED
    BY <1>2, <2>1, <2>2, <2>3, Ranks
<1>9. Sorted(c) = [n \in D |-> c[at(n)]]
  <2>1. \A n : (CHOOSE i \in D : Cardinality({j \in D : Precedes(j, i)}) = n - 1) = at(n)
    <3> TAKE n
    <3>1. \A i : (i \in D /\ Cardinality({j \in D : Precedes(j, i)}) = n - 1)
                <=> (i \in D /\ rank(i) = n - 1)
      BY <1>7
    <3> QED
      BY <3>1
  <2> HIDE DEF at
  <2>2. Sorted(c) = [n \in D |-> c[CHOOSE i \in D : Cardinality({j \in D : Precedes(j, i)}) = n - 1]]
    BY <1>0 DEF Sorted
  <2> QED
    BY <2>1, <2>2
<1>10. \A n \in D : at(n) \in D /\ rank(at(n)) = n - 1
  <2> HIDE DEF rank
  <2> QED
    BY <1>8 DEF D
<1>11. \A i \in D : \E n \in D : at(n) = i
  <2> SUFFICES ASSUME NEW i \in D PROVE \E n \in D : at(n) = i
    OBVIOUS
  <2> HIDE DEF at, rank
  <2>1. rank(i) \in 0..(Len(c) - 1)
    BY <1>8
  <2>2. PICK n \in D : n - 1 = rank(i)
    <3> DEFINE k == rank(i) + 1
    <3>1. k \in D /\ k - 1 = rank(i)
      BY <1>0, <2>1 DEF D
    <3> HIDE DEF k
    <3> QED
      BY <3>1
  <2>3. at(n) \in D /\ rank(at(n)) = rank(i)
    BY <1>10, <2>2
  <2>4. ~(rank(i) < rank(i))
    BY <2>1
  <2>5. at(n) = i
    BY <1>3, <1>6, <1>8, <2>3, <2>4
  <2> QED
    BY <2>2, <2>5
<1>12. \A m, n \in D : m < n => c[at(m)][1] <= c[at(n)][1]
  <2> SUFFICES ASSUME NEW m \in D, NEW n \in D, m < n PROVE c[at(m)][1] <= c[at(n)][1]
    OBVIOUS
  <2> HIDE DEF at, rank
  <2>1. rank(at(m)) < rank(at(n))
    <3>1. m \in Nat /\ n \in Nat /\ m - 1 < n - 1
      BY <1>0
    <3> QED
      BY <1>10, <3>1
  <2>2. Precedes(at(m), at(n))
    BY <1>3, <1>8, <1>10, <2>1
  <2>3. c[at(m)] \in Nat \X Nat /\ c[at(m)][1] \in Nat /\ c[at(n)][1] \in Nat
    BY <1>0, <1>1, <1>10
  <2> QED
    BY <2>2, <2>3
<1> HIDE DEF at
<1>13. Sorted(c) \in [D -> Nat \X Nat]
  BY <1>0, <1>9, <1>10
<1>14. Sorted(c) \in Seq(Nat \X Nat) /\ Len(Sorted(c)) = Len(c)
  BY <1>0, <1>13, SeqOfFunction DEF D
<1>15. \A n \in D : Sorted(c)[n] = c[at(n)]
  BY <1>9
<1> QED
  BY <1>10, <1>11, <1>12, <1>14, <1>15 DEF D

\* The index before one that is not the first.
LEMMA OneBefore ==
  ASSUME NEW n \in Nat, NEW k \in 1..n, k # 1
  PROVE  k - 1 \in 1..n
  OBVIOUS

\* The indices of a sequence that is one longer.
LEMMA OneLonger ==
  ASSUME NEW n \in Nat
  PROVE  1..(n + 1) = (1..n) \cup {n + 1} /\ n + 1 \in 1..(n + 1) /\ n + 1 # 0
  OBVIOUS

\* An index within a sequence gives one of its elements.
LEMMA Element ==
  ASSUME NEW S, NEW r \in Seq(S), NEW i \in 1..Len(r)
  PROVE  r[i] \in S
  OBVIOUS

\* A range as it is read is within the file.
LEMMA ClampedIs ==
  ASSUME NEW range \in Nat \X Nat, NEW total \in Nat
  PROVE  /\ Clamped(range, total) \in Nat \X Nat
         /\ Clamped(range, total)[1] >= 1 /\ Clamped(range, total)[2] <= total
<1>1. range[1] \in Nat /\ range[2] \in Nat
  OBVIOUS
<1> QED
  BY <1>1 DEF Clamped

\* Ranges of lines 1..total.
Within(ranges, total) == \A i \in 1..Len(ranges) : ranges[i][1] >= 1 /\ ranges[i][2] <= total

\* A line is in one of the first n of some ranges.
In(ranges, n, x) == \E i \in 1..n : x \in ranges[i][1]..ranges[i][2]

Apart(ranges) == \A i, j \in 1..Len(ranges) : i < j => ranges[i][2] < ranges[j][1]

\* What MergeRanges does with the next range.
Joined(done, r) ==
  IF done # <<>> /\ r[1] <= done[Len(done)][2] + 1
    THEN [done EXCEPT ![Len(done)] = <<@[1], Max2(@[2], r[2])>>]
    ELSE Append(done, r)

\* After the first n: ranges of the same lines, apart from one another, the last
\* of which begins no later than the next range does.
MergedUpTo(sorted, total, n, done) ==
  /\ done \in Seq(Nat \X Nat) /\ Within(done, total) /\ Apart(done)
  /\ n = 0 <=> done = <<>>
  /\ n # 0 => done[Len(done)][1] <= sorted[n][1]
  /\ \A x \in Nat : In(done, Len(done), x) <=> In(sorted, n, x)

\* Joining the next range to those before keeps them in order and apart.
LEMMA JoinedIs ==
  ASSUME NEW sorted \in Seq(Nat \X Nat), NEW total \in Nat, Within(sorted, total),
         NEW n \in 1..Len(sorted), n # 1 => sorted[n - 1][1] <= sorted[n][1],
         NEW done, MergedUpTo(sorted, total, n - 1, done)
  PROVE  MergedUpTo(sorted, total, n, Joined(done, sorted[n]))
<1> DEFINE r == sorted[n]
           L == Len(done)
           new == Joined(done, r)
<1>0. /\ n \in Nat /\ n # 0 /\ Len(sorted) \in Nat /\ L \in Nat
      /\ r \in Nat \X Nat /\ r[1] \in Nat /\ r[2] \in Nat
      /\ r[1] >= 1 /\ r[2] <= total
  BY DEF Within, MergedUpTo
<1>1. done \in Seq(Nat \X Nat) /\ Within(done, total) /\ Apart(done)
  BY DEF MergedUpTo
<1>2. \A i \in 1..L : /\ done[i] \in Nat \X Nat /\ done[i][1] \in Nat /\ done[i][2] \in Nat
                      /\ done[i][1] >= 1 /\ done[i][2] <= total
  <2>1. \A i \in 1..L : done[i] \in Nat \X Nat
    BY <1>1
  <2>2. \A p \in Nat \X Nat : p[1] \in Nat /\ p[2] \in Nat
    OBVIOUS
  <2>3. \A i \in 1..L : done[i][1] >= 1 /\ done[i][2] <= total
    BY <1>1 DEF Within
  <2> QED
    BY <2>1, <2>2, <2>3
<1>3. \A i, j \in 1..L : i < j => done[i][2] < done[j][1]
  BY <1>1 DEF Apart
<1>4. L = 0 <=> done = <<>>
  BY <1>1
<1>5. L # 0 => done[L][1] <= r[1]
  <2> SUFFICES ASSUME L # 0 PROVE done[L][1] <= r[1]
    OBVIOUS
  <2>1. n - 1 # 0 /\ n # 1
    BY <1>0, <1>4 DEF MergedUpTo
  <2>2. done[L][1] <= sorted[n - 1][1] /\ sorted[n - 1][1] <= r[1]
    BY <2>1 DEF MergedUpTo
  <2>3. n - 1 \in 1..Len(sorted) /\ L \in 1..L
    <3>1. n - 1 \in 1..Len(sorted)
      BY <1>0, <2>1, OneBefore
    <3>2. L \in 1..L
      BY <1>0
    <3> QED
      BY <3>1, <3>2
  <2>4. sorted[n - 1] \in Nat \X Nat /\ sorted[n - 1][1] \in Nat
    <3>1. sorted[n - 1] \in Nat \X Nat
      BY <2>3, Element
    <3> QED
      BY <3>1
  <2>5. done[L][1] \in Nat
    BY <1>2, <2>3
  <2> DEFINE a == done[L][1]
             b == sorted[n - 1][1]
             c == r[1]
  <2>6. a \in Nat /\ b \in Nat /\ c \in Nat /\ a <= b /\ b <= c
    BY <1>0, <2>2, <2>4, <2>5
  <2> HIDE DEF a, b, c
  <2>7. a <= c
    BY <2>6, Ordered
  <2> QED
    BY <2>7 DEF a, c
<1>6. ASSUME NEW x \in Nat
      PROVE  In(sorted, n, x) <=> (In(done, L, x) \/ x \in r[1]..r[2])
  <2>1. In(done, L, x) <=> In(sorted, n - 1, x)
    BY DEF MergedUpTo
  <2>2. 1..n = (1..(n - 1)) \cup {n}
    BY <1>0
  <2>3. In(sorted, n, x) <=> (In(sorted, n - 1, x) \/ x \in r[1]..r[2])
    BY <2>2 DEF In
  <2> QED
    BY <2>1, <2>3
<1> HIDE DEF r, L
<1>7. CASE done # <<>> /\ r[1] <= done[L][2] + 1
  <2> DEFINE last == <<done[L][1], Max2(done[L][2], r[2])>>
  <2>0. L \in 1..L /\ L # 0
    BY <1>0, <1>4, <1>7
  <2>1. new = [done EXCEPT ![L] = last]
    BY <1>7 DEF Joined, L
  <2>2. last \in Nat \X Nat /\ last[1] = done[L][1] /\ last[1] >= 1 /\ last[2] <= total
        /\ last[2] \in Nat
    BY <1>0, <1>2, <2>0 DEF Max2
  <2>3. \A x \in Nat : x \in last[1]..last[2] <=>
           (x \in done[L][1]..done[L][2] \/ x \in r[1]..r[2])
    <3>1. done[L][1] <= r[1] /\ r[1] <= done[L][2] + 1
          /\ done[L][1] \in Nat /\ done[L][2] \in Nat
      BY <1>2, <1>5, <1>7, <2>0
    <3> DEFINE a == done[L][1]
               b == done[L][2]
               s == r[1]
               e == r[2]
    <3>2. last[1] = a /\ last[2] = Max2(b, e)
      OBVIOUS
    <3>3. a \in Nat /\ b \in Nat /\ s \in Nat /\ e \in Nat /\ a <= s /\ s <= b + 1
      BY <1>0, <3>1
    <3> HIDE DEF last, a, b, s, e
    <3>4. \A x \in Nat : x \in a..Max2(b, e) <=> (x \in a..b \/ x \in s..e)
      BY <3>3, Union
    <3> QED
      BY <3>2, <3>4 DEF a, b, s, e
  <2> HIDE DEF last
  <2>4. new \in Seq(Nat \X Nat) /\ Len(new) = L /\ new[L] = last
        /\ \A i \in 1..L : i # L => new[i] = done[i]
    <3>1. done \in [1..L -> Nat \X Nat]
      BY <1>1 DEF L
    <3> HIDE DEF last
    <3>2. new \in [1..L -> Nat \X Nat] /\ new[L] = last
          /\ \A i \in 1..L : i # L => new[i] = done[i]
      BY <2>0, <2>1, <2>2, <3>1
    <3> HIDE DEF new
    <3> QED
      BY <1>0, <3>2, SeqOfFunction
  <2> HIDE DEF new
  <2>5. Within(new, total)
    <3> SUFFICES ASSUME NEW i \in 1..L PROVE new[i][1] >= 1 /\ new[i][2] <= total
      BY <2>4 DEF Within
    <3>1. CASE i = L
      BY <2>2, <2>4, <3>1
    <3>2. CASE i # L
      BY <1>2, <2>4, <3>2
    <3> QED
      BY <3>1, <3>2
  <2>6. Apart(new)
    <3> SUFFICES ASSUME NEW i \in 1..L, NEW j \in 1..L, i < j PROVE new[i][2] < new[j][1]
      BY <2>4 DEF Apart
    <3>1. i # L
      BY <1>0
    <3>2. new[j][1] = done[j][1]
      BY <2>2, <2>4
    <3> QED
      BY <1>3, <2>4, <3>1, <3>2
  <2>7. new # <<>>
    BY <2>0, <2>4
  <2>8. \A x \in Nat : In(new, L, x) <=> In(sorted, n, x)
    <3> SUFFICES ASSUME NEW x \in Nat
                 PROVE  In(new, L, x) <=> (In(done, L, x) \/ x \in r[1]..r[2])
      BY <1>6
    <3>1. ASSUME In(new, L, x) PROVE In(done, L, x) \/ x \in r[1]..r[2]
      <4>1. PICK i \in 1..L : x \in new[i][1]..new[i][2]
        BY <3>1 DEF In
      <4>2. CASE i = L
        BY <2>0, <2>3, <2>4, <4>1, <4>2 DEF In
      <4>3. CASE i # L
        BY <2>4, <4>1, <4>3 DEF In
      <4> QED
        BY <4>2, <4>3
    <3>2. ASSUME In(done, L, x) PROVE In(new, L, x)
      <4>1. PICK i \in 1..L : x \in done[i][1]..done[i][2]
        BY <3>2 DEF In
      <4>2. CASE i = L
        BY <2>0, <2>3, <2>4, <4>1, <4>2 DEF In
      <4>3. CASE i # L
        BY <2>4, <4>1, <4>3 DEF In
      <4> QED
        BY <4>2, <4>3
    <3>3. ASSUME x \in r[1]..r[2] PROVE In(new, L, x)
      BY <2>0, <2>3, <2>4, <3>3 DEF In
    <3> QED
      BY <3>1, <3>2, <3>3
  <2>9. new[L][1] <= r[1]
    BY <1>5, <2>0, <2>2, <2>4
  <2> QED
    BY <1>0, <2>4, <2>5, <2>6, <2>7, <2>8, <2>9 DEF MergedUpTo, r, new
<1>8. CASE ~(done # <<>> /\ r[1] <= done[L][2] + 1)
  <2>1. new = Append(done, r)
    BY <1>8 DEF Joined, L
  <2>2. new \in Seq(Nat \X Nat) /\ Len(new) = L + 1 /\ new[L + 1] = r
        /\ \A i \in 1..L : new[i] = done[i]
    BY <1>0, <1>1, <2>1 DEF L
  <2> HIDE DEF new
  <2>3. 1..(L + 1) = (1..L) \cup {L + 1} /\ L + 1 \in 1..(L + 1) /\ L + 1 # 0
    BY <1>0, OneLonger
  <2>4. Within(new, total)
    <3> SUFFICES ASSUME NEW i \in 1..(L + 1) PROVE new[i][1] >= 1 /\ new[i][2] <= total
      BY <2>2 DEF Within
    <3>1. CASE i = L + 1
      BY <1>0, <2>2, <3>1
    <3>2. CASE i \in 1..L
      BY <1>2, <2>2, <3>2
    <3> QED
      BY <2>3, <3>1, <3>2
  <2>5. Apart(new)
    <3> SUFFICES ASSUME NEW i \in 1..(L + 1), NEW j \in 1..(L + 1), i < j
                 PROVE  new[i][2] < new[j][1]
      BY <2>2 DEF Apart
    <3>1. i \in 1..L
      BY <1>0
    <3>2. CASE j = L + 1
      <4>1. L \in 1..L /\ done # <<>>
        BY <1>0, <1>4, <3>1
      <4>2. done[L][2] < r[1] /\ done[L][1] <= r[1]
        BY <1>0, <1>2, <1>5, <1>8, <4>1
      <4>3. CASE i = L
        BY <2>2, <3>2, <4>1, <4>2, <4>3
      <4>4. CASE i # L
        <5>1. i < L
          BY <1>0, <3>1, <4>4
        <5>2. done[i][2] < done[L][1]
          BY <1>3, <3>1, <4>1, <5>1
        <5>3. done[i][2] < r[1]
          <6> DEFINE a == done[i][2]
                     b == done[L][1]
                     c == r[1]
          <6>1. a \in Nat /\ b \in Nat /\ c \in Nat /\ a < b /\ b <= c
            BY <1>0, <1>2, <3>1, <4>1, <4>2, <5>2
          <6> HIDE DEF a, b, c
          <6>2. a <= b
            BY <6>1
          <6>3. a < c
            BY <6>1, <6>2, Ordered
          <6> QED
            BY <6>3 DEF a, c
        <5> QED
          BY <2>2, <3>1, <3>2, <5>3
      <4> QED
        BY <4>3, <4>4
    <3>3. CASE j \in 1..L
      BY <1>3, <2>2, <3>1, <3>3
    <3> QED
      BY <2>3, <3>2, <3>3
  <2>6. new # <<>>
    BY <1>0, <2>2
  <2>7. \A x \in Nat : In(new, L + 1, x) <=> In(sorted, n, x)
    <3> SUFFICES ASSUME NEW x \in Nat
                 PROVE  In(new, L + 1, x) <=> (In(done, L, x) \/ x \in r[1]..r[2])
      BY <1>6
    <3> QED
      BY <2>2, <2>3 DEF In
  <2>8. r[1] <= r[1]
    BY <1>0
  <2> QED
    BY <1>0, <2>2, <2>4, <2>5, <2>6, <2>7, <2>8 DEF MergedUpTo, r, new
<1> QED
  BY <1>7, <1>8

\* What a range is joined to stays a sequence of ranges.
LEMMA JoinedType ==
  ASSUME NEW done \in Seq(Nat \X Nat), NEW r \in Nat \X Nat
  PROVE  Joined(done, r) \in Seq(Nat \X Nat)
<1>1. CASE done # <<>> /\ r[1] <= done[Len(done)][2] + 1
  <2> DEFINE L == Len(done)
             last == <<done[L][1], Max2(done[L][2], r[2])>>
  <2>1. L \in Nat /\ L \in 1..L /\ done \in [1..L -> Nat \X Nat]
    BY <1>1
  <2>2. done[L] \in Nat \X Nat /\ done[L][1] \in Nat /\ done[L][2] \in Nat
        /\ r[1] \in Nat /\ r[2] \in Nat
    BY <2>1
  <2>3. last \in Nat \X Nat
    BY <2>2 DEF Max2
  <2>4. Joined(done, r) = [done EXCEPT ![L] = last]
    BY <1>1 DEF Joined
  <2> HIDE DEF L, last
  <2>5. Joined(done, r) \in [1..L -> Nat \X Nat]
    BY <2>1, <2>3, <2>4
  <2> QED
    BY <2>1, <2>5, SeqOfFunction
<1>2. CASE ~(done # <<>> /\ r[1] <= done[Len(done)][2] + 1)
  BY <1>2 DEF Joined
<1> QED
  BY <1>1, <1>2

\* The merged ranges lie apart, and hold the lines of the ranges and no other.
LEMMA MergeIs ==
  ASSUME NEW ranges \in Seq(Nat \X Nat), NEW total \in Nat
  PROVE  LET M == MergeRanges(ranges, total)
         IN /\ M \in Seq(Nat \X Nat) /\ Within(M, total) /\ Apart(M)
            /\ \A x \in Nat : In(M, Len(M), x) <=>
                 \E i \in DOMAIN ranges :
                   x \in Clamped(ranges[i], total)[1]..Clamped(ranges[i], total)[2]
<1> DEFINE c == [i \in DOMAIN ranges |-> Clamped(ranges[i], total)]
           sorted == Sorted(c)
           N == Len(sorted)
<1>1. c \in Seq(Nat \X Nat) /\ Len(c) = Len(ranges)
      /\ \A i \in 1..Len(c) : /\ c[i] = Clamped(ranges[i], total)
                              /\ c[i][1] >= 1 /\ c[i][2] <= total
  <2>1. DOMAIN ranges = 1..Len(ranges) /\ Len(ranges) \in Nat
        /\ \A i \in 1..Len(ranges) : ranges[i] \in Nat \X Nat
    OBVIOUS
  <2>2. \A i \in 1..Len(ranges) : c[i] = Clamped(ranges[i], total)
    BY <2>1
  <2>3. \A i \in 1..Len(ranges) : c[i] \in Nat \X Nat /\ c[i][1] >= 1 /\ c[i][2] <= total
    BY <2>1, <2>2, ClampedIs
  <2>4. c \in [1..Len(ranges) -> Nat \X Nat]
    <3>1. c = [i \in 1..Len(ranges) |-> c[i]]
      BY <2>1
    <3> HIDE DEF c
    <3> QED
      BY <2>3, <3>1
  <2> HIDE DEF c
  <2>5. c \in Seq(Nat \X Nat) /\ Len(c) = Len(ranges)
    BY <2>1, <2>4, SeqOfFunction
  <2> QED
    BY <2>2, <2>3, <2>5
<1> HIDE DEF c
<1>2. /\ sorted \in Seq(Nat \X Nat) /\ N = Len(c)
      /\ \A n \in 1..N : \E i \in 1..N : sorted[n] = c[i]
      /\ \A i \in 1..N : \E n \in 1..N : sorted[n] = c[i]
      /\ \A m, n \in 1..N : m < n => sorted[m][1] <= sorted[n][1]
  BY <1>1, SortedIs
<1> HIDE DEF sorted
<1>3. N \in Nat /\ \A n \in 1..N : sorted[n] \in Nat \X Nat
  BY <1>2
<1>4. Within(sorted, total)
  <2> SUFFICES ASSUME NEW n \in 1..N PROVE sorted[n][1] >= 1 /\ sorted[n][2] <= total
    BY DEF Within
  <2>1. PICK i \in 1..N : sorted[n] = c[i]
    BY <1>2
  <2> QED
    BY <1>1, <1>2, <2>1
<1> DEFINE S == Seq(Nat \X Nat)
           D == [q \in S \X Nat |-> IF q[2] \in 1..N THEN Joined(q[1], sorted[q[2]]) ELSE q[1]]
<1>5. D \in [S \X Nat -> S]
  <2> SUFFICES ASSUME NEW q \in S \X Nat
               PROVE  (IF q[2] \in 1..N THEN Joined(q[1], sorted[q[2]]) ELSE q[1]) \in S
    OBVIOUS
  <2>1. q[1] \in S
    OBVIOUS
  <2> HIDE DEF N
  <2> QED
    BY <1>3, <2>1, JoinedType
<1>6. <<>> \in S /\ \A d \in S, i \in 1..N : D[<<d, i>>] = Joined(d, sorted[i])
  <2> HIDE DEF N
  <2>1. \A i \in 1..N : i \in Nat
    BY <1>3
  <2> QED
    BY <2>1
<1> HIDE DEF D, S
<1>7. PICK f \in [0..N -> S] : Follows(f, <<>>, D, N)
  BY <1>3, <1>5, <1>6, StepsDefine
<1> DEFINE Merges(g) == g = [n \in 0..N |-> IF n = 0 THEN <<>> ELSE Joined(g[n - 1], sorted[n])]
<1>8. Merges(f)
  <2> HIDE DEF N
  <2>1. ASSUME NEW n \in 0..N
        PROVE  f[n] = IF n = 0 THEN <<>> ELSE Joined(f[n - 1], sorted[n])
    <3>1. CASE n = 0
      BY <1>7, <3>1 DEF Follows
    <3>2. CASE n # 0
      <4>1. n \in 1..N /\ n - 1 \in 0..N
        BY <1>3, <3>2
      <4>2. f[n] = D[<<f[n - 1], n>>] /\ f[n - 1] \in S
        BY <1>7, <4>1 DEF Follows
      <4> QED
        BY <1>6, <3>2, <4>1, <4>2
    <3> QED
      BY <3>1, <3>2
  <2> QED
    BY <1>7, <2>1
<1> DEFINE merged == CHOOSE g : Merges(g)
<1>9. MergeRanges(ranges, total) = merged[N]
  BY DEF MergeRanges, c, sorted, N, Merges, Joined
<1>10. Merges(merged)
  <2> HIDE DEF Merges
  <2> QED
    BY <1>8
<1> HIDE DEF merged
<1>11. merged[0] = <<>> /\ \A n \in 1..N : merged[n] = Joined(merged[n - 1], sorted[n])
  <2> HIDE DEF N
  <2>1. 0 \in 0..N /\ \A n \in 1..N : n \in 0..N /\ n # 0
    BY <1>3
  <2> QED
    BY <1>10, <2>1
<1> HIDE DEF Merges
<1> DEFINE U == {n \in 0..N : MergedUpTo(sorted, total, n, merged[n])}
<1>12. 0 \in U
  <2>1. MergedUpTo(sorted, total, 0, <<>>)
    BY DEF MergedUpTo, Within, Apart, In
  <2> QED
    BY <1>3, <1>11, <2>1
<1>13. ASSUME NEW n \in 1..N, n - 1 \in U PROVE n \in U
  <2>1. MergedUpTo(sorted, total, n - 1, merged[n - 1])
    BY <1>13
  <2>2. n # 1 => sorted[n - 1][1] <= sorted[n][1]
    <3> SUFFICES ASSUME n # 1 PROVE sorted[n - 1][1] <= sorted[n][1]
      OBVIOUS
    <3> HIDE DEF N
    <3>1. n - 1 \in 1..N /\ n - 1 < n
      BY <1>3
    <3> QED
      BY <1>2, <3>1
  <2>3. MergedUpTo(sorted, total, n, Joined(merged[n - 1], sorted[n]))
    BY <1>2, <1>4, <2>1, <2>2, JoinedIs
  <2>4. n \in 0..N
    BY <1>3
  <2> QED
    BY <1>11, <2>3, <2>4
<1> HIDE DEF U
<1>14. \A n \in 0..N : n \in U
  BY <1>3, <1>12, <1>13, Induction
<1>15. MergedUpTo(sorted, total, N, merged[N])
  <2>1. N \in 0..N
    BY <1>3
  <2> QED
    BY <1>14, <2>1 DEF U
<1>16. ASSUME NEW x \in Nat
       PROVE  In(sorted, N, x) <=> \E i \in DOMAIN ranges :
                x \in Clamped(ranges[i], total)[1]..Clamped(ranges[i], total)[2]
  <2>1. DOMAIN ranges = 1..N
    BY <1>1, <1>2
  <2>2. \A i \in 1..N : c[i] = Clamped(ranges[i], total)
    BY <1>1, <1>2
  <2> HIDE DEF N
  <2>3. In(sorted, N, x) <=> \E i \in 1..N : x \in c[i][1]..c[i][2]
    BY <1>2 DEF In
  <2> QED
    BY <2>1, <2>2, <2>3
<1> QED
  BY <1>9, <1>15, <1>16 DEF MergedUpTo

-------------------------------------------------------------------------------
(* Reading ranges under a budget *)

\* ranges answers for the first n of the ranges M: each is a part of one of them,
\* in their order, all of them unless the answer is truncated, within the budget.
Answers(lines, M, n, ranges, truncated) ==
  /\ ranges \in Seq(Part) /\ truncated \in BOOLEAN
  /\ Len(ranges) <= n /\ (~truncated => Len(ranges) = n)
  /\ \A i \in 1..Len(ranges) :
       /\ Honest(lines, ranges[i].start, ranges[i].end, ranges[i].bytes, truncated)
       /\ ranges[i].start..ranges[i].end \subseteq M[i][1]..M[i][2]
       /\ ~truncated => ranges[i].start..ranges[i].end = M[i][1]..M[i][2]
  /\ \A k \in 0..Len(ranges) : Cost(ranges, k) <= ReadBudget + Envelope * k

\* What ReadRanges does with the next range.
NextRead(lines, so, m) ==
  LET r == SelectLines(lines, m[1], m[2], so.left)
  IN IF so.left <= 0 THEN [so EXCEPT !.truncated = TRUE]
     ELSE [ranges |-> Append(so.ranges, [start |-> r.start, end |-> r.end, bytes |-> r.bytes]),
           left |-> so.left - r.bytes, truncated |-> so.truncated \/ r.cut]

ReadState == [ranges : Seq(Part), left : Nat, truncated : BOOLEAN]

\* After the first n: a range is only dropped once the budget is spent.
ReadUpTo(lines, M, n, so) ==
  /\ so \in ReadState
  /\ Answers(lines, M, n, so.ranges, so.truncated)
  /\ Len(so.ranges) < n => so.left = 0
  /\ Cost(so.ranges, Len(so.ranges)) + so.left = ReadBudget + Envelope * Len(so.ranges)

\* One element put at the end.
LEMMA OneMore ==
  ASSUME NEW a \in Nat, NEW b \in Nat
  PROVE  a * b \in Nat /\ a * (b + 1) = a * b + a
  OBVIOUS

\* One more range read keeps the answer sound: see ReadUpTo.
LEMMA NextReadIs ==
  ASSUME NEW lines \in Seq(Nat), NEW M \in Seq(Nat \X Nat), Within(M, Len(lines)),
         NEW n \in 1..Len(M), NEW so, ReadUpTo(lines, M, n - 1, so)
  PROVE  ReadUpTo(lines, M, n, NextRead(lines, so, M[n]))
<1> DEFINE new == NextRead(lines, so, M[n])
           L == Len(so.ranges)
<1>0. /\ n \in Nat /\ n - 1 \in Nat /\ Len(M) \in Nat /\ Len(lines) \in Nat
      /\ ReadBudget \in Nat /\ Envelope \in Nat
  BY ReadAssumption
<1>1. /\ so = [ranges |-> so.ranges, left |-> so.left, truncated |-> so.truncated]
      /\ so.ranges \in Seq(Part) /\ so.left \in Nat /\ so.truncated \in BOOLEAN
  BY DEF ReadUpTo, ReadState
<1>2. /\ L \in Nat /\ L <= n - 1 /\ (~so.truncated => L = n - 1) /\ (L < n - 1 => so.left = 0)
      /\ Cost(so.ranges, L) + so.left = ReadBudget + Envelope * L
  BY <1>1 DEF ReadUpTo, Answers
<1>3. \A i \in 1..L :
        /\ Honest(lines, so.ranges[i].start, so.ranges[i].end, so.ranges[i].bytes, so.truncated)
        /\ so.ranges[i].start..so.ranges[i].end \subseteq M[i][1]..M[i][2]
        /\ ~so.truncated => so.ranges[i].start..so.ranges[i].end = M[i][1]..M[i][2]
  BY DEF ReadUpTo, Answers
<1>4. \A k \in 0..L : Cost(so.ranges, k) <= ReadBudget + Envelope * k
  BY DEF ReadUpTo, Answers
<1> HIDE DEF L
<1>5. CASE so.left <= 0
  <2>1. so.left = 0
    BY <1>1, <1>5
  <2>2. new = [ranges |-> so.ranges, left |-> so.left, truncated |-> TRUE]
    BY <1>1, <1>5 DEF NextRead
  <2> HIDE DEF new
  <2>3. new.ranges = so.ranges /\ new.left = so.left /\ new.truncated = TRUE /\ new \in ReadState
    BY <1>1, <2>2 DEF ReadState
  <2>4. \A i \in 1..L : Honest(lines, so.ranges[i].start, so.ranges[i].end, so.ranges[i].bytes, TRUE)
    BY <1>3 DEF Honest
  <2>5. L <= n
    BY <1>0, <1>2
  <2>6. Answers(lines, M, n, new.ranges, new.truncated)
    BY <1>1, <1>3, <1>4, <2>3, <2>4, <2>5 DEF Answers, L
  <2> QED
    BY <1>2, <2>1, <2>3, <2>6 DEF ReadUpTo, L, new
<1>6. CASE ~(so.left <= 0)
  <2>1. L = n - 1 /\ L + 1 = n /\ so.left # 0
    <3>1. so.left # 0
      BY <1>6
    <3>2. L = n - 1
      BY <1>0, <1>2, <3>1
    <3> QED
      BY <1>0, <3>1, <3>2
  <2> DEFINE s == M[n][1]
             e == M[n][2]
             r == SelectLines(lines, s, e, so.left)
             p == [start |-> r.start, end |-> r.end, bytes |-> r.bytes]
             cut == so.truncated \/ r.cut
             all == Append(so.ranges, p)
  <2>2. s \in Nat \ {0} /\ e \in 0..Len(lines)
    <3>1. M[n] \in Nat \X Nat /\ s \in Nat /\ e \in Nat
      OBVIOUS
    <3>2. s >= 1 /\ e <= Len(lines)
      BY DEF Within
    <3> HIDE DEF s, e
    <3> QED
      BY <1>0, <3>1, <3>2
  <2> HIDE DEF s, e
  <2>3. /\ r.start = s /\ r.cut \in BOOLEAN /\ r.bytes <= so.left
        /\ Honest(lines, s, r.end, r.bytes, r.cut)
        /\ s..r.end \subseteq s..e
        /\ ~r.cut => s..r.end = s..e
    BY <1>1, <2>2, SelectIs
  <2>4. new = [ranges |-> all, left |-> so.left - r.bytes, truncated |-> cut]
    BY <1>6 DEF NextRead, s, e
  <2> HIDE DEF r
  <2>5. r.end \in Nat /\ r.bytes \in Nat
    BY <1>0, <2>3 DEF Honest
  <2>6. p \in Part /\ p.start = s /\ p.end = r.end /\ p.bytes = r.bytes
    BY <2>2, <2>3, <2>5 DEF Part
  <2> HIDE DEF p
  <2>7. all \in Seq(Part) /\ Len(all) = n /\ all[n] = p /\ \A i \in 1..L : all[i] = so.ranges[i]
    BY <1>1, <1>2, <2>1, <2>6 DEF L
  <2> HIDE DEF all
  <2>8. cut \in BOOLEAN /\ (so.truncated => cut) /\ (r.cut => cut)
        /\ (~cut => ~so.truncated /\ ~r.cut)
    BY <1>1, <2>3
  <2> HIDE DEF cut
  <2>9. so.left - r.bytes \in Nat
    BY <1>1, <2>3, <2>5
  <2>10. /\ new.ranges = all /\ new.left = so.left - r.bytes /\ new.truncated = cut
         /\ new \in ReadState
    BY <2>4, <2>7, <2>8, <2>9 DEF ReadState
  <2>11. ASSUME NEW i \in 1..n
         PROVE  /\ Honest(lines, all[i].start, all[i].end, all[i].bytes, cut)
                /\ all[i].start..all[i].end \subseteq M[i][1]..M[i][2]
                /\ ~cut => all[i].start..all[i].end = M[i][1]..M[i][2]
    <3>1. CASE i = n
      <4>1. Honest(lines, s, r.end, r.bytes, cut)
        BY <2>3, <2>8 DEF Honest
      <4> QED
        BY <2>3, <2>6, <2>7, <2>8, <3>1, <4>1 DEF s, e
    <3>2. CASE i # n
      <4>1. i \in 1..L
        BY <1>0, <2>1, <3>2
      <4>2. Honest(lines, so.ranges[i].start, so.ranges[i].end, so.ranges[i].bytes, cut)
        BY <1>3, <2>8, <4>1 DEF Honest
      <4> QED
        BY <1>3, <2>7, <2>8, <4>1, <4>2
    <3> QED
      BY <3>1, <3>2
  <2>12. \A k \in 0..L : Cost(all, k) = Cost(so.ranges, k)
    <3> SUFFICES ASSUME NEW k \in 0..L PROVE Cost(all, k) = Cost(so.ranges, k)
      OBVIOUS
    <3>1. k \in 0..Len(all) /\ k <= Len(so.ranges) /\ \A i \in 1..k : i \in 1..L
      BY <1>0, <1>2, <2>1, <2>7 DEF L
    <3> QED
      BY <1>1, <2>7, <3>1, CostOfPrefix
  <2>13. Cost(all, n) = Cost(so.ranges, L) + Envelope + r.bytes
    <3>0. n \in 0..n /\ n # 0
      BY <1>0
    <3>1. n \in 0..Len(all) /\ n # 0 /\ L \in 0..L
      BY <1>2, <2>7, <3>0
    <3>2. Cost(all, n) = Cost(all, n - 1) + Envelope + all[n].bytes
      BY <2>7, <3>1, CostIs
    <3> QED
      BY <2>1, <2>6, <2>7, <2>12, <3>1, <3>2
  <2>14. Cost(so.ranges, L) \in Nat
    <3>1. L \in 0..Len(so.ranges)
      BY <1>2 DEF L
    <3> QED
      BY <1>1, <3>1, CostIs
  <2>15. Cost(all, n) + (so.left - r.bytes) = ReadBudget + Envelope * n
         /\ Cost(all, n) <= ReadBudget + Envelope * n
    <3>1. Envelope * L \in Nat /\ Envelope * n = Envelope * L + Envelope
      BY <1>0, <1>2, <2>1, OneMore
    <3> DEFINE x == Envelope * L
               y == Envelope * n
               u == Cost(so.ranges, L)
               w == Cost(all, n)
               b == r.bytes
               t == so.left
    <3>2. /\ x \in Nat /\ y = x + Envelope /\ u \in Nat /\ b \in Nat /\ t \in Nat /\ b <= t
          /\ w = u + Envelope + b /\ u + t = ReadBudget + x
      BY <1>1, <1>2, <2>3, <2>5, <2>13, <2>14, <3>1
    <3> HIDE DEF x, y, u, w, b, t
    <3>3. w + (t - b) = ReadBudget + y /\ w <= ReadBudget + y
      BY <1>0, <3>2
    <3> QED
      BY <3>3 DEF x, y, u, w, b, t
  <2>16. \A k \in 0..n : Cost(all, k) <= ReadBudget + Envelope * k
    <3> SUFFICES ASSUME NEW k \in 0..n PROVE Cost(all, k) <= ReadBudget + Envelope * k
      OBVIOUS
    <3>1. k = n \/ k \in 0..L
      BY <1>0, <2>1
    <3> QED
      BY <1>4, <2>12, <2>15, <3>1
  <2>17. n <= n /\ ~(n < n)
    BY <1>0
  <2>18. Answers(lines, M, n, all, cut)
    BY <2>7, <2>8, <2>11, <2>16, <2>17 DEF Answers
  <2> HIDE DEF new
  <2> QED
    BY <2>7, <2>10, <2>15, <2>17, <2>18 DEF ReadUpTo, new
<1> QED
  BY <1>5, <1>6

\* One more range read keeps the type of the answer.
LEMMA NextReadType ==
  ASSUME NEW lines \in Seq(Nat), NEW so \in ReadState, NEW m \in Nat \X Nat,
         m[1] >= 1, m[2] <= Len(lines)
  PROVE  NextRead(lines, so, m) \in ReadState
<1>1. so.ranges \in Seq(Part) /\ so.left \in Nat /\ so.truncated \in BOOLEAN
  BY DEF ReadState
<1>2. CASE so.left <= 0
  <2>1. NextRead(lines, so, m) = [so EXCEPT !.truncated = TRUE]
    BY <1>2 DEF NextRead
  <2> QED
    BY <2>1 DEF ReadState
<1>3. CASE ~(so.left <= 0)
  <2> DEFINE s == m[1]
             e == m[2]
             r == SelectLines(lines, s, e, so.left)
             p == [start |-> r.start, end |-> r.end, bytes |-> r.bytes]
  <2>1. s \in Nat \ {0} /\ e \in 0..Len(lines)
    <3>1. s \in Nat /\ e \in Nat /\ s >= 1 /\ e <= Len(lines) /\ Len(lines) \in Nat
      OBVIOUS
    <3> HIDE DEF s, e
    <3> QED
      BY <3>1
  <2> HIDE DEF s, e
  <2>2. /\ r.start = s /\ r.cut \in BOOLEAN /\ r.bytes <= so.left
        /\ Honest(lines, s, r.end, r.bytes, r.cut)
    BY <1>1, <2>1, SelectIs
  <2>3. NextRead(lines, so, m) = [ranges |-> Append(so.ranges, p), left |-> so.left - r.bytes,
                                  truncated |-> so.truncated \/ r.cut]
    BY <1>3 DEF NextRead, s, e
  <2> HIDE DEF r
  <2>4. r.end \in Nat /\ r.bytes \in Nat
    BY <2>2 DEF Honest
  <2>5. p \in Part
    BY <2>1, <2>2, <2>4 DEF Part
  <2> HIDE DEF p
  <2>6. Append(so.ranges, p) \in Seq(Part)
    BY <1>1, <2>5
  <2>7. so.left - r.bytes \in Nat
    BY <1>1, <2>2, <2>4
  <2>8. (so.truncated \/ r.cut) \in BOOLEAN
    BY <1>1, <2>2
  <2> QED
    BY <2>3, <2>6, <2>7, <2>8 DEF ReadState
<1> QED
  BY <1>2, <1>3

\* A read of some ranges answers for all of them.
LEMMA ReadRangesIs ==
  ASSUME NEW lines \in Seq(Nat), NEW ranges \in Seq(Nat \X Nat)
  PROVE  LET M == MergeRanges(ranges, Len(lines))
             result == ReadRanges(lines, ranges)
         IN /\ result = [ranges |-> result.ranges, truncated |-> result.truncated]
            /\ Answers(lines, M, Len(M), result.ranges, result.truncated)
<1> DEFINE M == MergeRanges(ranges, Len(lines))
           N == Len(M)
           first == [ranges |-> <<>>, left |-> ReadBudget, truncated |-> FALSE]
<1>1. M \in Seq(Nat \X Nat) /\ Within(M, Len(lines))
  <2>1. Len(lines) \in Nat
    OBVIOUS
  <2> QED
    BY <2>1, MergeIs
<1> HIDE DEF M
<1>2. N \in Nat /\ \A n \in 1..N : M[n] \in Nat \X Nat /\ M[n][1] >= 1 /\ M[n][2] <= Len(lines)
  <2>1. N \in Nat /\ \A n \in 1..N : M[n] \in Nat \X Nat
    BY <1>1
  <2>2. \A n \in 1..N : M[n][1] >= 1 /\ M[n][2] <= Len(lines)
    BY <1>1 DEF Within
  <2> QED
    BY <2>1, <2>2
<1>3. first \in ReadState
  <2>1. <<>> \in Seq(Part) /\ ReadBudget \in Nat
    BY ReadAssumption
  <2> QED
    BY <2>1 DEF ReadState
<1> DEFINE D == [q \in ReadState \X Nat |->
                   IF q[2] \in 1..N THEN NextRead(lines, q[1], M[q[2]]) ELSE q[1]]
<1>4. D \in [ReadState \X Nat -> ReadState]
  <2> SUFFICES ASSUME NEW q \in ReadState \X Nat
               PROVE  (IF q[2] \in 1..N THEN NextRead(lines, q[1], M[q[2]]) ELSE q[1]) \in ReadState
    OBVIOUS
  <2>1. q[1] \in ReadState
    OBVIOUS
  <2> HIDE DEF N
  <2> QED
    BY <1>2, <2>1, NextReadType
<1>5. \A so \in ReadState, i \in 1..N : D[<<so, i>>] = NextRead(lines, so, M[i])
  <2> HIDE DEF N
  <2>1. \A i \in 1..N : i \in Nat
    BY <1>2
  <2> QED
    BY <2>1
<1> HIDE DEF D, first
<1>6. PICK f \in [0..N -> ReadState] : Follows(f, first, D, N)
  BY <1>2, <1>3, <1>4, StepsDefine
<1> DEFINE Steps(g) == g = [n \in 0..N |-> IF n = 0 THEN first ELSE NextRead(lines, g[n - 1], M[n])]
<1>7. Steps(f)
  <2> HIDE DEF N
  <2>1. ASSUME NEW n \in 0..N
        PROVE  f[n] = IF n = 0 THEN first ELSE NextRead(lines, f[n - 1], M[n])
    <3>1. CASE n = 0
      BY <1>6, <3>1 DEF Follows
    <3>2. CASE n # 0
      <4>1. n \in 1..N /\ n - 1 \in 0..N
        BY <1>2, <3>2
      <4>2. f[n] = D[<<f[n - 1], n>>] /\ f[n - 1] \in ReadState
        BY <1>6, <4>1 DEF Follows
      <4> QED
        BY <1>5, <3>2, <4>1, <4>2
    <3> QED
      BY <3>1, <3>2
  <2> QED
    BY <1>6, <2>1
<1> DEFINE read == CHOOSE g : Steps(g)
<1>8. ReadRanges(lines, ranges) = [ranges |-> read[N].ranges, truncated |-> read[N].truncated]
  BY DEF ReadRanges, M, N, Steps, NextRead, first
<1>9. Steps(read)
  <2> HIDE DEF Steps
  <2> QED
    BY <1>7
<1> HIDE DEF read
<1>10. read[0] = first /\ \A n \in 1..N : read[n] = NextRead(lines, read[n - 1], M[n])
  <2> HIDE DEF N
  <2>1. 0 \in 0..N /\ \A n \in 1..N : n \in 0..N /\ n # 0
    BY <1>2
  <2> QED
    BY <1>9, <2>1
<1> HIDE DEF Steps
<1> DEFINE U == {n \in 0..N : ReadUpTo(lines, M, n, read[n])}
<1>11. 0 \in U
  <2>1. first.ranges = <<>> /\ first.left = ReadBudget /\ first.truncated = FALSE
    BY DEF first
  <2>2. <<>> \in Seq(Part) /\ Len(<<>>) = 0 /\ 0 \in 0..0 /\ 0 \in 0..N
    BY <1>2
  <2>3. ReadBudget \in Nat /\ Envelope \in Nat /\ Envelope * 0 = 0
    BY ReadAssumption
  <2>4. Cost(<<>>, 0) = 0
    <3>1. 0 \in 0..Len(<<>>)
      BY <2>2
    <3> QED
      BY <2>2, <3>1, CostIs
  <2>5. Cost(<<>>, 0) + ReadBudget = ReadBudget + Envelope * 0
        /\ Cost(<<>>, 0) <= ReadBudget + Envelope * 0
    BY <2>3, <2>4
  <2>6. \A k \in 0..0 : k = 0
    OBVIOUS
  <2>7. Answers(lines, M, 0, <<>>, FALSE)
    <3>1. \A k \in 0..Len(<<>>) : Cost(<<>>, k) <= ReadBudget + Envelope * k
      BY <2>2, <2>5, <2>6
    <3>2. 1..Len(<<>>) = {} /\ Len(<<>>) <= 0 /\ Len(<<>>) = 0
      OBVIOUS
    <3> QED
      BY <2>2, <3>1, <3>2 DEF Answers
  <2>8. ReadUpTo(lines, M, 0, first)
    <3>1. ~(Len(<<>>) < 0)
      OBVIOUS
    <3> QED
      BY <1>3, <2>1, <2>2, <2>5, <2>7, <3>1 DEF ReadUpTo
  <2> QED
    BY <1>10, <2>2, <2>8
<1>12. ASSUME NEW n \in 1..N, n - 1 \in U PROVE n \in U
  <2>1. ReadUpTo(lines, M, n - 1, read[n - 1])
    BY <1>12
  <2>2. ReadUpTo(lines, M, n, NextRead(lines, read[n - 1], M[n]))
    BY <1>1, <2>1, NextReadIs
  <2>3. n \in 0..N
    BY <1>2
  <2> QED
    BY <1>10, <2>2, <2>3
<1> HIDE DEF U
<1>13. \A n \in 0..N : n \in U
  BY <1>2, <1>11, <1>12, Induction
<1>14. ReadUpTo(lines, M, N, read[N])
  <2>1. N \in 0..N
    BY <1>2
  <2> QED
    BY <1>13, <2>1 DEF U
<1>15. Answers(lines, M, N, read[N].ranges, read[N].truncated)
  BY <1>14 DEF ReadUpTo
<1> QED
  BY <1>8, <1>15 DEF M, N

-------------------------------------------------------------------------------
(* Fitting a read into a response *)

\* The head of a range that does not fit is a part of it, of whole lines or of its
\* first, no longer than the room.
LEMMA ClipIs ==
  ASSUME NEW lines \in Seq(Nat), NEW r \in Part, NEW cut,
         Honest(lines, r.start, r.end, r.bytes, cut), NEW room \in Int, room < r.bytes
  PROVE  LET head == ClipContent(lines, r, room)
         IN \/ head = <<>>
            \/ \E p \in Part : /\ head = <<p>> /\ p.bytes <= room
                              /\ Honest(lines, p.start, p.end, p.bytes, TRUE)
                              /\ p.start..p.end \subseteq r.start..r.end
<1> DEFINE s == r.start
           e == r.end
           b == r.bytes
           low == Min2(b, room)
           ends == {k \in s..(e - 1) : Text(lines, s, k) < low}
           last == CHOOSE k \in ends : \A j \in ends : j <= k
           head == ClipContent(lines, r, room)
<1>1. /\ s \in Nat \ {0} /\ e \in 0..Len(lines) /\ b \in Nat
      /\ (b = Text(lines, s, e) \/ (s = e /\ b < lines[s]))
  BY DEF Honest
<1>2. r = [start |-> s, end |-> e, bytes |-> b]
  BY DEF Part
<1>3. low = room /\ room # b
  BY <1>1 DEF Min2
<1>4. CASE room <= 0
  <2> HIDE DEF low
  <2>1. low <= 0
    BY <1>3, <1>4
  <2> QED
    BY <2>1 DEF ClipContent, low
<1>5. CASE ~(room <= 0)
  <2> HIDE DEF s, e, b, low
  <2>1. room \in Nat /\ room >= 1 /\ room < b /\ b # 0 /\ s \in Nat /\ e \in Nat /\ s >= 1
        /\ Len(lines) \in Nat /\ e <= Len(lines)
    BY <1>1, <1>5 DEF b
  <2>2. s <= e
    <3> SUFFICES ASSUME ~(s <= e) PROVE FALSE
      OBVIOUS
    <3>1. e < s /\ s # e
      BY <2>1
    <3>2. Text(lines, s, e) = 0
      BY <3>1 DEF Text
    <3> QED
      BY <1>1, <2>1, <3>1, <3>2
  <2>3. s \in 1..Len(lines) /\ s \in 0..Len(lines) /\ s \in s..Len(lines) /\ lines[s] \in Nat
        /\ s..s \subseteq s..e
    BY <2>1, <2>2
  <2>4. Text(lines, s, s) = lines[s]
    BY <2>3, TextIs
  <2>5. CASE ends = {}
    <3> DEFINE p == [r EXCEPT !.end = s, !.bytes = low]
    <3>0. ~(low <= 0) /\ low # b
      BY <1>3, <1>5
    <3>1. head = <<p>>
      BY <2>5, <3>0 DEF ClipContent, s, e, b, low
    <3>2. low \in Nat /\ low = room /\ s \in Nat
      BY <1>3, <2>1
    <3>3. p \in Part
      BY <3>2 DEF Part
    <3>4. room = lines[s] \/ room < lines[s]
      <4>1. CASE s = e
        <5>1. b <= lines[s]
          BY <1>1, <2>1, <2>3, <2>4, <4>1
        <5> DEFINE l == lines[s]
        <5>2. room \in Nat /\ b \in Nat /\ l \in Nat /\ room < b /\ b <= l
          BY <1>1, <2>1, <2>3, <5>1
        <5> HIDE DEF l
        <5>3. room < l
          BY <5>2
        <5> QED
          BY <5>3 DEF l
      <4>2. CASE s # e
        <5>1. s \in s..(e - 1)
          BY <2>1, <2>2, <4>2
        <5>2. ~(lines[s] < room)
          BY <1>3, <2>4, <2>5, <5>1
        <5> DEFINE l == lines[s]
        <5>3. room \in Nat /\ l \in Nat /\ ~(l < room)
          BY <2>1, <2>3, <5>2
        <5> HIDE DEF l
        <5>4. room = l \/ room < l
          BY <5>3
        <5> QED
          BY <5>4 DEF l
      <4> QED
        BY <4>1, <4>2
    <3>5. Honest(lines, s, s, room, TRUE)
      BY <1>1, <2>1, <2>3, <2>4, <3>4 DEF Honest
    <3>6. p.start = s /\ p.end = s /\ p.bytes = room /\ room <= room
      <4>1. p.start = r.start /\ p.end = s /\ p.bytes = low
        BY DEF Part
      <4> QED
        BY <2>1, <3>2, <4>1 DEF s
    <3> HIDE DEF p, head
    <3> QED
      BY <2>3, <3>1, <3>2, <3>3, <3>5, <3>6 DEF s, e, head
  <2>6. CASE ends # {}
    <3> DEFINE p == [start |-> s, end |-> last, bytes |-> Text(lines, s, last)]
    <3>1. ends \in SUBSET (0..e)
      BY <2>1
    <3>2. last \in ends
      <4> HIDE DEF ends
      <4>1. \E k \in ends : \A j \in ends : j <= k
        BY <2>1, <2>6, <3>1, Greatest
      <4> QED
        BY <4>1
    <3>0. ~(low <= 0) /\ low # b
      BY <1>3, <1>5
    <3>3. head = <<p>>
      BY <2>6, <3>0 DEF ClipContent, s, e, b, low
    <3> HIDE DEF last
    <3>4. last \in s..(e - 1) /\ Text(lines, s, last) < room
      BY <1>3, <3>2
    <3>5. last \in s..Len(lines) /\ last \in 0..Len(lines) /\ last \in Nat /\ s..last \subseteq s..e
      BY <2>1, <3>4
    <3>6. Text(lines, s, last) \in Nat
      BY <2>3, <3>5, TextIs
    <3>7. Text(lines, s, last) <= room
      BY <2>1, <3>4, <3>6
    <3>8. Honest(lines, s, last, Text(lines, s, last), TRUE)
      BY <1>1, <3>5, <3>6 DEF Honest
    <3>9. p \in Part
      BY <2>1, <3>5, <3>6 DEF Part
    <3>10. p.start = s /\ p.end = last /\ p.bytes = Text(lines, s, last)
      OBVIOUS
    <3> HIDE DEF p, head
    <3> QED
      BY <3>3, <3>5, <3>7, <3>8, <3>9, <3>10 DEF s, e, head
  <2> QED
    BY <2>5, <2>6
<1> QED
  BY <1>4, <1>5

\* The first so many elements of a sequence.
LEMMA PrefixOfSeq ==
  ASSUME NEW S, NEW r \in Seq(S), NEW w \in 0..Len(r)
  PROVE  /\ SubSeq(r, 1, w) \in Seq(S) /\ Len(SubSeq(r, 1, w)) = w
         /\ \A i \in 1..w : SubSeq(r, 1, w)[i] = r[i]
  OBVIOUS

\* What Append does to the length and the elements.
LEMMA OneAfter ==
  ASSUME NEW S, NEW r \in Seq(S), NEW x \in S
  PROVE  /\ r \o <<x>> \in Seq(S) /\ Len(r \o <<x>>) = Len(r) + 1
         /\ (r \o <<x>>)[Len(r) + 1] = x
         /\ \A i \in 1..Len(r) : (r \o <<x>>)[i] = r[i]
  OBVIOUS

\* A trimmed result still answers for the ranges, and fits.
LEMMA TrimIs ==
  ASSUME NEW lines \in Seq(Nat), NEW M, NEW n \in Nat, NEW result,
         Answers(lines, M, n, result.ranges, result.truncated),
         NEW room \in Nat, Cost(result.ranges, Len(result.ranges)) > room
  PROVE  LET t == TrimRead(lines, result, room)
         IN /\ t.truncated = TRUE
            /\ Answers(lines, M, n, t.ranges, TRUE)
            /\ Cost(t.ranges, Len(t.ranges)) <= room
<1> DEFINE R == result.ranges
           N == Len(R)
           cut == result.truncated
           Fits(k) == Cost(R, k) <= room /\ (k = N \/ Cost(R, k + 1) > room)
           whole == CHOOSE k \in 0..N : Fits(k)
<1>1. /\ R \in Seq(Part) /\ N \in Nat /\ N <= n
      /\ \A i \in 1..N : /\ Honest(lines, R[i].start, R[i].end, R[i].bytes, cut)
                        /\ R[i].start..R[i].end \subseteq M[i][1]..M[i][2]
      /\ \A k \in 0..N : Cost(R, k) <= ReadBudget + Envelope * k
  BY DEF Answers
<1>2. Envelope \in Nat /\ ReadBudget \in Nat
  BY ReadAssumption
<1> HIDE DEF R
<1>3. \A k \in 0..N : Cost(R, k) \in Nat
  BY <1>1, CostIs
<1>4. Cost(R, 0) = 0
  <2>1. 0 \in 0..N
    BY <1>1
  <2> QED
    BY <1>1, <2>1, CostIs
<1>5. ~Fits(N)
  <2>1. Cost(R, N) \in Nat /\ Cost(R, N) > room
    <3>1. N \in 0..N
      BY <1>1
    <3>2. Cost(R, N) > room
      BY DEF R
    <3> QED
      BY <1>3, <3>1, <3>2
  <2> QED
    BY <2>1
<1>6. \E k \in 0..N : Fits(k)
  <2> DEFINE W == {k \in 0..N : Cost(R, k) <= room}
  <2> HIDE DEF R, N
  <2>1. 0 \in W /\ W \in SUBSET (0..N)
    BY <1>1, <1>4
  <2>2. PICK k \in W : \A j \in W : j <= k
    <3> HIDE DEF W
    <3> QED
      BY <1>1, <2>1, Greatest
  <2>3. k \in 0..N /\ Cost(R, k) <= room
    OBVIOUS
  <2>4. CASE k = N
    BY <2>3, <2>4
  <2>5. CASE k # N
    <3>1. k + 1 \in 0..N /\ ~(k + 1 <= k)
      BY <1>1, <2>3, <2>5
    <3>2. ~(Cost(R, k + 1) <= room)
      BY <2>2, <3>1
    <3>3. Cost(R, k + 1) \in Nat
      BY <1>3, <3>1
    <3>4. Cost(R, k + 1) > room
      BY <3>2, <3>3
    <3> QED
      BY <2>3, <3>4
  <2> QED
    BY <2>4, <2>5
<1>7. whole \in 0..N /\ Fits(whole)
  <2> HIDE DEF Fits, N
  <2> QED
    BY <1>6
<1> DEFINE w == whole
           space == room - Cost(R, w) - Envelope
           head == ClipContent(lines, R[w + 1], space)
           new == SubSeq(R, 1, w) \o head
<1>8. TrimRead(lines, result, room) = [ranges |-> new, truncated |-> TRUE]
  <2>1. TrimRead(lines, result, room) =
          [ranges |-> SubSeq(R, 1, w) \o (IF w = N THEN <<>> ELSE head), truncated |-> TRUE]
    BY DEF TrimRead, R
  <2>2. w # N
    <3> HIDE DEF Fits
    <3> QED
      BY <1>5, <1>7
  <2> HIDE DEF w, whole
  <2> QED
    BY <2>1, <2>2
<1>9. /\ w \in 0..N /\ w + 1 \in 1..N /\ w \in Nat
      /\ Cost(R, w) <= room /\ Cost(R, w + 1) > room
  <2>1. w # N
    <3> HIDE DEF Fits
    <3> QED
      BY <1>5, <1>7
  <2> HIDE DEF whole, N, R
  <2> QED
    BY <1>1, <1>7, <2>1
<1> HIDE DEF w, whole, N, head, Fits
<1> DEFINE r == R[w + 1]
<1>10. r \in Part /\ r.bytes \in Nat
  <2>1. r \in Part
    BY <1>1, <1>9 DEF N
  <2> HIDE DEF r
  <2> QED
    BY <2>1 DEF Part
<1>11. Cost(R, w) \in Nat /\ Cost(R, w + 1) \in Nat
       /\ Cost(R, w + 1) = Cost(R, w) + Envelope + r.bytes
  <2>1. w + 1 \in 0..N /\ w + 1 # 0 /\ w + 1 - 1 = w
    BY <1>1, <1>9
  <2>2. Cost(R, w) \in Nat /\ Cost(R, w + 1) \in Nat
    BY <1>3, <1>9, <2>1
  <2>3. Cost(R, w + 1) = Cost(R, w) + Envelope + r.bytes
    <3> DEFINE k == w + 1
    <3>1. k \in 0..N /\ k # 0 /\ k - 1 = w
      <4>1. k \in 0..N
        BY <2>1
      <4>2. k # 0 /\ k - 1 = w
        BY <1>9
      <4> QED
        BY <4>1, <4>2
    <3> HIDE DEF k
    <3>2. Cost(R, k) = Cost(R, k - 1) + Envelope + R[k].bytes
      BY <1>1, <3>1, CostIs DEF N
    <3>3. Cost(R, k) = Cost(R, w) + Envelope + R[k].bytes
      BY <3>1, <3>2
    <3> QED
      BY <3>3 DEF k
  <2> QED
    BY <2>2, <2>3
<1> HIDE DEF r
<1>12. space \in Int /\ space < r.bytes
  <2> DEFINE a == Cost(R, w)
             b == Cost(R, w + 1)
             c == r.bytes
  <2>1. a \in Nat /\ b \in Nat /\ c \in Nat /\ b = a + Envelope + c /\ b > room
    BY <1>9, <1>10, <1>11
  <2> HIDE DEF a, b, c
  <2>2. room - a - Envelope \in Int /\ room - a - Envelope < c
    BY <1>2, <2>1
  <2> QED
    BY <2>2 DEF a, c
<1> HIDE DEF space
<1>13. Honest(lines, r.start, r.end, r.bytes, cut) /\ r.start..r.end \subseteq M[w + 1][1]..M[w + 1][2]
  BY <1>1, <1>9 DEF r
<1>14. \/ head = <<>>
       \/ \E p \in Part : /\ head = <<p>> /\ p.bytes <= space
                         /\ Honest(lines, p.start, p.end, p.bytes, TRUE)
                         /\ p.start..p.end \subseteq r.start..r.end
  <2>1. head = ClipContent(lines, r, space)
    BY DEF head, r
  <2> HIDE DEF head
  <2> QED
    BY <1>10, <1>12, <1>13, <2>1, ClipIs
<1> DEFINE kept == SubSeq(R, 1, w)
<1>15. kept \in Seq(Part) /\ Len(kept) = w /\ \A i \in 1..w : kept[i] = R[i]
  BY <1>1, <1>9, PrefixOfSeq DEF N
<1> HIDE DEF kept
<1>16. ASSUME NEW i \in 1..w
       PROVE  /\ Honest(lines, kept[i].start, kept[i].end, kept[i].bytes, TRUE)
              /\ kept[i].start..kept[i].end \subseteq M[i][1]..M[i][2]
  <2>1. i \in 1..N
    BY <1>1, <1>9
  <2>2. Honest(lines, R[i].start, R[i].end, R[i].bytes, TRUE)
    BY <1>1, <2>1 DEF Honest
  <2> QED
    BY <1>1, <1>15, <2>1, <2>2
<1>17. ASSUME NEW s \in Seq(Part), w <= Len(s), \A i \in 1..w : s[i] = R[i], NEW k \in 0..w
       PROVE  Cost(s, k) = Cost(R, k) /\ Cost(s, k) <= ReadBudget + Envelope * k
  <2>1. k \in 0..N /\ k \in 0..Len(s) /\ k <= Len(R) /\ \A i \in 1..k : i \in 1..w
    BY <1>1, <1>9, <1>17 DEF N
  <2>2. Cost(s, k) = Cost(R, k)
    BY <1>1, <1>17, <2>1, CostOfPrefix
  <2> QED
    BY <1>1, <2>1, <2>2
<1>18. w <= w /\ w \in 0..w /\ w <= n
  BY <1>1, <1>9
<1>19. ASSUME head = <<>>
       PROVE  Answers(lines, M, n, new, TRUE) /\ Cost(new, Len(new)) <= room
  <2>1. new = kept
    BY <1>15, <1>19 DEF kept
  <2>2. Answers(lines, M, n, new, TRUE)
    BY <1>15, <1>16, <1>17, <1>18, <2>1 DEF Answers
  <2>3. Cost(new, Len(new)) <= room
    BY <1>9, <1>15, <1>17, <1>18, <2>1
  <2> QED
    BY <2>2, <2>3
<1>20. ASSUME NEW p \in Part, head = <<p>>, p.bytes <= space,
              Honest(lines, p.start, p.end, p.bytes, TRUE),
              p.start..p.end \subseteq r.start..r.end
       PROVE  Answers(lines, M, n, new, TRUE) /\ Cost(new, Len(new)) <= room
  <2>1. /\ new \in Seq(Part) /\ Len(new) = w + 1 /\ new[w + 1] = p
        /\ \A i \in 1..w : new[i] = kept[i]
    <3>1. new = kept \o <<p>>
      BY <1>20 DEF kept
    <3> HIDE DEF new
    <3> QED
      BY <1>15, <3>1, OneAfter
  <2> HIDE DEF new
  <2>2. /\ w + 1 \in Nat /\ w <= w + 1 /\ w + 1 <= n /\ w + 1 \in 0..(w + 1) /\ w + 1 # 0
        /\ w + 1 - 1 = w
        /\ \A i \in 1..(w + 1) : i = w + 1 \/ i \in 1..w
        /\ \A i \in 0..(w + 1) : i = w + 1 \/ i \in 0..w
    BY <1>1, <1>9
  <2>3. \A i \in 1..(w + 1) : /\ Honest(lines, new[i].start, new[i].end, new[i].bytes, TRUE)
                            /\ new[i].start..new[i].end \subseteq M[i][1]..M[i][2]
    <3> SUFFICES ASSUME NEW i \in 1..(w + 1)
                 PROVE  /\ Honest(lines, new[i].start, new[i].end, new[i].bytes, TRUE)
                        /\ new[i].start..new[i].end \subseteq M[i][1]..M[i][2]
      OBVIOUS
    <3>1. CASE i = w + 1
      BY <1>13, <1>20, <2>1, <3>1
    <3>2. CASE i \in 1..w
      BY <1>16, <2>1, <3>2
    <3> QED
      BY <2>2, <3>1, <3>2
  <2>4. \A k \in 0..w : Cost(new, k) = Cost(R, k) /\ Cost(new, k) <= ReadBudget + Envelope * k
    BY <1>15, <1>17, <2>1, <2>2
  <2>5. Cost(new, w + 1) = Cost(R, w) + Envelope + p.bytes
    <3> DEFINE k == w + 1
    <3>1. k \in 0..k /\ k # 0 /\ k - 1 = w
      <4>1. k \in 0..k
        BY <1>9
      <4>2. k # 0 /\ k - 1 = w
        BY <1>9
      <4> QED
        BY <4>1, <4>2
    <3>5. Len(new) = k /\ new[k] = p
      BY <2>1
    <3> HIDE DEF k
    <3>2. Cost(new, k) = Cost(new, k - 1) + Envelope + new[k].bytes
      BY <2>1, <3>1, <3>5, CostIs
    <3>3. Cost(new, w) = Cost(R, w)
      BY <1>18, <2>4
    <3>4. Cost(new, k) = Cost(R, w) + Envelope + p.bytes
      BY <3>1, <3>2, <3>3, <3>5
    <3> QED
      BY <3>4 DEF k
  <2>6. Cost(new, w + 1) <= room /\ Cost(new, w + 1) <= Cost(R, w + 1)
    <3> DEFINE a == Cost(R, w)
               b == Cost(R, w + 1)
               c == r.bytes
               d == p.bytes
               e == Cost(new, w + 1)
    <3>1. /\ a \in Nat /\ b \in Nat /\ c \in Nat /\ d \in Nat /\ b = a + Envelope + c
          /\ e = a + Envelope + d /\ d <= room - a - Envelope /\ room - a - Envelope < c
      BY <1>10, <1>11, <1>12, <1>20, <2>5 DEF space, Part
    <3> HIDE DEF a, b, c, d, e
    <3>2. e <= room /\ e <= b
      BY <1>2, <3>1
    <3> QED
      BY <3>2 DEF b, e
  <2>7. Cost(new, w + 1) <= ReadBudget + Envelope * (w + 1)
    <3> DEFINE b == Cost(R, w + 1)
               e == Cost(new, w + 1)
               x == Envelope * (w + 1)
    <3>1. b \in Nat /\ e \in Nat /\ x \in Nat /\ e <= b /\ b <= ReadBudget + x
      <4>1. w + 1 \in 0..N
        BY <1>1, <1>9
      <4>2. x \in Nat
        BY <1>2, <2>2, OneMore
      <4>3. e \in Nat
        BY <2>1, <2>2, CostIs
      <4> QED
        BY <1>1, <1>11, <2>6, <4>1, <4>2, <4>3
    <3> HIDE DEF b, e, x
    <3>2. e <= ReadBudget + x
      BY <1>2, <3>1
    <3> QED
      BY <3>2 DEF e, x
  <2>8. \A k \in 0..(w + 1) : Cost(new, k) <= ReadBudget + Envelope * k
    BY <2>2, <2>4, <2>7
  <2>9. Answers(lines, M, n, new, TRUE)
    BY <2>1, <2>2, <2>3, <2>8 DEF Answers
  <2> QED
    BY <2>1, <2>6, <2>9
<1> HIDE DEF new
<1>21. Answers(lines, M, n, new, TRUE) /\ Cost(new, Len(new)) <= room
  BY <1>14, <1>19, <1>20
<1> DEFINE t == TrimRead(lines, result, room)
<1>22. t.truncated = TRUE /\ t.ranges = new
  BY <1>8
<1> HIDE DEF t
<1>23. Answers(lines, M, n, t.ranges, TRUE) /\ Cost(t.ranges, Len(t.ranges)) <= room
  BY <1>21, <1>22
<1> QED
  BY <1>22, <1>23 DEF t

\* An answer for the first n ranges of M that fits in the room.
Fitting(lines, M, n, a, room) ==
  Answers(lines, M, n, a.ranges, a.truncated) /\ Cost(a.ranges, Len(a.ranges)) <= room

\* What fits in the room is an answer cut to it, or none.
LEMMA FitIs ==
  ASSUME NEW lines \in Seq(Nat), NEW M, NEW n \in Nat, NEW result,
         Answers(lines, M, n, result.ranges, result.truncated), NEW room \in Nat
  PROVE  LET fit == Fit(lines, result, room)
         IN \/ fit = <<>>
            \/ \E a : fit = <<a>> /\ Fitting(lines, M, n, a, room)
<1> DEFINE c == Cost(result.ranges, Len(result.ranges))
           t == TrimRead(lines, result, room)
           fit == Fit(lines, result, room)
<1>1. c \in Nat
  <2>1. result.ranges \in Seq(Part)
    BY DEF Answers
  <2>2. Len(result.ranges) \in 0..Len(result.ranges)
    BY <2>1
  <2> QED
    BY <2>1, <2>2, CostIs
<1>2. CASE c <= room
  <2>1. fit = <<result>>
    BY <1>2 DEF Fit
  <2>2. Fitting(lines, M, n, result, room)
    BY <1>2 DEF Fitting
  <2> QED
    BY <2>1, <2>2
<1>3. CASE ~(c <= room)
  <2>1. c > room
    BY <1>1, <1>3
  <2>2. /\ t.truncated = TRUE
        /\ Answers(lines, M, n, t.ranges, TRUE)
        /\ Cost(t.ranges, Len(t.ranges)) <= room
    BY <2>1, TrimIs
  <2>3. fit = IF t.ranges = <<>> THEN <<>> ELSE <<t>>
    BY <1>3 DEF Fit
  <2> HIDE DEF t
  <2>4. Fitting(lines, M, n, t, room)
    BY <2>2 DEF Fitting
  <2> HIDE DEF fit
  <2> QED
    BY <2>3, <2>4 DEF fit
<1> QED
  BY <1>2, <1>3

\* read_lines answers for its one range as ReadRanges would.
LEMMA ReadLinesIs ==
  ASSUME NEW lines \in Seq(Nat), NEW range \in Nat \X Nat
  PROVE  LET a == ReadLines(lines, range)
         IN Answers(lines, <<Clamped(range, Len(lines))>>, 1, a.ranges, a.truncated)
<1> DEFINE c == Clamped(range, Len(lines))
           s == c[1]
           e == c[2]
           r == SelectLines(lines, s, e, ReadBudget)
           p == [start |-> r.start, end |-> r.end, bytes |-> r.bytes]
           a == ReadLines(lines, range)
<1>0. Envelope \in Nat /\ ReadBudget \in Nat /\ Len(lines) \in Nat
  BY ReadAssumption
<1>1. s \in Nat \ {0} /\ e \in 0..Len(lines)
  <2>1. c \in Nat \X Nat /\ c[1] >= 1 /\ c[2] <= Len(lines)
    BY <1>0, ClampedIs
  <2> HIDE DEF c
  <2>2. s \in Nat /\ e \in Nat
    BY <2>1
  <2> QED
    BY <1>0, <2>1, <2>2
<1>2. a.ranges = <<p>> /\ a.truncated = r.cut
  BY DEF ReadLines
<1> DEFINE M == <<c>>
<1>3. M[1] = c
  OBVIOUS
<1> HIDE DEF c, s, e, a, M
<1>4. /\ r.start = s /\ r.cut \in BOOLEAN /\ r.bytes <= ReadBudget
      /\ Honest(lines, s, r.end, r.bytes, r.cut)
      /\ s..r.end \subseteq s..e
      /\ ~r.cut => s..r.end = s..e
  BY <1>0, <1>1, SelectIs
<1> HIDE DEF r
<1>5. r.end \in Nat /\ r.bytes \in Nat
  BY <1>0, <1>4 DEF Honest
<1>6. p \in Part /\ p.start = s /\ p.end = r.end /\ p.bytes = r.bytes
  BY <1>1, <1>4, <1>5 DEF Part
<1> HIDE DEF p
<1> DEFINE all == <<p>>
<1>7. all \in Seq(Part) /\ Len(all) = 1 /\ all[1] = p
  BY <1>6
<1> HIDE DEF all
<1>8. Cost(all, 0) = 0 /\ Cost(all, 1) = 0 + Envelope + r.bytes
  <2>1. 0 \in 0..Len(all) /\ 1 \in 0..Len(all) /\ 1 - 1 = 0 /\ 1 # 0
    BY <1>7
  <2>2. Cost(all, 0) = 0
    BY <1>7, <2>1, CostIs
  <2>3. Cost(all, 1) = Cost(all, 1 - 1) + Envelope + all[1].bytes
    BY <1>7, <2>1, CostIs
  <2> QED
    BY <1>6, <1>7, <2>1, <2>2, <2>3
<1>9. \A k \in 0..1 : Cost(all, k) <= ReadBudget + Envelope * k
  <2>1. Envelope * 0 = 0 /\ Envelope * 1 = Envelope
    BY <1>0
  <2>2. Cost(all, 0) <= ReadBudget + Envelope * 0
    BY <1>0, <1>8, <2>1
  <2>3. Cost(all, 1) <= ReadBudget + Envelope * 1
    BY <1>0, <1>4, <1>5, <1>8, <2>1
  <2>4. \A k \in 0..1 : k = 0 \/ k = 1
    OBVIOUS
  <2> QED
    BY <2>2, <2>3, <2>4
<1>10. \A i \in 1..1 : i = 1
  OBVIOUS
<1>11. Answers(lines, M, 1, all, r.cut)
  <2>1. 1 <= 1
    OBVIOUS
  <2> QED
    BY <1>3, <1>4, <1>6, <1>7, <1>9, <1>10, <2>1 DEF Answers, s, e
<1> QED
  BY <1>2, <1>11 DEF a, all, M, c

\* A window is a range.
LEMMA FindAroundIs ==
  ASSUME NEW lines \in Seq(Nat), NEW matching \in SUBSET (DOMAIN lines), NEW context \in Nat
  PROVE  FindAround(lines, matching, context) \in Seq(Nat \X Nat)
<1> DEFINE first == {l \in matching : Cardinality({m \in matching : m < l}) < MaxWindows}
           R == {q \in Nat \X Nat : q[1] < q[2]}
           N == Cardinality(first)
           nth(n) == CHOOSE l \in first : Cardinality({m \in first : m < l}) = n - 1
           window(l) == <<Max2(1, l - context), Min2(Len(lines), l + context)>>
<1>1. first \subseteq 1..Len(lines) /\ Len(lines) \in Nat /\ first \subseteq Nat
  OBVIOUS
<1>2. IsFiniteSet(first)
  <2>1. IsFiniteSet(1..Len(lines))
    BY <1>1, FS_Interval
  <2> HIDE DEF first
  <2> QED
    BY <1>1, <2>1, FS_Subset
<1>3. FindAround(lines, matching, context) = [n \in 1..N |-> window(nth(n))]
  BY DEF FindAround
<1> HIDE DEF first
<1>4. \A l \in first : {m \in first : m < l} = Before(first, R, l)
  BY <1>1 DEF Before
<1>5. N \in Nat /\ \A n \in 1..N : \E l \in first : Cardinality(Before(first, R, l)) = n - 1
  <2>1. \A x \in first : <<x, x>> \notin R
    BY <1>1
  <2>2. \A x, y, z \in first : <<x, y>> \in R /\ <<y, z>> \in R => <<x, z>> \in R
    BY <1>1
  <2>3. \A x, y \in first : x = y \/ <<x, y>> \in R \/ <<y, x>> \in R
    BY <1>1
  <2> HIDE DEF R
  <2> QED
    BY <1>2, <2>1, <2>2, <2>3, Ranks
<1> HIDE DEF R
<1>6. \A n \in 1..N : nth(n) \in first
  <2> SUFFICES ASSUME NEW n \in 1..N PROVE nth(n) \in first
    OBVIOUS
  <2>1. \E l \in first : Cardinality({m \in first : m < l}) = n - 1
    BY <1>4, <1>5
  <2> QED
    BY <2>1
<1> HIDE DEF nth
<1>7. \A l \in Nat : window(l) \in Nat \X Nat
  <2> SUFFICES ASSUME NEW l \in Nat PROVE window(l) \in Nat \X Nat
    OBVIOUS
  <2>1. Max2(1, l - context) \in Nat
    BY DEF Max2
  <2>2. Min2(Len(lines), l + context) \in Nat
    BY <1>1 DEF Min2
  <2> QED
    BY <2>1, <2>2
<1> HIDE DEF window
<1>8. \A n \in 1..N : window(nth(n)) \in Nat \X Nat
  BY <1>1, <1>6, <1>7
<1>9. FindAround(lines, matching, context) \in [1..N -> Nat \X Nat]
  BY <1>3, <1>8
<1> QED
  BY <1>5, <1>9, SeqOfFunction

-------------------------------------------------------------------------------
(* A read's answer is honest *)

\* What a read of the lines of some ranges asks for.
Asked(ranges, total) ==
  UNION {Clamped(ranges[i], total)[1]..Clamped(ranges[i], total)[2] : i \in DOMAIN ranges}

\* What ReadIsHonest says of one answer: within a budget, of what was wanted.
Sound(lines, a, wanted, roomy, room) ==
  LET part(i) == a.ranges[i]
      given(i) == part(i).start..part(i).end
      cost == Cost(a.ranges, Len(a.ranges))
  IN /\ cost <= ReadBudget + Envelope * Len(a.ranges)
     /\ roomy \/ cost <= room
     /\ \A i \in DOMAIN a.ranges :
          /\ given(i) \subseteq wanted
          /\ \A j \in DOMAIN a.ranges : i = j \/ given(i) \cap given(j) = {}
          /\ \/ part(i).bytes = Text(lines, part(i).start, part(i).end)
             \/ (/\ part(i).start = part(i).end
                 /\ part(i).bytes < lines[part(i).start] /\ a.truncated)
     /\ ~a.truncated => UNION {given(i) : i \in DOMAIN a.ranges} = wanted

\* Answering for ranges that lie apart is sound.
LEMMA AnswersAreSound ==
  ASSUME NEW lines \in Seq(Nat), NEW M \in Seq(Nat \X Nat), Apart(M),
         NEW wanted \in SUBSET Nat,
         \A x \in Nat : In(M, Len(M), x) <=> x \in wanted,
         NEW a, Answers(lines, M, Len(M), a.ranges, a.truncated),
         NEW roomy, NEW room, roomy \/ Cost(a.ranges, Len(a.ranges)) <= room
  PROVE  Sound(lines, a, wanted, roomy, room)
<1> DEFINE R == a.ranges
           N == Len(R)
           given(i) == R[i].start..R[i].end
           span(i) == M[i][1]..M[i][2]
<1>1. /\ R \in Seq(Part) /\ N \in Nat /\ DOMAIN R = 1..N /\ N <= Len(M)
      /\ ~a.truncated => N = Len(M)
  BY DEF Answers
<1>2. /\ \A i \in 1..N : Honest(lines, R[i].start, R[i].end, R[i].bytes, a.truncated)
      /\ \A i \in 1..N : given(i) \subseteq span(i)
      /\ ~a.truncated => \A i \in 1..N : given(i) = span(i)
  BY DEF Answers
<1>3. \A k \in 0..N : Cost(R, k) <= ReadBudget + Envelope * k
  BY DEF Answers
<1>4. Len(M) \in Nat /\ \A i \in 1..Len(M) : M[i] \in Nat \X Nat /\ M[i][1] \in Nat /\ M[i][2] \in Nat
  <2>1. Len(M) \in Nat /\ \A i \in 1..Len(M) : M[i] \in Nat \X Nat
    OBVIOUS
  <2>2. \A q \in Nat \X Nat : q[1] \in Nat /\ q[2] \in Nat
    OBVIOUS
  <2> QED
    BY <2>1, <2>2
<1>5. \A i \in 1..N : i \in 1..Len(M)
  BY <1>1, <1>4
<1> HIDE DEF R, N
<1>6. Cost(R, N) <= ReadBudget + Envelope * N
  <2>1. N \in 0..N
    BY <1>1
  <2> QED
    BY <1>3, <2>1
<1>7. ASSUME NEW i \in 1..Len(M) PROVE span(i) \subseteq wanted
  <2> SUFFICES ASSUME NEW x \in span(i) PROVE x \in wanted
    OBVIOUS
  <2>1. x \in Nat
    BY <1>4
  <2> HIDE DEF span
  <2>2. In(M, Len(M), x)
    BY DEF In, span
  <2> QED
    BY <2>1, <2>2
<1>8. ASSUME NEW i \in 1..Len(M), NEW j \in 1..Len(M), i # j PROVE span(i) \cap span(j) = {}
  <2> SUFFICES ASSUME NEW x \in span(i), x \in span(j) PROVE FALSE
    OBVIOUS
  <2> DEFINE p == M[i][1]
             q == M[i][2]
             r == M[j][1]
             t == M[j][2]
  <2>1. p \in Nat /\ q \in Nat /\ r \in Nat /\ t \in Nat
    BY <1>4
  <2>2. q < r \/ t < p
    <3>1. i < j \/ j < i
      BY <1>4, <1>8
    <3> QED
      BY <3>1 DEF Apart
  <2>3. x \in p..q /\ x \in r..t
    OBVIOUS
  <2> HIDE DEF p, q, r, t
  <2> QED
    BY <2>1, <2>2, <2>3
<1> HIDE DEF span, given
<1>9. ASSUME NEW i \in 1..N
      PROVE  /\ given(i) \subseteq wanted
             /\ \A j \in 1..N : i = j \/ given(i) \cap given(j) = {}
             /\ \/ R[i].bytes = Text(lines, R[i].start, R[i].end)
                \/ (R[i].start = R[i].end /\ R[i].bytes < lines[R[i].start] /\ a.truncated)
  <2>1. given(i) \subseteq wanted
    BY <1>2, <1>5, <1>7
  <2>2. ASSUME NEW j \in 1..N, i # j PROVE given(i) \cap given(j) = {}
    <3>1. given(i) \subseteq span(i) /\ given(j) \subseteq span(j)
      BY <1>2
    <3>2. span(i) \cap span(j) = {}
      BY <1>5, <1>8, <2>2
    <3> QED
      BY <3>1, <3>2
  <2>3. Honest(lines, R[i].start, R[i].end, R[i].bytes, a.truncated)
    BY <1>2
  <2>4. \/ R[i].bytes = Text(lines, R[i].start, R[i].end)
        \/ (R[i].start = R[i].end /\ R[i].bytes < lines[R[i].start] /\ a.truncated)
    BY <2>3 DEF Honest
  <2> QED
    BY <2>1, <2>2, <2>4
<1>10. ASSUME ~a.truncated PROVE UNION {given(i) : i \in 1..N} = wanted
  <2>1. N = Len(M) /\ \A i \in 1..N : given(i) = span(i)
    BY <1>1, <1>2, <1>10
  <2>2. ASSUME NEW x \in wanted PROVE \E i \in 1..N : x \in given(i)
    <3>1. PICK i \in 1..Len(M) : x \in span(i)
      BY DEF In, span
    <3> QED
      BY <2>1, <3>1
  <2>3. \A i \in 1..N : given(i) \subseteq wanted
    BY <1>9
  <2> QED
    BY <2>2, <2>3
<1> QED
  BY <1>1, <1>6, <1>9, <1>10 DEF Sound, given, R, N

\* What is read of a request for some ranges.
LEMMA RangesAreSound ==
  ASSUME NEW lines \in Seq(Nat), NEW ranges \in Seq(Nat \X Nat), NEW room \in Nat,
         NEW a, Fit(lines, ReadRanges(lines, ranges), room) = <<a>>
  PROVE  Sound(lines, a, Asked(ranges, Len(lines)), FALSE, room)
<1> DEFINE M == MergeRanges(ranges, Len(lines))
           wanted == Asked(ranges, Len(lines))
           result == ReadRanges(lines, ranges)
<1>0. Len(lines) \in Nat
  OBVIOUS
<1>1. M \in Seq(Nat \X Nat) /\ Apart(M)
      /\ \A x \in Nat : In(M, Len(M), x) <=>
           \E i \in DOMAIN ranges :
             x \in Clamped(ranges[i], Len(lines))[1]..Clamped(ranges[i], Len(lines))[2]
  BY <1>0, MergeIs
<1>2. Answers(lines, M, Len(M), result.ranges, result.truncated)
  BY ReadRangesIs
<1> HIDE DEF M, result
<1>3. \A x \in Nat : In(M, Len(M), x) <=> x \in wanted
  BY <1>1 DEF Asked
<1>4. wanted \in SUBSET Nat
  <2> SUFFICES ASSUME NEW i \in DOMAIN ranges
               PROVE  Clamped(ranges[i], Len(lines))[1]..Clamped(ranges[i], Len(lines))[2] \subseteq Nat
    BY DEF Asked
  <2>1. Clamped(ranges[i], Len(lines)) \in Nat \X Nat
    BY <1>0, ClampedIs
  <2> DEFINE c == Clamped(ranges[i], Len(lines))
  <2>2. c[1] \in Nat /\ c[2] \in Nat
    BY <2>1
  <2> HIDE DEF c
  <2>3. c[1]..c[2] \subseteq Nat
    BY <2>2
  <2> QED
    BY <2>3 DEF c
<1> HIDE DEF wanted
<1>5. Len(M) \in Nat
  BY <1>1
<1>6. PICK b : Fit(lines, result, room) = <<b>> /\ Fitting(lines, M, Len(M), b, room)
  <2>1. Fit(lines, result, room) = <<a>>
    BY DEF result
  <2>2. <<a>> # <<>>
    OBVIOUS
  <2>3. \/ Fit(lines, result, room) = <<>>
        \/ \E b : /\ Fit(lines, result, room) = <<b>>
                 /\ Fitting(lines, M, Len(M), b, room)
    BY <1>2, <1>5, FitIs
  <2> QED
    BY <2>1, <2>2, <2>3
<1>7. a = b
  BY <1>6 DEF result
<1>8. Sound(lines, a, wanted, FALSE, room)
  <2>1. Answers(lines, M, Len(M), a.ranges, a.truncated)
        /\ Cost(a.ranges, Len(a.ranges)) <= room
    BY <1>6, <1>7 DEF Fitting
  <2> QED
    BY <1>1, <1>3, <1>4, <2>1, AnswersAreSound
<1> QED
  BY <1>8 DEF wanted

\* What read_lines answers is sound.
LEMMA LinesAreSound ==
  ASSUME NEW lines \in Seq(Nat), NEW ranges \in Seq(Nat \X Nat), Len(ranges) = 1, NEW room
  PROVE  Sound(lines, ReadLines(lines, ranges[1]), Asked(ranges, Len(lines)), TRUE, room)
<1> DEFINE c == Clamped(ranges[1], Len(lines))
           M == <<c>>
           wanted == Asked(ranges, Len(lines))
           a == ReadLines(lines, ranges[1])
<1>0. Len(lines) \in Nat /\ ranges[1] \in Nat \X Nat /\ DOMAIN ranges = {1}
  <2>1. DOMAIN ranges = 1..1 /\ 1 \in 1..1 /\ 1..1 = {1} /\ 1 \in 1..Len(ranges)
    OBVIOUS
  <2>2. Len(lines) \in Nat /\ ranges[1] \in Nat \X Nat
    <3>1. ranges[1] \in Nat \X Nat
      BY <2>1, Element
    <3> QED
      BY <3>1
  <2> QED
    BY <2>1, <2>2
<1>1. c \in Nat \X Nat
  BY <1>0, ClampedIs
<1>2. Answers(lines, M, 1, a.ranges, a.truncated)
  BY <1>0, ReadLinesIs
<1>3. wanted = c[1]..c[2]
  BY <1>0 DEF Asked
<1> HIDE DEF c, wanted, a
<1>4. M \in Seq(Nat \X Nat) /\ Len(M) = 1 /\ M[1] = c
  BY <1>1
<1> HIDE DEF M
<1>5. wanted \in SUBSET Nat
  <2>1. c[1] \in Nat /\ c[2] \in Nat
    BY <1>1
  <2> QED
    BY <1>3, <2>1
<1>6. Apart(M)
  BY <1>4 DEF Apart
<1>7. \A x \in Nat : In(M, Len(M), x) <=> x \in wanted
  <2>1. \A i \in 1..1 : i = 1
    OBVIOUS
  <2> QED
    BY <1>3, <1>4, <2>1 DEF In
<1>8. Sound(lines, a, wanted, TRUE, room)
  BY <1>2, <1>4, <1>5, <1>6, <1>7, AnswersAreSound
<1> QED
  BY <1>8 DEF wanted, a

\* A step that reads gives such an answer.
LEMMA ReadIsSound ==
  ASSUME Read
  PROVE  \A i \in DOMAIN answer' :
           Sound(request'.lines, answer'[i], Wanted', request'.op = "read_lines", request'.room)
<1>1. request \in Reads /\ request' = request /\ request \in ReadType
  BY FilesAssumption DEF Read
<1> DEFINE lines == request.lines
           ranges == request.ranges
           room == request.room
           windows == FindAround(lines, request.matching, request.context)
<1>2. Wanted' = Wanted
  BY <1>1 DEF Wanted
<1>3. lines \in Seq(Nat) /\ room \in Nat
  BY <1>1 DEF ReadType
<1>4. CASE request.op = "read_lines"
  <2>1. ranges \in Seq(Nat \X Nat) /\ Len(ranges) = 1
    <3>1. ranges \in Seq(Nat \X Nat)
      BY <1>1, <1>4 DEF ReadType
    <3>2. Len(ranges) = 1
      <4>1. \A r \in Reads : r.op = "read_lines" => Len(r.ranges) = 1
        BY FilesAssumption
      <4> QED
        BY <1>1, <1>4, <4>1
    <3> QED
      BY <3>1, <3>2
  <2>2. Wanted = Asked(ranges, Len(lines))
    BY <1>4 DEF Wanted, Asked
  <2>3. answer' = <<ReadLines(lines, ranges[1])>>
    BY <1>4 DEF Read
  <2>4. Sound(lines, ReadLines(lines, ranges[1]), Asked(ranges, Len(lines)), TRUE, room)
    BY <1>3, <2>1, LinesAreSound
  <2>5. DOMAIN answer' = {1} /\ answer'[1] = ReadLines(lines, ranges[1])
    BY <2>3
  <2> QED
    BY <1>1, <1>2, <1>4, <2>2, <2>4, <2>5
<1>5. ASSUME request.op # "read_lines", NEW asked \in Seq(Nat \X Nat),
             Wanted = Asked(asked, Len(lines)),
             answer' = Fit(lines, ReadRanges(lines, asked), room)
      PROVE  \A i \in DOMAIN answer' :
               Sound(request'.lines, answer'[i], Wanted', request'.op = "read_lines", request'.room)
  <2>1. answer' = <<>> \/ \E a : answer' = <<a>>
    BY <1>5 DEF Fit
  <2>2. CASE answer' = <<>>
    BY <2>2
  <2>3. ASSUME NEW a, answer' = <<a>>
        PROVE  \A i \in DOMAIN answer' :
                 Sound(request'.lines, answer'[i], Wanted', request'.op = "read_lines", request'.room)
    <3>1. Sound(lines, a, Asked(asked, Len(lines)), FALSE, room)
      BY <1>3, <1>5, <2>3, RangesAreSound
    <3>2. DOMAIN answer' = {1} /\ answer'[1] = a
      BY <2>3
    <3> QED
      BY <1>1, <1>2, <1>5, <3>1, <3>2
  <2> QED
    BY <2>1, <2>2, <2>3
<1>6. CASE request.op = "read_ranges"
  <2>1. ranges \in Seq(Nat \X Nat)
    BY <1>1, <1>6 DEF ReadType
  <2>2. Wanted = Asked(ranges, Len(lines))
    BY <1>6 DEF Wanted, Asked
  <2>3. answer' = Fit(lines, ReadRanges(lines, ranges), room)
    BY <1>6 DEF Read
  <2> QED
    BY <1>5, <1>6, <2>1, <2>2, <2>3
<1>7. CASE request.op = "around"
  <2>1. request.matching \in SUBSET (DOMAIN lines) /\ request.context \in Nat
    BY <1>1, <1>7, FilesAssumption DEF ReadType
  <2>2. windows \in Seq(Nat \X Nat)
    BY <1>3, <2>1, FindAroundIs
  <2>3. Wanted = Asked(windows, Len(lines))
    BY <1>7 DEF Wanted, Asked
  <2>4. answer' = Fit(lines, ReadRanges(lines, windows), room)
    BY <1>7 DEF Read
  <2> QED
    BY <1>5, <1>7, <2>2, <2>3, <2>4
<1> QED
  BY <1>1, <1>4, <1>6, <1>7 DEF ReadType

\* The answer to a read of one file, of one range, of several, or around the
\* matches of a pattern, is within the budget and the room, of lines that were
\* asked for, none of them twice, and says so whenever one is missing or cut.
THEOREM ReadHonest == Spec => []ReadIsHonest
<1>1. Init => ReadIsHonest
  <2> SUFFICES ASSUME Init PROVE ReadIsHonest
    OBVIOUS
  <2>1. DOMAIN answer = {}
    BY DEF Init
  <2> QED
    BY <2>1 DEF ReadIsHonest
<1>2. ReadIsHonest /\ [Next]_vars => ReadIsHonest'
  <2> SUFFICES ASSUME ReadIsHonest, [Next]_vars PROVE ReadIsHonest'
    OBVIOUS
  <2>1. CASE Read
    <3>1. \A i \in DOMAIN answer' :
            Sound(request'.lines, answer'[i], Wanted', request'.op = "read_lines", request'.room)
      BY <2>1, ReadIsSound
    <3> QED
      BY <3>1 DEF ReadIsHonest, Sound
  <2>2. CASE UNCHANGED <<request, answer>>
    <3>1. request' = request /\ answer' = answer
      BY <2>2
    <3>2. Wanted' = Wanted
      BY <3>1 DEF Wanted
    <3> QED
      BY <3>1, <3>2 DEF ReadIsHonest
  <2>3. Read \/ UNCHANGED <<request, answer>>
    BY DEF Next, LosePermission, Miss, Fails, Answer, StartGrep, WalkError, WalkDir, VisitFile,
           EndGrep, StartLs, LsEntry, EndLs, vars
  <2> QED
    BY <2>1, <2>2, <2>3
<1> QED
  BY <1>1, <1>2, PTL DEF Spec

-------------------------------------------------------------------------------
(* Sequences of sequences, one after the other *)

\* g[i]: the first i of the sequences in s, one after the other.
Joins(g, s) == g[0] = <<>> /\ \A i \in 1..Len(s) : g[i] = g[i - 1] \o s[i]

\* Two sequences of elements of A, one after the other, are one of elements of A.
LEMMA JoinedTo ==
  ASSUME NEW A, NEW g \in Seq(A), NEW x \in Seq(A)
  PROVE  g \o x \in Seq(A)
  OBVIOUS

\* x, then y, are z.
Adds(x, y, z) == z = x \o y

\* a and then b, and then c, are a, and then b and c.
LEMMA AddsAssociate ==
  ASSUME NEW A, NEW a \in Seq(A), NEW b \in Seq(A), NEW c \in Seq(A),
         NEW ab, NEW bc, NEW abc, Adds(a, b, ab), Adds(b, c, bc), Adds(ab, c, abc)
  PROVE  Adds(a, bc, abc)
<1>1. (a \o b) \o c = a \o (b \o c)
  BY ConcatAssociative
<1> QED
  BY <1>1 DEF Adds

\* The same, the other way round.
LEMMA AddsAgain ==
  ASSUME NEW A, NEW a \in Seq(A), NEW b \in Seq(A), NEW c \in Seq(A),
         NEW ab, NEW bc, NEW abc, Adds(a, b, ab), Adds(b, c, bc), Adds(a, bc, abc)
  PROVE  Adds(ab, c, abc)
<1>1. (a \o b) \o c = a \o (b \o c)
  BY ConcatAssociative
<1> QED
  BY <1>1 DEF Adds

\* FlattenSeq joins the sequences one after the other, from the first on.
LEMMA FlattenIs ==
  ASSUME NEW A, NEW s \in Seq(Seq(A))
  PROVE  \E g \in [0..Len(s) -> Seq(A)] : Joins(g, s) /\ FlattenSeq(s) = g[Len(s)]
<1> DEFINE n == Len(s)
           w(k) == IF k \in 1..n THEN s[k] ELSE <<>>
           D == [q \in Seq(A) \X Nat |-> q[1] \o w(q[2])]
<1>0. n \in Nat /\ <<>> \in Seq(A) /\ \A i \in 1..n : s[i] \in Seq(A)
  OBVIOUS
<1>1. D \in [Seq(A) \X Nat -> Seq(A)]
  <2>1. \A k \in Nat : w(k) \in Seq(A)
    BY <1>0
  <2> HIDE DEF w
  <2>2. \A q \in Seq(A) \X Nat : q[1] \in Seq(A) /\ w(q[2]) \in Seq(A)
    BY <2>1
  <2>3. \A q \in Seq(A) \X Nat : q[1] \o w(q[2]) \in Seq(A)
    BY <2>2, JoinedTo
  <2> QED
    BY <2>3
<1> HIDE DEF D
<1>2. PICK g \in [0..n -> Seq(A)] : Follows(g, <<>>, D, n)
  BY <1>0, <1>1, StepsDefine
<1>3. ASSUME NEW i \in 1..n PROVE g[i] = g[i - 1] \o s[i]
  <2>1. i - 1 \in 0..n /\ i \in Nat
    BY <1>0
  <2>2. g[i] = D[<<g[i - 1], i>>] /\ g[i - 1] \in Seq(A)
    BY <1>2, <2>1 DEF Follows
  <2> QED
    BY <2>1, <2>2 DEF D
<1>4. Joins(g, s)
  BY <1>2, <1>3 DEF Joins, Follows, n
<1>5. CASE n = 0
  <2>1. s = <<>> /\ g[0] = <<>>
    BY <1>4, <1>5 DEF Joins
  <2>2. FlattenSeq(s) = s
    BY <1>5 DEF FlattenSeq, n
  <2> QED
    BY <1>4, <1>5, <2>1, <2>2 DEF n
<1>6. CASE n # 0
  <2> DEFINE Flat(f) == f = [i \in 1..n |-> IF i = 1 THEN s[i] ELSE f[i - 1] \o s[i]]
             f0 == [i \in 1..n |-> g[i]]
             flatten == CHOOSE f : Flat(f)
  <2>1. Flat(f0)
    <3>1. ASSUME NEW i \in 1..n PROVE f0[i] = IF i = 1 THEN s[i] ELSE f0[i - 1] \o s[i]
      <4>1. CASE i = 1
        <5>1. g[1] = g[0] \o s[1] /\ g[0] = <<>> /\ s[1] \in Seq(A)
          <6>1. 1 - 1 = 0 /\ 1 \in 1..n
            BY <4>1
          <6> QED
            BY <1>0, <1>3, <1>4, <6>1 DEF Joins
        <5>2. <<>> \o s[1] = s[1]
          BY <5>1, ConcatEmptySeq
        <5> QED
          BY <4>1, <5>1, <5>2
      <4>2. CASE i # 1
        <5>1. i - 1 \in 1..n
          BY <1>0, <4>2, OneBefore
        <5> QED
          BY <1>3, <4>2, <5>1
      <4> QED
        BY <4>1, <4>2
    <3> HIDE DEF f0
    <3>2. f0 = [i \in 1..n |-> f0[i]]
      BY DEF f0
    <3> QED
      BY <3>1, <3>2
  <2>2. Flat(flatten)
    BY <2>1
  <2>3. FlattenSeq(s) = flatten[n]
    BY <1>6 DEF FlattenSeq, n, flatten
  <2> HIDE DEF flatten
  <2> DEFINE T == {i \in 0..n : i # 0 => flatten[i] = g[i]}
  <2>4. 0 \in T
    BY <1>0
  <2>5. ASSUME NEW i \in 1..n, i - 1 \in T PROVE i \in T
    <3>1. i \in 0..n
      BY <1>0
    <3>2. flatten[i] = g[i]
      <4>1. CASE i = 1
        <5>1. 1 \in 1..n
          BY <4>1
        <5>2. flatten[1] = s[1]
          BY <2>2, <5>1
        <5>3. g[1] = g[0] \o s[1]
          <6>1. g[i] = g[i - 1] \o s[i]
            BY <1>3
          <6>2. i - 1 = 0
            BY <4>1
          <6> QED
            BY <4>1, <6>1, <6>2
        <5>4. g[0] = <<>> /\ s[1] \in Seq(A)
          BY <1>0, <1>4, <5>1 DEF Joins
        <5>5. <<>> \o s[1] = s[1]
          BY <5>4, ConcatEmptySeq
        <5> QED
          BY <4>1, <5>2, <5>3, <5>4, <5>5
      <4>2. CASE i # 1
        <5>1. i - 1 \in 1..n
          BY <1>0, <4>2, OneBefore
        <5>2. flatten[i] = flatten[i - 1] \o s[i]
          BY <2>2, <4>2
        <5>3. flatten[i - 1] = g[i - 1]
          BY <2>5, <5>1
        <5> QED
          BY <1>3, <5>2, <5>3
      <4> QED
        BY <4>1, <4>2
    <3> QED
      BY <3>1, <3>2
  <2> HIDE DEF T
  <2>6. \A i \in 0..n : i \in T
    BY <1>0, <2>4, <2>5, Induction
  <2>7. n \in 0..n
    BY <1>0
  <2>8. flatten[n] = g[n]
    BY <1>6, <2>6, <2>7 DEF T
  <2> QED
    BY <1>4, <2>3, <2>8 DEF n
<1> QED
  BY <1>5, <1>6

\* Nothing is in no sequence.
LEMMA FlattenEmpty == FlattenSeq(<<>>) = <<>>
  BY DEF FlattenSeq

\* What is in one sequence is the sequence.
LEMMA FlattenOne ==
  ASSUME NEW A, NEW x \in Seq(A)
  PROVE  FlattenSeq(<<x>>) = x
<1> DEFINE s == <<x>>
<1>1. s \in Seq(Seq(A)) /\ Len(s) = 1 /\ s[1] = x
  OBVIOUS
<1> HIDE DEF s
<1>2. PICK g \in [0..Len(s) -> Seq(A)] : Joins(g, s) /\ FlattenSeq(s) = g[Len(s)]
  BY <1>1, FlattenIs
<1>3. g[1] = g[1 - 1] \o s[1] /\ g[0] = <<>>
  <2>1. 1 \in 1..Len(s)
    BY <1>1
  <2> QED
    BY <1>2, <2>1 DEF Joins
<1>4. <<>> \o x = x /\ 1 - 1 = 0
  BY ConcatEmptySeq
<1>5. FlattenSeq(s) = x
  BY <1>1, <1>2, <1>3, <1>4
<1> QED
  BY <1>5 DEF s

\* What is in two sequences of sequences, one after the other.
LEMMA FlattenConcat ==
  ASSUME NEW A, NEW s \in Seq(Seq(A)), NEW t \in Seq(Seq(A))
  PROVE  /\ FlattenSeq(s) \in Seq(A)
         /\ FlattenSeq(s \o t) = FlattenSeq(s) \o FlattenSeq(t)
<1> DEFINE n == Len(s)
           m == Len(t)
           st == s \o t
<1>0. n \in Nat /\ m \in Nat /\ n \in 0..n /\ m \in 0..m /\ 0 \in 0..m /\ 0 \in 0..n
  OBVIOUS
<1>1. PICK g \in [0..n -> Seq(A)] : Joins(g, s) /\ FlattenSeq(s) = g[n]
  BY FlattenIs DEF n
<1>2. PICK h \in [0..m -> Seq(A)] : Joins(h, t) /\ FlattenSeq(t) = h[m]
  BY FlattenIs DEF m
<1>3. /\ st \in Seq(Seq(A)) /\ Len(st) = n + m
      /\ \A i \in 1..n : st[i] = s[i]
      /\ \A j \in 1..m : st[n + j] = t[j]
  OBVIOUS
<1> HIDE DEF st
<1>4. PICK k \in [0..Len(st) -> Seq(A)] : Joins(k, st) /\ FlattenSeq(st) = k[Len(st)]
  BY <1>3, FlattenIs
<1>5. \A i \in 1..(n + m) : Adds(k[i - 1], st[i], k[i])
  BY <1>3, <1>4 DEF Joins, Adds
<1>6. \A i \in 1..n : Adds(g[i - 1], s[i], g[i])
  BY <1>1 DEF Joins, Adds
<1>7. \A j \in 1..m : Adds(h[j - 1], t[j], h[j])
  BY <1>2 DEF Joins, Adds
<1>8. g[0] = <<>> /\ h[0] = <<>> /\ k[0] = <<>>
  BY <1>1, <1>2, <1>4 DEF Joins
<1>9. \A i \in 1..m : t[i] \in Seq(A)
  OBVIOUS
<1> HIDE DEF n, m
<1>10. k[n] = g[n]
  <2> DEFINE T == {i \in 0..n : k[i] = g[i]}
  <2>1. 0 \in T
    BY <1>0, <1>8
  <2>2. ASSUME NEW i \in 1..n, i - 1 \in T PROVE i \in T
    <3>1. i \in 0..n /\ i \in 1..(n + m)
      BY <1>0
    <3>2. Adds(k[i - 1], s[i], k[i]) /\ Adds(g[i - 1], s[i], g[i])
      BY <1>3, <1>5, <1>6, <3>1
    <3>3. k[i - 1] = g[i - 1]
      BY <2>2
    <3>4. k[i] = g[i]
      BY <3>2, <3>3 DEF Adds
    <3> QED
      BY <3>1, <3>4
  <2> HIDE DEF T
  <2>3. \A i \in 0..n : i \in T
    BY <1>0, <2>1, <2>2, Induction
  <2> QED
    BY <1>0, <2>3 DEF T
<1>11. Adds(g[n], h[m], k[n + m])
  <2> DEFINE T == {j \in 0..m : Adds(g[n], h[j], k[n + j])}
  <2>1. 0 \in T
    <3>1. g[n] \in Seq(A) /\ n + 0 = n
      BY <1>0, <1>1
    <3>2. g[n] \o <<>> = g[n]
      BY <3>1, ConcatEmptySeq
    <3>3. Adds(g[n], h[0], k[n + 0])
      BY <1>8, <1>10, <3>1, <3>2 DEF Adds
    <3> QED
      BY <1>0, <3>3
  <2>2. ASSUME NEW j \in 1..m, j - 1 \in T PROVE j \in T
    <3>1. j \in 0..m /\ n + j \in 1..(n + m) /\ n + j - 1 = n + (j - 1) /\ j - 1 \in 0..m
      BY <1>0
    <3>2. Adds(k[n + (j - 1)], t[j], k[n + j])
      <4>1. st[n + j] = t[j]
        BY <1>3
      <4>2. PICK i \in 1..(n + m) : i = n + j /\ i - 1 = n + (j - 1)
        BY <1>0
      <4>3. Adds(k[i - 1], st[i], k[i])
        BY <1>5
      <4> QED
        BY <4>1, <4>2, <4>3
    <3>3. Adds(g[n], h[j - 1], k[n + (j - 1)])
      BY <2>2
    <3>4. g[n] \in Seq(A) /\ h[j - 1] \in Seq(A) /\ t[j] \in Seq(A)
      BY <1>0, <1>1, <1>2, <1>9, <3>1
    <3>5. Adds(h[j - 1], t[j], h[j])
      BY <1>7
    <3>6. Adds(g[n], h[j], k[n + j])
      BY <3>2, <3>3, <3>4, <3>5, AddsAssociate
    <3> QED
      BY <3>1, <3>6
  <2> HIDE DEF T
  <2>3. \A j \in 0..m : j \in T
    BY <1>0, <2>1, <2>2, Induction
  <2> QED
    BY <1>0, <2>3 DEF T
<1>12. Adds(FlattenSeq(s), FlattenSeq(t), FlattenSeq(st))
  BY <1>1, <1>2, <1>3, <1>4, <1>11
<1>13. FlattenSeq(s) \in Seq(A)
  BY <1>0, <1>1
<1> QED
  BY <1>12, <1>13 DEF st, Adds

-------------------------------------------------------------------------------
(* What there is to find on a walk *)

\* What f gives for each element of s, one after the other.
Along(f, s) == FlattenSeq([i \in DOMAIN s |-> f[s[i]]])

\* st is a sequence of S, and s and then t.
Concat(st, S, s, t) ==
  /\ st \in Seq(S) /\ Len(st) = Len(s) + Len(t)
  /\ \A i \in 1..Len(s) : st[i] = s[i]
  /\ \A j \in 1..Len(t) : st[Len(s) + j] = t[j]

\* Where the elements of two sequences, one after the other, come from.
LEMMA ConcatIs ==
  ASSUME NEW S, NEW s \in Seq(S), NEW t \in Seq(S)
  PROVE  Concat(s \o t, S, s, t)
  BY DEF Concat

\* Sequences as long and alike at every index are the same.
LEMMA SameSeq ==
  ASSUME NEW S, NEW s \in Seq(S), NEW t \in Seq(S), Len(s) = Len(t),
         \A i \in 1..Len(s) : s[i] = t[i]
  PROVE  s = t
  BY SeqEqual

\* A function over the elements of a sequence gives a sequence as long.
LEMMA Mapped ==
  ASSUME NEW D, NEW B, NEW f \in [D -> B], NEW s \in Seq(D)
  PROVE  /\ [i \in DOMAIN s |-> f[s[i]]] \in Seq(B)
         /\ Len([i \in DOMAIN s |-> f[s[i]]]) = Len(s)
         /\ \A i \in 1..Len(s) : [j \in DOMAIN s |-> f[s[j]]][i] = f[s[i]]
<1> DEFINE u == [i \in DOMAIN s |-> f[s[i]]]
           n == Len(s)
<1>1. DOMAIN s = 1..n /\ n \in Nat /\ \A i \in 1..n : s[i] \in D
  OBVIOUS
<1>2. u \in [1..n -> B] /\ \A i \in 1..n : u[i] = f[s[i]]
  BY <1>1
<1> HIDE DEF u, n
<1>3. u \in Seq(B) /\ Len(u) = n
  BY <1>1, <1>2, SeqOfFunction
<1> QED
  BY <1>2, <1>3 DEF u, n

\* Along two sequences, one after the other, is along the one and then along the other.
LEMMA AlongIs ==
  ASSUME NEW D, NEW A, NEW f \in [D -> Seq(A)], NEW s \in Seq(D), NEW t \in Seq(D)
  PROVE  Along(f, s) \in Seq(A) /\ Adds(Along(f, s), Along(f, t), Along(f, s \o t))
<1> DEFINE M(r) == [i \in DOMAIN r |-> f[r[i]]]
           st == s \o t
<1>1. /\ st \in Seq(D) /\ Len(st) = Len(s) + Len(t)
      /\ \A i \in 1..Len(s) : st[i] = s[i]
      /\ \A j \in 1..Len(t) : st[Len(s) + j] = t[j]
  BY ConcatIs DEF Concat
<1> HIDE DEF st
<1>2. \A r \in Seq(D) : M(r) \in Seq(Seq(A)) /\ Len(M(r)) = Len(r)
                        /\ \A i \in 1..Len(r) : M(r)[i] = f[r[i]]
  BY Mapped
<1> HIDE DEF M
<1> DEFINE a == M(s)
           b == M(t)
           c == M(st)
           n == Len(s)
           m == Len(t)
<1>3. /\ a \in Seq(Seq(A)) /\ b \in Seq(Seq(A)) /\ c \in Seq(Seq(A))
      /\ Len(a) = n /\ Len(b) = m /\ Len(c) = n + m
  BY <1>1, <1>2
<1>4. \A i \in 1..n : c[i] = a[i]
  <2> SUFFICES ASSUME NEW i \in 1..n PROVE c[i] = a[i]
    OBVIOUS
  <2>1. i \in 1..Len(st)
    BY <1>1
  <2>2. c[i] = f[st[i]]
    BY <1>1, <1>2, <2>1
  <2>3. a[i] = f[s[i]]
    BY <1>2
  <2> QED
    BY <1>1, <2>2, <2>3
<1>5. \A j \in 1..m : c[n + j] = b[j]
  <2> SUFFICES ASSUME NEW j \in 1..m PROVE c[n + j] = b[j]
    OBVIOUS
  <2>1. n + j \in 1..Len(st)
    BY <1>1
  <2>2. c[n + j] = f[st[n + j]]
    BY <1>1, <1>2, <2>1
  <2> QED
    BY <1>1, <1>2, <2>2
<1>6. n \in Nat /\ m \in Nat
  OBVIOUS
<1> HIDE DEF a, b, c, n, m
<1> DEFINE ab == a \o b
<1>7. /\ ab \in Seq(Seq(A)) /\ Len(ab) = n + m
      /\ \A i \in 1..n : ab[i] = a[i]
      /\ \A j \in 1..m : ab[n + j] = b[j]
  <2>1. Concat(ab, Seq(A), a, b)
    BY <1>3, ConcatIs
  <2> HIDE DEF ab
  <2> QED
    BY <1>3, <2>1 DEF Concat
<1> HIDE DEF ab
<1>8. c = ab
  <2>1. ASSUME NEW i \in 1..(n + m) PROVE c[i] = ab[i]
    <3>1. CASE i <= n
      <4>1. i \in 1..n
        BY <1>6, <3>1
      <4> QED
        BY <1>4, <1>7, <4>1
    <3>2. CASE ~(i <= n)
      <4>1. PICK j \in 1..m : i = n + j
        <5>1. i - n \in 1..m /\ i = n + (i - n)
          BY <1>6, <3>2
        <5> QED
          BY <5>1
      <4> QED
        BY <1>5, <1>7, <4>1
    <3> QED
      BY <3>1, <3>2
  <2>2. ab \in Seq(Seq(A)) /\ Len(ab) = n + m
    BY <1>7
  <2> QED
    BY <1>3, <2>1, <2>2, SameSeq
<1>9. FlattenSeq(a) \in Seq(A) /\ FlattenSeq(a \o b) = FlattenSeq(a) \o FlattenSeq(b)
  BY <1>3, FlattenConcat
<1>10. Along(f, s) = FlattenSeq(a) /\ Along(f, t) = FlattenSeq(b) /\ Along(f, st) = FlattenSeq(c)
  BY DEF Along, M, a, b, c
<1> QED
  BY <1>8, <1>9, <1>10 DEF ab, st, Adds

\* Along a single element.
LEMMA AlongOne ==
  ASSUME NEW D, NEW A, NEW f \in [D -> Seq(A)], NEW n \in D
  PROVE  Along(f, <<n>>) = f[n]
<1> DEFINE u == [i \in DOMAIN <<n>> |-> f[<<n>>[i]]]
<1>1. u = <<f[n]>>
  OBVIOUS
<1> HIDE DEF u
<1>2. f[n] \in Seq(A)
  OBVIOUS
<1>3. FlattenSeq(<<f[n]>>) = f[n]
  BY <1>2, FlattenOne
<1> QED
  BY <1>1, <1>3 DEF Along, u

\* Along no element.
LEMMA AlongNone == \A f : Along(f, <<>>) = <<>>
<1> TAKE f
<1> DEFINE u == [i \in DOMAIN <<>> |-> f[<<>>[i]]]
<1>1. u = <<>>
  OBVIOUS
<1> HIDE DEF u
<1> QED
  BY <1>1, FlattenEmpty DEF Along, u

\* Functions that agree on the elements of a sequence give the same along it.
LEMMA AlongSame ==
  ASSUME NEW D, NEW s \in Seq(D), NEW f, NEW g, \A i \in 1..Len(s) : f[s[i]] = g[s[i]]
  PROVE  Along(f, s) = Along(g, s)
<1>1. DOMAIN s = 1..Len(s)
  OBVIOUS
<1>2. [i \in DOMAIN s |-> f[s[i]]] = [i \in DOMAIN s |-> g[s[i]]]
  BY <1>1
<1> QED
  BY <1>2 DEF Along

\* Nodes of D, what each holds and the later ones that are inside it.
Tree(N, D, A, own, inside) ==
  /\ N \in Nat /\ D \subseteq 0..N
  /\ own \in [D -> Seq(A)] /\ inside \in [D -> Seq(D)]
  /\ \A n \in D : \A i \in 1..Len(inside[n]) : inside[n][i] > n

\* f and g agree after n.
SameAfter(D, f, g, n) == \A k \in D : k >= n + 1 => f[k] = g[k]

\* f[n] is what there is to find in n and inside it.
Holds(f, own, inside, n) == Adds(own[n], Along(f, inside[n]), f[n])

\* What a node holds depends only on the nodes after it.
LEMMA HoldsSame ==
  ASSUME NEW N, NEW D, NEW A, NEW own, NEW inside, Tree(N, D, A, own, inside),
         NEW f, NEW g, NEW n \in D, SameAfter(D, f, g, n)
  PROVE  Along(f, inside[n]) = Along(g, inside[n])
<1>1. inside[n] \in Seq(D) /\ n \in Int
  BY DEF Tree
<1>2. ASSUME NEW i \in 1..Len(inside[n]) PROVE f[inside[n][i]] = g[inside[n][i]]
  <2> DEFINE k == inside[n][i]
  <2>1. k \in D
    BY <1>1
  <2>2. k > n
    BY DEF Tree
  <2> HIDE DEF k
  <2>3. k \in Int
    <3>1. D \subseteq 0..N /\ N \in Nat
      BY DEF Tree
    <3> QED
      BY <2>1, <3>1
  <2>4. k >= n + 1
    BY <1>1, <2>2, <2>3
  <2>5. f[k] = g[k]
    BY <2>1, <2>4 DEF SameAfter
  <2> QED
    BY <2>5 DEF k
<1> QED
  BY <1>1, <1>2, AlongSame

\* There is a function that says what is found in each node and inside it.
LEMMA OrderExists ==
  ASSUME NEW N, NEW D, NEW A, NEW own, NEW inside, Tree(N, D, A, own, inside)
  PROVE  \E f \in [D -> Seq(A)] : \A n \in D : Holds(f, own, inside, n)
<1>0. N \in Nat /\ D \subseteq 0..N /\ own \in [D -> Seq(A)] /\ inside \in [D -> Seq(D)]
  BY DEF Tree
<1> DEFINE T == {i \in 0..(N + 1) : \E f \in [D -> Seq(A)] : \A n \in D :
                    n >= N + 1 - i => Holds(f, own, inside, n)}
<1>1. 0 \in T
  <2> DEFINE f == [n \in D |-> <<>>]
  <2>1. f \in [D -> Seq(A)]
    OBVIOUS
  <2>2. \A n \in D : ~(n >= N + 1 - 0)
    BY <1>0
  <2>3. 0 \in 0..(N + 1)
    BY <1>0
  <2> QED
    BY <2>1, <2>2, <2>3
<1>2. ASSUME NEW i \in 1..(N + 1), i - 1 \in T PROVE i \in T
  <2> DEFINE m == N + 1 - i
  <2>1. PICK f \in [D -> Seq(A)] : \A n \in D : n >= N + 1 - (i - 1) => Holds(f, own, inside, n)
    BY <1>2
  <2>2. m \in 0..N /\ N + 1 - (i - 1) = m + 1 /\ i \in 0..(N + 1)
    BY <1>0
  <2>3. \A n \in D : n >= m + 1 => Holds(f, own, inside, n)
    BY <2>1, <2>2
  <2> DEFINE g == [n \in D |-> IF n = m THEN own[n] \o Along(f, inside[n]) ELSE f[n]]
  <2> HIDE DEF T, m
  <2>4. ASSUME NEW n \in D PROVE own[n] \o Along(f, inside[n]) \in Seq(A)
    <3>1. inside[n] \in Seq(D) /\ own[n] \in Seq(A)
      BY <1>0
    <3>2. Along(f, inside[n]) \in Seq(A)
      BY <3>1, AlongIs
    <3> QED
      BY <3>1, <3>2, JoinedTo
  <2>5. g \in [D -> Seq(A)]
    BY <2>4
  <2>6. \A n \in D : n # m => g[n] = f[n]
    OBVIOUS
  <2>7. m \in D => Adds(own[m], Along(f, inside[m]), g[m])
    BY DEF Adds
  <2> HIDE DEF g
  <2>8. ASSUME NEW n \in D, n >= m PROVE Holds(g, own, inside, n)
    <3>1. \A k \in D : k >= n + 1 => k # m
      BY <1>0, <2>2, <2>8
    <3>2. \A k \in D : k >= n + 1 => g[k] = f[k]
      BY <2>6, <3>1
    <3>3. Along(g, inside[n]) = Along(f, inside[n])
      <4>1. SameAfter(D, f, g, n)
        BY <3>2 DEF SameAfter
      <4>2. Along(f, inside[n]) = Along(g, inside[n])
        BY <4>1, HoldsSame
      <4> QED
        BY <4>2
    <3>4. CASE n = m
      BY <2>7, <3>3, <3>4 DEF Holds
    <3>5. CASE n # m
      <4>1. n >= m + 1
        BY <1>0, <2>2, <2>8, <3>5
      <4>2. Holds(f, own, inside, n) /\ g[n] = f[n]
        BY <2>3, <2>6, <3>5, <4>1
      <4> QED
        BY <3>3, <4>2 DEF Holds
    <3> QED
      BY <3>4, <3>5
  <2> QED
    BY <2>2, <2>5, <2>8 DEF T, m
<1> HIDE DEF T
<1>3. N + 1 \in Nat /\ N + 1 \in 0..(N + 1)
  BY <1>0
<1>4. N + 1 \in T
  BY <1>1, <1>2, <1>3, Induction
<1>5. PICK f \in [D -> Seq(A)] : \A n \in D : n >= N + 1 - (N + 1) => Holds(f, own, inside, n)
  BY <1>4 DEF T
<1>6. \A n \in D : n >= N + 1 - (N + 1)
  BY <1>0
<1> QED
  BY <1>5, <1>6

\* There is only one.
LEMMA OneOrder ==
  ASSUME NEW N, NEW D, NEW A, NEW own, NEW inside, Tree(N, D, A, own, inside), NEW f, NEW g,
         \A n \in D : Holds(f, own, inside, n), \A n \in D : Holds(g, own, inside, n)
  PROVE  \A n \in D : f[n] = g[n]
<1>0. N \in Nat /\ D \subseteq 0..N
  BY DEF Tree
<1> DEFINE T == {i \in 0..(N + 1) : \A n \in D : n >= N + 1 - i => f[n] = g[n]}
<1>1. 0 \in T
  <2>1. \A n \in D : ~(n >= N + 1 - 0)
    BY <1>0
  <2>2. 0 \in 0..(N + 1)
    BY <1>0
  <2> QED
    BY <2>1, <2>2
<1>2. ASSUME NEW i \in 1..(N + 1), i - 1 \in T PROVE i \in T
  <2>1. i \in 0..(N + 1) /\ N + 1 - (i - 1) = N + 1 - i + 1
    BY <1>0
  <2>2. ASSUME NEW n \in D, n >= N + 1 - i PROVE f[n] = g[n]
    <3>1. \A k \in D : k >= n + 1 => k >= N + 1 - (i - 1)
      BY <1>0, <2>2
    <3>2. \A k \in D : k >= n + 1 => f[k] = g[k]
      BY <1>2, <3>1
    <3>3. Along(f, inside[n]) = Along(g, inside[n])
      BY <3>2, HoldsSame DEF SameAfter
    <3> QED
      BY <3>3 DEF Holds, Adds
  <2> QED
    BY <2>1, <2>2
<1> HIDE DEF T
<1>3. N + 1 \in Nat /\ N + 1 \in 0..(N + 1)
  BY <1>0
<1>4. N + 1 \in T
  BY <1>1, <1>2, <1>3, Induction
<1>5. \A n \in D : n >= N + 1 - (N + 1)
  BY <1>0
<1> QED
  BY <1>4, <1>5 DEF T

\* There is nothing to find from nothing on; from a node on, what it holds, and
\* then what is found in the nodes inside it and the rest.
Finds(D, A, own, inside) ==
  /\ Walk(<<>>, own, inside) = <<>>
  /\ \A s \in Seq(D) : Walk(s, own, inside) \in Seq(A)
  /\ \A n \in D : \A s \in Seq(D) :
       Adds(own[n], Walk(inside[n] \o s, own, inside), Walk(<<n>> \o s, own, inside))

\* What Walk computes: a node's own, what is inside it, then the nodes that follow.
LEMMA WalkIs ==
  ASSUME NEW N, NEW D, NEW A, NEW own, NEW inside, Tree(N, D, A, own, inside)
  PROVE  Finds(D, A, own, inside)
<1>0. own \in [D -> Seq(A)] /\ inside \in [D -> Seq(D)] /\ DOMAIN own = D
  BY DEF Tree
<1>1. PICK f \in [D -> Seq(A)] : \A n \in D : Holds(f, own, inside, n)
  BY OrderExists
<1> DEFINE Order(g) == g = [n \in DOMAIN own |->
                             own[n] \o FlattenSeq([i \in DOMAIN inside[n] |-> g[inside[n][i]]])]
           order == CHOOSE g : Order(g)
<1>2. Order(f)
  <2>1. \A n \in D : f[n] = own[n] \o FlattenSeq([i \in DOMAIN inside[n] |-> f[inside[n][i]]])
    BY <1>1 DEF Holds, Adds, Along
  <2>2. f = [n \in D |-> f[n]]
    OBVIOUS
  <2> QED
    BY <1>0, <2>1, <2>2
<1>3. Order(order)
  BY <1>2
<1>4. \A first : Walk(first, own, inside) = Along(order, first)
  BY DEF Walk, Along
<1> HIDE DEF order
<1>5. \A n \in D : Holds(order, own, inside, n)
  BY <1>0, <1>3 DEF Holds, Adds, Along
<1>6. \A n \in D : order[n] = f[n]
  BY <1>1, <1>5, OneOrder
<1>7. order \in [D -> Seq(A)]
  <2>1. order = [n \in D |-> order[n]]
    BY <1>0, <1>3
  <2> QED
    BY <1>6, <2>1
<1>8. \A s \in Seq(D) : Along(order, s) \in Seq(A)
  <2> TAKE s \in Seq(D)
  <2> QED
    BY <1>7, AlongIs
<1>a. \A s, r \in Seq(D) : Adds(Along(order, s), Along(order, r), Along(order, s \o r))
  <2> TAKE s, r \in Seq(D)
  <2> QED
    BY <1>7, AlongIs
<1>9. ASSUME NEW n \in D, NEW s \in Seq(D)
      PROVE  Along(order, <<n>> \o s) = own[n] \o Along(order, inside[n] \o s)
  <2> DEFINE one == <<n>>
             two == inside[n]
  <2>1. one \in Seq(D) /\ two \in Seq(D) /\ own[n] \in Seq(A)
    BY <1>0
  <2>3. Along(order, one) = order[n]
    BY <1>7, AlongOne
  <2> HIDE DEF one, two
  <2>2. Adds(Along(order, one), Along(order, s), Along(order, one \o s))
        /\ Adds(Along(order, two), Along(order, s), Along(order, two \o s))
    BY <1>a, <2>1
  <2>4. Along(order, two) \in Seq(A) /\ Along(order, s) \in Seq(A)
    BY <1>8, <2>1
  <2>5. Adds(own[n], Along(order, two), order[n])
    BY <1>5 DEF Holds, two
  <2>6. Adds(own[n], Along(order, two \o s), Along(order, one \o s))
    BY <2>1, <2>2, <2>3, <2>4, <2>5, AddsAssociate
  <2> QED
    BY <2>6 DEF Adds, one, two
<1>10. Along(order, <<>>) = <<>>
  BY AlongNone
<1>11. \A s \in Seq(D) : Walk(s, own, inside) \in Seq(A)
  BY <1>4, <1>8
<1>12. Walk(<<>>, own, inside) = <<>>
  BY <1>4, <1>10
<1>13. \A n \in D : \A s \in Seq(D) :
         Adds(own[n], Walk(inside[n] \o s, own, inside), Walk(<<n>> \o s, own, inside))
  <2> TAKE n \in D
  <2> TAKE s \in Seq(D)
  <2> DEFINE x == <<n>> \o s
             y == inside[n] \o s
  <2>1. Along(order, x) = own[n] \o Along(order, y)
    BY <1>9
  <2> HIDE DEF x, y
  <2>2. Walk(x, own, inside) = Along(order, x) /\ Walk(y, own, inside) = Along(order, y)
    BY <1>4
  <2>3. Walk(x, own, inside) = own[n] \o Walk(y, own, inside)
    BY <2>1, <2>2
  <2> QED
    BY <2>3 DEF x, y, Adds
<1> QED
  BY <1>11, <1>12, <1>13 DEF Finds

-------------------------------------------------------------------------------
(* Walking *)

NoTwice(s) == \A i, j \in 1..Len(s) : s[i] = s[j] => i = j

\* A walk from first on, over the nodes of D, each in the directory p gives: it
\* found done, could not read those in closed and has pend still to visit.  The
\* nodes it has not met are those of rest; whichever of them turn out not to be
\* readable, what was found and what there is to find from pend on are all.
OnTheWay(N, p, D, own, inside, first, closed, done, pend) ==
  \E rest \in SUBSET D :
    /\ closed \subseteq D /\ closed \cap rest = {}
    /\ Range(pend) \subseteq rest /\ NoTwice(pend)
    /\ \A k \in 1..N : p[k] \in rest => k \in rest /\ k \notin Range(pend)
    /\ \A V \in SUBSET D : closed \subseteq V /\ V \subseteq closed \cup rest =>
         Adds(done, Walk(pend, own[V], inside[V]), Walk(first, own[V], inside[V]))

\* The elements of a sequence.
LEMMA RangeIs ==
  ASSUME NEW S, NEW s \in Seq(S)
  PROVE  Range(s) \subseteq S /\ \A x : x \in Range(s) <=> \E i \in 1..Len(s) : x = s[i]
  BY DEF Range

\* The elements of two sequences, one after the other, and what keeps them apart.
LEMMA ConcatRange ==
  ASSUME NEW S, NEW s \in Seq(S), NEW t \in Seq(S)
  PROVE  /\ Range(s \o t) = Range(s) \cup Range(t)
         /\ NoTwice(s \o t) <=>
              NoTwice(s) /\ NoTwice(t) /\ Range(s) \cap Range(t) = {}
<1> DEFINE st == s \o t
           n == Len(s)
           m == Len(t)
<1>1. Concat(st, S, s, t) /\ n \in Nat /\ m \in Nat
  BY ConcatIs
<1> HIDE DEF st
<1>2. /\ st \in Seq(S) /\ Len(st) = n + m
      /\ \A i \in 1..n : st[i] = s[i]
      /\ \A j \in 1..m : st[n + j] = t[j]
  BY <1>1 DEF Concat
<1>3. /\ \A x : x \in Range(s) <=> \E i \in 1..n : x = s[i]
      /\ \A x : x \in Range(t) <=> \E i \in 1..m : x = t[i]
      /\ \A x : x \in Range(st) <=> \E i \in 1..(n + m) : x = st[i]
  <2>1. \A x : x \in Range(s) <=> \E i \in 1..n : x = s[i]
    BY RangeIs
  <2>2. \A x : x \in Range(t) <=> \E i \in 1..m : x = t[i]
    BY RangeIs
  <2>3. \A x : x \in Range(st) <=> \E i \in 1..Len(st) : x = st[i]
    BY <1>2, RangeIs
  <2> HIDE DEF n, m
  <2> QED
    BY <1>2, <2>1, <2>2, <2>3
<1> HIDE DEF n, m
<1>4. \A i \in 1..n : i \in 1..(n + m)
  BY <1>1
<1>5. \A j \in 1..m : n + j \in 1..(n + m)
  BY <1>1
<1>6. \A i \in 1..(n + m) : i \in 1..n \/ \E j \in 1..m : i = n + j
  <2> TAKE i \in 1..(n + m)
  <2>1. CASE i <= n
    BY <1>1, <2>1
  <2>2. CASE ~(i <= n)
    <3>1. i - n \in 1..m /\ i = n + (i - n)
      BY <1>1, <2>2
    <3> QED
      BY <3>1
  <2> QED
    BY <2>1, <2>2
<1>7. Range(st) = Range(s) \cup Range(t)
  <2>1. ASSUME NEW x \in Range(st) PROVE x \in Range(s) \cup Range(t)
    <3>1. PICK i \in 1..(n + m) : x = st[i]
      BY <1>3, <2>1
    <3>2. CASE i \in 1..n
      BY <1>2, <1>3, <3>1, <3>2
    <3>3. CASE \E j \in 1..m : i = n + j
      <4>1. PICK j \in 1..m : i = n + j
        BY <3>3
      <4>2. x = t[j]
        BY <1>2, <3>1, <4>1
      <4> QED
        BY <1>3, <4>2
    <3> QED
      BY <1>6, <3>2, <3>3
  <2>2. ASSUME NEW x \in Range(s) PROVE x \in Range(st)
    BY <1>2, <1>3, <1>4
  <2>3. ASSUME NEW x \in Range(t) PROVE x \in Range(st)
    <3>1. PICK j \in 1..m : x = t[j]
      BY <1>3
    <3>2. PICK i \in 1..(n + m) : i = n + j
      BY <1>5
    <3>3. st[i] = x
      BY <1>2, <3>1, <3>2
    <3> QED
      BY <1>3, <3>3
  <2> QED
    BY <2>1, <2>2, <2>3
<1>8. ASSUME NoTwice(st) PROVE NoTwice(s) /\ NoTwice(t) /\ Range(s) \cap Range(t) = {}
  <2>0. \A i, j \in 1..(n + m) : st[i] = st[j] => i = j
    BY <1>2, <1>8 DEF NoTwice
  <2>1. \A i, j \in 1..n : s[i] = s[j] => i = j
    BY <1>2, <1>4, <2>0
  <2>2. ASSUME NEW i \in 1..m, NEW j \in 1..m, t[i] = t[j] PROVE i = j
    <3>1. PICK a \in 1..(n + m), b \in 1..(n + m) : a = n + i /\ b = n + j
      BY <1>5
    <3>2. st[a] = t[i] /\ st[b] = t[j]
      BY <1>2, <3>1
    <3>3. a = b
      BY <2>0, <2>2, <3>2
    <3> QED
      BY <1>1, <3>1, <3>3
  <2>3. ASSUME NEW i \in 1..n, NEW j \in 1..m, s[i] = t[j] PROVE FALSE
    <3>1. PICK b \in 1..(n + m) : b = n + j
      BY <1>5
    <3>2. st[i] = s[i] /\ st[b] = t[j] /\ i \in 1..(n + m)
      BY <1>2, <1>4, <3>1
    <3>3. i = b
      BY <2>0, <2>3, <3>2
    <3> QED
      BY <1>1, <3>1, <3>3
  <2>4. Range(s) \cap Range(t) = {}
    BY <1>3, <2>3
  <2> QED
    BY <2>1, <2>2, <2>4 DEF NoTwice, n, m
<1>9. ASSUME NoTwice(s), NoTwice(t), Range(s) \cap Range(t) = {} PROVE NoTwice(st)
  <2>0. /\ \A i, j \in 1..n : s[i] = s[j] => i = j
        /\ \A i, j \in 1..m : t[i] = t[j] => i = j
        /\ \A i \in 1..n : \A j \in 1..m : s[i] # t[j]
    BY <1>3, <1>9 DEF NoTwice, n, m
  <2>1. ASSUME NEW a \in 1..(n + m), NEW b \in 1..(n + m), st[a] = st[b] PROVE a = b
    <3>1. CASE a \in 1..n /\ b \in 1..n
      BY <1>2, <2>0, <2>1, <3>1
    <3>2. CASE a \in 1..n /\ \E j \in 1..m : b = n + j
      BY <1>2, <2>0, <2>1, <3>2
    <3>3. CASE b \in 1..n /\ \E j \in 1..m : a = n + j
      BY <1>2, <2>0, <2>1, <3>3
    <3>4. CASE (\E j \in 1..m : a = n + j) /\ (\E j \in 1..m : b = n + j)
      <4>1. PICK i \in 1..m, j \in 1..m : a = n + i /\ b = n + j
        BY <3>4
      <4>2. st[a] = t[i] /\ st[b] = t[j]
        BY <1>2, <4>1
      <4>3. i = j
        BY <2>0, <2>1, <4>2
      <4> QED
        BY <4>1, <4>3
    <3> QED
      BY <1>6, <3>1, <3>2, <3>3, <3>4
  <2> QED
    BY <1>2, <2>1 DEF NoTwice
<1> QED
  BY <1>7, <1>8, <1>9 DEF st

\* The only element of a sequence of one.
LEMMA OneRange ==
  ASSUME NEW n
  PROVE  Range(<<n>>) = {n} /\ NoTwice(<<n>>)
  BY DEF Range, NoTwice

\* A sequence of none.
LEMMA NoRange == Range(<<>>) = {} /\ NoTwice(<<>>)
  BY DEF Range, NoTwice

\* InOrder lists the numbers of a set, each once.
LEMMA InOrderIs ==
  ASSUME NEW N \in Nat, NEW S \in SUBSET (0..N)
  PROVE  InOrder(S) \in Seq(S) /\ NoTwice(InOrder(S))
<1> DEFINE R == {p \in S \X S : p[1] < p[2]}
           c == Cardinality(S)
           s == InOrder(S)
<1>1. IsFiniteSet(S)
  <2>1. IsFiniteSet(0..N)
    BY FS_Interval
  <2> QED
    BY <2>1, FS_Subset
<1>2. \A x \in S : x \in Int
  OBVIOUS
<1>3. \A x \in S : {y \in S : y < x} = Before(S, R, x)
  BY DEF Before
<1>4. /\ \A x \in S : <<x, x>> \notin R
      /\ \A x, y, z \in S : <<x, y>> \in R /\ <<y, z>> \in R => <<x, z>> \in R
      /\ \A x, y \in S : x = y \/ <<x, y>> \in R \/ <<y, x>> \in R
  BY <1>2
<1> HIDE DEF R
<1>5. c \in Nat /\ \A n \in 1..c : \E x \in S : Cardinality(Before(S, R, x)) = n - 1
  BY <1>1, <1>4, Ranks
<1>6. \A n \in 1..c : \E x \in S : Cardinality({y \in S : y < x}) = n - 1
  BY <1>3, <1>5
<1>7. \A n \in 1..c : s[n] \in S /\ Cardinality({y \in S : y < s[n]}) = n - 1
  BY <1>6 DEF InOrder
<1>a. s = [n \in 1..c |-> s[n]]
  BY DEF InOrder
<1> HIDE DEF c, s
<1>8. s \in [1..c -> S]
  BY <1>7, <1>a
<1>9. s \in Seq(S) /\ Len(s) = c
  BY <1>5, <1>8, SeqOfFunction
<1>10. ASSUME NEW i \in 1..c, NEW j \in 1..c, s[i] = s[j] PROVE i = j
  <2>1. i - 1 = j - 1
    BY <1>7, <1>10
  <2> QED
    BY <1>5, <2>1
<1>11. NoTwice(s)
  BY <1>9, <1>10 DEF NoTwice
<1> QED
  BY <1>9, <1>11 DEF s

\* The functions that say what a walk finds, for each set of closed nodes.
Walks(N, D, A, own, inside) ==
  /\ own \in [SUBSET D -> [D -> Seq(A)]] /\ inside \in [SUBSET D -> [D -> Seq(D)]]
  /\ \A V \in SUBSET D : Tree(N, D, A, own[V], inside[V])

\* All that there is begins with done, and is done when nothing is pending.
FoundOf(A, all, done, pend) ==
  /\ \E more \in Seq(A) : Adds(done, more, all)
  /\ pend = <<>> => done = all

\* A walk has found no more, and in no other order, than there is; once nothing
\* is left to visit it has found it all.
LEMMA FoundIs ==
  ASSUME NEW N, NEW p, NEW D, NEW A, NEW own, NEW inside, Walks(N, D, A, own, inside),
         NEW first, NEW closed, NEW done \in Seq(A), NEW pend \in Seq(D),
         OnTheWay(N, p, D, own, inside, first, closed, done, pend)
  PROVE  /\ closed \in SUBSET D
         /\ FoundOf(A, Walk(first, own[closed], inside[closed]), done, pend)
<1>1. closed \in SUBSET D
      /\ Adds(done, Walk(pend, own[closed], inside[closed]),
              Walk(first, own[closed], inside[closed]))
  BY DEF OnTheWay
<1>2. Tree(N, D, A, own[closed], inside[closed])
  BY <1>1 DEF Walks
<1>3. Walk(<<>>, own[closed], inside[closed]) = <<>>
      /\ Walk(pend, own[closed], inside[closed]) \in Seq(A)
  <2> DEFINE o == own[closed]
             i == inside[closed]
  <2>1. Tree(N, D, A, o, i)
    BY <1>2
  <2> HIDE DEF o, i
  <2>2. Finds(D, A, o, i)
    BY <2>1, WalkIs
  <2> QED
    BY <2>2 DEF Finds, o, i
<1>4. ASSUME pend = <<>> PROVE done = Walk(first, own[closed], inside[closed])
  <2>1. Adds(done, <<>>, Walk(first, own[closed], inside[closed]))
    BY <1>1, <1>3, <1>4
  <2>2. done \o <<>> = done
    BY ConcatEmptySeq
  <2> QED
    BY <2>1, <2>2 DEF Adds
<1> QED
  BY <1>1, <1>3, <1>4 DEF FoundOf

\* A node still to visit is not one that could not be read.
LEMMA NextIsOpen ==
  ASSUME NEW N, NEW p, NEW D, NEW own, NEW inside, NEW first, NEW closed, NEW done,
         NEW pend \in Seq(D), pend # <<>>,
         OnTheWay(N, p, D, own, inside, first, closed, done, pend)
  PROVE  Head(pend) \notin closed
<1>1. Range(pend) \cap closed = {}
  BY DEF OnTheWay
<1>2. Head(pend) \in Range(pend)
  <2>1. Head(pend) = pend[1] /\ 1 \in 1..Len(pend)
    OBVIOUS
  <2> QED
    BY <2>1, RangeIs
<1> QED
  BY <1>1, <1>2

\* Every node is in one that comes before it.
InEarlier(N, p) == p \in [1..N -> 0..N] /\ \A k \in 1..N : p[k] < k

\* The next of a walk's nodes, n, which is closed now or not, holds x and has
\* the nodes of in inside it; s are the others.
Visits(N, p, D, A, own, inside, closed, done, n, s, now, x, in) ==
  /\ Walks(N, D, A, own, inside) /\ InEarlier(N, p)
  /\ done \in Seq(A) /\ n \in D /\ s \in Seq(D) /\ x \in Seq(A) /\ in \in Seq(D)
  /\ now \in {closed, closed \cup {n}}
  /\ Range(in) \subseteq {k \in 1..N : p[k] = n} /\ NoTwice(in)
  /\ \A V \in SUBSET D : (n \in V <=> n \in now) => own[V][n] = x /\ inside[V][n] = in

\* It adds what it holds, and the nodes inside it are visited before the rest.
LEMMA VisitIs ==
  ASSUME NEW N, NEW p, NEW D, NEW A, NEW own, NEW inside, NEW first, NEW closed, NEW done,
         NEW n, NEW s, NEW now, NEW x, NEW in,
         Visits(N, p, D, A, own, inside, closed, done, n, s, now, x, in),
         OnTheWay(N, p, D, own, inside, first, closed, done, <<n>> \o s)
  PROVE  OnTheWay(N, p, D, own, inside, first, now, done \o x, in \o s)
<1>v. /\ Walks(N, D, A, own, inside)
      /\ p \in [1..N -> 0..N] /\ \A k \in 1..N : p[k] < k
      /\ done \in Seq(A) /\ n \in D /\ s \in Seq(D) /\ x \in Seq(A) /\ in \in Seq(D)
      /\ now \in {closed, closed \cup {n}}
      /\ Range(in) \subseteq {k \in 1..N : p[k] = n} /\ NoTwice(in)
      /\ \A V \in SUBSET D : (n \in V <=> n \in now) => own[V][n] = x /\ inside[V][n] = in
  BY DEF Visits, InEarlier
<1> DEFINE pend == <<n>> \o s
           new == in \o s
<1>0. <<n>> \in Seq(D)
  BY <1>v
<1>1. Range(pend) = {n} \cup Range(s) /\ (NoTwice(pend) => NoTwice(s) /\ n \notin Range(s))
  <2> DEFINE one == <<n>>
  <2>1. Range(one) = {n} /\ one \in Seq(D)
    BY <1>0, OneRange
  <2> HIDE DEF one
  <2>2. Range(one \o s) = Range(one) \cup Range(s)
        /\ (NoTwice(one \o s) => NoTwice(s) /\ Range(one) \cap Range(s) = {})
    BY <1>v, <2>1, ConcatRange
  <2> QED
    BY <2>1, <2>2 DEF one
<1>2. Range(new) = Range(in) \cup Range(s)
      /\ (NoTwice(s) /\ Range(in) \cap Range(s) = {} => NoTwice(new))
  BY <1>v, ConcatRange
<1> HIDE DEF pend, new
<1>3. PICK rest \in SUBSET D :
        /\ closed \subseteq D /\ closed \cap rest = {}
        /\ Range(pend) \subseteq rest /\ NoTwice(pend)
        /\ \A k \in 1..N : p[k] \in rest => k \in rest /\ k \notin Range(pend)
        /\ \A V \in SUBSET D : closed \subseteq V /\ V \subseteq closed \cup rest =>
             Adds(done, Walk(pend, own[V], inside[V]), Walk(first, own[V], inside[V]))
  BY DEF OnTheWay, pend
<1> DEFINE left == rest \ {n}
<1>4. n \in rest /\ n \notin closed /\ n \notin Range(s) /\ Range(s) \subseteq rest /\ NoTwice(s)
  BY <1>1, <1>3
<1>5. \A k \in Range(in) : k \in 1..N /\ p[k] = n /\ k \in rest /\ k # n /\ k \notin Range(s)
  <2> TAKE k \in Range(in)
  <2>1. k \in 1..N /\ p[k] = n
    BY <1>v
  <2>2. k \in rest /\ k \notin Range(pend)
    BY <1>3, <1>4, <2>1
  <2> QED
    BY <1>1, <2>1, <2>2
<1>6. Range(new) \subseteq left /\ NoTwice(new)
  BY <1>2, <1>4, <1>5
<1>7. ASSUME NEW k \in 1..N, p[k] \in left PROVE k \in left /\ k \notin Range(new)
  <2>1. k \in rest /\ k \notin Range(pend)
    BY <1>3, <1>7
  <2>2. k # n /\ k \notin Range(s)
    BY <1>1, <2>1
  <2>3. k \notin Range(in)
    BY <1>5, <1>7
  <2> QED
    BY <1>2, <2>1, <2>2, <2>3
<1>8. now \subseteq D /\ now \cap left = {}
  BY <1>v, <1>3, <1>4
<1>9. ASSUME NEW V \in SUBSET D, now \subseteq V, V \subseteq now \cup left
      PROVE  Adds(done \o x, Walk(new, own[V], inside[V]), Walk(first, own[V], inside[V]))
  <2>1. closed \subseteq V /\ V \subseteq closed \cup rest /\ (n \in V <=> n \in now)
    BY <1>v, <1>3, <1>4, <1>9
  <2>2. Adds(done, Walk(pend, own[V], inside[V]), Walk(first, own[V], inside[V]))
    BY <1>3, <2>1
  <2>3. own[V][n] = x /\ inside[V][n] = in
    BY <1>v, <2>1
  <2>4. Tree(N, D, A, own[V], inside[V])
    BY <1>v DEF Walks
  <2> DEFINE o == own[V]
             i == inside[V]
  <2> HIDE DEF o, i
  <2>5. Finds(D, A, o, i)
    <3>1. Tree(N, D, A, o, i)
      BY <2>4 DEF o, i
    <3> QED
      BY <3>1, WalkIs
  <2>6. Adds(x, Walk(new, o, i), Walk(pend, o, i))
    <3>1. o[n] = x /\ i[n] = in
      BY <2>3 DEF o, i
    <3>2. Adds(o[n], Walk(i[n] \o s, o, i), Walk(<<n>> \o s, o, i))
      BY <1>v, <2>5 DEF Finds
    <3> QED
      BY <3>1, <3>2 DEF new, pend
  <2>7. new \in Seq(D)
    BY <1>v, JoinedTo DEF new
  <2>8. Walk(new, o, i) \in Seq(A)
    BY <2>5, <2>7 DEF Finds
  <2>9. Adds(done, x, done \o x)
    BY DEF Adds
  <2> QED
    BY <1>v, <2>2, <2>6, <2>8, <2>9, AddsAgain DEF o, i
<1>10. left \in SUBSET D
  BY <1>3
<1> HIDE DEF left
<1> QED
  BY <1>6, <1>7, <1>8, <1>9, <1>10 DEF OnTheWay, new

\* A walk that has not begun, in a place no later node leads back to.
LEMMA StartIs ==
  ASSUME NEW N \in Nat, NEW p, NEW D, NEW A, NEW own, NEW inside, Walks(N, D, A, own, inside),
         NEW first \in Seq(D), NoTwice(first), NEW rest \in SUBSET D,
         Range(first) \subseteq rest,
         \A k \in 1..N : p[k] \in rest => k \in rest /\ k \notin Range(first)
  PROVE  OnTheWay(N, p, D, own, inside, first, {}, <<>>, first)
<1>1. ASSUME NEW V \in SUBSET D
      PROVE  Adds(<<>>, Walk(first, own[V], inside[V]), Walk(first, own[V], inside[V]))
  <2>1. Tree(N, D, A, own[V], inside[V])
    BY DEF Walks
  <2>2. Walk(first, own[V], inside[V]) \in Seq(A)
    <3> DEFINE o == own[V]
               i == inside[V]
    <3>1. Tree(N, D, A, o, i)
      BY <2>1
    <3> HIDE DEF o, i
    <3>2. Finds(D, A, o, i)
      BY <3>1, WalkIs
    <3> QED
      BY <3>2 DEF Finds, o, i
  <2>3. <<>> \o Walk(first, own[V], inside[V]) = Walk(first, own[V], inside[V])
    BY <2>2, ConcatEmptySeq
  <2> QED
    BY <2>3 DEF Adds
<1> QED
  BY <1>1 DEF OnTheWay

\* The first of a sequence, and then the rest, are the sequence.
LEMMA HeadIs ==
  ASSUME NEW S, NEW s \in Seq(S), s # <<>>
  PROVE  Head(s) \in S /\ Tail(s) \in Seq(S) /\ s = <<Head(s)>> \o Tail(s)
<1> DEFINE h == <<Head(s)>>
           t == Tail(s)
           u == h \o t
<1>1. Len(s) \in Nat /\ Len(s) >= 1
  OBVIOUS
<1>2. /\ Head(s) \in S /\ h \in Seq(S) /\ Len(h) = 1 /\ h[1] = s[1]
      /\ t \in Seq(S) /\ Len(t) = Len(s) - 1 /\ \A i \in 1..Len(t) : t[i] = s[i + 1]
  BY HeadTailProperties
<1> HIDE DEF h, t
<1>3. Concat(u, S, h, t)
  BY <1>2, ConcatIs
<1> HIDE DEF u
<1>4. u \in Seq(S) /\ Len(u) = Len(s) /\ u[1] = s[1]
  BY <1>1, <1>2, <1>3 DEF Concat
<1>5. ASSUME NEW i \in 1..Len(s) PROVE u[i] = s[i]
  <2>1. CASE i = 1
    BY <1>4, <2>1
  <2>2. CASE i # 1
    <3>1. PICK j \in 1..Len(t) : i = j + 1 /\ i = 1 + j
      <4>1. i - 1 \in 1..Len(t) /\ i = i - 1 + 1 /\ i = 1 + (i - 1)
        BY <1>1, <1>2, <2>2
      <4> QED
        BY <4>1
    <3>2. t[j] = s[i]
      BY <1>2, <3>1
    <3>3. u[i] = t[j]
      BY <1>2, <1>3, <3>1 DEF Concat
    <3> QED
      BY <3>2, <3>3
  <2> QED
    BY <2>1, <2>2
<1>6. u = s
  BY <1>4, <1>5, SameSeq
<1> QED
  BY <1>2, <1>6 DEF u, h, t

\* Append puts a sequence of one after another.
LEMMA AppendOne ==
  ASSUME NEW S, NEW s \in Seq(S), NEW x \in S
  PROVE  Append(s, x) = s \o <<x>> /\ Append(s, x) \in Seq(S)
         /\ Len(Append(s, x)) = Len(s) + 1 /\ <<x>> \in Seq(S)
<1>1. Append(s, x) = s \o <<x>>
  BY AppendIsConcat
<1> QED
  BY <1>1, OneAfter

-------------------------------------------------------------------------------
(* The tree, and walks of it *)

TreeOk ==
  /\ parent \in [1..Nodes -> 0..Nodes] /\ \A n \in 1..Nodes : parent[n] < n
  /\ kind \in [1..Nodes -> {"dir", "file", "binary", "link", "git"}]
  /\ content \in [1..Nodes -> Contents]
  /\ request \in Requests

Unstarted ==
  outcome = "start" => todo = <<>> /\ files = <<>> /\ found = <<>> /\ unreadable = {}

LsOwn == [V \in SUBSET (1..Nodes) |-> [n \in 1..Nodes |-> <<n>>]]
LsInside == [V \in SUBSET (1..Nodes) |-> Entered(V)]
LsFirst == InOrder(Listing(request.dir))

Below == {k \in 1..Nodes : k > request.dir}

LsWay == OnTheWay(Nodes, parent, 1..Nodes, LsOwn, LsInside, LsFirst, unreadable, found, todo)

LsInv ==
  request.op = "ls" /\ outcome \in {"none", "answered"} /\ ~unreadableTruncated =>
    /\ request.dir \notin unreadable
    /\ found \in Seq(1..Nodes) /\ todo \in Seq(Below) /\ Len(found) <= MaxEntries
    /\ Len(found) < MaxEntries => LsWay /\ (outcome = "answered" => todo = <<>>)
    /\ Len(found) = MaxEntries => IsPrefix(found, Listable(unreadable))

GrepOwn == [V \in SUBSET (0..Nodes) |-> Matches(V)]
GrepInside == [V \in SUBSET (0..Nodes) |-> Walked(V)]

GrepWay ==
  OnTheWay(Nodes, parent, 0..Nodes, GrepOwn, GrepInside, << 0 >>, unreadable, found, files \o todo)

GrepInv ==
  request.op = "grep" /\ outcome \in {"none", "answered"} /\ ~unreadableTruncated =>
    /\ 0 \notin unreadable
    /\ files \in Seq(Files) /\ todo \in Seq((0..Nodes) \ Files)
    /\ found \in Seq((1..Nodes) \X Nat) /\ Len(found) <= request.limit
    /\ Len(found) < request.limit =>
         GrepWay /\ (outcome = "answered" => files = <<>> /\ todo = <<>>)
    /\ Len(found) = request.limit =>
         IsPrefix(found, Findable(unreadable)) /\ files = <<>> /\ todo = <<>>

\* A grep has a limit, an ls a node of the tree.
LEMMA RequestIs ==
  ASSUME TreeOk
  PROVE  /\ request.op = "grep" => request.limit \in Nat \ {0}
         /\ request.op = "ls" => request.dir \in 0..Nodes
<1>1. ASSUME request \in Reads PROVE request.op # "grep" /\ request.op # "ls"
  BY <1>1, FilesAssumption DEF ReadType
<1>2. \/ request \in [op : {"grep"}, limit : Limits, excludes : BOOLEAN, badPattern : BOOLEAN]
      \/ request \in [op : {"ls"}, dir : 0..Nodes, depth : 1..(Nodes + 1)]
      \/ request \in Reads
  BY DEF TreeOk, Requests
<1> QED
  BY <1>1, <1>2, FilesAssumption

\* The nodes of a directory, in order, come after it.
LEMMA NamesAre ==
  ASSUME TreeOk, NEW n \in 0..Nodes, NEW S \in SUBSET Children(n)
  PROVE  /\ InOrder(S) \in Seq(S) /\ InOrder(S) \in Seq(1..Nodes)
         /\ InOrder(S) \in Seq(0..Nodes) /\ NoTwice(InOrder(S))
         /\ Range(InOrder(S)) \subseteq {k \in 1..Nodes : parent[k] = n}
<1>1. Nodes \in Nat /\ S \in SUBSET (1..Nodes) /\ S \in SUBSET (0..Nodes)
  BY FilesAssumption DEF Children
<1>2. InOrder(S) \in Seq(S) /\ NoTwice(InOrder(S))
  BY <1>1, InOrderIs
<1>3. InOrder(S) \in Seq(1..Nodes) /\ InOrder(S) \in Seq(0..Nodes)
  BY <1>1, <1>2, SeqMonotonic
<1>4. Range(InOrder(S)) \subseteq S
  BY <1>2, RangeIs
<1> QED
  BY <1>2, <1>3, <1>4 DEF Children

\* What is in a node has a higher number.
LEMMA LaterIs ==
  ASSUME TreeOk, NEW n \in 0..Nodes, NEW s \in Seq(0..Nodes),
         Range(s) \subseteq {k \in 1..Nodes : parent[k] = n}
  PROVE  \A i \in 1..Len(s) : s[i] > n
<1> TAKE i \in 1..Len(s)
<1>1. s[i] \in Range(s)
  BY RangeIs
<1> DEFINE k == s[i]
<1>2. k \in 1..Nodes /\ parent[k] = n
  BY <1>1
<1> HIDE DEF k
<1>3. parent[k] < k
  BY <1>2 DEF TreeOk
<1>4. k \in Int /\ n \in Int
  BY <1>2, FilesAssumption
<1>5. k > n
  BY <1>2, <1>3, <1>4
<1> QED
  BY <1>5 DEF k

-------------------------------------------------------------------------------
(* ls *)

\* What is in a directory is below the one asked for if the directory is.
LEMMA BelowIs ==
  ASSUME TreeOk, request.op = "ls", NEW n \in Below \cup {request.dir}
  PROVE  InOrder(Listing(n)) \in Seq(Below)
<1>0. Nodes \in Nat /\ request.dir \in 0..Nodes /\ n \in 0..Nodes /\ n >= request.dir
  BY FilesAssumption, RequestIs DEF Below
<1>1. Listing(n) \in SUBSET Children(n)
  BY DEF Listing
<1>2. InOrder(Listing(n)) \in Seq(Listing(n))
  BY <1>0, <1>1, NamesAre
<1>3. Listing(n) \subseteq Below
  <2> SUFFICES ASSUME NEW k \in Listing(n) PROVE k \in Below
    OBVIOUS
  <2>1. k \in 1..Nodes /\ parent[k] = n
    BY <1>1 DEF Children
  <2>2. parent[k] < k
    BY <2>1 DEF TreeOk
  <2>3. k \in Int /\ n < k
    BY <2>1, <2>2
  <2> QED
    BY <1>0, <2>1, <2>3 DEF Below
<1> QED
  BY <1>2, <1>3, SeqMonotonic

\* What an ls meets is a tree, whatever nodes are closed.
LEMMA LsWalks ==
  ASSUME TreeOk
  PROVE  Walks(Nodes, 1..Nodes, 1..Nodes, LsOwn, LsInside)
<1> DEFINE D == 1..Nodes
<1>0. Nodes \in Nat
  BY FilesAssumption
<1>1. \A n \in D : <<n>> \in Seq(D)
  OBVIOUS
<1>2. ASSUME NEW V \in SUBSET D, NEW n \in D
      PROVE  Entered(V)[n] \in Seq(D) /\ \A i \in 1..Len(Entered(V)[n]) : Entered(V)[n][i] > n
  <2> DEFINE s == InOrder(Listing(n))
             e == Entered(V)[n]
  <2>1. Listing(n) \in SUBSET Children(n) /\ n \in 0..Nodes
    BY <1>0 DEF Listing
  <2>2. s \in Seq(D) /\ s \in Seq(0..Nodes) /\ Range(s) \subseteq {k \in 1..Nodes : parent[k] = n}
    BY <2>1, NamesAre
  <2>3. e = <<>> \/ e = s
    BY DEF Entered
  <2> HIDE DEF s, e
  <2>4. \A i \in 1..Len(s) : s[i] > n
    BY <2>1, <2>2, LaterIs
  <2>5. e \in Seq(D) /\ \A i \in 1..Len(e) : e[i] > n
    <3>1. CASE e = <<>>
      BY <3>1
    <3>2. CASE e = s
      BY <2>2, <2>4, <3>2
    <3> QED
      BY <2>3, <3>1, <3>2
  <2> QED
    BY <2>5 DEF e
<1>3. \A V \in SUBSET D : Entered(V) \in [D -> Seq(D)]
  <2> TAKE V \in SUBSET D
  <2>1. Entered(V) = [n \in D |-> Entered(V)[n]]
    BY DEF Entered
  <2>2. \A n \in D : Entered(V)[n] \in Seq(D)
    BY <1>2
  <2> QED
    BY <2>1, <2>2
<1>4. [n \in D |-> <<n>>] \in [D -> Seq(D)]
  BY <1>1
<1>5. LsOwn \in [SUBSET D -> [D -> Seq(D)]] /\ LsInside \in [SUBSET D -> [D -> Seq(D)]]
  BY <1>3, <1>4 DEF LsOwn, LsInside
<1>6. ASSUME NEW V \in SUBSET D PROVE Tree(Nodes, D, D, LsOwn[V], LsInside[V])
  <2>1. LsInside[V] = Entered(V)
    BY DEF LsInside
  <2>2. \A n \in D : \A i \in 1..Len(LsInside[V][n]) : LsInside[V][n][i] > n
    BY <1>2, <2>1
  <2>3. LsOwn[V] \in [D -> Seq(D)] /\ LsInside[V] \in [D -> Seq(D)]
    BY <1>5
  <2>4. D \subseteq 0..Nodes
    BY <1>0
  <2> QED
    BY <1>0, <2>2, <2>3, <2>4 DEF Tree
<1> QED
  BY <1>5, <1>6 DEF Walks

\* A sequence that another agrees with, as far as it goes, is a prefix of it.
LEMMA StartsWith ==
  ASSUME NEW A, NEW s \in Seq(A), NEW e \in Seq(A), Len(s) <= Len(e),
         \A i \in 1..Len(s) : e[i] = s[i]
  PROVE  IsPrefix(s, e)
<1>1. Len(s) \in Nat /\ Len(e) \in Nat /\ Len(s) \in 0..Len(e) /\ Len(s) \in 0..Len(s)
  OBVIOUS
<1> DEFINE a == SubSeq(s, 1, Len(s))
           b == SubSeq(e, 1, Len(s))
<1>2. /\ a \in Seq(A) /\ Len(a) = Len(s) /\ \A i \in 1..Len(s) : a[i] = s[i]
      /\ b \in Seq(A) /\ Len(b) = Len(s) /\ \A i \in 1..Len(s) : b[i] = e[i]
  BY <1>1, PrefixOfSeq
<1> HIDE DEF a, b
<1>3. \A i \in 1..Len(a) : a[i] = b[i]
  BY <1>2
<1>4. a = b
  BY <1>2, <1>3, SameSeq
<1> QED
  BY <1>4 DEF IsPrefix, a, b

\* What comes first of two sequences is a prefix of them.
LEMMA PrefixIs ==
  ASSUME NEW A, NEW s \in Seq(A), NEW t \in Seq(A), NEW e, Adds(s, t, e)
  PROVE  IsPrefix(s, e) /\ e \in Seq(A) /\ Len(s) <= Len(e) /\ \A i \in 1..Len(s) : e[i] = s[i]
<1>1. Concat(e, A, s, t)
  BY ConcatIs DEF Adds
<1>2. e \in Seq(A) /\ Len(e) = Len(s) + Len(t) /\ \A i \in 1..Len(s) : e[i] = s[i]
  BY <1>1 DEF Concat
<1>3. Len(s) \in Nat /\ Len(t) \in Nat
  OBVIOUS
<1>4. Len(s) <= Len(e)
  BY <1>2, <1>3
<1> QED
  BY <1>2, <1>4, StartsWith

\* The first so many of what begins a sequence begin it too.
LEMMA UpToIs ==
  ASSUME NEW A, NEW s \in Seq(A), NEW t \in Seq(A), NEW e, Adds(s, t, e), NEW n \in Nat
  PROVE  /\ UpTo(s, n) \in Seq(A) /\ Len(UpTo(s, n)) <= n
         /\ Len(UpTo(s, n)) < n => UpTo(s, n) = s
         /\ IsPrefix(UpTo(s, n), e)
<1> DEFINE m == IF Len(s) < n THEN Len(s) ELSE n
           u == UpTo(s, n)
<1>1. Len(s) \in Nat /\ m \in 0..Len(s) /\ m <= n /\ (m < n => m = Len(s)) /\ m \in Nat
  OBVIOUS
<1>2. u = SubSeq(s, 1, m)
  BY DEF UpTo
<1> HIDE DEF m, u
<1>3. u \in Seq(A) /\ Len(u) = m /\ \A i \in 1..m : u[i] = s[i]
  BY <1>1, <1>2, PrefixOfSeq
<1>4. e \in Seq(A) /\ Len(s) <= Len(e) /\ \A i \in 1..Len(s) : e[i] = s[i]
  BY PrefixIs
<1>5. \A i \in 1..m : i \in 1..Len(s)
  BY <1>1
<1>6. m < n => u = s
  <2> HAVE m < n
  <2>1. Len(u) = Len(s)
    BY <1>1, <1>3
  <2>2. \A i \in 1..Len(u) : u[i] = s[i]
    BY <1>3
  <2> QED
    BY <1>3, <2>1, <2>2, SameSeq
<1>7. Len(u) <= Len(e)
  <2>1. Len(e) \in Nat
    BY <1>4
  <2> QED
    BY <1>1, <1>3, <1>4, <2>1
<1>8. \A i \in 1..Len(u) : e[i] = u[i]
  BY <1>3, <1>4, <1>5
<1>9. IsPrefix(u, e)
  BY <1>3, <1>4, <1>7, <1>8, StartsWith
<1> QED
  BY <1>1, <1>3, <1>6, <1>9 DEF u

\* The next name, whether it cannot be listed now or can.
LEMMA LsVisit ==
  ASSUME TreeOk, todo \in Seq(1..Nodes), todo # <<>>, found \in Seq(1..Nodes), LsWay,
         NEW now \in {unreadable, unreadable \cup {Head(todo)}}, NEW in,
         in = IF Head(todo) \in now \/ ~GoesDown(Head(todo)) THEN <<>>
              ELSE InOrder(Listing(Head(todo)))
  PROVE  /\ in \in Seq(1..Nodes)
         /\ OnTheWay(Nodes, parent, 1..Nodes, LsOwn, LsInside, LsFirst, now,
                     Append(found, Head(todo)), in \o Tail(todo))
<1> DEFINE n == Head(todo)
           s == Tail(todo)
           D == 1..Nodes
           x == <<n>>
<1>0. Nodes \in Nat
  BY FilesAssumption
<1>1. n \in D /\ s \in Seq(D) /\ todo = <<n>> \o s /\ n \in 0..Nodes /\ x \in Seq(D)
      /\ Append(found, n) = found \o x
  <2>1. n \in D /\ s \in Seq(D) /\ todo = <<n>> \o s
    BY HeadIs
  <2> HIDE DEF n
  <2>2. Append(found, n) = found \o x /\ x \in Seq(D)
    BY <2>1, AppendOne
  <2> QED
    BY <1>0, <2>1, <2>2
<1>2. Listing(n) \in SUBSET Children(n)
  BY DEF Listing
<1>3. in \in Seq(D) /\ NoTwice(in) /\ Range(in) \subseteq {k \in 1..Nodes : parent[k] = n}
  <2>1. CASE in = <<>>
    <3>1. <<>> \in Seq(D)
      OBVIOUS
    <3>2. Range(<<>>) \subseteq {k \in 1..Nodes : parent[k] = n}
      BY NoRange
    <3> QED
      BY <2>1, <3>1, <3>2, NoRange
  <2>2. CASE in = InOrder(Listing(n))
    BY <1>1, <1>2, <2>2, NamesAre
  <2> QED
    BY <2>1, <2>2
<1>4. \A V \in SUBSET D : (n \in V <=> n \in now) => LsOwn[V][n] = x /\ LsInside[V][n] = in
  BY <1>1 DEF LsOwn, LsInside, Entered
<1>5. Walks(Nodes, D, D, LsOwn, LsInside) /\ InEarlier(Nodes, parent)
  BY LsWalks DEF TreeOk, InEarlier
<1>6. OnTheWay(Nodes, parent, D, LsOwn, LsInside, LsFirst, unreadable, found, <<n>> \o s)
  BY <1>1 DEF LsWay
<1>7. Visits(Nodes, parent, D, D, LsOwn, LsInside, unreadable, found, n, s, now, x, in)
  BY <1>1, <1>3, <1>4, <1>5 DEF Visits
<1> HIDE DEF n, s, D, x
<1>8. OnTheWay(Nodes, parent, D, LsOwn, LsInside, LsFirst, now, found \o x, in \o s)
  BY <1>6, <1>7, VisitIs
<1> QED
  BY <1>1, <1>3, <1>8 DEF n, s, D

\* What there is to list does not change during an ls.
LEMMA LsSame ==
  ASSUME UNCHANGED <<treeVars, request>>
  PROVE  /\ LsInside' = LsInside /\ LsFirst' = LsFirst /\ LsOwn' = LsOwn
         /\ \A V : Listable(V)' = Listable(V)
<1>1. parent' = parent /\ kind' = kind /\ request' = request
  BY DEF treeVars
<1>2. \A n : Listing(n)' = Listing(n)
  BY <1>1 DEF Listing, Children
<1>3. \A n : GoesDown(n)' <=> GoesDown(n)
  BY <1>1 DEF GoesDown, DepthBelow
<1>4. \A V : Entered(V)' = Entered(V)
  BY <1>2, <1>3 DEF Entered
<1>5. LsFirst' = LsFirst
  BY <1>1, <1>2 DEF LsFirst
<1>6. LsInside' = LsInside /\ LsOwn' = LsOwn
  BY <1>4 DEF LsInside, LsOwn
<1>7. \A V : Listable(V)' = Listable(V)
  BY <1>4, <1>5 DEF Listable, LsFirst
<1> QED
  BY <1>5, <1>6, <1>7

\* An ls is on its way when it starts.
LEMMA LsStarts ==
  ASSUME TreeOk, request.op = "ls"
  PROVE  /\ OnTheWay(Nodes, parent, 1..Nodes, LsOwn, LsInside, LsFirst, {}, <<>>, LsFirst)
         /\ LsFirst \in Seq(1..Nodes)
<1> DEFINE D == 1..Nodes
           rest == {k \in D : k > request.dir}
<1>0. Nodes \in Nat /\ request.dir \in 0..Nodes
  BY FilesAssumption, RequestIs
<1>1. Listing(request.dir) \in SUBSET Children(request.dir)
  BY DEF Listing
<1>2. LsFirst \in Seq(D) /\ NoTwice(LsFirst)
      /\ Range(LsFirst) \subseteq {k \in 1..Nodes : parent[k] = request.dir}
  BY <1>0, <1>1, NamesAre DEF LsFirst
<1>3. \A k \in 1..Nodes : parent[k] \in Int /\ k \in Int /\ parent[k] < k
  BY <1>0 DEF TreeOk
<1>4. Range(LsFirst) \subseteq rest
  BY <1>0, <1>2, <1>3
<1>5. \A k \in 1..Nodes : parent[k] \in rest => k \in rest /\ k \notin Range(LsFirst)
  <2> TAKE k \in 1..Nodes
  <2> HAVE parent[k] \in rest
  <2>1. parent[k] > request.dir
    OBVIOUS
  <2>2. k > request.dir /\ parent[k] # request.dir
    BY <1>0, <1>3, <2>1
  <2> QED
    BY <1>2, <2>2
<1>6. rest \in SUBSET D
  OBVIOUS
<1>7. Walks(Nodes, D, D, LsOwn, LsInside)
  BY LsWalks
<1> HIDE DEF D, rest
<1>8. OnTheWay(Nodes, parent, D, LsOwn, LsInside, LsFirst, {}, <<>>, LsFirst)
  BY <1>0, <1>2, <1>4, <1>5, <1>6, <1>7, StartIs
<1> QED
  BY <1>2, <1>8 DEF D

\* What was found so far on the way of an ls.
LEMMA LsFound ==
  ASSUME TreeOk, NEW closed, NEW done \in Seq(1..Nodes), NEW pend \in Seq(1..Nodes),
         OnTheWay(Nodes, parent, 1..Nodes, LsOwn, LsInside, LsFirst, closed, done, pend)
  PROVE  IsPrefix(done, Listable(closed)) /\ (pend = <<>> => done = Listable(closed))
<1> DEFINE D == 1..Nodes
           all == Walk(LsFirst, LsOwn[closed], LsInside[closed])
<1>1. Walks(Nodes, D, D, LsOwn, LsInside)
  BY LsWalks
<1>2. closed \in SUBSET D /\ FoundOf(D, all, done, pend)
  BY <1>1, FoundIs
<1>3. all = Listable(closed)
  BY <1>2 DEF Listable, LsOwn, LsInside, LsFirst
<1> HIDE DEF all
<1>4. IsPrefix(done, all)
  BY <1>2, PrefixIs DEF FoundOf
<1> QED
  BY <1>2, <1>3, <1>4 DEF FoundOf

\* Unless an ls has said that it left out what it could not read, it has found
\* what there is on its way, from its start to its end.
LEMMA LsStep ==
  ASSUME TreeOk, Unstarted, LsInv, [Next]_vars
  PROVE  LsInv'
<1> SUFFICES ASSUME request'.op = "ls", outcome' \in {"none", "answered"}, ~unreadableTruncated'
             PROVE  LsInv'
  BY DEF LsInv
<1>0. UNCHANGED <<treeVars, request>> /\ request.op = "ls" /\ MaxEntries \in Nat \ {0}
  BY FilesAssumption DEF Next, LosePermission, Miss, Fails, Answer, StartGrep, WalkError, WalkDir,
     VisitFile, EndGrep, StartLs, LsEntry, EndLs, Read, vars
<1>1. /\ LsInside' = LsInside /\ LsFirst' = LsFirst /\ LsOwn' = LsOwn /\ parent' = parent
      /\ request' = request
      /\ \A V : Listable(V)' = Listable(V)
  BY <1>0, LsSame DEF treeVars
<1>2. CASE StartLs
  <2>1. /\ todo' = LsFirst /\ unreadable' = {} /\ found' = <<>> /\ outcome' = "none"
    BY <1>0, <1>2 DEF StartLs, Unstarted, LsFirst
  <2>2. LsWay'
    BY <1>0, <1>1, <2>1, LsStarts DEF LsWay
  <2>3. Len(found') = 0 /\ found' \in Seq(1..Nodes)
    BY <2>1
  <2>4. LsFirst \in Seq(Below)
    BY <1>0, BelowIs DEF LsFirst
  <2> QED
    BY <1>0, <1>1, <2>1, <2>2, <2>3, <2>4 DEF LsInv, Below
<1>3. CASE LsEntry
  <2> DEFINE n == Head(todo)
             goesIn == GoesDown(n) /\ Len(found) + 1 < MaxEntries
  <2>1. /\ outcome = "none" /\ outcome' = "none" /\ todo # <<>> /\ Len(found) < MaxEntries
        /\ found' = Append(found, n) /\ ~unreadableTruncated
    BY <1>3 DEF LsEntry, Disclose
  <2>2. /\ request.dir \notin unreadable /\ found \in Seq(1..Nodes) /\ todo \in Seq(Below)
        /\ LsWay
    BY <1>0, <2>1 DEF LsInv
  <2>3. todo \in Seq(1..Nodes)
    BY <2>2, SeqMonotonic DEF Below
  <2>4. n \in 1..Nodes /\ Tail(todo) \in Seq(1..Nodes)
    BY <2>1, <2>3, HeadIs
  <2>5. n \in Below /\ Tail(todo) \in Seq(Below)
    BY <2>1, <2>2, HeadIs
  <2>6. Len(found) \in Nat /\ Len(found') = Len(found) + 1 /\ found' \in Seq(1..Nodes)
    BY <2>1, <2>2, <2>4, AppendOne
  <2>7. n \notin unreadable
    BY <2>1, <2>2, <2>3, NextIsOpen DEF LsWay
  <2>8. PICK now \in {unreadable, unreadable \cup {n}} :
          /\ unreadable' = now
          /\ \/ now = unreadable \cup {n} /\ todo' = Tail(todo)
             \/ now = unreadable
                /\ todo' = (IF goesIn THEN InOrder(Listing(n)) ELSE <<>>) \o Tail(todo)
    BY <1>3 DEF LsEntry, Disclose
  <2> DEFINE in == IF n \in now \/ ~GoesDown(n) THEN <<>> ELSE InOrder(Listing(n))
             pend == in \o Tail(todo)
  <2>9. in \in Seq(1..Nodes)
        /\ OnTheWay(Nodes, parent, 1..Nodes, LsOwn, LsInside, LsFirst, now, found', pend)
    BY <2>1, <2>2, <2>3, LsVisit
  <2>10. in \in Seq(Below) /\ todo' \in Seq(Below)
    <3>1. InOrder(Listing(n)) \in Seq(Below) /\ <<>> \in Seq(Below)
      BY <1>0, <2>5, BelowIs
    <3>2. \A s \in Seq(Below) : s \o Tail(todo) \in Seq(Below)
      BY <2>5
    <3> QED
      BY <2>5, <2>8, <3>1, <3>2
  <2>11. pend \in Seq(1..Nodes)
    BY <2>4, <2>9, JoinedTo
  <2>12. Len(found') < MaxEntries => todo' = pend
    <3>1. Len(found') < MaxEntries => (goesIn <=> GoesDown(n))
      BY <2>6
    <3>2. <<>> \o Tail(todo) = Tail(todo)
      BY <2>4, ConcatEmptySeq
    <3> QED
      BY <2>7, <2>8, <3>1, <3>2
  <2> HIDE DEF pend, in
  <2>13. IsPrefix(found', Listable(now))
    BY <2>6, <2>9, <2>11, LsFound
  <2>14. Len(found') < MaxEntries => LsWay'
    BY <1>1, <2>8, <2>9, <2>12 DEF LsWay
  <2>15. request.dir \notin now
    <3>1. request.dir \in Int
      BY <1>0, RequestIs
    <3> QED
      BY <2>2, <2>5, <3>1 DEF Below
  <2>16. Len(found') <= MaxEntries
    BY <1>0, <2>1, <2>6
  <2> QED
    BY <1>1, <2>1, <2>6, <2>8, <2>10, <2>13, <2>14, <2>15, <2>16 DEF LsInv, Below
<1>4. CASE ~StartLs /\ ~LsEntry
  <2> DEFINE Stays == /\ UNCHANGED walkVars /\ outcome \in {"none", "answered"}
                      /\ outcome' = "answered" =>
                           outcome = "answered" \/ todo = <<>> \/ Len(found) >= MaxEntries
  <2>1. LosePermission => Stays
    BY DEF LosePermission
  <2>2. EndLs => Stays
    BY DEF EndLs, Answer
  <2>3. ~Miss
    BY <1>0 DEF Miss, Fails
  <2>4. ~StartGrep /\ ~WalkError /\ ~WalkDir /\ ~VisitFile /\ ~EndGrep
    BY <1>0 DEF StartGrep, WalkError, WalkDir, Walking, VisitFile, EndGrep
  <2>5. ~Read
    <3>1. request \in Reads => request.op # "ls"
      BY FilesAssumption DEF ReadType
    <3> QED
      BY <1>0, <3>1 DEF Read
  <2>6. UNCHANGED vars => Stays
    BY DEF vars
  <2>7. Stays
    BY <1>4, <2>1, <2>2, <2>3, <2>4, <2>5, <2>6 DEF Next
  <2>8. /\ found' = found /\ todo' = todo /\ unreadable' = unreadable
        /\ unreadableTruncated' = unreadableTruncated
    BY <2>7 DEF walkVars
  <2>9. LsWay' <=> LsWay
    BY <1>1, <2>8 DEF LsWay
  <2>10. /\ request.dir \notin unreadable
         /\ found \in Seq(1..Nodes) /\ todo \in Seq(Below) /\ Len(found) <= MaxEntries
         /\ Len(found) < MaxEntries => LsWay /\ (outcome = "answered" => todo = <<>>)
         /\ Len(found) = MaxEntries => IsPrefix(found, Listable(unreadable))
    BY <1>0, <2>7, <2>8 DEF LsInv
  <2>11. Len(found) \in Nat
    BY <2>10
  <2>12. Len(found) < MaxEntries /\ outcome' = "answered" => todo = <<>>
    BY <1>0, <2>7, <2>10, <2>11
  <2> QED
    BY <1>1, <2>8, <2>9, <2>10, <2>12 DEF LsInv, Below
<1> QED
  BY <1>2, <1>3, <1>4

\* Every answer of an ls is honest.
LEMMA LsAnswers ==
  ASSUME TreeOk, LsInv
  PROVE  LsIsHonest
<1> SUFFICES ASSUME request.op = "ls", outcome = "answered", ~unreadableTruncated
             PROVE  /\ request.dir \notin unreadable
                    /\ IsPrefix(found, Listable(unreadable)) /\ Len(found) <= MaxEntries
                    /\ Len(found) < MaxEntries => found = Listable(unreadable)
  BY DEF LsIsHonest
<1>1. /\ request.dir \notin unreadable
      /\ found \in Seq(1..Nodes) /\ Len(found) <= MaxEntries
      /\ Len(found) < MaxEntries => LsWay /\ todo = <<>>
      /\ Len(found) = MaxEntries => IsPrefix(found, Listable(unreadable))
  BY DEF LsInv
<1>2. Len(found) \in Nat /\ MaxEntries \in Nat
  BY <1>1, FilesAssumption
<1>3. CASE Len(found) < MaxEntries
  <2>1. todo = <<>> /\ LsWay /\ todo \in Seq(1..Nodes)
    BY <1>1, <1>3
  <2>2. IsPrefix(found, Listable(unreadable)) /\ (todo = <<>> => found = Listable(unreadable))
    BY <1>1, <2>1, LsFound DEF LsWay
  <2> QED
    BY <1>1, <2>1, <2>2
<1>4. CASE Len(found) = MaxEntries
  BY <1>1, <1>2, <1>4
<1> QED
  BY <1>1, <1>2, <1>3, <1>4

-------------------------------------------------------------------------------
(* grep *)

Hit == (1..Nodes) \X Nat

\* The matches in a file are its number with a line's.
LEMMA HitSeqIs ==
  ASSUME TreeOk, NEW f \in 1..Nodes
  PROVE  HitSeq(f) \in Seq(Hit)
<1> DEFINE S == {h[2] : h \in Hits(f)}
           lines == InOrder(S)
           c == content[f]
<1>1. c \in Seq({"hit", "def", "miss"})
  <2>1. c \in Contents
    BY DEF TreeOk
  <2> QED
    BY <2>1, FilesAssumption
<1>2. Len(c) \in Nat /\ DOMAIN c = 1..Len(c)
  BY <1>1
<1>3. S \subseteq 1..Len(c)
  <2> SUFFICES ASSUME NEW h \in Hits(f) PROVE h[2] \in 1..Len(c)
    OBVIOUS
  <2> HIDE DEF c
  <2>1. PICK l \in DOMAIN content[f] : h = <<f, l>>
    BY DEF Hits
  <2> QED
    BY <1>2, <2>1 DEF c
<1> HIDE DEF c, S
<1>4. S \in SUBSET (0..Len(c))
  BY <1>2, <1>3
<1>5. lines \in Seq(S)
  BY <1>2, <1>4, InOrderIs
<1>6. HitSeq(f) = [i \in DOMAIN lines |-> <<f, lines[i]>>]
  BY DEF HitSeq, S
<1> HIDE DEF lines
<1>7. DOMAIN lines = 1..Len(lines) /\ Len(lines) \in Nat /\ \A i \in 1..Len(lines) : lines[i] \in S
  BY <1>5
<1>8. \A i \in 1..Len(lines) : lines[i] \in Nat
  <2>1. \A y \in S : y \in Nat
    BY <1>2, <1>4
  <2> QED
    BY <1>7, <2>1
<1>9. \A i \in 1..Len(lines) : <<f, lines[i]>> \in Hit
  BY <1>8 DEF Hit
<1>10. HitSeq(f) \in [1..Len(lines) -> Hit]
  BY <1>6, <1>7, <1>9
<1> QED
  BY <1>7, <1>10, SeqOfFunction

\* What is searched and gone into from a directory is in it, each node once.
LEMMA InsideIs ==
  ASSUME TreeOk, NEW n \in 0..Nodes, NEW in,
         in = <<>> \/ in = InOrder(Children(n) \cap Files) \o InOrder(Inner(n))
  PROVE  /\ in \in Seq(0..Nodes) /\ NoTwice(in)
         /\ Range(in) \subseteq {k \in 1..Nodes : parent[k] = n}
<1>1. CASE in = <<>>
  <2>1. <<>> \in Seq(0..Nodes)
    OBVIOUS
  <2>2. Range(<<>>) \subseteq {k \in 1..Nodes : parent[k] = n}
    BY NoRange
  <2> QED
    BY <1>1, <2>1, <2>2, NoRange
<1>2. CASE in = InOrder(Children(n) \cap Files) \o InOrder(Inner(n))
  <2> DEFINE S == Children(n) \cap Files
             T == Inner(n)
             s == InOrder(S)
             t == InOrder(T)
  <2>1. S \in SUBSET Children(n) /\ T \in SUBSET Children(n)
    BY DEF Inner
  <2>2. /\ s \in Seq(0..Nodes) /\ NoTwice(s) /\ s \in Seq(S)
        /\ Range(s) \subseteq {k \in 1..Nodes : parent[k] = n}
    BY <2>1, NamesAre
  <2>3. /\ t \in Seq(0..Nodes) /\ NoTwice(t) /\ t \in Seq(T)
        /\ Range(t) \subseteq {k \in 1..Nodes : parent[k] = n}
    BY <2>1, NamesAre
  <2>4. S \cap T = {}
    BY DEF Files, Inner
  <2> HIDE DEF s, t, S, T
  <2>5. Range(s) \subseteq S /\ Range(t) \subseteq T
    BY <2>2, <2>3, RangeIs
  <2>6. Range(s) \cap Range(t) = {}
    BY <2>4, <2>5
  <2>7. Range(s \o t) = Range(s) \cup Range(t) /\ NoTwice(s \o t)
    BY <2>2, <2>3, <2>6, ConcatRange
  <2>8. s \o t \in Seq(0..Nodes)
    BY <2>2, <2>3, JoinedTo
  <2>9. in = s \o t
    BY <1>2 DEF s, t, S, T
  <2> QED
    BY <2>2, <2>3, <2>7, <2>8, <2>9
<1> QED
  BY <1>1, <1>2

\* What a node holds for a grep are matches.
LEMMA MatchesAre ==
  ASSUME TreeOk, NEW V, NEW n \in 0..Nodes
  PROVE  Matches(V)[n] \in Seq(Hit)
<1>1. CASE n \in Files
  <2>1. n \in 1..Nodes
    BY <1>1 DEF Files
  <2>2. HitSeq(n) \in Seq(Hit) /\ <<>> \in Seq(Hit)
    BY <2>1, HitSeqIs
  <2> QED
    BY <2>2 DEF Matches
<1>2. CASE n \notin Files
  BY <1>2 DEF Matches
<1> QED
  BY <1>1, <1>2

\* What a grep meets is a tree, whatever nodes are closed.
LEMMA GrepWalks ==
  ASSUME TreeOk
  PROVE  Walks(Nodes, 0..Nodes, Hit, GrepOwn, GrepInside)
<1> DEFINE D == 0..Nodes
<1>0. Nodes \in Nat
  BY FilesAssumption
<1>1. ASSUME NEW V \in SUBSET D, NEW n \in D
      PROVE  Walked(V)[n] \in Seq(D) /\ \A i \in 1..Len(Walked(V)[n]) : Walked(V)[n][i] > n
  <2> DEFINE e == Walked(V)[n]
  <2>1. e = <<>> \/ e = InOrder(Children(n) \cap Files) \o InOrder(Inner(n))
    BY DEF Walked
  <2> HIDE DEF e
  <2>2. e \in Seq(D) /\ Range(e) \subseteq {k \in 1..Nodes : parent[k] = n}
    BY <2>1, InsideIs
  <2>3. \A i \in 1..Len(e) : e[i] > n
    BY <2>2, LaterIs
  <2> QED
    BY <2>2, <2>3 DEF e
<1>2. \A V \in SUBSET D : Walked(V) \in [D -> Seq(D)]
  <2> TAKE V \in SUBSET D
  <2>1. Walked(V) = [n \in D |-> Walked(V)[n]]
    BY DEF Walked
  <2>2. \A n \in D : Walked(V)[n] \in Seq(D)
    BY <1>1
  <2> QED
    BY <2>1, <2>2
<1>3. \A V \in SUBSET D : Matches(V) \in [D -> Seq(Hit)]
  <2> TAKE V \in SUBSET D
  <2>1. Matches(V) = [n \in D |-> Matches(V)[n]]
    BY DEF Matches
  <2>2. \A n \in D : Matches(V)[n] \in Seq(Hit)
    BY MatchesAre
  <2> QED
    BY <2>1, <2>2
<1>4. GrepOwn \in [SUBSET D -> [D -> Seq(Hit)]] /\ GrepInside \in [SUBSET D -> [D -> Seq(D)]]
  BY <1>2, <1>3 DEF GrepOwn, GrepInside
<1>5. ASSUME NEW V \in SUBSET D PROVE Tree(Nodes, D, Hit, GrepOwn[V], GrepInside[V])
  <2>1. GrepInside[V] = Walked(V)
    BY DEF GrepInside
  <2>2. \A n \in D : \A i \in 1..Len(GrepInside[V][n]) : GrepInside[V][n][i] > n
    BY <1>1, <2>1
  <2>3. GrepOwn[V] \in [D -> Seq(Hit)] /\ GrepInside[V] \in [D -> Seq(D)]
    BY <1>4
  <2>4. D \subseteq 0..Nodes
    OBVIOUS
  <2> QED
    BY <1>0, <2>2, <2>3, <2>4 DEF Tree
<1> QED
  BY <1>4, <1>5 DEF Walks

\* The next node, whether it cannot be read now or can.
LEMMA GrepVisit ==
  ASSUME TreeOk, NEW n \in 0..Nodes, NEW s \in Seq(0..Nodes), found \in Seq(Hit),
         OnTheWay(Nodes, parent, 0..Nodes, GrepOwn, GrepInside, << 0 >>, unreadable, found,
                  <<n>> \o s),
         NEW now \in {unreadable, unreadable \cup {n}},
         NEW x, x = Matches(now)[n], NEW in, in = Walked(now)[n]
  PROVE  /\ x \in Seq(Hit) /\ in \in Seq(0..Nodes)
         /\ OnTheWay(Nodes, parent, 0..Nodes, GrepOwn, GrepInside, << 0 >>, now,
                     found \o x, in \o s)
<1> DEFINE D == 0..Nodes
<1>1. x \in Seq(Hit)
  BY MatchesAre
<1>2. in = <<>> \/ in = InOrder(Children(n) \cap Files) \o InOrder(Inner(n))
  BY DEF Walked
<1>3. in \in Seq(D) /\ NoTwice(in) /\ Range(in) \subseteq {k \in 1..Nodes : parent[k] = n}
  BY <1>2, InsideIs
<1>4. \A V \in SUBSET D : (n \in V <=> n \in now) => GrepOwn[V][n] = x /\ GrepInside[V][n] = in
  BY DEF GrepOwn, GrepInside, Walked, Matches
<1>5. Walks(Nodes, D, Hit, GrepOwn, GrepInside) /\ InEarlier(Nodes, parent)
  BY GrepWalks DEF TreeOk, InEarlier
<1>6. Visits(Nodes, parent, D, Hit, GrepOwn, GrepInside, unreadable, found, n, s, now, x, in)
  BY <1>1, <1>3, <1>4, <1>5 DEF Visits
<1>7. OnTheWay(Nodes, parent, D, GrepOwn, GrepInside, << 0 >>, unreadable, found, <<n>> \o s)
  OBVIOUS
<1> HIDE DEF D
<1>8. OnTheWay(Nodes, parent, D, GrepOwn, GrepInside, << 0 >>, now, found \o x, in \o s)
  BY <1>6, <1>7, VisitIs
<1> QED
  BY <1>1, <1>3, <1>8 DEF D

\* What there is to find does not change during a grep.
LEMMA GrepSame ==
  ASSUME UNCHANGED <<treeVars, request>>
  PROVE  /\ GrepInside' = GrepInside /\ GrepOwn' = GrepOwn /\ Files' = Files
         /\ \A V : Findable(V)' = Findable(V)
<1>1. parent' = parent /\ kind' = kind /\ content' = content /\ selected' = selected
      /\ request' = request
  BY DEF treeVars
<1>2. Files' = Files /\ \A n : Children(n)' = Children(n)
  BY <1>1 DEF Files, Children
<1>3. \A n : Inner(n)' = Inner(n)
  BY <1>1, <1>2 DEF Inner
<1>4. \A n : HitSeq(n)' = HitSeq(n)
  BY <1>1 DEF HitSeq, Hits
<1>5. \A n : Searched(n)' <=> Searched(n)
  BY <1>1 DEF Searched
<1>6. \A V : Matches(V)' = Matches(V)
  BY <1>2, <1>4, <1>5 DEF Matches
<1>7. \A V : Walked(V)' = Walked(V)
  BY <1>2, <1>3 DEF Walked
<1>8. GrepInside' = GrepInside /\ GrepOwn' = GrepOwn
  BY <1>6, <1>7 DEF GrepInside, GrepOwn
<1>9. \A V : Findable(V)' = Findable(V)
  BY <1>6, <1>7 DEF Findable
<1> QED
  BY <1>2, <1>8, <1>9

\* A grep is on its way when it starts.
LEMMA GrepStarts ==
  ASSUME TreeOk
  PROVE  OnTheWay(Nodes, parent, 0..Nodes, GrepOwn, GrepInside, << 0 >>, {}, <<>>, << 0 >>)
<1> DEFINE D == 0..Nodes
           first == << 0 >>
<1>1. Nodes \in Nat /\ 0 \in D
  BY FilesAssumption
<1>2. first \in Seq(D) /\ NoTwice(first) /\ Range(first) = {0}
  BY <1>1, OneRange
<1>3. \A k \in 1..Nodes : k \in D /\ k \notin {0}
  OBVIOUS
<1>4. Walks(Nodes, D, Hit, GrepOwn, GrepInside)
  BY GrepWalks
<1>5. D \in SUBSET D /\ {0} \subseteq D
  BY <1>1
<1> HIDE DEF D, first
<1>6. OnTheWay(Nodes, parent, D, GrepOwn, GrepInside, first, {}, <<>>, first)
  BY <1>1, <1>2, <1>3, <1>4, <1>5, StartIs
<1> QED
  BY <1>6 DEF D, first

\* What was found so far on the way of a grep.
LEMMA GrepFound ==
  ASSUME TreeOk, NEW closed, NEW done \in Seq(Hit), NEW pend \in Seq(0..Nodes),
         OnTheWay(Nodes, parent, 0..Nodes, GrepOwn, GrepInside, << 0 >>, closed, done, pend)
  PROVE  FoundOf(Hit, Findable(closed), done, pend)
<1> DEFINE D == 0..Nodes
           all == Walk(<< 0 >>, GrepOwn[closed], GrepInside[closed])
<1>1. Walks(Nodes, D, Hit, GrepOwn, GrepInside)
  BY GrepWalks
<1>2. closed \in SUBSET D /\ FoundOf(Hit, all, done, pend)
  BY <1>1, FoundIs
<1>3. all = Findable(closed)
  BY <1>2 DEF Findable, GrepOwn, GrepInside
<1> QED
  BY <1>2, <1>3

\* Some of the first so many that were found, or all of them.
LEMMA GrepUpTo ==
  ASSUME TreeOk, NEW closed, NEW done \in Seq(Hit), NEW pend \in Seq(0..Nodes),
         OnTheWay(Nodes, parent, 0..Nodes, GrepOwn, GrepInside, << 0 >>, closed, done, pend),
         NEW limit \in Nat,
         NEW new, new = UpTo(done, limit) \/ (new = done /\ Len(done) < limit)
  PROVE  /\ new \in Seq(Hit) /\ Len(new) <= limit /\ IsPrefix(new, Findable(closed))
         /\ Len(new) < limit => new = done
<1> DEFINE all == Findable(closed)
<1>1. FoundOf(Hit, all, done, pend)
  BY GrepFound
<1> HIDE DEF all
<1>2. PICK more \in Seq(Hit) : Adds(done, more, all)
  BY <1>1 DEF FoundOf
<1>3. CASE new = UpTo(done, limit)
  BY <1>2, <1>3, UpToIs DEF all
<1>4. CASE new = done /\ Len(done) < limit
  <2>1. IsPrefix(done, all)
    BY <1>2, PrefixIs
  <2>2. Len(done) \in Nat
    OBVIOUS
  <2>3. Len(done) <= limit
    BY <1>4, <2>2
  <2> QED
    BY <1>4, <2>1, <2>3 DEF all
<1> QED
  BY <1>3, <1>4

\* A grep that goes on walks the rest; one that is at its limit has no rest.
LEMMA GrepGoesOn ==
  ASSUME GrepInv, request.op = "grep", outcome = "none", ~unreadableTruncated,
         request.limit \in Nat \ {0}, files # <<>> \/ todo # <<>>
  PROVE  /\ 0 \notin unreadable /\ files \in Seq(Files) /\ todo \in Seq((0..Nodes) \ Files)
         /\ files \in Seq(0..Nodes) /\ todo \in Seq(0..Nodes)
         /\ found \in Seq(Hit) /\ Len(found) \in Nat /\ Len(found) < request.limit
         /\ GrepWay
<1>1. /\ 0 \notin unreadable
      /\ files \in Seq(Files) /\ todo \in Seq((0..Nodes) \ Files)
      /\ found \in Seq(Hit) /\ Len(found) <= request.limit
      /\ Len(found) < request.limit => GrepWay
      /\ Len(found) # request.limit
  BY DEF GrepInv, Hit
<1>2. Len(found) \in Nat
  BY <1>1
<1>3. Len(found) < request.limit
  BY <1>1, <1>2
<1>4. Files \subseteq 0..Nodes
  BY FilesAssumption DEF Files
<1>5. files \in Seq(0..Nodes) /\ todo \in Seq(0..Nodes)
  BY <1>1, <1>4, SeqMonotonic
<1> QED
  BY <1>1, <1>2, <1>3, <1>5

\* The root of a walk, or a directory below it, cannot be listed.
LEMMA GrepWalkError ==
  ASSUME TreeOk, GrepInv, request.op = "grep", WalkError,
         outcome' \in {"none", "answered"}, ~unreadableTruncated'
  PROVE  GrepInv'
<1> DEFINE n == Head(todo)
           s == Tail(todo)
           D == 0..Nodes
           now == unreadable \cup {n}
<1>0. UNCHANGED <<treeVars, request, files, found>> /\ outcome = "none" /\ ~unreadableTruncated
      /\ files = <<>> /\ todo # <<>> /\ request.limit \in Nat \ {0}
  BY RequestIs DEF WalkError, Walking, Disclose
<1>1. n # 0 /\ unreadable' = now /\ todo' = s /\ outcome' = "none"
  BY <1>0 DEF WalkError, Disclose
<1>2. /\ 0 \notin unreadable /\ files \in Seq(Files) /\ todo \in Seq(D \ Files) /\ todo \in Seq(D)
      /\ found \in Seq(Hit) /\ Len(found) \in Nat /\ Len(found) < request.limit
      /\ GrepWay
  BY <1>0, GrepGoesOn
<1>3. n \in D \ Files /\ s \in Seq(D \ Files) /\ n \in D /\ s \in Seq(D) /\ todo = <<n>> \o s
  <2>1. n \in D \ Files /\ s \in Seq(D \ Files)
    BY <1>0, <1>2, HeadIs
  <2>2. n \in D /\ s \in Seq(D) /\ todo = <<n>> \o s
    BY <1>0, <1>2, HeadIs
  <2> QED
    BY <2>1, <2>2
<1>4. files \o todo = todo
  BY <1>0, <1>2, ConcatEmptySeq
<1>5. OnTheWay(Nodes, parent, D, GrepOwn, GrepInside, << 0 >>, unreadable, found, <<n>> \o s)
  BY <1>2, <1>3, <1>4 DEF GrepWay
<1>6. Matches(now)[n] = <<>> /\ Walked(now)[n] = <<>>
  BY <1>3 DEF Matches, Walked
<1>7. found \o <<>> = found /\ <<>> \o s = s
  BY <1>2, <1>3, ConcatEmptySeq
<1> HIDE DEF n, s, D
<1>8. OnTheWay(Nodes, parent, D, GrepOwn, GrepInside, << 0 >>, now, found \o <<>>, <<>> \o s)
  BY <1>2, <1>3, <1>5, <1>6, GrepVisit DEF D
<1>9. files' = <<>> /\ <<>> \o s = files' \o todo' /\ found' = found
  BY <1>0, <1>1
<1>10. GrepWay'
  <2>1. /\ GrepInside' = GrepInside /\ GrepOwn' = GrepOwn /\ parent' = parent
    BY <1>0, GrepSame DEF treeVars
  <2> QED
    BY <1>1, <1>7, <1>8, <1>9, <2>1 DEF GrepWay, D
<1>11. Files' = Files /\ request' = request
  BY <1>0, GrepSame
<1>12. files' \in Seq(Files)
  BY <1>0, <1>2
<1>13. todo' \in Seq((0..Nodes) \ Files)
  BY <1>1, <1>3 DEF D
<1> QED
  BY <1>0, <1>1, <1>2, <1>9, <1>10, <1>11, <1>12, <1>13 DEF GrepInv, Hit

\* A directory is listed: its files are next, then its directories.
LEMMA GrepWalkDir ==
  ASSUME TreeOk, GrepInv, request.op = "grep", WalkDir, ~unreadableTruncated'
  PROVE  GrepInv'
<1> DEFINE n == Head(todo)
           s == Tail(todo)
           D == 0..Nodes
           S == Children(n) \cap Files
           a == InOrder(S)
           b == InOrder(Inner(n))
<1>0. UNCHANGED <<treeVars, request, found, unreadable>>
      /\ outcome = "none" /\ outcome' = "none" /\ ~unreadableTruncated
      /\ files = <<>> /\ todo # <<>> /\ request.limit \in Nat \ {0}
      /\ files' = a /\ todo' = b \o s
  BY RequestIs DEF WalkDir, Walking
<1>1. /\ 0 \notin unreadable /\ files \in Seq(Files) /\ todo \in Seq(D \ Files) /\ todo \in Seq(D)
      /\ found \in Seq(Hit) /\ Len(found) \in Nat /\ Len(found) < request.limit
      /\ GrepWay
  BY <1>0, GrepGoesOn
<1>2. n \in D \ Files /\ s \in Seq(D \ Files) /\ n \in D /\ s \in Seq(D) /\ todo = <<n>> \o s
  <2>1. n \in D \ Files /\ s \in Seq(D \ Files)
    BY <1>0, <1>1, HeadIs
  <2>2. n \in D /\ s \in Seq(D) /\ todo = <<n>> \o s
    BY <1>0, <1>1, HeadIs
  <2> QED
    BY <2>1, <2>2
<1>3. files \o todo = todo
  BY <1>0, <1>1, ConcatEmptySeq
<1>4. OnTheWay(Nodes, parent, D, GrepOwn, GrepInside, << 0 >>, unreadable, found, <<n>> \o s)
  BY <1>1, <1>2, <1>3 DEF GrepWay
<1>5. n \notin unreadable
  BY <1>0, <1>1, <1>3, NextIsOpen DEF GrepWay
<1>6. Matches(unreadable)[n] = <<>> /\ Walked(unreadable)[n] = a \o b
  BY <1>2, <1>5 DEF Matches, Walked
<1>7. found \o <<>> = found
  BY <1>1, ConcatEmptySeq
<1>8. a \in Seq(D) /\ a \in Seq(Files) /\ b \in Seq(D) /\ b \in Seq(D \ Files)
  <2>1. S \in SUBSET Children(n) /\ Inner(n) \in SUBSET Children(n) /\ S \subseteq Files
        /\ Inner(n) \subseteq D \ Files
    BY FilesAssumption DEF Inner, Children, Files
  <2>2. a \in Seq(S) /\ a \in Seq(0..Nodes) /\ b \in Seq(Inner(n)) /\ b \in Seq(0..Nodes)
    BY <1>2, <2>1, NamesAre
  <2> HIDE DEF a, b, S
  <2> QED
    BY <2>1, <2>2, SeqMonotonic
<1> HIDE DEF n, s, a, b
<1>9. OnTheWay(Nodes, parent, D, GrepOwn, GrepInside, << 0 >>, unreadable, found \o <<>>,
               (a \o b) \o s)
  BY <1>1, <1>2, <1>4, <1>6, GrepVisit
<1>10. (a \o b) \o s = files' \o todo'
  <2>0. a \in Seq(D) /\ b \in Seq(D) /\ s \in Seq(D)
    BY <1>2, <1>8
  <2> HIDE DEF D
  <2>1. (a \o b) \o s = a \o (b \o s)
    BY <2>0, ConcatAssociative
  <2>2. files' = a /\ todo' = b \o s
    BY <1>0
  <2> QED
    BY <2>1, <2>2
<1>11. GrepWay'
  <2>1. /\ GrepInside' = GrepInside /\ GrepOwn' = GrepOwn /\ parent' = parent
    BY <1>0, GrepSame DEF treeVars
  <2> QED
    BY <1>0, <1>7, <1>9, <1>10, <2>1 DEF GrepWay
<1>12. Files' = Files
  BY <1>0, GrepSame
<1>13. todo' \in Seq(D \ Files)
  BY <1>0, <1>2, <1>8, JoinedTo
<1> QED
  BY <1>0, <1>1, <1>8, <1>11, <1>12, <1>13 DEF GrepInv, Hit

\* A file is searched, skipped or disclosed.
LEMMA GrepVisitFile ==
  ASSUME TreeOk, GrepInv, request.op = "grep", VisitFile, ~unreadableTruncated'
  PROVE  GrepInv'
<1> DEFINE f == Head(files)
           t == Tail(files)
           s == t \o todo
           D == 0..Nodes
           limit == request.limit
<1>0. UNCHANGED <<treeVars, request>> /\ outcome = "none" /\ outcome' = "none"
      /\ files # <<>> /\ limit \in Nat \ {0}
  BY RequestIs DEF VisitFile
<1>a. ~unreadableTruncated
  BY DEF VisitFile, Disclose
<1>1. /\ 0 \notin unreadable /\ files \in Seq(Files) /\ todo \in Seq(D \ Files)
      /\ files \in Seq(D) /\ todo \in Seq(D)
      /\ found \in Seq(Hit) /\ Len(found) \in Nat /\ Len(found) < limit
      /\ GrepWay
  BY <1>0, <1>a, GrepGoesOn
<1>2. f \in Files /\ t \in Seq(Files) /\ f \in D /\ t \in Seq(D) /\ files = <<f>> \o t
  <2>1. f \in Files /\ t \in Seq(Files)
    BY <1>0, <1>1, HeadIs
  <2>2. f \in D /\ t \in Seq(D) /\ files = <<f>> \o t
    BY <1>0, <1>1, HeadIs
  <2> QED
    BY <2>1, <2>2
<1>3. f # 0
  BY <1>2 DEF Files
<1>4. PICK now \in {unreadable, unreadable \cup {f}} :
        /\ unreadable' = now
        /\ \/ f \notin selected /\ found' = found
           \/ now = unreadable \cup {f} /\ found' = found
           \/ kind[f] = "binary" /\ found' = found
           \/ f \in selected /\ kind[f] # "binary" /\ now = unreadable
              /\ found' = UpTo(found \o HitSeq(f), limit)
  BY DEF VisitFile, Disclose, GrepFile
<1> DEFINE x == Matches(now)[f]
           done == found \o x
<1>5. files \o todo = <<f>> \o s
  <2>1. <<f>> \in Seq(D)
    BY <1>2
  <2> HIDE DEF f, t
  <2>2. (<<f>> \o t) \o todo = <<f>> \o (t \o todo)
    BY <1>1, <1>2, <2>1, ConcatAssociative
  <2> QED
    BY <1>2, <2>2
<1>6. OnTheWay(Nodes, parent, D, GrepOwn, GrepInside, << 0 >>, unreadable, found, <<f>> \o s)
  BY <1>1, <1>5 DEF GrepWay
<1>7. f \notin unreadable
  <2>1. files \o todo \in Seq(D)
    BY <1>1, JoinedTo
  <2>2. files \o todo # <<>> /\ Head(files \o todo) = f
    BY <1>0, <1>1
  <2> QED
    BY <1>1, <2>1, <2>2, NextIsOpen DEF GrepWay
<1>8. Walked(now)[f] = <<>>
  BY <1>2 DEF Walked
<1>9. s \in Seq(D)
  BY <1>1, <1>2, JoinedTo
<1>10. x \in Seq(Hit)
  BY <1>2, MatchesAre
<1>11. found' = UpTo(done, limit) \/ (found' = done /\ Len(done) < limit)
  <2>1. kind[f] \in {"file", "binary"} /\ f \in 1..Nodes
    BY <1>2 DEF Files
  <2>2. x = <<>> \/ /\ x = HitSeq(f) /\ f \notin now /\ f \in selected /\ kind[f] = "file"
    BY <1>2 DEF Matches, Searched
  <2>3. (f \notin selected \/ f \in now \/ kind[f] = "binary") => x = <<>>
    BY <2>2
  <2>4. found \o <<>> = found
    BY <1>1, ConcatEmptySeq
  <2>5. f \in selected /\ f \notin now /\ kind[f] = "file" => x = HitSeq(f)
    BY <1>2 DEF Matches, Searched
  <2> HIDE DEF x
  <2>6. CASE found' = found /\ x = <<>>
    BY <1>1, <2>4, <2>6
  <2>7. CASE found' = UpTo(found \o HitSeq(f), limit) /\ x = HitSeq(f)
    <3>1. done = found \o HitSeq(f)
      BY <2>7
    <3> HIDE DEF done, f, limit
    <3> QED
      BY <2>7, <3>1
  <2> HIDE DEF f, limit, done
  <2> QED
    BY <1>4, <1>7, <2>1, <2>3, <2>5, <2>6, <2>7
<1>12. done \in Seq(Hit)
  BY <1>1, <1>10, JoinedTo
<1> HIDE DEF f, t, s, D, x, limit
<1>13. OnTheWay(Nodes, parent, D, GrepOwn, GrepInside, << 0 >>, now, done, <<>> \o s)
  BY <1>1, <1>2, <1>6, <1>8, <1>9, GrepVisit DEF D, x
<1>14. <<>> \o s = s
  BY <1>9, ConcatEmptySeq
<1> HIDE DEF done
<1>15. /\ found' \in Seq(Hit) /\ Len(found') <= limit /\ IsPrefix(found', Findable(now))
       /\ Len(found') < limit => found' = done
  BY <1>0, <1>9, <1>11, <1>12, <1>13, <1>14, GrepUpTo DEF D
<1>16. /\ GrepInside' = GrepInside /\ GrepOwn' = GrepOwn /\ parent' = parent
       /\ Findable(now)' = Findable(now') /\ request' = request /\ Files' = Files
  BY <1>0, GrepSame DEF treeVars
<1>17. Findable(unreadable)' = Findable(now)
  BY <1>0, <1>4, GrepSame
<1>18. Len(found') \in Nat
  BY <1>15
<1>19. CASE Len(found') < limit
  <2>1. ~(Len(found') >= limit)
    BY <1>0, <1>18, <1>19
  <2>2. files' = t /\ todo' = todo
    BY <2>1 DEF VisitFile, t, limit
  <2>3. GrepWay'
    BY <1>4, <1>13, <1>14, <1>15, <1>16, <1>19, <2>2 DEF GrepWay, D, s
  <2>4. files' \in Seq(Files) /\ todo' \in Seq((0..Nodes) \ Files)
    BY <1>1, <1>2, <2>2 DEF D
  <2>5. Len(found') # limit
    BY <1>0, <1>18, <1>19
  <2> QED
    BY <1>0, <1>1, <1>3, <1>4, <1>15, <1>16, <2>3, <2>4, <2>5 DEF GrepInv, Hit, limit
<1>20. CASE Len(found') = limit
  <2>1. Len(found') >= limit
    BY <1>0, <1>18, <1>20
  <2>2. files' = <<>> /\ todo' = <<>>
    BY <2>1 DEF VisitFile, limit
  <2>3. files' \in Seq(Files) /\ todo' \in Seq((0..Nodes) \ Files)
    BY <2>2
  <2>4. ~(Len(found') < limit)
    BY <1>0, <1>18, <1>20
  <2> QED
    BY <1>0, <1>1, <1>3, <1>4, <1>15, <1>16, <1>17, <2>2, <2>3, <2>4 DEF GrepInv, Hit, limit
<1> QED
  BY <1>0, <1>15, <1>18, <1>19, <1>20

\* Unless a grep has said that it left out what it could not read, it has found
\* what there is on its way, from its start to its end.
LEMMA GrepStep ==
  ASSUME TreeOk, Unstarted, GrepInv, [Next]_vars
  PROVE  GrepInv'
<1> SUFFICES ASSUME request'.op = "grep", outcome' \in {"none", "answered"}, ~unreadableTruncated'
             PROVE  GrepInv'
  BY DEF GrepInv
<1>0. UNCHANGED <<treeVars, request>> /\ request.op = "grep"
  BY DEF Next, LosePermission, Miss, Fails, Answer, StartGrep, WalkError, WalkDir,
     VisitFile, EndGrep, StartLs, LsEntry, EndLs, Read, vars
<1>a. request.limit \in Nat \ {0}
  BY <1>0, RequestIs
<1>1. /\ GrepInside' = GrepInside /\ GrepOwn' = GrepOwn /\ Files' = Files /\ parent' = parent
      /\ request' = request
      /\ \A V : Findable(V)' = Findable(V)
  BY <1>0, GrepSame DEF treeVars
<1>2. CASE StartGrep
  <2>1. todo' = << 0 >> /\ files' = <<>> /\ found' = <<>> /\ unreadable' = {} /\ outcome' = "none"
    BY <1>0, <1>2 DEF StartGrep, Unstarted
  <2>2. files' \o todo' = << 0 >>
    BY <2>1, ConcatEmptySeq
  <2>3. GrepWay'
    BY <1>1, <2>1, <2>2, GrepStarts DEF GrepWay
  <2>4. Len(found') = 0 /\ found' \in Seq(Hit)
    BY <2>1
  <2>5. files' \in Seq(Files) /\ todo' \in Seq((0..Nodes) \ Files)
    <3>1. 0 \in (0..Nodes) \ Files
      BY FilesAssumption DEF Files
    <3> QED
      BY <2>1, <3>1
  <2>6. Len(found') <= request.limit /\ Len(found') # request.limit
    BY <1>a, <2>4
  <2> QED
    BY <1>1, <2>1, <2>3, <2>4, <2>5, <2>6 DEF GrepInv, Hit
<1>3. CASE WalkError
  BY <1>0, <1>3, GrepWalkError
<1>4. CASE WalkDir
  BY <1>0, <1>4, GrepWalkDir
<1>5. CASE VisitFile
  BY <1>0, <1>5, GrepVisitFile
<1>6. CASE ~StartGrep /\ ~WalkError /\ ~WalkDir /\ ~VisitFile
  <2> DEFINE Stays == /\ UNCHANGED walkVars /\ outcome \in {"none", "answered"}
                      /\ outcome' = "answered" =>
                           outcome = "answered" \/ (files = <<>> /\ todo = <<>>)
  <2>1. LosePermission => Stays
    BY DEF LosePermission
  <2>2. EndGrep => Stays
    BY DEF EndGrep, Answer
  <2>3. ~Miss
    BY <1>0 DEF Miss, Fails
  <2>4. ~StartLs /\ ~LsEntry /\ ~EndLs
    BY <1>0 DEF StartLs, LsEntry, EndLs
  <2>5. ~Read
    <3>1. request \in Reads => request.op # "grep"
      BY FilesAssumption DEF ReadType
    <3> QED
      BY <1>0, <3>1 DEF Read
  <2>6. UNCHANGED vars => Stays
    BY DEF vars
  <2>7. Stays
    BY <1>6, <2>1, <2>2, <2>3, <2>4, <2>5, <2>6 DEF Next
  <2>8. /\ found' = found /\ todo' = todo /\ files' = files /\ unreadable' = unreadable
        /\ unreadableTruncated' = unreadableTruncated
    BY <2>7 DEF walkVars
  <2>9. GrepWay' <=> GrepWay
    BY <1>1, <2>8 DEF GrepWay
  <2>10. /\ 0 \notin unreadable
         /\ files \in Seq(Files) /\ todo \in Seq((0..Nodes) \ Files)
         /\ found \in Seq((1..Nodes) \X Nat) /\ Len(found) <= request.limit
         /\ Len(found) < request.limit =>
              GrepWay /\ (outcome = "answered" => files = <<>> /\ todo = <<>>)
         /\ Len(found) = request.limit =>
              IsPrefix(found, Findable(unreadable)) /\ files = <<>> /\ todo = <<>>
    BY <1>0, <2>7, <2>8 DEF GrepInv
  <2>11. Len(found) < request.limit /\ outcome' = "answered" => files = <<>> /\ todo = <<>>
    BY <2>7, <2>10
  <2> QED
    BY <1>1, <2>8, <2>9, <2>10, <2>11 DEF GrepInv
<1> QED
  BY <1>2, <1>3, <1>4, <1>5, <1>6

\* Every answer of a grep is honest.
LEMMA GrepAnswers ==
  ASSUME TreeOk, GrepInv
  PROVE  GrepIsHonest
<1> SUFFICES ASSUME request.op = "grep", outcome = "answered", ~unreadableTruncated
             PROVE  /\ 0 \notin unreadable
                    /\ IsPrefix(found, Findable(unreadable)) /\ Len(found) <= request.limit
                    /\ Len(found) < request.limit => found = Findable(unreadable)
  BY DEF GrepIsHonest
<1>1. /\ 0 \notin unreadable
      /\ found \in Seq(Hit) /\ Len(found) <= request.limit
      /\ Len(found) < request.limit => GrepWay /\ files = <<>> /\ todo = <<>>
      /\ Len(found) = request.limit => IsPrefix(found, Findable(unreadable))
  BY DEF GrepInv, Hit
<1>2. Len(found) \in Nat /\ request.limit \in Nat
  BY <1>1, RequestIs
<1>3. CASE Len(found) < request.limit
  <2>1. files = <<>> /\ todo = <<>> /\ GrepWay /\ <<>> \in Seq(0..Nodes)
    BY <1>1, <1>3
  <2>2. files \o todo = <<>>
    BY <2>1, ConcatEmptySeq
  <2>3. FoundOf(Hit, Findable(unreadable), found, <<>>)
    BY <1>1, <2>1, <2>2, GrepFound DEF GrepWay
  <2>4. found = Findable(unreadable)
    BY <2>3 DEF FoundOf
  <2>5. IsPrefix(found, Findable(unreadable))
    BY <1>1, <2>3, PrefixIs DEF FoundOf
  <2> QED
    BY <1>1, <2>4, <2>5
<1>4. CASE Len(found) = request.limit
  BY <1>1, <1>2, <1>4
<1> QED
  BY <1>1, <1>2, <1>3, <1>4

-------------------------------------------------------------------------------
(* The walks are honest *)

\* No step changes the tree or the request, and nothing was walked before the start.
LEMMA TreeStays ==
  ASSUME TreeOk, Unstarted, [Next]_vars
  PROVE  TreeOk' /\ Unstarted'
<1>1. UNCHANGED <<treeVars, request>>
  BY DEF Next, LosePermission, Miss, Fails, Answer, StartGrep, WalkError, WalkDir,
     VisitFile, EndGrep, StartLs, LsEntry, EndLs, Read, vars
<1>2. TreeOk'
  BY <1>1 DEF TreeOk, treeVars, Requests
<1>3. outcome' = "start" => UNCHANGED <<outcome, walkVars>>
  BY DEF Next, LosePermission, Miss, Fails, Answer, StartGrep, WalkError, WalkDir, Walking,
     VisitFile, EndGrep, StartLs, LsEntry, EndLs, Read, vars
<1>4. Unstarted'
  BY <1>3 DEF Unstarted, walkVars
<1> QED
  BY <1>2, <1>4

\* The inductive invariant of the walks.
LEMMA WalksFollow ==
  Spec => [](TreeOk /\ Unstarted /\ LsInv /\ GrepInv)
<1>1. Init => TreeOk /\ Unstarted /\ LsInv /\ GrepInv
  BY DEF Init, TreeOk, Unstarted, LsInv, GrepInv
<1>2. TreeOk /\ Unstarted /\ LsInv /\ GrepInv /\ [Next]_vars
        => (TreeOk /\ Unstarted /\ LsInv /\ GrepInv)'
  BY TreeStays, LsStep, GrepStep
<1> QED
  BY <1>1, <1>2, PTL DEF Spec

\* A grep that is answered lists every match it does not say it may have left
\* out, in the order of the walk, whatever became unreadable and whenever.
THEOREM GrepHonest == Spec => []GrepIsHonest
<1>1. TreeOk /\ Unstarted /\ LsInv /\ GrepInv => GrepIsHonest
  BY GrepAnswers
<1> QED
  BY <1>1, WalksFollow, PTL

\* An ls that is answered lists every name down to the depth but for what is in
\* the directories it says it could not list.
THEOREM LsHonest == Spec => []LsIsHonest
<1>1. TreeOk /\ Unstarted /\ LsInv /\ GrepInv => LsIsHonest
  BY LsAnswers
<1> QED
  BY <1>1, WalksFollow, PTL

===============================================================================
