---------------------------- MODULE ServeLoopProofs ----------------------------
(***************************************************************************)
(* What holds of the serve loop for every set of requests and scopes and   *)
(* every cap, whatever is lost, killed or left behind.  Serving says what  *)
(* a request in hand looks like, Disk ties the directories to the          *)
(* remembered scopes and counts the ones nothing remembers; the cap        *)
(* follows from the length of the remembered list.                         *)
(***************************************************************************)
EXTENDS ServeLoop, FiniteSetTheorems, SequenceTheorems, TLAPS

-------------------------------------------------------------------------------
(* The LRU operators *)

\* Taking one element out of a sequence loses that element only.
LEMMA RemoveAtProperties ==
  ASSUME NEW S, NEW d \in Seq(S), NEW i \in DOMAIN d
  PROVE  /\ RemoveAt(d, i) \in Seq(S) /\ Len(RemoveAt(d, i)) = Len(d) - 1
         /\ \A j \in 1..(Len(d) - 1) : RemoveAt(d, i)[j] = IF j < i THEN d[j] ELSE d[j+1]
         /\ ToSet(RemoveAt(d, i)) \cup {d[i]} = ToSet(d)
<1> DEFINE pre == SubSeq(d, 1, i-1)
           post == SubSeq(d, i+1, Len(d))
<1>1. /\ Len(d) \in Nat /\ DOMAIN d = 1..Len(d) /\ i \in 1..Len(d)
      /\ \A j \in 1..Len(d) : d[j] \in S
  BY LenProperties
<1>2. /\ pre \in Seq(S) /\ Len(pre) = i - 1
      /\ \A j \in 1..(i-1) : pre[j] = d[j]
  BY <1>1, SubSeqProperties
<1>3. /\ post \in Seq(S) /\ Len(post) = Len(d) - i
      /\ \A j \in 1..(Len(d) - i) : post[j] = d[i+j]
  BY <1>1, SubSeqProperties
<1> HIDE DEF pre, post
<1> DEFINE c == pre \o post
<1>4. /\ c \in Seq(S) /\ Len(c) = Len(pre) + Len(post)
      /\ \A j \in 1..(Len(pre) + Len(post)) :
           c[j] = IF j <= Len(pre) THEN pre[j] ELSE post[j - Len(pre)]
  BY <1>2, <1>3, ConcatProperties
<1>5. RemoveAt(d, i) = c
  BY DEF RemoveAt, pre, post
<1> HIDE DEF c
<1>6. DOMAIN c = 1..(Len(d) - 1) /\ Len(pre) + Len(post) = Len(d) - 1
  BY <1>1, <1>2, <1>3, <1>4, LenProperties
<1>7. ASSUME NEW j \in 1..(Len(d) - 1)
      PROVE  c[j] = IF j < i THEN d[j] ELSE d[j+1]
  <2>1. i \in Nat /\ j \in Nat
    BY <1>1
  <2>2. c[j] = IF j <= i - 1 THEN pre[j] ELSE post[j - (i - 1)]
    BY <1>2, <1>4, <1>6
  <2>3. CASE j < i
    BY <1>2, <2>1, <2>2, <2>3
  <2>4. CASE j >= i
    <3>1. j - (i - 1) \in 1..(Len(d) - i) /\ i + (j - (i - 1)) = j + 1
      BY <1>1, <2>1, <2>4
    <3>2. post[j - (i - 1)] = d[j+1]
      BY <1>3, <3>1
    <3> QED
      BY <2>1, <2>2, <2>4, <3>2
  <2> QED
    BY <2>1, <2>3, <2>4
<1>8. ToSet(c) \cup {d[i]} \subseteq ToSet(d)
  <2>1. ASSUME NEW j \in 1..(Len(d) - 1) PROVE \E k \in 1..Len(d) : c[j] = d[k]
    <3>1. j \in 1..Len(d) /\ j + 1 \in 1..Len(d)
      BY <1>1
    <3> QED
      BY <1>7, <3>1
  <2> QED
    BY <1>1, <1>6, <2>1 DEF ToSet
<1>9. ASSUME NEW j \in 1..Len(d), j # i PROVE \E k \in 1..(Len(d) - 1) : c[k] = d[j]
  <2>1. CASE j < i
    <3>1. j \in 1..(Len(d) - 1)
      BY <1>1, <2>1
    <3> QED
      BY <1>7, <2>1, <3>1
  <2>2. CASE j > i
    <3>1. j - 1 \in 1..(Len(d) - 1) /\ ~(j - 1 < i) /\ (j - 1) + 1 = j
      BY <1>1, <2>2
    <3>2. c[j - 1] = d[(j - 1) + 1]
      BY <1>7, <3>1
    <3> QED
      BY <3>1, <3>2
  <2> QED
    BY <1>1, <1>9, <2>1, <2>2
<1>10. ToSet(d) \subseteq ToSet(c) \cup {d[i]}
  BY <1>1, <1>6, <1>9 DEF ToSet
<1> QED
  BY <1>4, <1>5, <1>6, <1>7, <1>8, <1>10

\* Touching a scope adds it to the remembered ones.
LEMMA TouchProperties ==
  ASSUME NEW S, NEW d \in Seq(S), NEW s \in S
  PROVE  Touch(d, s) \in Seq(S) /\ ToSet(Touch(d, s)) = ToSet(d) \cup {s}
<1>1. PopKey(d, s) \in Seq(S) /\ ToSet(PopKey(d, s)) \cup {s} = ToSet(d) \cup {s}
  <2>1. CASE s \in ToSet(d)
    <3> DEFINE i == CHOOSE i \in DOMAIN d : d[i] = s
    <3>1. i \in DOMAIN d /\ d[i] = s
      BY <2>1 DEF ToSet
    <3>2. PopKey(d, s) = RemoveAt(d, i)
      BY <2>1 DEF PopKey
    <3> HIDE DEF i
    <3> QED
      BY <3>1, <3>2, RemoveAtProperties
  <2>2. CASE s \notin ToSet(d)
    BY <2>2 DEF PopKey
  <2> QED
    BY <2>1, <2>2
<1> DEFINE p == PopKey(d, s)
<1> HIDE DEF p
<1>2. /\ Append(p, s) \in Seq(S) /\ Len(Append(p, s)) = Len(p) + 1 /\ Len(p) \in Nat
      /\ \A j \in 1..Len(p) : Append(p, s)[j] = p[j]
      /\ Append(p, s)[Len(p) + 1] = s
      /\ DOMAIN p = 1..Len(p) /\ DOMAIN Append(p, s) = 1..(Len(p) + 1)
  BY <1>1, AppendProperties, LenProperties DEF p
<1>3. ToSet(Append(p, s)) = ToSet(p) \cup {s}
  BY <1>2 DEF ToSet
<1> QED
  BY <1>1, <1>2, <1>3 DEF Touch, p

\* Eviction leaves at most MaxScopes of the remembered scopes.
LEMMA EvictProperties ==
  ASSUME NEW S, NEW d \in Seq(S)
  PROVE  /\ Evict(d) \in Seq(S)
         /\ Len(Evict(d)) <= MaxScopes
         /\ ToSet(Evict(d)) \subseteq ToSet(d)
<1> DEFINE m == IF Len(d) > MaxScopes THEN Len(d) - MaxScopes + 1 ELSE 1
           e == SubSeq(d, m, Len(d))
<1>1. /\ Len(d) \in Nat /\ DOMAIN d = 1..Len(d) /\ \A j \in 1..Len(d) : d[j] \in S
  BY LenProperties
<1>2. MaxScopes \in Nat
  BY ServeAssumption
<1>3. m \in Nat /\ m >= 1 /\ Len(d) - m + 1 <= MaxScopes /\ m <= Len(d) + 1
  BY <1>1, <1>2
<1> HIDE DEF m
<1>4. /\ e \in Seq(S) /\ Len(e) = (IF m <= Len(d) THEN Len(d) - m + 1 ELSE 0)
      /\ \A j \in 1..(Len(d) - m + 1) : e[j] = d[m + j - 1]
  BY <1>1, <1>3, SubSeqProperties
<1> HIDE DEF e
<1>5. DOMAIN e = 1..Len(e) /\ Len(e) = Len(d) - m + 1
  BY <1>1, <1>3, <1>4, LenProperties
<1>6. ToSet(e) \subseteq ToSet(d)
  <2> SUFFICES ASSUME NEW j \in 1..Len(e) PROVE e[j] \in ToSet(d)
    BY <1>5 DEF ToSet
  <2>1. e[j] = d[m + j - 1] /\ m + j - 1 \in 1..Len(d)
    BY <1>1, <1>3, <1>4, <1>5
  <2> QED
    BY <1>1, <2>1 DEF ToSet
<1>7. Evict(d) = e
  BY DEF Evict, e, m
<1> QED
  BY <1>2, <1>3, <1>4, <1>5, <1>6, <1>7

\* A sequence has no more elements than places.
LEMMA ToSetIsSmall ==
  ASSUME NEW S, NEW d \in Seq(S)
  PROVE  IsFiniteSet(ToSet(d)) /\ Cardinality(ToSet(d)) <= Len(d)
<1>1. Len(d) \in Nat /\ DOMAIN d = 1..Len(d) /\ d \in [1..Len(d) -> S]
  BY LenProperties
<1>2. d \in Surjection(1..Len(d), ToSet(d))
  BY <1>1 DEF Surjection, ToSet
<1>3. IsFiniteSet(1..Len(d)) /\ Cardinality(1..Len(d)) = Len(d)
  BY <1>1, FS_Interval
<1> QED
  BY <1>2, <1>3, FS_Surjection

-------------------------------------------------------------------------------
(* Types, and the request in hand *)

\* A request in hand is one of the relay's; it reaches the disk, and is reported
\* as executed, only with a safe scope id; a result is there when it is posted.
Serving ==
  /\ pc \in {"got", "run", "retain", "post"} => req \in Requests
  /\ pc \in {"run", "retain"} => Scope \in Scopes
  /\ pc \in {"retain", "post"} => payload \in {"ok", "failed"}
  /\ pc = "post" /\ payload = "ok" => Scope \in Scopes
  /\ \A r \in Requests : relay[r] = "ok" => ScopeOf[r] \in Scopes
  /\ dirs \subseteq Scopes

SInv == TypeOK /\ Serving

LEMMA ScopeTypes ==
  /\ \A r \in Requests : ScopeOf[r] \in Scopes \cup {Unsafe}
  /\ \A r \in Requests : IsSafeScopeId(ScopeOf[r]) <=> ScopeOf[r] \in Scopes
  /\ Unsafe \notin Scopes
  /\ MaxTokens \in Nat /\ MaxTokens > 0 /\ MaxFaults \in Nat /\ MaxScopes \in Nat
BY ServeAssumption DEF IsSafeScopeId

LEMMA InitSInv == Init => SInv
<1> SUFFICES ASSUME Init PROVE SInv
  OBVIOUS
<1>1. scopes \in Seq(Scopes) /\ recency \in Seq(Scopes)
  BY DEF Init
<1>2. relay \in [Requests -> {"queued", "leased", "ok", "failed"}]
  BY DEF Init
<1>3. TypeOK
  BY <1>1, <1>2, ScopeTypes DEF Init, TypeOK
<1>4. Serving
  BY DEF Init, Serving
<1> QED
  BY <1>3, <1>4 DEF SInv

\* An iteration that ends without touching the disk or the relay's answers.
LEMMA NextIterationSInv ==
  ASSUME SInv, NEW where \in {"poll", "sleep", "raised"}, NextIteration(where),
         mode' = mode,
         relay' \in [Requests -> {"queued", "leased", "ok", "failed"}],
         \A r \in Requests : relay'[r] = "ok" => ScopeOf[r] \in Scopes,
         scopes' \in Seq(Scopes), recency' \in Seq(Scopes),
         dirs' \in SUBSET dirs, leaks' \in Nat,
         tokenFile' = tokenFile, valid' = valid,
         faults' \in 0..MaxFaults
  PROVE  SInv'
<1>1. /\ pc' = where /\ req' = None /\ payload' = None /\ token' = 0
  BY DEF NextIteration
<1>2. TypeOK'
  BY <1>1, ScopeTypes DEF SInv, TypeOK
<1>3. Serving'
  BY <1>1 DEF SInv, Serving
<1> QED
  BY <1>2, <1>3 DEF SInv

LEMMA RetainSInv ==
  ASSUME SInv, NEW left, Retain(left), leaks' \in Nat, faults' \in 0..MaxFaults
  PROVE  SInv'
<1>1. /\ Scope \in Scopes /\ req \in Requests /\ payload \in {"ok", "failed"}
      /\ scopes \in Seq(Scopes) /\ recency \in Seq(Scopes)
  BY DEF Retain, SInv, TypeOK, Serving
<1>2. recency' \in Seq(Scopes)
  BY <1>1, TouchProperties DEF Retain
<1>3. scopes' \in Seq(Scopes)
  <2>1. Touch(scopes, Scope) \in Seq(Scopes)
    BY <1>1, TouchProperties
  <2>2. Evict(Touch(scopes, Scope)) \in Seq(Scopes)
    BY <2>1, EvictProperties
  <2> QED
    BY <1>1, <2>2 DEF Retain
<1>4. /\ pc' = "post" /\ dirs' \subseteq dirs
      /\ UNCHANGED <<mode, req, payload, token, tokenFile, valid, relay>>
  BY DEF Retain, envVars
<1> QED
  BY <1>1, <1>2, <1>3, <1>4 DEF SInv, TypeOK, Serving, Scope

LEMMA RoomIsNat == SInv => Room \in Nat
BY ScopeTypes DEF SInv, TypeOK, Room, Cap

LEMMA LoopSInv == SInv /\ Loop => SInv'
<1> SUFFICES ASSUME SInv, Loop PROVE SInv'
  OBVIOUS
<1>0. /\ scopes \in Seq(Scopes) /\ recency \in Seq(Scopes) /\ faults \in 0..MaxFaults
      /\ relay \in [Requests -> {"queued", "leased", "ok", "failed"}]
      /\ \A r \in Requests : relay[r] = "ok" => ScopeOf[r] \in Scopes
      /\ dirs \in SUBSET Scopes /\ leaks \in Nat
  BY DEF SInv, TypeOK, Serving
<1>1. CASE PollNoToken \/ PollRefused \/ PollIdle \/ PostRefused
  <2>1. /\ \E where \in {"poll", "sleep"} : NextIteration(where)
        /\ UNCHANGED <<mode, scopes, dirs, recency, leaks, tokenFile, valid, relay, faults>>
    BY <1>1 DEF PollNoToken, PollRefused, PollIdle, PostRefused, diskVars, envVars
  <2> QED
    BY <1>0, <2>1, NextIterationSInv
<1>2. CASE PollRequest
  <2>1. PICK r \in Requests : relay' = [relay EXCEPT ![r] = "leased"] /\ req' = r
    BY <1>2 DEF PollRequest
  <2>2. /\ relay' \in [Requests -> {"queued", "leased", "ok", "failed"}]
        /\ \A q \in Requests : relay'[q] = "ok" => ScopeOf[q] \in Scopes
    BY <1>0, <2>1
  <2>3. /\ pc' = "got" /\ token' = tokenFile
        /\ UNCHANGED <<mode, payload, scopes, dirs, recency, leaks, tokenFile, valid, faults>>
    BY <1>2 DEF PollRequest, diskVars, envVars
  <2> QED
    BY <2>1, <2>2, <2>3 DEF SInv, TypeOK, Serving
<1>3. CASE Wake
  BY <1>3 DEF Wake, diskVars, envVars, SInv, TypeOK, Serving, Scope
<1>4. CASE RefuseScope
  BY <1>4 DEF RefuseScope, diskVars, envVars, SInv, TypeOK, Serving, Scope
<1>5. CASE MakeScope
  <2>1. Scope \in Scopes /\ req \in Requests
    BY <1>5, ScopeTypes DEF MakeScope, Scope, SInv, Serving
  <2> QED
    BY <1>5, <2>1 DEF MakeScope, envVars, SInv, TypeOK, Serving, Scope
<1>6. CASE RunRequest
  BY <1>6 DEF RunRequest, diskVars, envVars, SInv, TypeOK, Serving, Scope
<1>7. CASE RetainOrWipe
  <2>1. Retain({}) /\ leaks' = leaks /\ faults' = faults
    BY <1>7 DEF RetainOrWipe
  <2> QED
    BY <1>0, <2>1, RetainSInv
<1>8. CASE PostResult
  <2>1. /\ req \in Requests /\ payload \in {"ok", "failed"}
        /\ payload = "ok" => ScopeOf[req] \in Scopes
    BY <1>8 DEF PostResult, SInv, Serving, Scope
  <2>2. /\ NextIteration("poll")
        /\ relay' = [relay EXCEPT ![req] = IF relay[req] \in {"ok", "failed"}
                                            THEN relay[req] ELSE payload]
        /\ UNCHANGED <<mode, scopes, dirs, recency, leaks, tokenFile, valid, faults>>
    BY <1>8 DEF PostResult, diskVars, envVars
  <2>3. /\ relay' \in [Requests -> {"queued", "leased", "ok", "failed"}]
        /\ \A q \in Requests : relay'[q] = "ok" => ScopeOf[q] \in Scopes
    BY <1>0, <2>1, <2>2
  <2> QED
    BY <1>0, <2>2, <2>3, NextIterationSInv
<1>9. ASSUME FreshProcess, faults' \in 0..MaxFaults PROVE SInv'
  <2>1. /\ NextIteration("poll") /\ scopes' = << >> /\ recency' = << >> /\ dirs' \subseteq dirs
        /\ leaks' \in Nat
        /\ UNCHANGED <<mode, tokenFile, valid, relay>>
    BY <1>0, <1>9, RoomIsNat DEF FreshProcess, envVars
  <2>2. << >> \in Seq(Scopes)
    OBVIOUS
  <2> QED
    BY <1>0, <1>9, <2>1, <2>2, NextIterationSInv
<1>10. CASE Restart
  BY <1>0, <1>9, <1>10 DEF Restart
<1> QED
  BY <1>1, <1>2, <1>3, <1>4, <1>5, <1>6, <1>7, <1>8, <1>10 DEF Loop

LEMMA NextSInv == SInv /\ [Next]_vars => SInv'
<1> SUFFICES ASSUME SInv, [Next]_vars PROVE SInv'
  OBVIOUS
<1>0. /\ scopes \in Seq(Scopes) /\ recency \in Seq(Scopes) /\ faults \in 0..MaxFaults
      /\ relay \in [Requests -> {"queued", "leased", "ok", "failed"}]
      /\ \A r \in Requests : relay[r] = "ok" => ScopeOf[r] \in Scopes
      /\ leaks \in Nat
  BY DEF SInv, TypeOK, Serving
<1>1. ASSUME Fault PROVE faults' \in 0..MaxFaults
  BY <1>0, <1>1, ScopeTypes DEF Fault
<1>2. CASE PollLost
  <2>1. /\ NextIteration("sleep") /\ faults' \in 0..MaxFaults
        /\ UNCHANGED <<mode, scopes, dirs, recency, leaks, tokenFile, valid>>
    BY <1>1, <1>2 DEF PollLost, diskVars, envVars
  <2>2. /\ relay' \in [Requests -> {"queued", "leased", "ok", "failed"}]
        /\ \A r \in Requests : relay'[r] = "ok" => ScopeOf[r] \in Scopes
    <3>1. CASE UNCHANGED relay
      BY <1>0, <3>1
    <3>2. CASE \E q \in Requests : relay' = [relay EXCEPT ![q] = "leased"]
      BY <1>0, <3>2
    <3> QED
      BY <1>2, <3>1, <3>2 DEF PollLost
  <2> QED
    BY <1>0, <2>1, <2>2, NextIterationSInv
<1>3. CASE MakeScopeFails \/ PostLost
  <2>1. /\ \E where \in {"poll", "raised"} : NextIteration(where)
        /\ faults' \in 0..MaxFaults
        /\ UNCHANGED <<mode, scopes, dirs, recency, leaks, tokenFile, valid, relay>>
    BY <1>1, <1>3 DEF MakeScopeFails, PostLost, diskVars, envVars
  <2> QED
    BY <1>0, <2>1, NextIterationSInv
<1>4. CASE Kill
  <2>1. /\ NextIteration("poll") /\ scopes' = << >> /\ recency' = << >> /\ dirs' \subseteq dirs
        /\ leaks' \in Nat
        /\ UNCHANGED <<mode, tokenFile, valid, relay>> /\ faults' \in 0..MaxFaults
    BY <1>0, <1>1, <1>4, RoomIsNat DEF Kill, FreshProcess, envVars
  <2>2. << >> \in Seq(Scopes)
    OBVIOUS
  <2> QED
    BY <1>0, <2>1, <2>2, NextIterationSInv
<1>5. CASE RotateToken \/ HideTokenFile \/ RefreshTokenFile
  <2>1. /\ UNCHANGED <<mode, pc, req, payload, token, scopes, dirs, recency, leaks, relay>>
        /\ faults' \in 0..MaxFaults
    BY <1>0, <1>1, <1>5 DEF RotateToken, HideTokenFile, RefreshTokenFile, diskVars
  <2>2. tokenFile' \in 0..MaxTokens /\ valid' \in 1..MaxTokens
    BY <1>5, ScopeTypes DEF RotateToken, HideTokenFile, RefreshTokenFile, SInv, TypeOK
  <2> QED
    BY <2>1, <2>2 DEF SInv, TypeOK, Serving, Scope
<1>6. ASSUME NEW r \in Requests, LeaseExpires(r) PROVE SInv'
  <2>1. /\ relay' \in [Requests -> {"queued", "leased", "ok", "failed"}]
        /\ \A q \in Requests : relay'[q] = "ok" => ScopeOf[q] \in Scopes
    BY <1>0, <1>6 DEF LeaseExpires
  <2> QED
    BY <1>6, <2>1 DEF LeaseExpires, diskVars, envVars, SInv, TypeOK, Serving, Scope
<1>7. CASE UNCHANGED vars
  BY <1>7 DEF vars, diskVars, envVars, SInv, TypeOK, Serving, Scope
<1>8. CASE WipeFails
  <2>1. PICK s \in Due : Retain({s})
    BY <1>8 DEF WipeFails
  <2>2. leaks' \in Nat /\ faults' \in 0..MaxFaults
    BY <1>0, <1>1, <1>8 DEF WipeFails
  <2> QED
    BY <2>1, <2>2, RetainSInv
<1> QED
  BY <1>2, <1>3, <1>4, <1>5, <1>6, <1>7, <1>8, LoopSInv DEF Next, Failures, Surroundings

\* Whatever fails, and on any pod: every variable keeps its type, an unsafe
\* scope id never becomes a directory and its request is never reported as
\* executed.
THEOREM UnsafeNeverServed == Spec => [](TypeOK /\ UnsafeRefused)
<1>1. SInv => TypeOK /\ UnsafeRefused
  BY ScopeTypes DEF SInv, Serving, UnsafeRefused
<1> QED
  BY <1>1, InitSInv, NextSInv, PTL DEF Spec

-------------------------------------------------------------------------------
(* The directories *)

\* The orphans are the directories that outlived a wipe or a process, and what
\* is remembered is on disk.
Disk ==
  /\ DiskIsRemembered
  /\ Len(scopes) <= MaxScopes
  /\ IsFiniteSet(Orphans) /\ Cardinality(Orphans) <= leaks

\* What retaining a scope does to the disk: the scopes due are forgotten, and
\* the ones that outlive their wipe become orphans.
LEMMA RetainDisk ==
  ASSUME SInv, DiskIsRemembered, NEW left, left \subseteq Due, Retain(left)
  PROVE  /\ Len(scopes') <= MaxScopes \/ mode # "stateful"
         /\ DiskIsRemembered'
         /\ Due \subseteq Remembered
         /\ Remembered' = Remembered \ Due
         /\ Orphans' = Orphans \cup left
<1>1. /\ Scope \in Scopes /\ scopes \in Seq(Scopes) /\ mode' = mode
      /\ InFlight /\ ~InFlight' /\ dirs' = dirs \ (Due \ left)
      /\ Remembered \subseteq dirs
  BY DEF Retain, SInv, TypeOK, Serving, DiskIsRemembered, InFlight
<1>2. CASE mode # "stateful"
  <2>1. scopes' = scopes /\ Remembered = {Scope} /\ Due = {Scope} /\ Remembered' = {}
    BY <1>1, <1>2 DEF Retain, Remembered, Due
  <2> QED
    BY <1>1, <1>2, <2>1 DEF DiskIsRemembered, Orphans
<1>3. CASE mode = "stateful"
  <2> DEFINE touched == Touch(scopes, Scope)
  <2>1. touched \in Seq(Scopes) /\ ToSet(touched) = ToSet(scopes) \cup {Scope}
    BY <1>1, TouchProperties
  <2>2. scopes' = Evict(touched) /\ Due = ToSet(touched) \ ToSet(Evict(touched))
    BY <1>3 DEF Retain, Due
  <2> HIDE DEF touched
  <2>3. ToSet(Evict(touched)) \subseteq ToSet(touched) /\ Len(scopes') <= MaxScopes
    BY <2>1, <2>2, EvictProperties
  <2>4. Remembered = ToSet(touched)
    BY <1>1, <1>3, <2>1 DEF Remembered
  <2>5. Remembered' = ToSet(Evict(touched))
    <3>1. Remembered' = ToSet(scopes')
      BY <1>1, <1>3 DEF Remembered, ToSet
    <3> QED
      BY <2>2, <3>1
  <2> QED
    BY <1>1, <2>2, <2>3, <2>4, <2>5 DEF DiskIsRemembered, Orphans
<1> QED
  BY <1>2, <1>3

LEMMA RetainOrWipeDisk ==
  ASSUME SInv, Disk, RetainOrWipe \/ WipeFails
  PROVE  Disk'
<1>1. CASE RetainOrWipe
  <2>1. Retain({}) /\ leaks' = leaks
    BY <1>1 DEF RetainOrWipe
  <2>2. DiskIsRemembered' /\ Orphans' = Orphans /\ (Len(scopes') <= MaxScopes \/ mode # "stateful")
    BY <2>1, RetainDisk DEF Disk
  <2>3. Len(scopes') <= MaxScopes
    BY <2>1, <2>2 DEF Retain, Disk
  <2> QED
    BY <2>1, <2>2, <2>3 DEF Disk
<1>2. CASE WipeFails
  <2>1. PICK s \in Due : Retain({s})
    BY <1>2 DEF WipeFails
  <2>2. leaks' = leaks + 1 /\ leaks \in Nat
    BY <1>2 DEF WipeFails, SInv, TypeOK
  <2>3. /\ DiskIsRemembered' /\ Orphans' = Orphans \cup {s}
        /\ (Len(scopes') <= MaxScopes \/ mode # "stateful")
    BY <2>1, RetainDisk DEF Disk
  <2>4. Len(scopes') <= MaxScopes
    BY <2>1, <2>3 DEF Retain, Disk
  <2>5. IsFiniteSet(Orphans) /\ Cardinality(Orphans) \in Nat /\ Cardinality(Orphans) <= leaks
    BY FS_CardinalityType DEF Disk
  <2>6. /\ IsFiniteSet(Orphans \cup {s})
        /\ Cardinality(Orphans \cup {s}) \in {Cardinality(Orphans), Cardinality(Orphans) + 1}
    BY <2>5, FS_AddElement
  <2>7. IsFiniteSet(Orphans') /\ Cardinality(Orphans') <= leaks'
    BY <2>2, <2>3, <2>5, <2>6
  <2> QED
    BY <2>3, <2>4, <2>7 DEF Disk
<1> QED
  BY <1>1, <1>2

\* The cap is a cap on the remembered scopes, hence on the directories.
LEMMA RememberedIsBounded ==
  ASSUME SInv, Len(scopes) <= MaxScopes
  PROVE  IsFiniteSet(Remembered) /\ Cardinality(Remembered) \in Nat /\ Cardinality(Remembered) <= Room
<1> DEFINE kept == IF mode = "stateful" THEN ToSet(scopes) ELSE {}
<1>1. /\ scopes \in Seq(Scopes) /\ MaxScopes \in Nat /\ Len(scopes) \in Nat
  BY ScopeTypes DEF SInv, TypeOK
<1>2. IsFiniteSet(kept) /\ Cardinality(kept) \in Nat /\ Cardinality(kept) <= Cap
  <2>1. CASE mode = "stateful"
    <3>1. IsFiniteSet(ToSet(scopes)) /\ Cardinality(ToSet(scopes)) <= Len(scopes)
      BY <1>1, ToSetIsSmall
    <3>2. Cardinality(ToSet(scopes)) \in Nat
      BY <3>1, FS_CardinalityType
    <3> QED
      BY <1>1, <2>1, <3>1, <3>2 DEF Cap
  <2>2. CASE mode # "stateful"
    BY <2>2, FS_EmptySet DEF Cap
  <2> QED
    BY <2>1, <2>2
<1>3. Cap \in Nat
  BY <1>1 DEF Cap
<1> HIDE DEF kept
<1>4. CASE InFlight
  <2>1. Remembered = kept \cup {Scope}
    BY <1>4 DEF Remembered, kept
  <2>2. /\ IsFiniteSet(Remembered)
        /\ Cardinality(Remembered) \in {Cardinality(kept), Cardinality(kept) + 1}
    BY <1>2, <2>1, FS_AddElement
  <2> QED
    BY <1>2, <1>3, <1>4, <2>2 DEF Room
<1>5. CASE ~InFlight
  <2>1. Remembered = kept
    BY <1>5 DEF Remembered, kept
  <2> QED
    BY <1>2, <1>3, <1>5, <2>1 DEF Room
<1> QED
  BY <1>4, <1>5

LEMMA DiskIsBounded == ASSUME SInv, Disk PROVE IsFiniteSet(dirs) /\ WarmBounded
<1>1. IsFiniteSet(Remembered) /\ Cardinality(Remembered) \in Nat /\ Cardinality(Remembered) <= Room
  BY RememberedIsBounded DEF Disk
<1>2. IsFiniteSet(Orphans) /\ Cardinality(Orphans) \in Nat /\ Cardinality(Orphans) <= leaks
  BY FS_CardinalityType DEF Disk
<1>3. dirs = Remembered \cup Orphans /\ Remembered \cap Orphans = {}
  BY DEF Disk, DiskIsRemembered, Orphans
<1>4. IsFiniteSet(dirs) /\ Cardinality(dirs) = Cardinality(Remembered) + Cardinality(Orphans)
  <2>1. Cardinality({}) = 0
    BY FS_EmptySet
  <2>2. IsFiniteSet(Remembered \cup Orphans)
        /\ Cardinality(Remembered \cup Orphans)
             = Cardinality(Remembered) + Cardinality(Orphans) - Cardinality(Remembered \cap Orphans)
    BY <1>1, <1>2, FS_Union
  <2>3. IsFiniteSet(dirs)
        /\ Cardinality(dirs) = Cardinality(Remembered) + Cardinality(Orphans) - Cardinality({})
    <3> HIDE DEF Remembered, Orphans
    <3> QED
      BY <1>3, <2>2
  <2> QED
    BY <1>1, <1>2, <2>1, <2>3
<1>5. Room \in Nat /\ leaks \in Nat
  BY RoomIsNat DEF SInv, TypeOK
<1> QED
  BY <1>1, <1>2, <1>4, <1>5 DEF WarmBounded

\* A new process remembers nothing: what it finds is what the last one could hold.
LEMMA FreshProcessDisk ==
  ASSUME SInv, Disk, FreshProcess
  PROVE  Disk'
<1>1. scopes' = << >> /\ pc' = "poll" /\ dirs' \in {dirs, {}}
  BY DEF FreshProcess, NextIteration
<1>2. ToSet(<< >>) = {} /\ Len(<< >>) = 0
  BY DEF ToSet
<1>3. Remembered' = {} /\ Orphans' = dirs'
  <2>1. ~InFlight'
    BY <1>1 DEF InFlight
  <2>2. ToSet(scopes') = {}
    BY <1>1, <1>2
  <2>3. Remembered' = {}
    BY <2>1, <2>2 DEF Remembered, ToSet
  <2> QED
    BY <2>3 DEF Orphans
<1>4. IsFiniteSet(dirs') /\ Cardinality(dirs') <= leaks'
  <2>1. CASE dirs' = {}
    BY <2>1, FS_EmptySet DEF FreshProcess
  <2>2. CASE dirs' # {}
    <3>1. dirs' = dirs /\ leaks' = leaks + Room
      BY <1>1, <2>2 DEF FreshProcess
    <3>2. IsFiniteSet(dirs) /\ Cardinality(dirs) <= Room + leaks
      BY DiskIsBounded DEF WarmBounded
    <3>3. Room \in Nat /\ leaks \in Nat /\ Cardinality(dirs) \in Nat
      BY <3>2, RoomIsNat, FS_CardinalityType DEF SInv, TypeOK
    <3> QED
      BY <3>1, <3>2, <3>3
  <2> QED
    BY <2>1, <2>2
<1> QED
  BY <1>1, <1>2, <1>3, <1>4, ScopeTypes DEF Disk, DiskIsRemembered

\* A request's directory is made: it is remembered, and no orphan if it was one.
LEMMA MakeScopeDisk ==
  ASSUME SInv, Disk, MakeScope
  PROVE  /\ Disk'
         /\ Remembered' = Remembered \cup {Scope}
         /\ Orphans' = Orphans \ {Scope}
<1>1. /\ mode' = mode /\ scopes' = scopes /\ leaks' = leaks /\ req' = req
      /\ dirs' = dirs \cup {Scope} /\ ~InFlight /\ InFlight'
  BY DEF MakeScope, InFlight
<1>2. Remembered' = Remembered \cup {Scope}
  BY <1>1 DEF Remembered, Scope
<1>3. Orphans' = Orphans \ {Scope}
  BY <1>1, <1>2 DEF Orphans
<1>4. IsFiniteSet(Orphans \ {Scope}) /\ Cardinality(Orphans \ {Scope}) <= Cardinality(Orphans)
  <2>1. Orphans \ {Scope} \subseteq Orphans
    OBVIOUS
  <2> QED
    BY <2>1, FS_Subset DEF Disk
<1>5. Cardinality(Orphans \ {Scope}) <= leaks
  <2>1. Cardinality(Orphans \ {Scope}) \in Nat /\ Cardinality(Orphans) \in Nat
    BY <1>4, FS_CardinalityType DEF Disk
  <2> QED
    BY <1>4, <2>1 DEF Disk, SInv, TypeOK
<1>6. Remembered' \subseteq dirs'
  BY <1>1, <1>2 DEF Disk, DiskIsRemembered
<1> QED
  BY <1>1, <1>2, <1>3, <1>4, <1>5, <1>6 DEF Disk, DiskIsRemembered

LEMMA NextDisk ==
  ASSUME SInv, Disk, [Next]_vars
  PROVE  Disk'
<1>1. ASSUME UNCHANGED <<mode, scopes, dirs, leaks>>, ~InFlight, ~InFlight' PROVE Disk'
  BY <1>1 DEF Disk, DiskIsRemembered, Remembered, Orphans
<1>2. ASSUME UNCHANGED <<mode, scopes, dirs, leaks, req>>, InFlight <=> InFlight' PROVE Disk'
  BY <1>2 DEF Disk, DiskIsRemembered, Remembered, Orphans, Scope
<1>3. ASSUME NEW where \in {"poll", "sleep", "raised"}, NextIteration(where) PROVE ~InFlight'
  BY <1>3 DEF NextIteration, InFlight
<1>4. CASE PollNoToken \/ PollRefused \/ PollLost \/ PollIdle
  BY <1>1, <1>3, <1>4
     DEF PollNoToken, PollRefused, PollLost, PollIdle, diskVars, InFlight
<1>5. CASE PollRequest \/ Wake \/ RefuseScope
  BY <1>1, <1>5 DEF PollRequest, Wake, RefuseScope, diskVars, InFlight
<1>6. CASE MakeScope
  BY <1>6, MakeScopeDisk
<1>7. CASE RunRequest
  BY <1>2, <1>7 DEF RunRequest, diskVars, InFlight
<1>8. CASE RetainOrWipe \/ WipeFails
  BY <1>8, RetainOrWipeDisk
<1>9. CASE PostResult \/ PostRefused \/ PostLost \/ MakeScopeFails
  BY <1>1, <1>3, <1>9
     DEF PostResult, PostRefused, PostLost, MakeScopeFails, diskVars, InFlight
<1>10. CASE Restart \/ Kill
  BY <1>10, FreshProcessDisk DEF Restart, Kill
<1>11. CASE Surroundings
  BY <1>2, <1>11
     DEF Surroundings, RotateToken, HideTokenFile, RefreshTokenFile, LeaseExpires, diskVars, InFlight
<1>12. CASE UNCHANGED vars
  BY <1>2, <1>12 DEF vars, diskVars, InFlight
<1> QED
  BY <1>4, <1>5, <1>6, <1>7, <1>8, <1>9, <1>10, <1>11, <1>12 DEF Next, Loop, Failures

LEMMA InitDisk == Init => Disk
<1> SUFFICES ASSUME Init PROVE Disk
  OBVIOUS
<1>1. scopes = << >> /\ dirs = {} /\ pc = "poll" /\ leaks = 0
  BY DEF Init
<1>2. ToSet(<< >>) = {} /\ Len(<< >>) = 0
  BY DEF ToSet
<1>3. Remembered = {} /\ Orphans = {}
  BY <1>1, <1>2 DEF Remembered, Orphans, InFlight
<1> QED
  BY <1>1, <1>2, <1>3, ScopeTypes, FS_EmptySet DEF Disk, DiskIsRemembered

\* No remembered scope is ever missing from the disk, and the disk holds at most
\* max_stateful_scopes directories between requests, one more during one, one
\* more for each failed wipe and a pod's worth for each restart over it: for
\* every cap, order of requests and failure.
THEOREM WarmScopesBounded == Spec => [](DiskIsRemembered /\ WarmBounded)
<1>1. Init => SInv /\ Disk
  BY InitSInv, InitDisk
<1>2. SInv /\ Disk /\ [Next]_vars => SInv' /\ Disk'
  BY NextSInv, NextDisk
<1>3. SInv /\ Disk => DiskIsRemembered /\ WarmBounded
  BY DiskIsBounded DEF Disk
<1> QED
  BY <1>1, <1>2, <1>3, PTL DEF Spec

-------------------------------------------------------------------------------
(* The token *)

\* A post is refused only while the token file itself is missing or behind:
\* a rotation during the request never costs the result.
THEOREM RotationIsHarmless == Spec => NoResultLostToRotation
<1>1. SInv /\ [Next]_vars =>
        [ /\ pc = "post" /\ pc' = "poll"
          /\ relay' = relay /\ relay[req] \notin {"ok", "failed"}
          /\ faults' = faults
          => tokenFile # valid ]_vars
  <2> SUFFICES ASSUME SInv, Next, pc = "post", pc' = "poll", relay' = relay,
                      relay[req] \notin {"ok", "failed"}, faults' = faults,
                      tokenFile = valid
               PROVE  FALSE
    BY DEF vars
  <2>1. /\ req \in Requests /\ payload \in {"ok", "failed"} /\ faults \in Nat
        /\ relay \in [Requests -> {"queued", "leased", "ok", "failed"}]
        /\ tokenFile # 0
    BY ScopeTypes DEF SInv, TypeOK, Serving
  <2>2. ~Fault
    BY <2>1 DEF Fault
  <2>3. PostResult \/ PostRefused
    BY <2>2 DEF Next, Loop, Failures, Surroundings, PollNoToken, PollRefused, PollIdle,
       PollRequest, Wake, RefuseScope, MakeScope, RunRequest, RetainOrWipe, WipeFails, Retain, Restart, PollLost,
       MakeScopeFails, PostLost, Kill, RotateToken, HideTokenFile, RefreshTokenFile, LeaseExpires
  <2>4. PostToken = valid
    BY <2>1 DEF PostToken
  <2>5. relay' = [relay EXCEPT ![req] = payload]
    BY <2>3, <2>4 DEF PostResult, PostRefused
  <2> QED
    BY <2>1, <2>5
<1> QED
  BY <1>1, InitSInv, NextSInv, PTL DEF Spec, NoResultLostToRotation
-------------------------------------------------------------------------------
(* The scopes used last: ServeLoop implements WarmScopes *)

Distinct(d) == \A i, j \in 1..Len(d) : d[i] = d[j] => i = j

\* t is d with s, which was at place p if p is one of d's, moved to the end.
Moved(d, s, t, p) ==
  /\ p \in 1..(Len(d) + 1)
  /\ \A j \in 1..Len(d) : d[j] = s <=> j = p
  /\ Len(t) = IF p = Len(d) + 1 THEN Len(d) + 1 ELSE Len(d)
  /\ \A j \in 1..(Len(t) - 1) : t[j] = IF j < p THEN d[j] ELSE d[j+1]
  /\ t[Len(t)] = s

LEMMA TouchMoves ==
  ASSUME NEW S, NEW d \in Seq(S), Distinct(d), NEW s \in S
  PROVE  /\ \E p : Moved(d, s, Touch(d, s), p)
         /\ Warm!MoveToEnd(d, s) = Touch(d, s)
<1>1. Len(d) \in Nat /\ DOMAIN d = 1..Len(d)
  OBVIOUS
<1>2. CASE s \in ToSet(d)
  <2> DEFINE p == CHOOSE i \in DOMAIN d : d[i] = s
             c == RemoveAt(d, p)
  <2>1. p \in 1..Len(d) /\ d[p] = s
    BY <1>1, <1>2 DEF ToSet
  <2>2. PopKey(d, s) = c
    BY <1>2 DEF PopKey
  <2> HIDE DEF p
  <2>3. \A j \in 1..Len(d) : d[j] = s <=> j = p
    BY <2>1 DEF Distinct
  <2>4. Warm!RemoveFirst(d, s) = c
    <3> DEFINE I == {j \in 1..Len(d) : d[j] = s}
    <3>1. I = {p}
      BY <2>1, <2>3
    <3>2. \A x \in Nat : Warm!Min({x}) = x
      BY DEF Warm!Min
    <3>3. Warm!Min(I) = p /\ I # {}
      BY <1>1, <2>1, <3>1, <3>2
    <3>4. Warm!SelectInSeq(d, LAMBDA v : v = s) = p
      BY <3>3 DEF Warm!SelectInSeq
    <3>5. Warm!RemoveAt(d, p) = c
      BY DEF Warm!RemoveAt, RemoveAt
    <3> QED
      BY <2>1, <3>4, <3>5 DEF Warm!RemoveFirst
  <2> HIDE DEF c
  <2>5. Warm!MoveToEnd(d, s) = Touch(d, s)
    BY <2>2, <2>4 DEF Warm!MoveToEnd, Touch
  <2>6. /\ c \in Seq(S) /\ Len(c) = Len(d) - 1
        /\ \A j \in 1..(Len(d) - 1) : c[j] = IF j < p THEN d[j] ELSE d[j+1]
    <3>1. p \in DOMAIN d
      BY <1>1, <2>1
    <3> QED
      BY <3>1, RemoveAtProperties DEF c
  <2> DEFINE t == Append(c, s)
  <2>7. /\ Len(t) = Len(d) /\ t[Len(t)] = s
        /\ \A j \in 1..(Len(t) - 1) : t[j] = c[j]
    <3>1. /\ Len(t) = Len(c) + 1 /\ t[Len(c) + 1] = s
          /\ \A j \in 1..Len(c) : t[j] = c[j]
      BY <2>6, AppendProperties
    <3>2. Len(c) + 1 = Len(d) /\ Len(c) = Len(d) - 1
      BY <1>1, <2>6
    <3> HIDE DEF t
    <3> QED
      BY <3>1, <3>2
  <2>8. Touch(d, s) = t
    BY <2>2 DEF Touch
  <2> HIDE DEF t
  <2>9. Moved(d, s, t, p)
    <3>1. p \in 1..(Len(d) + 1) /\ p # Len(d) + 1
      BY <1>1, <2>1
    <3>2. \A j \in 1..(Len(t) - 1) : t[j] = IF j < p THEN d[j] ELSE d[j+1]
      BY <2>6, <2>7
    <3> QED
      BY <2>3, <2>7, <3>1, <3>2 DEF Moved
  <2> QED
    BY <2>5, <2>8, <2>9
<1>3. CASE s \notin ToSet(d)
  <2> DEFINE t == Append(d, s)
  <2>1. Touch(d, s) = t
    BY <1>3 DEF Touch, PopKey
  <2>2. \A j \in 1..Len(d) : d[j] # s
    BY <1>1, <1>3 DEF ToSet
  <2>3. Warm!MoveToEnd(d, s) = t
    BY <2>2 DEF Warm!MoveToEnd, Warm!RemoveFirst
  <2>4. /\ Len(t) = Len(d) + 1 /\ t[Len(t)] = s
        /\ \A j \in 1..(Len(t) - 1) : t[j] = d[j] /\ j < Len(d) + 1
    BY <1>1
  <2>5. Moved(d, s, t, Len(d) + 1)
    BY <1>1, <2>2, <2>4 DEF Moved
  <2> QED
    BY <2>1, <2>3, <2>5
<1> QED
  BY <1>2, <1>3

LEMMA MovedIsDistinct ==
  ASSUME NEW S, NEW d \in Seq(S), Distinct(d), NEW s, NEW t, NEW p, Moved(d, s, t, p)
  PROVE  Distinct(t)
<1>1. Len(d) \in Nat /\ p \in 1..(Len(d) + 1) /\ Len(t) \in Nat /\ Len(t) <= Len(d) + 1
      /\ Len(t) = IF p = Len(d) + 1 THEN Len(d) + 1 ELSE Len(d)
  BY DEF Moved
<1> DEFINE at(j) == IF j < p THEN j ELSE j + 1
<1>2. \A j \in 1..(Len(t) - 1) : at(j) \in 1..Len(d) /\ at(j) # p /\ t[j] = d[at(j)]
  BY <1>1 DEF Moved
<1>3. \A i, j \in 1..(Len(t) - 1) : at(i) = at(j) => i = j
  BY <1>1
<1> HIDE DEF at
<1>4. \A j \in 1..(Len(t) - 1) : t[j] # s
  BY <1>2 DEF Moved
<1>5. \A i, j \in 1..(Len(t) - 1) : t[i] = t[j] => i = j
  BY <1>2, <1>3 DEF Distinct
<1>6. t[Len(t)] = s
  BY DEF Moved
<1>7. \A j \in 1..Len(t) : j = Len(t) \/ j \in 1..(Len(t) - 1)
  BY <1>1
<1> QED
  BY <1>4, <1>5, <1>6, <1>7 DEF Distinct

\* What Evict leaves are the last MaxScopes.
LEMMA LatestAre ==
  ASSUME NEW S, NEW d \in Seq(S)
  PROVE  /\ Evict(d) \in Seq(S)
         /\ Len(Evict(d)) = IF Len(d) > MaxScopes THEN MaxScopes ELSE Len(d)
         /\ \A j \in 1..Len(Evict(d)) : Evict(d)[j] = d[j + (Len(d) - Len(Evict(d)))]
         /\ Warm!LastN(d, MaxScopes) = Evict(d)
<1> DEFINE m == IF Len(d) > MaxScopes THEN Len(d) - MaxScopes + 1 ELSE 1
           e == SubSeq(d, m, Len(d))
<1>1. Len(d) \in Nat /\ MaxScopes \in Nat /\ \A j \in 1..Len(d) : d[j] \in S
  BY ScopeTypes
<1>2. m \in Nat /\ m >= 1 /\ m <= Len(d) + 1
      /\ Len(d) - m + 1 = IF Len(d) > MaxScopes THEN MaxScopes ELSE Len(d)
  BY <1>1
<1> HIDE DEF m
<1>3. /\ e \in Seq(S) /\ Len(e) = (IF m <= Len(d) THEN Len(d) - m + 1 ELSE 0)
      /\ \A j \in 1..(Len(d) - m + 1) : e[j] = d[m + j - 1]
  BY <1>1, <1>2, SubSeqProperties
<1> HIDE DEF e
<1>4. Len(e) = Len(d) - m + 1
  BY <1>1, <1>2, <1>3
<1>5. \A j \in 1..Len(e) : e[j] = d[j + (Len(d) - Len(e))]
  <2> SUFFICES ASSUME NEW j \in 1..Len(e) PROVE e[j] = d[j + (Len(d) - Len(e))]
    OBVIOUS
  <2>1. m + j - 1 = j + (Len(d) - Len(e))
    BY <1>1, <1>2, <1>4
  <2>2. e[j] = d[m + j - 1]
    BY <1>3, <1>4
  <2> QED
    BY <2>1, <2>2
<1>6. Evict(d) = e
  BY DEF Evict, e, m
<1>7. Warm!LastN(d, MaxScopes) = e
  BY DEF Warm!LastN, e, m
<1> QED
  BY <1>2, <1>3, <1>4, <1>5, <1>6, <1>7

\* Where the scopes kept stand: W of the D scopes are kept, off are forgotten;
\* the scope touched has place p among the D, or p = D + 1, and place q among
\* the W, or q = W + 1; after it moved to the end, place x of the ones kept is
\* place y of them all.
Places(n, D, W, off, p, q, LD, LW, K, j, x, y) ==
  /\ n \in Nat /\ D \in Nat /\ W \in Nat /\ off \in Nat
  /\ W + off = D /\ W = (IF D > n THEN n ELSE D)
  /\ p \in 1..(D + 1) /\ q \in 1..(W + 1)
  /\ IF p > off THEN q = p - off ELSE q = W + 1
  /\ LD = (IF p = D + 1 THEN D + 1 ELSE D)
  /\ LW = (IF q = W + 1 THEN W + 1 ELSE W)
  /\ K = (IF LW > n THEN n ELSE LW)
  /\ j \in 1..K /\ x = j + (LW - K) /\ y = j + (LD - K)

LEMMA PlacesKept ==
  ASSUME NEW n, NEW D, NEW W, NEW off, NEW p, NEW q, NEW LD, NEW LW, NEW K,
         NEW j, NEW x, NEW y, Places(n, D, W, off, p, q, LD, LW, K, j, x, y)
  PROVE  /\ x \in 1..LW /\ y \in 1..LD /\ (x = LW <=> y = LD)
         /\ x # LW => /\ x \in 1..(LW - 1) /\ y \in 1..(LD - 1)
                      /\ IF x < q THEN x \in 1..W ELSE x + 1 \in 1..W
                      /\ (IF x < q THEN x + off ELSE (x + 1) + off) = (IF y < p THEN y ELSE y + 1)
<1> USE DEF Places
<1>1. CASE p > off
  <2>1. q = p - off /\ (q = W + 1 <=> p = D + 1)
    BY <1>1
  <2>2. LW \in Nat /\ LD = LW + off /\ K \in Nat /\ K <= LW /\ j \in Nat
    BY <2>1
  <2>3. y = x + off /\ x \in 1..LW
    BY <2>2
  <2> QED
    BY <2>1, <2>2, <2>3
<1>2. CASE ~(p > off)
  <2>1. q = W + 1 /\ p # D + 1 /\ D > n /\ W = n
    BY <1>2
  <2>2. LW = n + 1 /\ LD = D /\ K = n /\ j \in Nat
    BY <2>1
  <2>3. x = j + 1 /\ y + 1 = x + off /\ x \in 1..LW
    BY <2>1, <2>2
  <2>4. p <= y
    BY <1>2, <2>2, <2>3
  <2> QED
    BY <2>1, <2>2, <2>3, <2>4
<1> QED
  BY <1>1, <1>2

\* Keeping only the latest scopes, and touching them, is keeping the latest of
\* all the scopes ever touched.
LEMMA LatestStay ==
  ASSUME NEW S, NEW d \in Seq(S), Distinct(d), NEW s \in S
  PROVE  Evict(Touch(Evict(d), s)) = Evict(Touch(d, s))
<1> DEFINE n == MaxScopes
           w == Evict(d)
           td == Touch(d, s)
           tw == Touch(w, s)
           a == Evict(tw)
           b == Evict(td)
<1>1. Len(d) \in Nat /\ n \in Nat
  BY ScopeTypes
<1>2. /\ w \in Seq(S) /\ Len(w) = (IF Len(d) > n THEN n ELSE Len(d))
      /\ \A j \in 1..Len(w) : w[j] = d[j + (Len(d) - Len(w))]
  BY LatestAre
<1>3. Distinct(w)
  <2> SUFFICES ASSUME NEW i \in 1..Len(w), NEW j \in 1..Len(w), w[i] = w[j] PROVE i = j
    BY DEF Distinct
  <2>1. i + (Len(d) - Len(w)) \in 1..Len(d) /\ j + (Len(d) - Len(w)) \in 1..Len(d)
    BY <1>1, <1>2
  <2>2. i + (Len(d) - Len(w)) = j + (Len(d) - Len(w))
    BY <1>2, <2>1 DEF Distinct
  <2> QED
    BY <1>1, <1>2, <2>2
<1>4. td \in Seq(S) /\ tw \in Seq(S)
  BY <1>2, TouchProperties
<1>5. PICK p : Moved(d, s, td, p)
  BY TouchMoves
<1>6. PICK q : Moved(w, s, tw, q)
  BY <1>2, <1>3, TouchMoves
<1>7. /\ a \in Seq(S) /\ Len(a) = (IF Len(tw) > n THEN n ELSE Len(tw))
      /\ \A j \in 1..Len(a) : a[j] = tw[j + (Len(tw) - Len(a))]
  BY <1>4, LatestAre
<1>8. /\ b \in Seq(S) /\ Len(b) = (IF Len(td) > n THEN n ELSE Len(td))
      /\ \A j \in 1..Len(b) : b[j] = td[j + (Len(td) - Len(b))]
  BY <1>4, LatestAre
<1> HIDE DEF n, w, td, tw, a, b
<1> DEFINE off == Len(d) - Len(w)
<1>9. /\ p \in 1..(Len(d) + 1) /\ \A j \in 1..Len(d) : d[j] = s <=> j = p
      /\ Len(td) = IF p = Len(d) + 1 THEN Len(d) + 1 ELSE Len(d)
      /\ \A j \in 1..(Len(td) - 1) : td[j] = IF j < p THEN d[j] ELSE d[j+1]
      /\ td[Len(td)] = s
  BY <1>5 DEF Moved
<1>10. /\ q \in 1..(Len(w) + 1) /\ \A j \in 1..Len(w) : w[j] = s <=> j = q
       /\ Len(tw) = IF q = Len(w) + 1 THEN Len(w) + 1 ELSE Len(w)
       /\ \A j \in 1..(Len(tw) - 1) : tw[j] = IF j < q THEN w[j] ELSE w[j+1]
       /\ tw[Len(tw)] = s
  BY <1>6 DEF Moved
<1>11. Len(w) \in Nat /\ off \in Nat /\ Len(w) + off = Len(d) /\ (off > 0 => Len(w) = n)
  BY <1>1, <1>2
<1>12. \A j \in 1..Len(w) : w[j] = d[j + off]
  BY <1>2
<1> HIDE DEF off
<1>13. IF p > off THEN q = p - off ELSE q = Len(w) + 1
  <2>1. CASE p > off
    <3>1. CASE p \in 1..Len(d)
      <4>1. p - off \in 1..Len(w) /\ (p - off) + off = p
        BY <1>9, <1>11, <2>1, <3>1
      <4>2. w[p - off] = s
        BY <1>9, <1>12, <3>1, <4>1
      <4> QED
        BY <1>10, <2>1, <4>1, <4>2
    <3>2. CASE p = Len(d) + 1
      <4>1. \A j \in 1..Len(w) : w[j] # s
        <5> SUFFICES ASSUME NEW j \in 1..Len(w) PROVE w[j] # s
          OBVIOUS
        <5>1. j + off \in 1..Len(d) /\ j + off # p
          BY <1>11, <3>2
        <5> QED
          BY <1>9, <1>12, <5>1
      <4>2. q \notin 1..Len(w)
        BY <1>10, <4>1
      <4>3. q = Len(w) + 1 /\ p - off = Len(w) + 1
        BY <1>10, <1>11, <3>2, <4>2
      <4> QED
        BY <2>1, <4>3
    <3> QED
      BY <1>1, <1>9, <3>1, <3>2
  <2>2. CASE ~(p > off)
    <3>1. \A j \in 1..Len(w) : w[j] # s
      <4> SUFFICES ASSUME NEW j \in 1..Len(w) PROVE w[j] # s
        OBVIOUS
      <4>1. j + off \in 1..Len(d) /\ j + off # p
        BY <1>9, <1>11, <2>2
      <4> QED
        BY <1>9, <1>12, <4>1
    <3>2. q \notin 1..Len(w)
      BY <1>10, <3>1
    <3> QED
      BY <1>10, <1>11, <2>2, <3>2
  <2> QED
    BY <2>1, <2>2
<1>14. Len(a) = Len(b)
  BY <1>1, <1>7, <1>8, <1>9, <1>10, <1>11, <1>2, <1>13
<1>15. ASSUME NEW j \in 1..Len(a) PROVE a[j] = b[j]
  <2> DEFINE x == j + (Len(tw) - Len(a))
             y == j + (Len(td) - Len(a))
  <2>1. a[j] = tw[x] /\ b[j] = td[y]
    BY <1>7, <1>8, <1>14
  <2>2. /\ x \in 1..Len(tw) /\ y \in 1..Len(td) /\ (x = Len(tw) <=> y = Len(td))
        /\ x # Len(tw) => /\ x \in 1..(Len(tw) - 1) /\ y \in 1..(Len(td) - 1)
                          /\ IF x < q THEN x \in 1..Len(w) ELSE x + 1 \in 1..Len(w)
                          /\ (IF x < q THEN x + off ELSE (x + 1) + off)
                               = (IF y < p THEN y ELSE y + 1)
    <3>1. Len(w) = (IF Len(d) > n THEN n ELSE Len(d)) /\ Len(a) = (IF Len(tw) > n THEN n ELSE Len(tw))
      BY <1>2, <1>7
    <3>2. /\ p \in 1..(Len(d) + 1) /\ Len(td) = (IF p = Len(d) + 1 THEN Len(d) + 1 ELSE Len(d))
          /\ q \in 1..(Len(w) + 1) /\ Len(tw) = (IF q = Len(w) + 1 THEN Len(w) + 1 ELSE Len(w))
      BY <1>9, <1>10
    <3>3. Places(n, Len(d), Len(w), off, p, q, Len(td), Len(tw), Len(a), j, x, y)
      BY <1>1, <1>11, <1>13, <3>1, <3>2 DEF Places
    <3> HIDE DEF x, y
    <3> QED
      BY <3>3, PlacesKept
  <2> HIDE DEF x, y
  <2>3. CASE x = Len(tw)
    BY <1>9, <1>10, <2>1, <2>2, <2>3
  <2>4. CASE x # Len(tw)
    <3>1. tw[x] = (IF x < q THEN w[x] ELSE w[x+1]) /\ td[y] = (IF y < p THEN d[y] ELSE d[y+1])
      BY <1>9, <1>10, <2>2, <2>4
    <3>2. tw[x] = (IF x < q THEN d[x + off] ELSE d[(x + 1) + off])
      BY <1>12, <2>2, <2>4, <3>1
    <3> QED
      BY <2>1, <2>2, <2>4, <3>1, <3>2
  <2> QED
    BY <2>3, <2>4
<1>16. a = b
  BY <1>7, <1>8, <1>14, <1>15, SeqEqual
<1> QED
  BY <1>16 DEF a, b, tw, td, w

\* What the pod remembers, of the scopes its process has used: the latest of them.
Latest == Distinct(recency) /\ (mode = "stateful" => scopes = Evict(recency))

LEMMA EmptyIsLatest == Distinct(<<>>) /\ Evict(<<>>) = <<>>
<1>1. <<>> \in Seq({}) /\ Len(<<>>) = 0
  OBVIOUS
<1>2. Evict(<<>>) \in Seq({}) /\ Len(Evict(<<>>)) = (IF 0 > MaxScopes THEN MaxScopes ELSE 0)
  BY <1>1, LatestAre
<1>3. Len(Evict(<<>>)) = 0
  BY <1>2, ScopeTypes
<1>4. Evict(<<>>) = <<>>
  BY <1>2, <1>3
<1> QED
  BY <1>1, <1>4 DEF Distinct

LEMMA NextLatest ==
  ASSUME SInv, Latest, [Next]_vars
  PROVE  Latest'
<1>1. CASE UNCHANGED <<mode, scopes, recency>>
  BY <1>1 DEF Latest, Distinct, Evict
<1>2. ASSUME NEW left, Retain(left) PROVE Latest'
  <2>1. Scope \in Scopes /\ recency \in Seq(Scopes) /\ mode' = mode
    BY <1>2 DEF Retain, SInv, TypeOK, Serving
  <2>2. recency' = Touch(recency, Scope)
    BY <1>2 DEF Retain
  <2>3. Distinct(Touch(recency, Scope))
    <3>1. PICK p : Moved(recency, Scope, Touch(recency, Scope), p)
      BY <2>1, TouchMoves DEF Latest
    <3> QED
      BY <2>1, <3>1, MovedIsDistinct DEF Latest
  <2>4. Distinct(recency)'
    BY <2>2, <2>3 DEF Distinct
  <2>5. ASSUME mode = "stateful" PROVE scopes' = Evict(recency')
    <3>1. scopes' = Evict(Touch(Evict(recency), Scope))
      BY <1>2, <2>5 DEF Retain, Latest
    <3> QED
      BY <2>1, <2>2, <3>1, LatestStay DEF Latest
  <2>6. Evict(recency)' = Evict(recency')
    BY DEF Evict
  <2> QED
    BY <2>1, <2>4, <2>5, <2>6 DEF Latest
<1>3. CASE FreshProcess
  <2>1. scopes' = <<>> /\ recency' = <<>>
    BY <1>3 DEF FreshProcess
  <2> QED
    BY <2>1, EmptyIsLatest DEF Latest, Distinct, Evict
<1> QED
  BY <1>1, <1>2, <1>3
     DEF Next, Loop, Failures, Surroundings, PollNoToken, PollRefused, PollIdle, PollRequest, Wake,
         RefuseScope, MakeScope, RunRequest, RetainOrWipe, WipeFails, PostResult, PostRefused,
         Restart, PollLost, MakeScopeFails, PostLost, Kill, RotateToken, HideTokenFile, RefreshTokenFile,
         LeaseExpires, diskVars, vars

-------------------------------------------------------------------------------
(* The abstract pod *)

\* The warm scopes are the remembered ones.
LEMMA WarmIsRemembered ==
  /\ Disk => dirs \ Orphans = Remembered
  /\ Disk' => dirs' \ Orphans' = Remembered'
BY DEF Disk, DiskIsRemembered, Orphans

\* A scope directory is made for the request about to run.
LEMMA BeginIsAStep == ASSUME SInv, Disk, MakeScope PROVE \E s \in Scopes : Warm!Begin(s)
<1>1. pc = "got" /\ pc' = "run" /\ req \in Requests /\ IsSafeScopeId(Scope)
  BY DEF SInv, Serving, MakeScope
<1>5. Scope \in Scopes
  BY <1>1, ScopeTypes DEF Scope
<1>2. mode' = mode /\ recency' = recency /\ req' = req /\ dirs' = dirs \cup {Scope}
  BY DEF MakeScope
<1>3. ~InFlight /\ InFlight' /\ Scope' = Scope /\ Cap' = Cap
  BY <1>1, <1>2 DEF InFlight, Scope, Cap
<1>6. Remembered' = Remembered \cup {Scope} /\ Orphans' = Orphans \ {Scope} /\ Disk'
  BY MakeScopeDisk
<1>7. dirs \ Orphans = Remembered /\ dirs' \ Orphans' = Remembered'
  BY <1>6, WarmIsRemembered
<1>4. Warm!Begin(Scope)
  BY <1>1, <1>2, <1>3, <1>6, <1>7 DEF Warm!Begin
<1> QED
  BY <1>4, <1>5

\* Popping the key and appending it is moving the scope to the end.
LEMMA TouchIsMoveToEnd ==
  ASSUME NEW S, NEW d \in Seq(S), Distinct(d), NEW s
  PROVE  Touch(d, s) = Warm!MoveToEnd(d, s)
<1>1. Len(d) \in Nat /\ DOMAIN d = 1..Len(d)
  BY LenProperties
<1>2. CASE s \in ToSet(d)
  <2>1. PICK k \in 1..Len(d) : d[k] = s
    BY <1>1, <1>2 DEF ToSet
  <2>2. \A i \in 1..Len(d) : d[i] = s <=> i = k
    BY <2>1 DEF Distinct
  <2>3. (CHOOSE i \in DOMAIN d : d[i] = s) = k
    BY <1>1, <2>1, <2>2
  <2>4. PopKey(d, s) = RemoveAt(d, k)
    BY <1>2, <2>3 DEF PopKey
  <2>5. {i \in 1..Len(d) : d[i] = s} = {k}
    BY <2>1, <2>2
  <2>6. Warm!Min({k}) = k
    <3>1. k \in Int
      BY <2>1
    <3> QED
      BY <3>1 DEF Warm!Min
  <2>7. Warm!SelectInSeq(d, LAMBDA v : v = s) = k
    BY <2>5, <2>6 DEF Warm!SelectInSeq
  <2>8. Warm!RemoveFirst(d, s) = Warm!RemoveAt(d, k)
    BY <2>1, <2>7 DEF Warm!RemoveFirst
  <2>9. Warm!RemoveAt(d, k) = RemoveAt(d, k)
    BY DEF Warm!RemoveAt, RemoveAt
  <2> QED
    BY <2>4, <2>8, <2>9 DEF Touch, Warm!MoveToEnd
<1>3. CASE s \notin ToSet(d)
  <2>1. PopKey(d, s) = d
    BY <1>3 DEF PopKey
  <2>2. ~ \E i \in 1..Len(d) : d[i] = s
    BY <1>1, <1>3 DEF ToSet
  <2>3. Warm!RemoveFirst(d, s) = d
    BY <2>2 DEF Warm!RemoveFirst
  <2> QED
    BY <2>1, <2>3 DEF Touch, Warm!MoveToEnd
<1> QED
  BY <1>2, <1>3

LEMMA FinishIsAStep ==
  ASSUME SInv, Disk, Latest, [Next]_vars, RetainOrWipe \/ WipeFails
  PROVE  Warm!Finish
<1>0. PICK left \in SUBSET Due : Retain(left)
  BY DEF RetainOrWipe, WipeFails
<1>1. /\ Scope \in Scopes /\ recency \in Seq(Scopes) /\ pc = "retain" /\ pc' = "post"
      /\ mode' = mode /\ mode \in {"stateless", "stateful"} /\ None \notin Scopes
  BY <1>0, ServeAssumption DEF Retain, SInv, TypeOK, Serving
<1>2. InFlight /\ ~InFlight' /\ Cap' = Cap
  BY <1>1 DEF InFlight, Cap
<1>3. recency' = Warm!MoveToEnd(recency, Scope)
  BY <1>0, <1>1, TouchIsMoveToEnd DEF Retain, Latest
<1>4. recency' \in Seq(Scopes)
  BY NextSInv DEF SInv, TypeOK
<1>5. Disk' /\ Latest'
  BY RetainOrWipeDisk, NextLatest
<1>6. Remembered' = ToSet(Warm!LastN(recency', Cap))
  <2>1. CASE mode = "stateful"
    <3>1. Remembered' = ToSet(scopes')
      BY <1>1, <1>2, <2>1 DEF Remembered, ToSet
    <3>2. scopes' = Evict(recency')
      BY <1>1, <1>5, <2>1 DEF Latest, Evict
    <3>3. Warm!LastN(recency', MaxScopes) = Evict(recency')
      BY <1>4, LatestAre
    <3>4. Cap = MaxScopes
      BY <2>1 DEF Cap
    <3> QED
      BY <3>1, <3>2, <3>3, <3>4
  <2>2. CASE mode # "stateful"
    <3>1. Remembered' = {}
      BY <1>1, <1>2, <2>2 DEF Remembered
    <3>2. Cap = 0
      BY <2>2 DEF Cap
    <3>3. Warm!LastN(recency', 0) = <<>>
      <4>1. Len(recency') \in Nat
        BY <1>4
      <4> DEFINE m == IF Len(recency') > 0 THEN Len(recency') - 0 + 1 ELSE 1
      <4>2. m \in Nat /\ m > Len(recency')
        BY <4>1
      <4> HIDE DEF m
      <4>3. Warm!LastN(recency', 0) = SubSeq(recency', m, Len(recency'))
        BY DEF Warm!LastN, m
      <4> QED
        BY <1>4, <4>1, <4>2, <4>3
    <3>4. ToSet(<<>>) = {}
      BY DEF ToSet
    <3> QED
      BY <3>1, <3>2, <3>3, <3>4
  <2> QED
    BY <2>1, <2>2
<1>7. ToSet(Warm!LastN(recency', Cap)) = Warm!ToSet(Warm!LastN(recency', Cap))
  BY DEF ToSet, Warm!ToSet
<1>8. /\ Due \subseteq Remembered /\ Remembered' = Remembered \ Due
      /\ Orphans' = Orphans \cup left
  BY <1>0, RetainDisk DEF Disk
<1>9. dirs \ Orphans = Remembered /\ dirs' \ Orphans' = Remembered'
  BY <1>5, WarmIsRemembered
<1>10. left \in SUBSET ((dirs \ Orphans) \ (dirs' \ Orphans'))
  BY <1>0, <1>8, <1>9
<1> QED
  BY <1>1, <1>2, <1>3, <1>6, <1>7, <1>8, <1>9, <1>10 DEF Warm!Finish

\* A new process has nothing warm; what it finds on disk is stray.
LEMMA ReplacedIsAStep ==
  ASSUME SInv, Disk, FreshProcess
  PROVE  Warm!Replaced
<1>1. recency' = <<>> /\ scopes' = <<>> /\ dirs' \in {dirs, {}} /\ pc' = "poll" /\ mode' = mode
  BY DEF FreshProcess, NextIteration
<1>2. ~InFlight' /\ Cap' = Cap
  BY <1>1 DEF InFlight, Cap
<1>3. Remembered' = {}
  <2>1. ToSet(scopes') = {}
    BY <1>1 DEF ToSet
  <2> QED
    BY <1>2, <2>1 DEF Remembered, ToSet
<1>4. Orphans' = dirs' /\ dirs = Orphans \cup (dirs \ Orphans)
  BY <1>3 DEF Orphans
<1> QED
  BY <1>1, <1>2, <1>4 DEF Warm!Replaced

\* Everything else the loop and its surroundings do is nothing to the pod.
LEMMA StepIsAStep ==
  ASSUME SInv, Disk, Latest, [Next]_vars
  PROVE  [Warm!Next]_(Warm!vars)
<1>1. ASSUME UNCHANGED <<mode, scopes, recency, dirs>>, ~InFlight, ~InFlight'
      PROVE  UNCHANGED Warm!vars
  BY <1>1 DEF Warm!vars, Cap, Orphans, Remembered
<1>2. ASSUME UNCHANGED <<mode, scopes, recency, dirs, req>>, InFlight <=> InFlight'
      PROVE  UNCHANGED Warm!vars
  BY <1>2 DEF Warm!vars, Cap, Scope, Orphans, Remembered
<1>3. ASSUME NEW where \in {"poll", "sleep", "raised"}, NextIteration(where) PROVE ~InFlight'
  BY <1>3 DEF NextIteration, InFlight
<1>4. CASE PollNoToken \/ PollRefused \/ PollLost \/ PollIdle
  BY <1>1, <1>3, <1>4
     DEF PollNoToken, PollRefused, PollLost, PollIdle, diskVars, InFlight
<1>5. CASE PollRequest \/ Wake \/ RefuseScope
  BY <1>1, <1>5 DEF PollRequest, Wake, RefuseScope, diskVars, InFlight
<1>6. CASE MakeScope
  BY <1>6, BeginIsAStep DEF Warm!Next
<1>7. CASE RunRequest
  BY <1>2, <1>7 DEF RunRequest, diskVars, InFlight
<1>8. CASE RetainOrWipe \/ WipeFails
  BY <1>8, FinishIsAStep DEF Warm!Next
<1>9. CASE PostResult \/ PostRefused \/ PostLost \/ MakeScopeFails
  BY <1>1, <1>3, <1>9
     DEF PostResult, PostRefused, PostLost, MakeScopeFails, diskVars, InFlight
<1>10. CASE Restart \/ Kill
  BY <1>10, ReplacedIsAStep DEF Restart, Kill, Warm!Next
<1>11. CASE Surroundings
  BY <1>2, <1>11
     DEF Surroundings, RotateToken, HideTokenFile, RefreshTokenFile, LeaseExpires, diskVars, InFlight
<1>12. CASE UNCHANGED vars
  BY <1>2, <1>12 DEF vars, diskVars, InFlight
<1> QED
  BY <1>4, <1>5, <1>6, <1>7, <1>8, <1>9, <1>10, <1>11, <1>12 DEF Next, Loop, Failures

\* The serve loop implements WarmScopes: the scopes a pod remembers are the ones
\* it used last, as many as its cap, and the one it is using; what outlives a
\* wipe or a process is stray, and only until it is used again.
THEOREM ServeImplementsWarmScopes == Spec => KeepsMostRecent
<1>1. Init => SInv /\ Disk /\ Latest
  <2> SUFFICES ASSUME Init PROVE Latest
    BY InitSInv, InitDisk
  <2>1. scopes = << >> /\ recency = << >>
    BY DEF Init
  <2> QED
    BY <2>1, EmptyIsLatest DEF Latest
<1>2. Init => Warm!Init
  BY ScopeTypes DEF Init, Warm!Init, Cap, InFlight, Orphans
<1>3. SInv /\ Disk /\ Latest /\ [Next]_vars => SInv' /\ Disk' /\ Latest'
  BY NextSInv, NextDisk, NextLatest
<1>4. SInv /\ Disk /\ Latest /\ [Next]_vars => [Warm!Next]_(Warm!vars)
  BY StepIsAStep
<1> QED
  BY <1>1, <1>2, <1>3, <1>4, PTL DEF Spec, KeepsMostRecent, Warm!Spec

===============================================================================
