------------------------------ MODULE WarmScopes ------------------------------
(***************************************************************************)
(* What an executor pod promises about the request scopes it keeps on      *)
(* disk, with nothing said about how: between requests the scopes it has   *)
(* warm are exactly the `cap` scopes it used last, and while it serves a   *)
(* request that request's scope on top of them.  A scope that is no longer *)
(* warm is deleted, or stays as a stray directory that no one counts until *)
(* it is used again.  A new process has nothing warm; its disk is empty,   *)
(* or holds what the one before left.  ServeLoop                           *)
(* (sdk/runwhen_capability/serve.py) implements this specification.        *)
(***************************************************************************)
EXTENDS Naturals, Sequences, SequencesExt

CONSTANTS
  Scopes,   \* scope ids
  NoScope   \* no request is being served

VARIABLES
  cap,      \* how many scopes stay warm between requests: fixed for ever
  recency,  \* every scope this pod has used, least recently used first
  warm,     \* the scopes on disk that the pod knows of
  stray,    \* the ones it does not: they outlived their deletion or their process
  active    \* the scope of the request being served, or NoScope

vars == <<cap, recency, warm, stray, active>>

\* The last n elements of s (all of s when it is shorter).
LastN(s, n) == SubSeq(s, IF Len(s) > n THEN Len(s) - n + 1 ELSE 1, Len(s))

\* s, which holds e once at most, with e at its end.
MoveToEnd(s, e) == Append(RemoveFirst(s, e), e)

Init ==
  /\ cap \in Nat
  /\ recency = << >>
  /\ warm = {} /\ stray = {}
  /\ active = NoScope

Begin(s) ==
  /\ active = NoScope
  /\ active' = s
  /\ warm' = warm \cup {s}
  /\ stray' = stray \ {s}
  /\ UNCHANGED <<cap, recency>>

Finish ==
  /\ active # NoScope
  /\ recency' = MoveToEnd(recency, active)
  /\ warm' = ToSet(LastN(recency', cap))
  /\ stray' \in {stray \cup left : left \in SUBSET (warm \ warm')}
  /\ active' = NoScope
  /\ UNCHANGED cap

Replaced ==
  /\ recency' = << >>
  /\ warm' = {}
  /\ stray' \in {{}, stray \cup warm}
  /\ active' = NoScope
  /\ UNCHANGED cap

Next == (\E s \in Scopes : Begin(s)) \/ Finish \/ Replaced

Spec == Init /\ [][Next]_vars
===============================================================================
