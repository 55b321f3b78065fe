------------------------------- MODULE ServeLoop -------------------------------
(***************************************************************************)
(* `rwtask serve`: the single-threaded long-poll loop of                   *)
(* sdk/runwhen_capability/serve.py, the scope directories it creates and   *)
(* deletes, the executor token it re-reads, and the part of the relay it   *)
(* depends on (a request is leased to one poll and handed out again when   *)
(* its lease expires).  Running a request is one step here: TaskHost opens *)
(* it up.                                                                  *)
(***************************************************************************)
EXTENDS Naturals, Sequences, FiniteSets, SequencesExt

CONSTANTS
  Requests,      \* request ids the relay hands out
  Scopes,        \* scope ids that are a single path segment
  Unsafe,        \* stands for every scope id that is not one
  ScopeOf,       \* the scopeId each request carries
  None,          \* Python's None
  MaxScopes,     \* max_stateful_scopes
  MaxFaults,     \* bound: lost calls, failed mkdirs and wipes, killed pods, hidden token files
  MaxTokens      \* bound: tokens are issued 1..MaxTokens

ASSUME ServeAssumption ==
  /\ ScopeOf \in [Requests -> Scopes \cup {Unsafe}]
  /\ Unsafe \notin Scopes
  /\ None \notin Requests \cup Scopes \cup {Unsafe}
  /\ MaxScopes \in Nat
  /\ MaxFaults \in Nat
  /\ MaxTokens \in Nat \ {0}

VARIABLES
  mode,       \* capability.execution_mode, fixed once the capability is loaded
  pc,         \* where the loop stands
  req,        \* the request of the current iteration, or None
  payload,    \* the result about to be posted, or None
  token,      \* the token this iteration polled with (0: none yet)
  scopes,     \* stateful_scopes: the OrderedDict's keys, LRU first
  dirs,       \* the scope directories under workdir
  tokenFile,  \* content of the token file: a token, or 0 when unreadable
  valid,      \* the token the relay accepts
  relay,      \* each request at the relay: queued, leased, or its final status
  faults,     \* how many faults have happened
  recency,    \* history: the scopes this process has used, LRU first
  leaks       \* history: directories this disk may hold that nothing remembers:
              \* one for each failed wipe, a pod's worth for each restart over it

envVars  == <<tokenFile, valid>>
diskVars == <<scopes, dirs, recency, leaks>>
vars == <<mode, pc, req, payload, token, diskVars, envVars, relay, faults>>

TypeOK ==
  /\ mode \in {"stateless", "stateful"}
  /\ pc \in {"poll", "sleep", "got", "run", "retain", "post", "raised"}
  /\ req \in Requests \cup {None}
  /\ payload \in {"ok", "failed", None}
  /\ token \in 0..MaxTokens
  /\ scopes \in Seq(Scopes)
  /\ dirs \in SUBSET (Scopes \cup {Unsafe})
  /\ tokenFile \in 0..MaxTokens
  /\ valid \in 1..MaxTokens
  /\ relay \in [Requests -> {"queued", "leased", "ok", "failed"}]
  /\ faults \in 0..MaxFaults
  /\ recency \in Seq(Scopes)
  /\ leaks \in Nat

Init ==
  /\ mode \in {"stateless", "stateful"}
  /\ pc = "poll" /\ req = None /\ payload = None /\ token = 0
  /\ scopes = << >> /\ dirs = {} /\ recency = << >> /\ leaks = 0
  /\ tokenFile = 1 /\ valid = 1
  /\ relay = [r \in Requests |-> "queued"]
  /\ faults = 0

-------------------------------------------------------------------------------
(* Helpers *)

Fault == faults < MaxFaults /\ faults' = faults + 1

\* Mutant: every scopeId is taken for a directory name.
IsSafeScopeIdMut(s) == s \in Scopes \cup {Unsafe}

\* scope_id == Path(scope_id).name, and not "", "." or "..".
IsSafeScopeId(s) == s # Unsafe

\* OrderedDict.pop(key, None): the keys are distinct, so one goes at most.
PopKey(d, s) ==
  IF s \in ToSet(d) THEN RemoveAt(d, CHOOSE i \in DOMAIN d : d[i] = s) ELSE d

\* Mutant: a scope used again keeps its old place, so eviction is first-in first-out.
TouchMut(d, s) == IF s \in ToSet(d) THEN d ELSE Append(d, s)

\* stateful_scopes.pop(s, None); stateful_scopes[s] = None
Touch(d, s) == Append(PopKey(d, s), s)

\* Mutant: the loop stops one scope too late.
EvictMut(d) == SubSeq(d, IF Len(d) > MaxScopes + 1 THEN Len(d) - MaxScopes ELSE 1, Len(d))

\* What the `while len > max: popitem(last=False)` loop leaves.
Evict(d) == SubSeq(d, IF Len(d) > MaxScopes THEN Len(d) - MaxScopes + 1 ELSE 1, Len(d))

Scope == ScopeOf[req]

\* The next iteration starts: nothing of this one is kept but its token,
\* which the next poll overwrites.
NextIteration(where) ==
  /\ pc' = where
  /\ req' = None /\ payload' = None /\ token' = 0

-------------------------------------------------------------------------------
(* _poll_once: the poll *)

\* _read_token fails: no request is made, and the loop sleeps.
PollNoToken ==
  /\ pc = "poll" /\ tokenFile = 0
  /\ NextIteration("sleep")
  /\ UNCHANGED <<mode, diskVars, envVars, relay, faults>>

\* The relay refuses the bearer token: an unexpected status.
PollRefused ==
  /\ pc = "poll" /\ tokenFile # 0 /\ tokenFile # valid
  /\ NextIteration("sleep")
  /\ UNCHANGED <<mode, diskVars, envVars, relay, faults>>

\* A transport failure or a malformed 200.  The relay may have leased a
\* request to the poll whose answer never arrives.
PollLost ==
  /\ pc = "poll" /\ tokenFile = valid
  /\ Fault
  /\ \/ UNCHANGED relay
     \/ \E r \in Requests : relay[r] = "queued" /\ relay' = [relay EXCEPT ![r] = "leased"]
  /\ NextIteration("sleep")
  /\ UNCHANGED <<mode, diskVars, envVars>>

\* 204: nothing is queued; poll again at once.
PollIdle ==
  /\ pc = "poll" /\ tokenFile = valid
  /\ \A r \in Requests : relay[r] # "queued"
  /\ NextIteration("poll")
  /\ UNCHANGED <<mode, diskVars, envVars, relay, faults>>

\* 200 with a well-formed request.
PollRequest ==
  /\ pc = "poll" /\ tokenFile = valid
  /\ \E r \in Requests :
       /\ relay[r] = "queued"
       /\ relay' = [relay EXCEPT ![r] = "leased"]
       /\ req' = r
  /\ pc' = "got" /\ token' = tokenFile
  /\ UNCHANGED <<mode, payload, diskVars, envVars, faults>>

\* time.sleep(RETRY_DELAY) is over.
Wake ==
  /\ pc = "sleep"
  /\ pc' = "poll"
  /\ UNCHANGED <<mode, req, payload, token, diskVars, envVars, relay, faults>>

-------------------------------------------------------------------------------
(* _poll_once: the request *)

\* Mutant: the refused request is dropped without a result.
RefuseScopeMut ==
  /\ pc = "got" /\ ~IsSafeScopeId(Scope)
  /\ NextIteration("poll")
  /\ UNCHANGED <<mode, diskVars, envVars, relay, faults>>

\* An unsafe scopeId is answered "failed" before the filesystem is touched.
RefuseScope ==
  /\ pc = "got" /\ ~IsSafeScopeId(Scope)
  /\ payload' = "failed" /\ pc' = "post"
  /\ UNCHANGED <<mode, req, token, diskVars, envVars, relay, faults>>

\* scope_dir.mkdir(parents=True, exist_ok=True)
MakeScope ==
  /\ pc = "got" /\ IsSafeScopeId(Scope)
  /\ dirs' = dirs \cup {Scope}
  /\ pc' = "run"
  /\ UNCHANGED <<mode, req, payload, token, scopes, recency, leaks, envVars, relay, faults>>

\* mkdir raises (disk full, name too long): it stands before the `try`, so
\* the exception leaves _poll_once and serve().
MakeScopeFails ==
  /\ pc = "got" /\ IsSafeScopeId(Scope)
  /\ Fault
  /\ NextIteration("raised")
  /\ UNCHANGED <<mode, diskVars, envVars, relay>>

\* run_request returns an envelope ("ok"), or it or model_dump raises.
RunRequest ==
  /\ pc = "run"
  /\ payload' \in {"ok", "failed"}
  /\ pc' = "retain"
  /\ UNCHANGED <<mode, req, token, diskVars, envVars, relay, faults>>

\* The scopes _retain_or_wipe_scope deletes: the request's own, or the one the
\* LRU has no more room for (at most one: it held MaxScopes before).
Due ==
  IF mode = "stateful"
  THEN ToSet(Touch(scopes, Scope)) \ ToSet(Evict(Touch(scopes, Scope)))
  ELSE {Scope}

\* _retain_or_wipe_scope, in the `finally`: the directories in `left` outlive
\* their rmtree, and are forgotten all the same.
Retain(left) ==
  /\ pc = "retain"
  /\ recency' = Touch(recency, Scope)
  /\ scopes' = IF mode = "stateful" THEN Evict(Touch(scopes, Scope)) ELSE scopes
  /\ dirs' = dirs \ (Due \ left)
  /\ pc' = "post"
  /\ UNCHANGED <<mode, req, payload, token, envVars, relay>>

RetainOrWipe == Retain({}) /\ UNCHANGED <<leaks, faults>>

\* rmtree(ignore_errors=True) leaves the directory, or some of it, behind.
WipeFails ==
  /\ pc = "retain" /\ Fault
  /\ \E s \in Due : Retain({s})
  /\ leaks' = leaks + 1

-------------------------------------------------------------------------------
(* _post_result *)

\* Mutant: the result is posted with the token the poll started with.
PostTokenMut == token

\* Re-read right before posting; the poll's token when that fails.
PostToken == IF tokenFile = 0 THEN token ELSE tokenFile

\* The relay keeps the first result of a request.
PostResult ==
  /\ pc = "post" /\ PostToken = valid
  /\ relay' = [relay EXCEPT ![req] = IF @ \in {"ok", "failed"} THEN @ ELSE payload]
  /\ NextIteration("poll")
  /\ UNCHANGED <<mode, diskVars, envVars, faults>>

\* A 401 is logged and the result dropped.
PostRefused ==
  /\ pc = "post" /\ PostToken # valid
  /\ NextIteration("poll")
  /\ UNCHANGED <<mode, diskVars, envVars, relay, faults>>

\* A transport failure or a 5xx: logged, and the result dropped.
PostLost ==
  /\ pc = "post"
  /\ Fault
  /\ NextIteration("poll")
  /\ UNCHANGED <<mode, diskVars, envVars, relay>>

-------------------------------------------------------------------------------
(* The process and its surroundings *)

InFlight == pc \in {"run", "retain"}

Cap == IF mode = "stateful" THEN MaxScopes ELSE 0

\* How many scopes a pod may hold now: its warm ones and the one it serves.
Room == Cap + (IF InFlight THEN 1 ELSE 0)

\* stateful_scopes lives in the process only.  Its workdir is new, or, when the
\* container is started again in place, what the last process left.
FreshProcess ==
  /\ NextIteration("poll")
  /\ scopes' = << >> /\ recency' = << >>
  /\ dirs' \in {dirs, {}}
  /\ leaks' = IF dirs' = {} THEN 0 ELSE leaks + Room
  /\ UNCHANGED <<mode, envVars, relay>>

Restart == pc = "raised" /\ FreshProcess /\ UNCHANGED faults

\* The process is killed at any point of the loop, alone or with its pod.
Kill == pc # "raised" /\ Fault /\ FreshProcess

\* The relay accepts a new token; the mounted file follows later.
RotateToken ==
  /\ valid < MaxTokens
  /\ valid' = valid + 1
  /\ UNCHANGED <<mode, pc, req, payload, token, diskVars, tokenFile, relay, faults>>

HideTokenFile ==
  /\ tokenFile # 0 /\ Fault
  /\ tokenFile' = 0
  /\ UNCHANGED <<mode, pc, req, payload, token, diskVars, valid, relay>>

RefreshTokenFile ==
  /\ tokenFile # valid
  /\ tokenFile' = valid
  /\ UNCHANGED <<mode, pc, req, payload, token, diskVars, valid, relay, faults>>

\* The runner's lease expiry is what recovers a lost request.
LeaseExpires(r) ==
  /\ relay[r] = "leased"
  /\ relay' = [relay EXCEPT ![r] = "queued"]
  /\ UNCHANGED <<mode, pc, req, payload, token, diskVars, envVars, faults>>

-------------------------------------------------------------------------------

Loop ==
  \/ PollNoToken \/ PollRefused \/ PollIdle \/ PollRequest \/ Wake
  \/ RefuseScope \/ MakeScope \/ RunRequest \/ RetainOrWipe
  \/ PostResult \/ PostRefused \/ Restart

Failures == PollLost \/ MakeScopeFails \/ WipeFails \/ PostLost \/ Kill

Surroundings ==
  \/ RotateToken \/ HideTokenFile \/ RefreshTokenFile
  \/ \E r \in Requests : LeaseExpires(r)

Next == Loop \/ Failures \/ Surroundings

\* The loop never stops by itself, the kubelet eventually refreshes the
\* token file and the runner eventually expires a lease.
Fairness ==
  /\ WF_vars(Loop)
  /\ WF_vars(RefreshTokenFile)
  /\ \A r \in Requests : WF_vars(LeaseExpires(r))

Spec == Init /\ [][Next]_vars /\ Fairness

-------------------------------------------------------------------------------
(* Properties *)

\* The scopes the process knows of: what stateful_scopes remembers, and the one
\* of the request being served.
Remembered ==
  (IF mode = "stateful" THEN ToSet(scopes) ELSE {})
  \cup (IF InFlight THEN {Scope} ELSE {})

\* The directories nothing will ever delete, unless a request comes back to them.
Orphans == dirs \ Remembered

\* "This pod keeps at most max_stateful_scopes scopes warm": between requests
\* the disk holds at most that many scope directories (none in stateless
\* mode), and one more while a request is being served.  Only a failed wipe
\* (one directory each) and a restart over the same disk (what that process
\* could hold) add to it: the loop itself leaks nothing, whatever is refused,
\* raised, evicted or used again on the way.
WarmBounded == Cardinality(dirs) <= Room + leaks

\* No remembered scope is missing from the disk, whatever was killed, raised,
\* evicted or only half deleted.
DiskIsRemembered == Remembered \subseteq dirs

\* A scopeId that is not a single path segment never reaches the filesystem,
\* and a request carrying one is never reported as executed.
UnsafeRefused ==
  /\ Unsafe \notin dirs
  /\ \A r \in Requests : ScopeOf[r] = Unsafe => relay[r] # "ok"

\* A computed result is not lost to a token rotation in the middle of a
\* request: if it is refused, the token file itself was missing or behind
\* when it was posted.
NoResultLostToRotation ==
  [][ /\ pc = "post" /\ pc' = "poll"
      /\ relay' = relay /\ relay[req] \notin {"ok", "failed"}
      /\ faults' = faults
      => tokenFile # valid ]_vars

\* The pod keeps exactly the scopes it used most recently: it implements
\* WarmScopes, the directories it remembers being the warm scopes and the ones
\* that outlived their wipe or their process the stray ones.
Warm ==
  INSTANCE WarmScopes WITH
    cap <- Cap, NoScope <- None, warm <- dirs \ Orphans, stray <- Orphans,
    active <- IF InFlight THEN Scope ELSE None

KeepsMostRecent == Warm!Spec

\* Every request the relay holds is answered in the end, whatever finite
\* number of calls, pods, directories and tokens fail: the loop goes on and
\* the lease expiry hands a lost request out again.
EveryRequestAnswered == \A r \in Requests : <>(relay[r] \in {"ok", "failed"})

===============================================================================
