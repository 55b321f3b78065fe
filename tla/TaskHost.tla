-------------------------------- MODULE TaskHost --------------------------------
(***************************************************************************)
(* host.run_request over one scope directory: the setup-output cache, the  *)
(* `open` setup (git.checkout), the tasks in request order, and the        *)
(* ResultEnvelope's setup status, from which the caller decides whether to *)
(* re-materialise.  Requests follow one another on the scope; the scope    *)
(* may be evicted between them, git or a write may fail, a wipe may stop   *)
(* half way and the process may die with the directory left behind.  What  *)
(* git makes of a repository it finds there is modelled from git's own     *)
(* rules: `git checkout FETCH_HEAD` has no -f, so it compares HEAD, the    *)
(* index and the files, and touches only what differs between commits.     *)
(***************************************************************************)
EXTENDS Naturals, Sequences, FiniteSets, SequencesExt

CONSTANTS
  Commits,    \* each stands for the inputs (repoUrl, sha) of a setup
  None,       \* Python's None
  Absent,     \* tree: the directory does not exist
  Empty,      \* tree: the directory holds nothing, or only .git
  Torn,       \* tree: the files of no one commit
  Requests,   \* the requests the callers send
  MaxFaults   \* bound: failed git commands or writes, half wipes, crashes

\* The git commands that what an earlier one left can keep from working.  The
\* fetch comes first: when both are stuck, only the fetch is ever tried.
GitSteps == {"fetch", "checkout"}

\* A registered task that reads the tree, one that raises for a reason of its
\* own, one the capability does not register.
TaskKinds == {"read", "boom", "unknown"}

Request ==
  [commit : Commits, credentials : BOOLEAN,
   setup : {"open", "unknown", "none"}, tasks : Seq(TaskKinds)]

ASSUME HostAssumption ==
  /\ Requests # {} /\ Requests \subseteq Request
  /\ Commits \cap {None, Absent, Empty, Torn} = {}
  /\ None \notin {Absent, Empty, Torn} \cup GitSteps
  /\ Absent \notin {Empty, Torn} /\ Empty # Torn
  /\ MaxFaults \in Nat

TreeContents == Commits \cup {Absent, Empty, Torn}

\* What a task read: the content of the tree, or None.
TaskResult == [task : TaskKinds, status : {"ok", "failed"}, saw : TreeContents \cup {None}]

VARIABLES
  pc,         \* where run_request stands ("idle": it has returned, or was never called)
  req,        \* the request in hand, or the last one
  outputs,    \* is "tree" in setup_outputs?
  setup,      \* result.setup.status
  results,    \* result.tasks
  tree,       \* scope_dir/tree
  fetchHead,  \* FETCH_HEAD of the repository in it
  head,       \* the commit its HEAD names (None: no repository, or nothing checked out)
  index,      \* the commit its index describes (None: no index)
  stuck,      \* the git command it makes fail, if any: a lock file left, a piece of .git gone
  cache,      \* the commit .rwtask-setup-cache.json is for (None: missing or malformed)
  faults,     \* how many faults have happened
  arrival,    \* history: what the scope and the fault count were when req arrived
  cleared     \* history: the fault count when the scope was last empty

gitVars  == <<fetchHead, head, index, stuck>>
diskVars == <<tree, gitVars, cache>>
history  == <<arrival, cleared>>
vars == <<pc, req, outputs, setup, results, diskVars, faults, history>>

\* "lost" stands for no reply at all: the process died.
Statuses == {"none", "ok", "cached", "failed", "not_materialized", "lost"}

TypeOK ==
  /\ pc \in {"idle", "lookup", "open", "fetch", "checkout", "save", "tasks"}
  /\ req \in Requests
  /\ outputs \in BOOLEAN
  /\ setup \in Statuses
  /\ results \in Seq(TaskResult) /\ Len(results) <= Len(req.tasks)
  /\ tree \in TreeContents
  /\ fetchHead \in Commits \cup {None}
  /\ head \in Commits \cup {None} /\ index \in Commits \cup {None}
  /\ stuck \in GitSteps \cup {None}
  /\ cache \in Commits \cup {None}
  /\ faults \in 0..MaxFaults
  /\ arrival \in [servable : BOOLEAN, coherent : BOOLEAN, free : BOOLEAN, faults : 0..MaxFaults]
  /\ cleared \in 0..faults

-------------------------------------------------------------------------------

Fault == faults < MaxFaults /\ faults' = faults + 1

\* repo_fs.check_tree_materialized
Materialized(t) == t \notin {Absent, Empty}

\* Mutant: a cache is trusted whatever inputs it was saved for.
CacheHitAnyInputs(commit) == cache # None /\ tree # Absent

\* Mutant: a cache is trusted although its tree is gone.
CacheHitNoTree(commit) == cache = commit

\* _cached_setup_outputs: saved for these very inputs, and the path-typed
\* output still exists.
CacheHit(commit) == cache = commit /\ tree # Absent

\* `git status` is clean: HEAD and index describe the files, or there are none yet.
Unmodified ==
  /\ head = index
  /\ \/ tree = index
     \/ tree \in {Absent, Empty} /\ index = None

\* The cache on disk describes the tree on disk, or a tree that is gone, and so
\* does the repository.
Coherent == (cache = None \/ tree \in {cache, Absent}) /\ Unmodified

\* A scope from which a request without credentials can be served.
Servable(commit) == cache = commit /\ Materialized(tree)

Init ==
  /\ pc = "idle"
  /\ req = CHOOSE r \in Requests : TRUE
  /\ outputs = FALSE /\ setup = "lost" /\ results = << >>
  /\ tree = Absent /\ cache = None
  /\ fetchHead = None /\ head = None /\ index = None /\ stuck = None
  /\ faults = 0 /\ cleared = 0
  /\ arrival = [servable |-> FALSE, coherent |-> TRUE, free |-> TRUE, faults |-> 0]

\* run_request is called: an unregistered setup fails there and then.
Receive ==
  /\ pc = "idle"
  /\ req' \in Requests
  /\ setup' = IF req'.setup = "unknown" THEN "failed" ELSE "none"
  /\ pc' = IF req'.setup = "open" THEN "lookup" ELSE "tasks"
  /\ outputs' = FALSE /\ results' = << >>
  /\ arrival' = [servable |-> Servable(req'.commit), coherent |-> Coherent,
                 free |-> stuck = None, faults |-> faults]
  /\ UNCHANGED <<diskVars, faults, cleared>>

-------------------------------------------------------------------------------
(* The setup *)

\* Cached: neither the setup function nor the credentials are touched.
UseCache ==
  /\ pc = "lookup" /\ CacheHit(req.commit)
  /\ outputs' = TRUE /\ setup' = "cached"
  /\ pc' = "tasks"
  /\ UNCHANGED <<req, results, diskVars, faults, history>>

MissCache ==
  /\ pc = "lookup" /\ ~CacheHit(req.commit)
  /\ pc' = "open"
  /\ UNCHANGED <<req, outputs, setup, results, diskVars, faults, history>>

\* Mutant: the tree is created before the credential is looked up.
NoCredentialMut ==
  /\ pc = "open" /\ ~req.credentials
  /\ tree' = IF tree = Absent THEN Empty ELSE tree
  /\ setup' = "not_materialized"
  /\ pc' = "tasks"
  /\ UNCHANGED <<req, outputs, results, gitVars, cache, faults, history>>

\* ctx.credential raises CredentialNotFoundError before anything is written.
NoCredential ==
  /\ pc = "open" /\ ~req.credentials
  /\ setup' = "not_materialized"
  /\ pc' = "tasks"
  /\ UNCHANGED <<req, outputs, results, diskVars, faults, history>>

\* mkdir(tree); git init
PrepareTree ==
  /\ pc = "open" /\ req.credentials
  /\ tree' = IF tree = Absent THEN Empty ELSE tree
  /\ pc' = "fetch"
  /\ UNCHANGED <<req, outputs, setup, results, gitVars, cache, faults, history>>

\* Mutant: a repository that already has a FETCH_HEAD is not fetched again.
FetchMut ==
  /\ pc = "fetch" /\ pc # stuck
  /\ fetchHead' = IF fetchHead = None THEN req.commit ELSE fetchHead
  /\ pc' = "checkout"
  /\ UNCHANGED <<req, outputs, setup, results, tree, head, index, stuck, cache, faults, history>>

\* git fetch --depth 1 <repoUrl> <sha>
Fetch ==
  /\ pc = "fetch" /\ pc # stuck
  /\ fetchHead' = req.commit
  /\ pc' = "checkout"
  /\ UNCHANGED <<req, outputs, setup, results, tree, head, index, stuck, cache, faults, history>>

\* HEAD or the index is at the fetched commit already: git takes every file to
\* be as it should, there or not, modified or not.
InPlace == fetchHead = index \/ (fetchHead = head /\ index # None)

\* git checkout FETCH_HEAD exits 0.  Over clean files it leaves the fetched
\* commit.  Otherwise it touches nothing when it takes the files to be in
\* place, and else only those that differ between the commits: what is missing
\* or modified elsewhere stays so.
Checkout ==
  /\ pc = "checkout" /\ pc # stuck
  /\ head' = fetchHead
  /\ \/ Unmodified /\ tree' = fetchHead /\ index' = fetchHead
     \/ ~Unmodified /\ InPlace /\ UNCHANGED <<tree, index>>
     \/ /\ ~Unmodified /\ ~InPlace
        /\ tree' \in {fetchHead, Torn} \cup ({tree} \cap {Empty})
        /\ index' = fetchHead
  /\ pc' = "save"
  /\ UNCHANGED <<req, outputs, setup, results, fetchHead, stuck, cache, faults, history>>

\* git exits non-zero: the setup is "failed", and the cache of an earlier
\* setup stays as it was.
SetupFailed ==
  /\ setup' = "failed"
  /\ pc' = "tasks"
  /\ UNCHANGED <<req, outputs, results, cache, history>>

\* It refuses to overwrite modified or untracked files, or finds the
\* repository locked or incomplete: no new fault is needed.
GitRefuses ==
  /\ pc \in GitSteps
  /\ pc = stuck \/ (pc = "checkout" /\ ~Unmodified /\ ~InPlace)
  /\ SetupFailed
  /\ UNCHANGED <<tree, gitVars, faults>>

\* What a git command that stops half way leaves: the files of a checkout as
\* far as it got, the index written or not (HEAD comes last), and perhaps a
\* lock file that makes the same command fail from then on.
HalfDone ==
  /\ \/ pc = "checkout" /\ tree' \in {tree, fetchHead, Empty, Torn} /\ index' = index
     \/ /\ pc = "checkout" /\ index' = fetchHead
        /\ tree' \in IF Unmodified THEN {fetchHead} ELSE {tree, fetchHead, Torn}
     \/ pc # "checkout" /\ UNCHANGED <<tree, index>>
  /\ stuck' \in {stuck} \cup ({pc} \cap GitSteps)
  /\ UNCHANGED <<fetchHead, head>>

\* git exits non-zero in the middle of its work, or times out and is killed.
GitFails ==
  /\ pc \in GitSteps /\ Fault
  /\ HalfDone
  /\ SetupFailed

\* The setup function returned; _save_setup_cache.
SaveCache ==
  /\ pc = "save"
  /\ outputs' = TRUE /\ setup' = "ok"
  /\ cache' = req.commit
  /\ pc' = "tasks"
  /\ UNCHANGED <<req, results, tree, gitVars, faults, history>>

\* A failed save is swallowed: json.dumps or open() fail before the old file
\* is truncated, write() after.
SaveCacheFails ==
  /\ pc = "save" /\ Fault
  /\ outputs' = TRUE /\ setup' = "ok"
  /\ cache' \in {cache, None}
  /\ pc' = "tasks"
  /\ UNCHANGED <<req, results, tree, gitVars, history>>

-------------------------------------------------------------------------------
(* The tasks *)

NextTask == req.tasks[Len(results) + 1]

\* result.tasks.append
Record(status, saw) ==
  results' = Append(results, [task |-> NextTask, status |-> status, saw |-> saw])

TaskDue == pc = "tasks" /\ Len(results) < Len(req.tasks)

\* Unknown to the registry, its ${setup.tree} unresolved, or raising for a
\* reason of its own: an ordinary failure, and setup is left alone.
TaskFails ==
  /\ TaskDue
  /\ NextTask \in {"unknown", "boom"} \/ ~outputs
  /\ Record("failed", None)
  /\ UNCHANGED <<pc, req, outputs, setup, diskVars, faults, history>>

ReadTree ==
  /\ TaskDue /\ NextTask = "read" /\ outputs
  /\ Materialized(tree)
  /\ Record("ok", tree)
  /\ UNCHANGED <<pc, req, outputs, setup, diskVars, faults, history>>

\* Mutant: a missing tree is an ordinary failure of the task.
ReadMissingTreeMut ==
  /\ TaskDue /\ NextTask = "read" /\ outputs
  /\ ~Materialized(tree)
  /\ Record("failed", None)
  /\ UNCHANGED <<pc, req, outputs, setup, diskVars, faults, history>>

\* TreeNotMaterializedError: the task fails and the envelope becomes a miss.
ReadMissingTree ==
  /\ TaskDue /\ NextTask = "read" /\ outputs
  /\ ~Materialized(tree)
  /\ Record("failed", None)
  /\ setup' = "not_materialized"
  /\ UNCHANGED <<pc, req, outputs, diskVars, faults, history>>

\* Mutant: the first task that fails ends the request.
ReturnMut ==
  /\ pc = "tasks"
  /\ Len(results) = Len(req.tasks) \/ \E i \in DOMAIN results : results[i].status = "failed"
  /\ pc' = "idle"
  /\ UNCHANGED <<req, outputs, setup, results, diskVars, faults, history>>

Return ==
  /\ pc = "tasks" /\ Len(results) = Len(req.tasks)
  /\ pc' = "idle"
  /\ UNCHANGED <<req, outputs, setup, results, diskVars, faults, history>>

-------------------------------------------------------------------------------
(* What happens to the scope from outside *)

NoRepository == fetchHead' = None /\ head' = None /\ index' = None /\ stuck' = None

\* serve.py wipes the scope between two requests (eviction, stateless mode),
\* or the pod is replaced.
Evict ==
  /\ pc = "idle"
  /\ tree' = Absent /\ cache' = None /\ NoRepository
  /\ cleared' = faults
  /\ UNCHANGED <<pc, req, outputs, setup, results, faults, arrival>>

\* rmtree(ignore_errors=True) stops half way, or something else reaps the
\* tree, possibly in the middle of a request: of the repository any part may
\* go, and git may find it broken.
HalfWipe ==
  /\ pc \in {"idle", "tasks"} /\ tree # Absent /\ Fault
  /\ cache' \in {cache, None}
  /\ \/ tree' = Absent /\ NoRepository
     \/ /\ tree' \in {tree, Empty, Torn}
        /\ fetchHead' \in {fetchHead, None}
        /\ head' \in {head, None} /\ index' \in {index, None}
        /\ stuck' \in GitSteps \cup {None}
  /\ UNCHANGED <<pc, req, outputs, setup, results, history>>

\* The process dies and starts again over the same directory.  No reply.
Crash ==
  /\ pc # "idle" /\ Fault
  /\ HalfDone
  /\ pc' = "idle"
  /\ outputs' = FALSE /\ setup' = "lost" /\ results' = << >>
  /\ UNCHANGED <<req, cache, history>>

-------------------------------------------------------------------------------

Setup ==
  \/ UseCache \/ MissCache \/ NoCredential \/ PrepareTree
  \/ Fetch \/ Checkout \/ GitRefuses \/ SaveCache

Tasks == TaskFails \/ ReadTree \/ ReadMissingTree

Failures == GitFails \/ SaveCacheFails \/ HalfWipe \/ Crash

Next == Receive \/ Setup \/ Tasks \/ Return \/ Evict \/ Failures

Spec == Init /\ [][Next]_vars /\ WF_vars(Setup \/ Tasks \/ Return)

-------------------------------------------------------------------------------
(* Properties *)

\* run_request has returned, and nothing failed since it was called.
Clean == pc = "idle" /\ setup # "lost" /\ faults = arrival.faults

HasRead == \E i \in DOMAIN req.tasks : req.tasks[i] = "read"

\* "A cache for a different (repoUrl, sha) is a miss rather than plausible
\* content from the wrong commit": whatever sequence of commits the scope has
\* been asked for, a read answers from the request's own commit, whole,
\* provided cache, files and repository agreed when the request came.
ReadsOwnCommit ==
  Clean /\ arrival.coherent =>
    \A i \in DOMAIN results : results[i].saw \in {req.commit, None}

\* ... and they always agree between requests as long as nothing has failed
\* since the scope was last cleared: an eviction heals whatever a fault left.
CoherentWithoutFaults == pc = "idle" /\ faults = cleared => Coherent /\ stuck = None

\* The sync path (a request without credentials) is read-only: it never
\* creates a tree, fetches, checks out or rewrites the cache.
SyncIsReadOnly ==
  [][pc # "idle" /\ ~req.credentials /\ faults' = faults => UNCHANGED diskVars]_vars

\* The caller recovers from setup.status = not_materialized and from nothing
\* else, so a sync read reports it exactly when the scope could not serve it:
\* an ordinary task failure never looks like a miss (the caller would
\* re-materialise for ever) and a miss never looks like an ordinary failure.
MissReportedExactly ==
  Clean /\ req.setup = "open" /\ ~req.credentials /\ HasRead =>
    (setup = "not_materialized" <=> ~arrival.servable)

\* A credentialed request serves every read, from a checkout of its own or
\* from the cache, provided cache, files and repository agreed when it came and
\* no earlier fault keeps git from working there.  (Without that it need not:
\* `git checkout` over a torn tree may be refused, or exit 0 and leave it torn.)
CredentialedIsServed ==
  Clean /\ arrival.coherent /\ arrival.free /\ req.setup = "open" /\ req.credentials =>
    /\ setup \in {"ok", "cached"}
    /\ \A i \in DOMAIN results :
         results[i].task = "read" => results[i].status = "ok" /\ results[i].saw = req.commit

\* One result for each task, in order.
Answered == [i \in DOMAIN results |-> results[i].task] = req.tasks

\* Unless the process dies, run_request always returns, and with one result per
\* task, in order, whichever of setup, git and tasks failed.
AlwaysReturns ==
  /\ \A c \in Commits :
       (pc # "idle" /\ req.commit = c) ~> (pc = "idle" /\ req.commit = c)
  /\ [][pc # "idle" /\ pc' = "idle" => (setup = "lost" \/ Answered)']_vars

\* "Best-effort: a failure here just means the next request re-runs setup",
\* and a cached tree is never "plausible content from the wrong commit": no
\* read is answered from another commit, whatever failed before.
NeverAnotherCommit ==
  \A i \in DOMAIN results : results[i].saw \notin Commits \ {req.commit}

===============================================================================
