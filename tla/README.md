# Formal models of rw-checks-codecollection

TLA+ models of the parts of this repository whose correctness depends on order,
failure, limits or time, the TLC runs that check them, and TLAPS proofs of the
properties that matter most. Paths below are relative to the repository
(`sdk/` stands for `sdk/runwhen_capability/`).

To check a run: `tlc -config MCServeLoop.cfg MCServeLoop`.
To check a proof: `tlapm ServeLoopProofs.tla`.
`PROJECT.json` lists every run, mutant, mapped definition, finding, hazard and theorem.

## 1. The system

A pod runs `rwtask serve`: it long-polls a relay, runs one request at a time in a
directory named by the request's `scopeId`, and posts one result. A request is a
setup (a git checkout) and a list of tasks. Three capabilities are built on this:
`rw-worktree` (stateful: scopes stay warm), `rw-checks` and `artifact-tools`
(stateless).

| Component | Source | State | Operations | Talks to |
|---|---|---|---|---|
| serve loop | `sdk/serve.py` | `stateful_scopes` (LRU, memory), scope directories (disk), the token of the poll | poll, refuse, mkdir, run, retain or wipe, post | relay (HTTP), token file, task host (call), disk |
| task host | `sdk/host.py` | the result envelope and `setup_outputs` of one request | look the setup up, run it, save it, run each task | registered functions, setup cache, git client |
| setup cache | `sdk/host.py` | `.rwtask-setup-cache.json` in the scope | load, validate, save | the tree on disk |
| git client | `sdk/git.py` | `tree/`, its `FETCH_HEAD` | checkout, changed_files | Context.run, credentials |
| Context.run | `sdk/context.py` | process, group, two pipes, two threads, kept text | spawn, drain, time out, kill, join, close | the kernel, the tool |
| repo query | `sdk/repo_query.py` | budget, reservation, flags, answers | one op at a time | repo file access |
| repo file access | `sdk/repo_fs.py`, `symbols.py`, `pathsafe.py` | a walk in progress, the unreadable paths met | read, grep, ls, find around | the tree |
| SARIF, findings | `sdk/sarif.py`, `findings.py` | the last file read for context | parse, normalise, cap | task results |
| check plan, check runner | `capabilities/rw-checks/tools/_plan.py`, `_runner.py` | batches, report files, scratch view | group, guard, batch, run, filter | Context.run, guards, adapters |
| config guards | `capabilities/rw-checks/guards.py` | a chain in progress: stack, visited files | judge the configs of one tool | check plan |
| tools, adapters, severities | `capabilities/rw-checks/` | none | build a command line, translate a report | check runner |
| artifact tools | `capabilities/artifact-tools/` | feeder, timer, collector, slicer | grep, jq, sql, slice | a tool process, an artifact stream |
| loader, models, CLI, scripts | `sdk/`, `scripts/` | none at run time | | |

### What is hard

* **Failure between two steps**: the pod dies, git fails or a save fails after the
  tree was overwritten and before the cache was rewritten; a wipe stops half way or
  deletes nothing; a restarted process finds what another one left.
* **Delivery**: a lost poll answer, a lost result, a token rotated in mid-request;
  recovery is the runner's lease expiry only.
* **Interleaving**: a tool, its grandchild, two drain threads and the caller, with
  a timeout and an over-budget kill racing the tool's own exit.
* **Limits**: warm scopes, kept output, the response budget and its reservations,
  the query deadline.
* **Honesty**: a miss must never look like an answer or an ordinary failure, and
  an answer must say when it is less than whole; an unreadable directory is neither
  an empty one nor, unless it was asked for, an error.
* **Boundaries**: ranges that touch, lines on either side of a chunk, a first row
  over the budget, comments inside strings, chains of configs that loop.

### What makes each component correct

* serve loop: disk stays bounded but for what a failed wipe or a restart leaves, the most
  recent scopes are kept, an unsafe `scopeId` touches nothing, every request is answered in the end.
* task host, cache, git: a read answers from the request's own commit or reports a
  miss; a request without credentials writes nothing; one result per task.
* Context.run: bounded memory, no deadlock, no leftovers, a truthful outcome.
* repo query: within budget, refusals in order, truthful `truncated`, bounded
  overrun, a miss before anything else.
* check plan and runner: every changed file is checked once or explained, only
  under configs the guard approved, and a refusal, a failed tool or a cut list shows
  in the result.
* repo file access: an answer is what the tree holds, in order, up to its limit, but
  for what it discloses; a part of a file is true to the line numbers it gives.
* config guards: exactly the files that name something to load are refused, and
  the walk over a chain of configs ends.
* reports: every tool's way of naming a file, a position and a severity leads to the
  same finding for the same defect, with that line's text.
* artifact tools: counts, kept lines and `truncated` agree, whatever the chunks; a
  partial answer is never handed out, the cause named is the real one, and nothing
  is left running.

## 2. The modules

```
WarmScopes  <---- implemented by ---- ServeLoop      (run_request is one step)
                                          :
                                       TaskHost      (one scope; Evict is ServeLoop's wipe)
                                          :            inside one task:
        +------------------+--------------+----------------+
     RepoQuery          RepoFiles      CheckRun         ToolFeed, ArtifactScan
   (an op is a        (the ops, on    (plan and         (the threads; what they
  size, an outcome)    a real tree)    batches)          make of the bytes)
        :                  |              :        \
        +...RepoRead <-----+          GuardedCheck   ContextRun (one process)
       (ranges, trimming)             /         \
                                ConfigGuards   Reports
```
Solid lines are EXTENDS, dots the call of a step that another module opens up.

### ServeLoop (`sdk/serve.py`), WarmScopes

`pc` follows `_poll_once`: `poll -> got -> run -> retain -> post`, with `sleep`
after a failed poll and `raised` once an exception has left the loop. The `return`s
of the code are actions of their own: `PollNoToken` (unreadable token file),
`PollRefused` (other status), `PollLost` (transport failure or malformed answer; the
relay may have leased the request), `PollIdle` (204), `PollRequest` (200),
`RefuseScope`, `MakeScope`/`MakeScopeFails`, `RunRequest`, `RetainOrWipe`/`WipeFails`
(the `finally`, with the whole eviction loop; `rmtree(ignore_errors=True)` may leave the
directory, which is forgotten all the same), `PostResult`/`PostRefused`/`PostLost`.
`scopes` is the OrderedDict's key list, least recent first; `dirs` is what is under
workdir. `recency` and `leaks` are history variables: the order in which this process
used its scopes, and how many directories failed wipes and restarts over this disk may
have left behind.

The relay, the token file and the pod are external and modelled by what `serve.py`
relies on: a leased request is queued again when the lease expires, the file follows
a rotation later, and a killed pod is replaced. Every new process may find its workdir
empty or as the last one left it (`FreshProcess`).

`WarmScopes` says, without an LRU, that the scopes a pod knows of are exactly the `cap`
it used last, and the one in use on top of them. Any other directory on the disk
(`stray`) outlived its deletion or its process, and becomes known again when its scope
is used.

### TaskHost (`sdk/host.py`, `sdk/git.py`)

One scope directory and the requests that follow one another on it. `tree` is
`Absent`, `Empty` (nothing but `.git`), `Torn` (the files of no one commit) or the commit
whose files it holds; `cache` is the commit the cache file was saved for. `fetchHead`,
`head` and `index` are what the repository says, and `stuck` the git command that a lock
file or a missing part of `.git` makes fail.
`Receive`, `UseCache`/`MissCache`, `NoCredential`, `PrepareTree`, `Fetch`, `Checkout`,
`SaveCache`, then per task `TaskFails` (unknown, unresolved placeholder or own
exception), `ReadTree`, `ReadMissingTree` (the conversion to `not_materialized`),
`Return`. Faults: `GitFails`, `SaveCacheFails`, `HalfWipe`, `Crash`. `arrival`
remembers what the scope was like when the request came, and `cleared` how many faults
there had been when the scope was last empty.

`git checkout FETCH_HEAD` (`git.py:67`) has no `-f`, and what it does is taken from git's
own rules. Over files that agree with HEAD and the index (`Unmodified`) it leaves the
fetched commit. Otherwise, when the commits do not differ (`InPlace`), it exits 0 and
touches nothing, missing files included; when they differ, it exits 0 having written
only the files that differ, or refuses to overwrite modified or untracked ones
(`GitRefuses`, no fault needed). A git that is killed leaves what `HalfDone` lists.

### RepoQuery (`sdk/repo_query.py`)

One batch. An answer is its kind and its size; the entries' sizes are constants,
constrained by what the code's strings guarantee (`QueryAssumption`: a DEADLINE
entry is not larger than the RESPONSE_BUDGET entry it replaces, and the refusals of
a full batch fit the budget). `used` is what the code accounts for and `wire` what is
really sent. `HeldUpTo` is the sum of the reservations, given as a constant with its
defining equation. `elapsed` is time since the deadline was set and stands still
except inside an op.

### ContextRun (`sdk/context.py`)

The tool, one grandchild (in the tool's group or detached), two bounded pipes, a
drain thread per pipe, the caller. Characters are counted. `held` is what
`stream.read(n)` has gathered without returning: a text stream returns a full chunk
or, at end of file, what is left. Processes may write, block, hang or exit at will.

### CheckRun (`tools/_plan.py`, `tools/_runner.py`)

One check task. `plan` is a sequence of actions in the order of the code:
`NotApplicable` (its early returns), `Group`, `GuardPasses`/`GuardRefusal` per group,
`AllUnsafe`, `Narrow`, `Lane`; then `run_check`'s two loops, `NextInvocation` and
`RunBatch` with every exit code and output of the tool, `ToolRaises`, and `Cap`. A
tool module is a record of the attributes `plan` and `run_check` look at. Files are
numbers in the order of their paths, and a config has the number of its directory,
so that the nearest config is the largest number on the way to the root. What text
analysis decides (a pattern matches, a section is there, a guard refuses, an exclude
applies) is an attribute of the file or directory, chosen freely at the start.
`report` is the file a reporting tool leaves in `ctx.workdir`; it outlives the batch.
`CheckAssumption` records that every module whose guard looks past the resolved
config (`sqlfluff`, `buf`) has `CONFIG = "required"`: `plan` shows the guard no file
without a config, so the theorem would be false of an optional one.

### ToolFeed (`artifact_tools/procs.py`, `deadline.py`, `run_grep`, `run_jq`)

The threads of one ripgrep or jq run: the tool between three pipes, the feeder
(`made -> pulling -> writing -> closing -> done`, or `failing`), the stderr drain, the
deadline timer (`armed -> firing`: the kill comes after `expired` is set) and the
caller, whose `pc` walks from the starts through reading, `wait`, and the checks
`deadline -> join -> error -> status`, to the shutdown `cancel -> kill -> reap -> stop
-> joinFeeder -> joinDrain -> close`. Every join may give up, `SetupFails` is a thread
(the drain's, the feeder's or the timer's) that cannot be started, and the shutdown runs on
every path. A source may fail with an error, which is kept, or with a connection reset,
which `procs.py:160` takes for a tool that has stopped reading (`reset` remembers it). What the tool is going
to do (read some pieces, print, complain, end well, badly or never) is part of
`request`. Units are counted, never spelled out.

### ArtifactScan (`grep.py`, `slice.py`, the row loop of `sql.py`)

What those threads make of the bytes. The artifact is its positions and which of
them are newlines; a read returns any number of bytes up to `Chunk`. `PassChunk` and
`CutChunk` are the two branches of `cut_long_lines` (`AllLinesShort` is the code's test
of a few places only); `Match`, `ContextLine`, `CountOnly` and `Finish` the collector;
`SliceChunk`/`SliceEnds` the slicer; `FetchBatch` the row loop; `DeadlineStops` may come
between any two. ripgrep itself is external: it reports matches and context lines in
order, which `NextEvent` states.

### RepoRead, RepoFiles (`sdk/repo_fs.py`, trimming in `repo_query.py`)

`RepoRead` holds the pure part: `SelectLines`, `Clamped`, `MergeRanges`, `ReadRanges`,
`FindAround`, `TrimRead`, each over a file given by the lengths of its lines.
`RepoFiles` walks a tree of numbered nodes one directory (`WalkDir`) and one file
(`VisitFile`) at a time, as `os.walk` does: the files of a directory before its
subdirectories. `LosePermission` may strike between two steps. `StartLs`/`LsEntry` is
the listing with its depth and cap (the directory asked for is what its path leads to, links
followed; a link that leads to no directory of the tree is not one), `Read` a read with its budget and the room
that is left in a query's response. What a walk should have found is `Walk`, a
function of the tree and of the nodes that are taken as closed: `Findable` and
`Listable` are its values for grep and ls when the disclosed nodes are the closed ones.

### ConfigGuards (`guards.py`)

`Guard` gives for each of the eleven guards its searches: which files, how they are
read and which part of the document is looked at. regal's config is never opened: its
presence makes the rules beside it count (`Rules`), and the first is named. A directive in
a `.sql` file is read in the decodings `Reads` says; if none is read in the whole file, its
marker is looked for in five encodings (`MarkerEncodings`). A file is a sequence of the
tokens its reader tells apart (`Contents` says which, for each kind of search):
`Starts` is the scanner that jumps over comments and strings, `Kept`/`Parsed` what it
leaves and the parse that is believed only if it accounts for the whole text. The
chains of `extends` (ruff, biome) are walked step by step: `StartChain`, `FollowHop`,
`SkipHop`, `RefuseHop`, `ReturnHop`. `GuardIsExact` does not use the scanner: it reads
a text one token at a time (`LexerAt`) and a chain as the files reached in n hops
(`Hops`, `ChainSound`).

### Reports (`adapters.py`, `severity.py`, `sdk/sarif.py`, `findings.py`, `_runner.py`)

A batch's report, one result at a time: `ParseOne`/`ConvertOne` with `NormalizeUri`,
`Position`, `Level` and the code context with the reader's one-file `memo`;
`Place` is `realign_paths` and the filter on the batch. How each tool counts lines
and columns, and names a file, is external and stated once per tool (`Counted`,
`SarifUri`, `RecordUri`); zizmor is assumed to quote the source in its `input` form, biome
to report a place that the file has, and a SARIF tool to write its names as a URI wants
them. What a URI makes of a plain name that holds `#`, `?`, `;`, `%` or a backslash is the
constant `ReadAs`, and `UriPath` what becomes of a path of such names. Whatever form the report takes, it must lead to
`Expected`, which knows of the tool only its severities and which fields it has.
`ReportsAssumption` says what paths, batches and reports look like: an invocation's
files lie below the directory it runs in, and the tools that run on a whole group
(`AtRoot`) run at the root.

### GuardedCheck

The composition `plan` makes of the two: the guard over the tree first, the tool and
its report only when it approved.

## 3. The runs

| Run | Expect | Distinct states | What it shows |
|---|---|---|---|
| `serve` | pass | 324,526 | Bounded disk but for counted leaks; the most recent scopes kept; unsafe scopes refused; rotation harmless; every request answered |
| `host` | pass | 672,353 | Own commit or a miss; read-only sync path; exact miss signal; one result per task, always |
| `host_stale` | violation of `NeverAnotherCommit` | | A cache that outlives its tree serves another commit |
| `query` | pass | 7,937 | Budget, order of refusals, truthful flag, miss |
| `files` | pass | 3,293,126 | grep, ls and reads are exact, in order, and tell what they leave out |
| `context` | pass | 36,684 | Bounded, truthful, no leftovers, no deadlock, always returns |
| `context_partial` | violation of `NeverSilentlyPartial` | | Output lost without a word behind a background process |
| `tool` | pass | 1,045,821 | No partial answer, the real cause, nothing left running, always ends |
| `scan` | pass | 115,738 | Cut, matches, slice and rows are the reference's, whatever the chunks |
| `check` | pass | 959,928 | Files checked once, under approved and own configs, or accounted for; refusals, failures and cuts visible |
| `checkdata` | pass | 187,521 | Guards refuse exactly what loads code; every report leads to the same finding |
| `report_uri` | violation of `EveryWayAgrees` | | A `#` in a file name sends its findings elsewhere |

Bounds, and why they suffice:

* `serve`: three safe scopes over two warm places make one eviction of each kind
  (a new scope, a scope used again), the fourth request is unsafe; lease expiry
  repeats requests without bound. One fault (a lost call, a failed mkdir or wipe, a kill
  with the disk kept or lost), and one rotation, at any point; a request can be executed
  twice with another in between. A failed mkdir is followed by a restart, so that one
  fault is enough for a second process over a disk it does not know.
* `host`: two commits are enough for a wrong one; two tasks for an overwritten
  signal; two faults for a failure while recovering from a failure. `MCRequests` has every
  pair of tasks of which one reads the tree; the sequence of requests is unbounded.
* `query`: four ops, entry sizes that fit, fit after trimming, just fail to fit and
  exceed everything; the own-size message, which only the first
  op can need, fits its reservation as it does in the code (the fallback for one that
  does not is in the model, and covered by the theorems only); op times from nothing to past the deadline. Five ops exceed `MAX_QUERY_OPS`.
* `files`: four nodes make a directory in a directory with files on both sides of
  it, one node of a special kind (a link, a binary file, a `.git`), one unreadable
  from the start and one lost on the way, over limits and caps of one and three.
  Reads are of every file of three lines of up to two bytes under a budget of four,
  with pairs of ranges that touch, overlap, invert and leave the file.
* `context`: a pipe of one, a chunk of two and budgets of three and one, with output
  up to past both: full pipes, partial chunks and a piece that crosses the budget.
* `tool`: two pieces, two outputs and two messages through pipes of one make each
  pipe full in turn; the tool stops after the first piece or reads to the end, and
  the source may fail, or be reset, at each. `MCInit` drops only the cases in between.
* `scan`: seven bytes hold a line over the limit of four with short ones around it,
  with every border between reads; three hits make contexts that touch and
  overlap; a budget of three is spent in the middle of each of them.
* `check`: three nested directories give a nearer config, one further up and one that
  only a merging tool reads; four files give three in one directory and, with batches
  of two files or four bytes, batches closed by either limit and one oversized name.
  The seven modules cover every lane, guard style, `narrow` hook and kind of report;
  reports are empty, within and past a cap of two, with and without foreign findings.
* `checkdata`: every HCL text of four tokens, and five that begin inside a string;
  JSON with an entry before, in and behind strings and comments; a key behind a
  harmless occurrence, outside its section, too deep or in a file that does not parse;
  chains that loop, leave the tree, end in a missing file and go one further than the
  depth of two; `.sql` files of one part in every encoding and of two parts in different ones;
  regal's config with and without rules. Reports of three defects go back and forth between two files, in each
  form the tool may name them; batches are run at the root and in a directory, and leave
  files of the tree out. No two files have the same last name, and no name is a URI.

No symmetry is used: four of the runs check liveness.

### Fairness

* `ServeLoop`: the loop never stops by itself (`WF(Loop)`), the kubelet refreshes the
  token file, the runner expires leases. Faults are bounded by `MaxFaults` and get
  no fairness. `EveryRequestAnswered` needs all three.
* `TaskHost`: weak fairness of the steps of `run_request`; every blocking call in it
  has a timeout.
* `ContextRun`: the three threads run. The caller's fairness includes
  `TimeoutExpires` and `JoinGivesUp`, which are clocks. Processes owe nothing.
* `ToolFeed`: the tool, the drain, the feeder, the timer and the caller are each
  weakly fair: threads are scheduled, a read of the artifact returns (it has a
  timeout of its own), joins give up, the clock runs. A tool that never ends owes
  nothing: `AlwaysEnds` asks for a deadline or a tool that ends.
* The other modules have safety properties only.

### Findings

1. `host_stale`: c1 is cached, c2 is checked out, the process dies (or the save
   fails) before the cache is rewritten, c1 is asked for again: `cached`, reading c2.
   Deleting the cache file before the setup runs would close it.
2. `context_partial`: the group is killed on a timeout and on oversized output, and
   not on a normal exit, and a reader given up on is not reported.
3. `report_uri`: `from_records` reads a plain path as a URI (`findings.py:97`), so a
   name with `#`, `?`, `%` or an early `:` loses its findings. The run gives one name a `#`.

Observations without a run of their own, met while modelling:

* `serve.py:129` starts with no scopes, whatever is under workdir, and
  `serve.py:238` and `247` forget a scope whose directory they failed to delete: after
  either, `serve.py:44-46` ("keeps at most `max_stateful_scopes` scopes warm") is not true
  of the disk. `WarmBounded` counts what may be left so: one directory for each failed
  wipe, a pod's worth for each restart over the same disk.
* `git.py:67` checks out without `-f` over whatever an interrupted checkout or half a wipe
  has left: it may be refused for good (a lock file, untracked files in the way), or
  exit 0 with files still missing, after which the setup is cached and reads are answered
  from the torn tree. Only an eviction heals such a scope, and nothing asks for one.
* `procs.py:160`: the `except (BrokenPipeError, ConnectionResetError)` meant for the tool's
  stdin is around the iteration of the source too. When the artifact's connection is reset,
  no error is kept, the tool sees an ordinary end of input, and its answer about half of the
  artifact is returned, which `procs.py` says must not happen. `NoPartialAnswer` excepts
  exactly this (`reset`); any other failure of the source is covered.
* `serve.py:313` (mkdir) stands before the `try`; `serve.py:50-52` says "Never raises
  out of the loop". The model has the exception (`MakeScopeFails`).
* `_cached_setup_outputs` asks whether the path exists (`host.py:150`), the tasks
  whether the tree is materialised: an empty tree is a cache hit for every later
  request, credentialed ones included.
* `_runner.py:124` starts the tool without removing the report of the batch before,
  and `_runner.py:112-114` says it "never returns silently" when the report is missing.
  `FailureIsVisible` states what does hold: unexpected exits, and a missing report
  when there is one batch.
* `os.walk` yields the files of a directory before its subdirectories, so that grep's
  matches are not in path order; `truncated` is set when a grep or ls ends exactly at
  its limit, where nothing may be missing.
* `realign_paths` believes a path that is a file of the batch before it asks which files
  it may name (`_runner.py:164`): when a batch holds `action.yml` and `sub/action.yml`, what
  zizmor says of the second by its last name is reported on the first.
* The adapters of biome (`adapters.py:249-256`) and ast-grep (`adapters.py:295`, a missing
  line plus one) report what has no place on line 1, where the others say that there is no
  line.
* sqlfluff's guard looks for a directive's marker in five encodings only (`guards.py:681`), and
  in none when it has read a harmless directive anywhere in the file (`guards.py:806-815`);
  `Unsafe`, which `GuardIsExact` rests on, says which directives are therefore not promised.
* `_strip_hcl_comments` returns the text for an unterminated string, where its
  docstring (`guards.py:894-897`) says None and `tflint` (`guards.py:976-977`) would refuse;
  the rest of the file is then searched as live text, so that nothing hides in it.
  `GuardIsExact` does not ask for the promised refusal.

`ReadsOwnCommit`, `CredentialedIsServed` and `MissReportedExactly` state what does
hold beside finding 1 and the observations on `git.py:67` and the empty tree: their premises
(`arrival.coherent`, `arrival.free`, nothing failed during the request) exclude exactly those
histories, and `CoherentWithoutFaults` shows that the premises are met whenever nothing has
failed since the scope was last cleared.

## 4. The proofs

| Module | Theorem | For every |
|---|---|---|
| `ServeLoopProofs` | `UnsafeNeverServed` | set of requests and scopes, cap, number of faults and tokens |
| | `WarmScopesBounded` | the same, with wipes that fail and disks that survive |
| | `RotationIsHarmless` | the same |
| | `ServeImplementsWarmScopes` | the same |
| `TaskHostProofs` | `ReadsAreOwn`, `OnlyFaultsDisagree`, `MissesAreReported`, `CredentialServes`, `SyncReadsOnly` | commits, requests, tasks, faults |
| `RepoQueryProofs` | `OutputWithinBudget`, `AnswersAreHonest`, `TruncationIsTold`, `DeadlineHolds`, `MissIsReported` | budget, number of ops, sizes, deadline |
| `ToolRunProofs` | `GuardAlone`, `GuardBeforeTool` | tree of configs, their texts, tool, names of rules, bound on a chain |
| | `ReportsAgree` | tool, files and their lines, batch, report of any length, budget; an ordinary report |
| | `TypeCorrect`, `OutputIsBoundedAndWhole`, `VerdictsAreRight`, `NothingIsLeft` | budgets, pipe size, chunk size, amount of output |
| `CheckRunProofs` | `GuardHolds`, `ConfigsAreOwn`, `FilesAreCheckedOnce`, `FailuresAreSeen`, `CutsAreTold`, `RefusalsAreSeen`, `NotesAddUp`, `TypeCorrect` | tree, diff, tool module, report, limits |
| `ToolFeedProofs` | `TypeCorrect`, `AnswersAreWhole`, `CausesAreTrue`, `NothingIsLeft` | artifact, output, messages, pipes, limit |
| `ArtifactScanProofs` | `CutExact`, `GrepTrue`, `SliceExact`, `RowsPrefix` | artifact, chunks, line limit, matches, context, limits |
| `RepoFilesProofs` | `ReadHonest` | file, ranges or matching lines, context, budget, room |
| | `GrepHonest`, `LsHonest` | tree, contents, globs, depth, limits, permissions lost during the walk |

Arguments:

* **ServeLoop.** `Serving` (what a request in hand looks like at each `pc`) makes
  `UnsafeRefused` inductive. `Disk` is `DiskIsRemembered` (what the process remembers is on
  disk), `Len(scopes) <= MaxScopes` and no more `Orphans` (what else is on disk) than
  `leaks`; the steps that matter are `RetainOrWipe` and `WipeFails`, whose lemmas say what
  `PopKey`, `Touch` and `Evict` do to the set of keys and to their number, and a restart
  over the old disk, which turns at most `Room` remembered scopes into orphans.
  `WarmBounded` follows since the set of a list is not larger than the list. The refinement adds `Latest`:
  what the process remembers are the last `MaxScopes` of all the scopes it has used.
  A step preserves it because keeping the latest and then touching one is the same as
  touching it among all and keeping the latest of those (`LatestStay`, by the places
  the scopes have before and after). Then `MakeScope` is `Begin`, `RetainOrWipe` and
  `WipeFails` are `Finish`, a fresh process is `Replaced`, and every other step leaves the abstract pod
  as it is.
* **TaskHost.** None of its properties is inductive: they speak of a request that
  has returned. `Setting` says what the setup has established at each step of it
  (the fetched commit is the request's); `AsFound` that a request without a fault still meets
  the scope it came to until its own setup has changed it, and that git finds there what it
  would on a new one (`Unmodified` and, if `arrival.free`, nothing stuck); `Own`, `Missed` and `Served`
  what the tasks may rely on from then on; `Agreed` is `CoherentWithoutFaults` at every
  step, counting from the last time the scope was empty. A fault raises `faults` above `arrival.faults`, which is all that
  has to be said of it (`Spoiled`).
* **ToolFeed.** `Flow` counts what is in the pipes. `Fate` says who can have ended the
  tool, and that its input ends only if all was fed or the source failed or was reset. `Decided` is
  the heart: each of the caller's tests is of something that cannot change any more
  when it is made, which is why their order (deadline, join, error, status) matters.
  `ShutDown` does the same for the steps of the shutdown.
* **RepoQuery.** `WithinBudget` alone is not inductive: `Ledger` adds that the
  reservation is exactly the sum of the refusals still to be given, that nothing is
  spent before the first answer and something is after it (the code's
  `used == baseline_used` test). `Course` ties the answers given to the three flags.
* **ConfigGuards.** Three layers. *Texts*: the scanner's jumps and the lexer's single
  steps agree (`ScannerIsLexer`: between two places where the scanner stands, the lexer's
  state is decided by the token at the first; for a string this needs that a quote ends
  it exactly when an even run of escapes is before it, `EscapedNext`). So what is kept of
  a text is what the language reads there, and each kind of search finds exactly what
  the file holds (`SearchIsExact`), decoys or not. *Chains*: `Walk` is the invariant of
  the recursion. Its witness gives each visited file a depth and the number of its
  values already dealt with; the calls under way are on the stack from the first file to
  the last, each file but the first is named by exactly one place dealt with, and every
  value dealt with was good. A chain that returns to its caller without a file has then
  met all that can be reached, each at the number of hops `Hops` counts (`WalkEnds`); a
  value that stops the walk shows the chain unsound: it names a file twice, closes a
  loop or is one hop too far (`WalkRefuses`). *Searches*: `GuardInv` adds that what is
  on the list of files still to look at belongs to the search under way, and that all
  that has been looked at is safe (`SafeSoFar`). `GuardIsExact` alone is not inductive:
  it is silent until there is a verdict. TLC checked this invariant on the `checkdata`
  instance, with a computed witness, before it was proved.
* **Reports.** `ReportInv` carries `MemoRight` (the lines the reader holds are those of
  the file it says they are) and, for an ordinary report, `KeptSoFar = ExpectedSoFar`: the
  findings so far, put through `Place`'s filter, are what is expected of the defects read
  so far. A step is one defect (`OneDefect`). Its path comes back to the file it is on in
  whatever form the tool named it (`RecordPut` and `SarifPut`, over `CleanHome`: the run
  directory and the path from it, which may climb out of it again, make the file); its
  position is the one counted from one (`PositionIs`, with `AdaptersAre` for the 19
  tools, and `BiomeLineIs`, by the sums `SizesUpTo` being increasing); the line read there
  is the file's (`ContextIs`). A defect that is expected nowhere is dropped or not kept.
  `OrdinaryReport` is the premise. It asks of every file name that it be the same in a path
  and in a URI (no `#`, `?`, `;`, `%`, backslash or early colon): for a record, finding 3
  applies otherwise; for SARIF, where a name that is quoted as it should be is read right,
  it spares the theorem the assumption that each tool does so. The other conditions
  are needed. ast-grep and biome report a place, or their adapters make it line 1. biome's
  lines are of one-byte characters, or its offsets are taken for others. A tool whose
  paths are realigned reports on files of the batch, or one outside it is taken for a
  file of the batch that ends in the same names; and what it names by the last name only
  is the only file of that name, or the root's file takes it (`_runner.py:164`, among the
  observations).
  The other half of the theorem, that exactly the SARIF reports of more bytes than the
  budget are refused, has no premise: it rests on a character being one to four bytes.
* **ContextRun.** `Conservation`: every character written is in the pipe, in the
  reader's hands or counted, and what is kept is all that was counted until the
  budget was exceeded. `Progress`: the tool is reaped before the joins, and once a
  kill is due the group is dead or a thread is about to kill it.
* **CheckRun.** `PlanInv`: a file is in the group of its nearest config only, and a
  group the guard has been through holds safe files; `PassingGroupIsSafe` turns a
  verdict on a group's configs into one on each file. `RunInv` carries both to the
  invocations and batches (`LaneRunsWell`: one config is named only if one group is
  left). `OnceInv` keeps what ran, what is left of the invocation and what is not begun
  disjoint, which makes the count a cardinality. `ShownInv` is about the list before
  the cap: every failure is in it, and it is too long once parse has cut a report; it
  needs `OnceInv` to know that the only batch found no older report. `RefusalInv` says
  of each eligible file that its group is still to be judged, or its refusal is in
  the list, or it loads nothing unsafe; that no file falls between the groups rests on
  `NearestIsConfig` (a least-number argument over the directories). `NotesInv` counts:
  the places the notes give are as many as the eligible files that have left the plan,
  at every step of it.
* **ArtifactScan.** Each task has its invariant over the bytes read so far. `SliceInv`:
  the line number in hand is that of the next byte. `FeedInv`: what has been passed on
  is what fits of the bytes read, and the unfinished line is as long as the code
  believes; the fast path needs that a line longer than the limit covers one of the
  places it looks at. `CollectInv`: the match held back has the context that is due by
  now, and the ones before it are kept or there was no room. `SqlInv`: the rows in hand
  fit, and a limit has ended the query only if it was met.
* **RepoFiles.** `ReadHonest` is about what one step computes, through functions that
  are recursive over the ranges. `MergedUpTo` and `ReadUpTo` are the loop invariants of
  `_merge_ranges` and `read_ranges`: the ranges done lie apart and hold the lines of the
  ones consumed; the parts read answer for them in their order, their cost and what is
  left of the budget add up, and a range is dropped only when nothing is left.
  `ClipIs`, `TrimIs` and `FitIs` carry `Answers` through the trimming. The walks need an
  invariant that looks ahead (`OnTheWay`, in `GrepInv` and `LsInv`): what is found,
  followed by what `Walk` gives for the nodes still to visit, is what `Walk` gives from
  the start, and so whichever of the nodes not yet met turn out to be unreadable. The
  set of those (`rest`) is closed under going down the tree, holds no disclosed node,
  and each node waits in the list once. Visiting a node (`VisitIs`) fixes what it holds
  and takes it out of `rest`. At the limit only the prefix is kept. `WalkIs` unfolds
  `Walk`, which is defined as the numbers of the nodes grow from a directory to what is in
  it (`OrderExists`, `OneOrder`). These invariants were checked by TLC on trees of three
  nodes before they were proved.

Induction over numbers is done by least counterexample: the library's `WFMin` says
that a set of numbers has a least one (`Least`), so a set of counterexamples that has
none is empty (`Induction`), and a recursive function is the union of its finite beginnings
(`StepsDefine`). It is how `HeldUpTo` is proved monotone and how the functions of
`RepoRead` are reasoned about, from their defining equations.

The assumptions are the named `ASSUME`s of the modules; TLC evaluates them on every
run.

The type invariants of `ServeLoop`, `TaskHost`, `RepoQuery`, `ContextRun`, `CheckRun` and
`ToolFeed` are theorems (or conjuncts of one), and in no run.

Model-checked only: all liveness (`EveryRequestAnswered`, `AlwaysReturns`,
`RunReturns`, `FullPipeDrains`, `AlwaysEnds`), which is out of the prover's reach. Every
safety property of the passing runs is stated by a theorem. `EveryWayAgrees` is one with a
premise: without it the property is false of the code, as run `report_uri` shows.

## 5. Not modelled

* Regular expressions, glob matching, symbols and path arithmetic: they appear as
  the files and lines they select. Parsers of the standard library and the tools
  themselves are external.
* SARIF fingerprints, message texts, command lines, a tool's environment, the
  creation of the scratch view, buf's grouping by workspace.
* biome's byte offsets beside characters of several bytes (`adapters.py:256`): the
  runs use, and `Ordinary` asks for, lines of one-byte characters, for which bytes and
  characters agree. What biome or ast-grep reports without a place, and names that are not the
  same in a path and in a URI, are in the model and outside `Ordinary`.
* jq's check of the program and sql's projection of columns: text to text.
* git's objects and `changed_files` (git's HEAD, index and lock files appear as far as they
  decide what a fetch or a checkout does), HTTP, pydantic validation, logging.
* Start-up, the command line, `run_local.py`, schemas, SBOM and image builds: no
  state at run time.
* Time is a bound per op (`MaxOpTime`) or a step that may happen (`TimeoutExpires`,
  `JoinGivesUp`, `LeaseExpires`, `Fire`), not a clock.

## 6. Plan

Done: the modules of section 2 and the proofs of section 4. What comes next:

1. A composition of `ServeLoop`'s scopes with `TaskHost`'s cache: the caller's
   recovery from `not_materialized` across evictions and restarts.
2. `CheckRun`: buf's workspaces and the scratch view.
