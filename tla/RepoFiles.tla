------------------------------- MODULE RepoFiles -------------------------------
(***************************************************************************)
(* grep, ls and read over a checked-out tree                               *)
(* (sdk/runwhen_capability/repo_fs.py).  The walks visit the disk one      *)
(* directory and one file at a time, while what they have not reached yet  *)
(* may become unreadable.  Node 0 is the root; the numbers of the nodes    *)
(* of a directory are the order of their names.                            *)
(***************************************************************************)
EXTENDS RepoRead, SequencesExt

CONSTANTS
  Nodes,          \* the number of nodes below the root
  Contents,       \* what a file may hold: its lines are "hit", "def" or "miss"
  Limits,         \* what a grep's maxMatches may be, bounded by HARD_GREP_MAX_MATCHES
  MaxEntries,     \* MAX_LS_ENTRIES
  MaxUnreadable,  \* MAX_UNREADABLE_PATHS
  MaxLost,        \* bound: nodes that become unreadable during a walk
  Reads           \* the reads asked for: see ReadType

\* A read of one range (0: a bound not given), of several, or around the lines
\* that match a pattern; lines are those of the file, room what is left of the
\* response (read_lines answers a task of its own, without one).
ReadType ==
  [op : {"read_lines", "read_ranges"}, lines : Seq(Nat), ranges : Seq(Nat \X Nat), room : Nat]
    \cup [op : {"around"}, lines : Seq(Nat), matching : SUBSET Nat, context : Nat, room : Nat]

ASSUME FilesAssumption ==
  /\ Nodes \in Nat /\ MaxEntries \in Nat \ {0} /\ MaxUnreadable \in Nat /\ MaxLost \in Nat
  /\ Limits \subseteq Nat \ {0} /\ Contents \subseteq Seq({"hit", "def", "miss"})
  /\ Reads \subseteq ReadType
  /\ \A r \in Reads : r.op = "read_lines" => Len(r.ranges) = 1
  /\ \A r \in Reads : r.op = "around" => r.matching \subseteq DOMAIN r.lines

VARIABLES
  parent,    \* the directory of each node
  kind,      \* "dir", "file", "binary", "link" or "git" (a directory named .git)
  content,   \* the lines of each file
  selected,  \* the files one of the globs matches
  readable,  \* the nodes that can be read
  lost,      \* how many have become unreadable
  request,   \* [op, ...], see Init
  todo,      \* the directories (grep) or names (ls) still to visit, in order
  files,     \* grep: the files of the directory being walked still to visit
  found,     \* grep: the matches, ls: the entries
  unreadable, unreadableTruncated, \* _UnreadablePaths
  outcome,   \* "start", "none" (walking), "answered", "miss" or the code of an error
  answer     \* a read's result, as a sequence of at most one (none: no room for it)

treeVars == <<parent, kind, content, selected>>
walkVars == <<todo, files, found, unreadable, unreadableTruncated>>
vars == <<treeVars, readable, lost, request, walkVars, outcome, answer>>

Children(d) == {n \in 1..Nodes : parent[n] = d}
Dirs == {0} \cup {n \in 1..Nodes : kind[n] = "dir"}
Files == {n \in 1..Nodes : kind[n] \in {"file", "binary"}}

\* The numbers of S in increasing order.
InOrder(S) ==
  [n \in 1..Cardinality(S) |-> CHOOSE x \in S : Cardinality({y \in S : y < x}) = n - 1]

\* check_tree_materialized: a tree holding nothing but .git is not a checkout.
Materialized == \E n \in Children(0) : kind[n] # "git"

\* A listing's `dir` is the node its path resolves to (_confined, resolve): a link asked
\* for by name counts as what it leads to, a directory of the tree listed under its own
\* names. A link as `dir` leads to no directory.
Requests ==
  [op : {"grep"}, limit : Limits, excludes : BOOLEAN, badPattern : BOOLEAN]
    \cup [op : {"ls"}, dir : 0..Nodes, depth : 1..(Nodes + 1)]
    \cup Reads

Init ==
  /\ kind \in [1..Nodes -> {"dir", "file", "binary", "link", "git"}]
  /\ parent \in {p \in [1..Nodes -> 0..Nodes] :
                   \A n \in 1..Nodes :
                     p[n] < n /\ (p[n] # 0 => kind[p[n]] \in {"dir", "git"})}
  /\ \A n, m \in 1..Nodes : kind[n] = "git" /\ kind[m] = "git" /\ parent[n] = parent[m] => n = m
  /\ content \in [1..Nodes -> Contents] /\ selected \in SUBSET Files
  /\ readable \in SUBSET (0..Nodes) /\ lost = 0
  /\ request \in Requests
  /\ todo = <<>> /\ files = <<>> /\ found = <<>>
  /\ unreadable = {} /\ unreadableTruncated = FALSE
  /\ outcome = "start" /\ answer = <<>>

\* A node that is there is no longer readable; a walk may have read it before.
LosePermission ==
  /\ outcome = "none" /\ lost < MaxLost
  /\ \E n \in readable : readable' = readable \ {n}
  /\ lost' = lost + 1
  /\ UNCHANGED <<treeVars, request, walkVars, outcome, answer>>

\* _UnreadablePaths.add
Disclose(n) ==
  IF Cardinality(unreadable) < MaxUnreadable
    THEN unreadable' = unreadable \cup {n} /\ UNCHANGED unreadableTruncated
    ELSE unreadableTruncated' = TRUE /\ UNCHANGED unreadable

Fails(code) ==
  /\ outcome' = code
  /\ UNCHANGED <<treeVars, readable, lost, request, walkVars, answer>>

Answer ==
  /\ outcome' = "answered"
  /\ UNCHANGED <<treeVars, readable, lost, request, walkVars, answer>>

Miss == outcome = "start" /\ ~Materialized /\ Fails("miss")

-------------------------------------------------------------------------------
(* grep *)

StartGrep ==
  /\ outcome = "start" /\ Materialized /\ request.op = "grep"
  /\ IF request.badPattern
       THEN outcome' = "INVALID_PATTERN" /\ UNCHANGED todo
       ELSE outcome' = "none" /\ todo' = <<0>>
  /\ UNCHANGED <<treeVars, readable, lost, request, files, found, unreadable,
                 unreadableTruncated, answer>>

Walking == request.op = "grep" /\ outcome = "none" /\ files = <<>> /\ todo # <<>>

\* _on_walk_error: the root was asked for, a directory below it only met.
WalkError ==
  /\ Walking /\ Head(todo) \notin readable
  /\ IF Head(todo) = 0
       THEN outcome' = "UNREADABLE" /\ UNCHANGED <<unreadable, unreadableTruncated, todo>>
       ELSE Disclose(Head(todo)) /\ todo' = Tail(todo) /\ UNCHANGED outcome
  /\ UNCHANGED <<treeVars, readable, lost, request, files, found, answer>>

\* The directories of d; the root's .git is left out (a .git further down is a
\* directory like any other), and so are links.
Inner(d) == {n \in Children(d) : kind[n] = "dir" \/ (kind[n] = "git" /\ d # 0)}

\* _walk_files: the files of a directory, then its directories.
WalkDir ==
  /\ Walking /\ Head(todo) \in readable
  /\ files' = InOrder(Children(Head(todo)) \cap Files)
  /\ todo' = InOrder(Inner(Head(todo))) \o Tail(todo)
  /\ UNCHANGED <<treeVars, readable, lost, request, found, unreadable, unreadableTruncated,
                 outcome, answer>>

\* The matching lines of a file, without the ones exclude drops.
Hits(f) == {<<f, l>> : l \in {i \in DOMAIN content[f] :
              content[f][i] = "hit" \/ (content[f][i] = "def" /\ ~request.excludes)}}
HitSeq(f) == LET lines == InOrder({h[2] : h \in Hits(f)})
             IN [i \in DOMAIN lines |-> <<f, lines[i]>>]

Searched(f) == kind[f] = "file" /\ f \in selected

UpTo(seq, n) == SubSeq(seq, 1, IF Len(seq) < n THEN Len(seq) ELSE n)

\* Mutant: definition lines are dropped after the limit was applied.
GrepFileMut ==
  LET f == Head(files)
      all == [i \in DOMAIN content[f] |-> <<f, i>>]
      raw == SelectSeq(all, LAMBDA h : content[f][h[2]] # "miss")
      upTo == UpTo(raw, request.limit - Len(found))
  IN found' = found \o SelectSeq(upTo, LAMBDA h : h \in Hits(f))

\* _grep_file on a readable file: every match, up to the limit.
GrepFile == found' = UpTo(found \o HitSeq(Head(files)), request.limit)

VisitFile ==
  /\ request.op = "grep" /\ outcome = "none" /\ files # <<>>
  /\ LET f == Head(files)
     IN CASE f \notin selected -> UNCHANGED <<found, unreadable, unreadableTruncated>>
          [] f \in selected /\ f \notin readable -> Disclose(f) /\ UNCHANGED found
          [] f \in selected /\ f \in readable /\ kind[f] = "binary" ->
               UNCHANGED <<found, unreadable, unreadableTruncated>>
          [] OTHER -> GrepFile /\ UNCHANGED <<unreadable, unreadableTruncated>>
  /\ files' = IF Len(found') >= request.limit THEN <<>> ELSE Tail(files)
  /\ todo' = IF Len(found') >= request.limit THEN <<>> ELSE todo
  /\ UNCHANGED <<treeVars, readable, lost, request, outcome, answer>>

EndGrep ==
  /\ request.op = "grep" /\ outcome = "none" /\ files = <<>> /\ todo = <<>>
  /\ Answer

-------------------------------------------------------------------------------
(* ls *)

DepthBelow(n) ==
  LET depth[m \in 0..Nodes] ==
        IF m = request.dir THEN 0
        ELSE IF m = 0 THEN Nodes + 1
        ELSE 1 + depth[parent[m]]
  IN depth[n]

\* What is met below the directory asked for is gone into, down to the depth.
GoesDown(n) == kind[n] \in {"dir", "git"} /\ DepthBelow(n) < request.depth

\* The names of the directory that was asked for, without its .git.
Listing(d) == {n \in Children(d) : kind[n] = "git" => d # request.dir}

\* Mutant: a directory asked for is no different from one met on the way.
StartLsMut ==
  /\ outcome = "start" /\ Materialized /\ request.op = "ls"
  /\ IF request.dir # 0 /\ kind[request.dir] \notin {"dir", "git"}
       THEN outcome' = "NOT_A_DIRECTORY" /\ UNCHANGED <<todo, unreadable, unreadableTruncated>>
     ELSE IF request.dir \notin readable
       THEN outcome' = "none" /\ Disclose(request.dir) /\ UNCHANGED todo
     ELSE /\ outcome' = "none" /\ todo' = InOrder(Listing(request.dir))
          /\ UNCHANGED <<unreadable, unreadableTruncated>>
  /\ UNCHANGED <<treeVars, readable, lost, request, files, found, answer>>

\* The directory asked for, its links resolved (strict): what cannot be listed is an error.
StartLs ==
  /\ outcome = "start" /\ Materialized /\ request.op = "ls"
  /\ IF request.dir # 0 /\ kind[request.dir] \notin {"dir", "git"}
       THEN outcome' = "NOT_A_DIRECTORY" /\ UNCHANGED todo
     ELSE IF request.dir \notin readable
       THEN outcome' = "UNREADABLE" /\ UNCHANGED todo
     ELSE outcome' = "none" /\ todo' = InOrder(Listing(request.dir))
  /\ UNCHANGED <<treeVars, readable, lost, request, files, found, unreadable,
                 unreadableTruncated, answer>>

\* _ls_walk on one name: an entry, and what is in it down to the depth.
LsEntry ==
  /\ request.op = "ls" /\ outcome = "none" /\ todo # <<>> /\ Len(found) < MaxEntries
  /\ LET n == Head(todo)
         goesIn == GoesDown(n) /\ Len(found) + 1 < MaxEntries
     IN /\ found' = Append(found, n)
        /\ IF goesIn /\ n \notin readable
             THEN Disclose(n) /\ todo' = Tail(todo)
             ELSE /\ todo' = (IF goesIn THEN InOrder(Listing(n)) ELSE <<>>) \o Tail(todo)
                  /\ UNCHANGED <<unreadable, unreadableTruncated>>
  /\ UNCHANGED <<treeVars, readable, lost, request, files, outcome, answer>>

EndLs ==
  /\ request.op = "ls" /\ outcome = "none" /\ (todo = <<>> \/ Len(found) >= MaxEntries)
  /\ Answer

-------------------------------------------------------------------------------
(* read *)

\* _read: a whole answer to read_lines and, for a query, what fits in the room
\* left of the response.
Read ==
  /\ outcome = "start" /\ Materialized /\ request \in Reads
  /\ answer' =
       CASE request.op = "read_lines" -> <<ReadLines(request.lines, request.ranges[1])>>
         [] request.op = "read_ranges" ->
              Fit(request.lines, ReadRanges(request.lines, request.ranges), request.room)
         [] request.op = "around" ->
              Fit(request.lines,
                  ReadRanges(request.lines,
                             FindAround(request.lines, request.matching, request.context)),
                  request.room)
  /\ outcome' = "answered"
  /\ UNCHANGED <<treeVars, readable, lost, request, walkVars>>

Next ==
  \/ LosePermission \/ Miss
  \/ StartGrep \/ WalkError \/ WalkDir \/ VisitFile \/ EndGrep
  \/ StartLs \/ LsEntry \/ EndLs
  \/ Read

Spec == Init /\ [][Next]_vars

-------------------------------------------------------------------------------
(* Properties *)

\* What there is to find from the nodes of first on, in the order of a walk:
\* what a node holds of its own before what is found in each node inside it.
Walk(first, own, inside) ==
  LET order[n \in DOMAIN own] ==
        own[n] \o FlattenSeq([i \in DOMAIN inside[n] |-> order[inside[n][i]]])
  IN FlattenSeq([i \in DOMAIN first |-> order[first[i]]])

\* The matches of the files that are searched and the nodes of the directories,
\* but for the closed ones: what a grep would find if it could not read those.
Matches(closed) ==
  [n \in 0..Nodes |-> IF n \in Files \ closed /\ Searched(n) THEN HitSeq(n) ELSE <<>>]
Walked(closed) ==
  [n \in 0..Nodes |-> IF n \in Files \cup closed THEN <<>>
                      ELSE InOrder(Children(n) \cap Files) \o InOrder(Inner(n))]
Findable(closed) == Walk(<<0>>, Matches(closed), Walked(closed))

\* Absence is told from ignorance: a grep that is answered lists, in the order
\* of the walk and up to its limit, every matching line that exclude does not
\* drop of every text file a glob selects, but for the files under a path it
\* discloses as unreadable; the root is never one of those.
GrepIsHonest ==
  request.op = "grep" /\ outcome = "answered" /\ ~unreadableTruncated =>
    /\ 0 \notin unreadable
    /\ IsPrefix(found, Findable(unreadable)) /\ Len(found) <= request.limit
    /\ Len(found) < request.limit => found = Findable(unreadable)

\* The names in the directories an ls goes into, but for the closed ones.
Entered(closed) ==
  [n \in 1..Nodes |-> IF n \in closed \/ ~GoesDown(n) THEN <<>> ELSE InOrder(Listing(n))]
Listable(closed) ==
  Walk(InOrder(Listing(request.dir)), [n \in 1..Nodes |-> <<n>>], Entered(closed))

\* An ls that is answered lists each name of the directory asked for and of the
\* directories in it down to the depth, the directory before its names, up to
\* the cap, but for what is in the directories it discloses as unreadable.
LsIsHonest ==
  request.op = "ls" /\ outcome = "answered" /\ ~unreadableTruncated =>
    /\ request.dir \notin unreadable
    /\ IsPrefix(found, Listable(unreadable)) /\ Len(found) <= MaxEntries
    /\ Len(found) < MaxEntries => found = Listable(unreadable)

\* The lines a read asks for, those after the end of the file left out.
Wanted ==
  LET total == Len(request.lines)
      ranges == IF request.op = "around"
                  THEN FindAround(request.lines, request.matching, request.context)
                  ELSE request.ranges
  IN UNION {Clamped(ranges[i], total)[1]..Clamped(ranges[i], total)[2] : i \in DOMAIN ranges}

\* A read's answer holds lines that were asked for, each in one range at most,
\* true to the number it gives for the first and the last; it stays within the
\* budget and the room; it is cut inside a line only when that line alone is too
\* long; and it says it is truncated whenever a line is missing or cut.
ReadIsHonest ==
  \A a \in {answer[i] : i \in DOMAIN answer} :
    LET lines == request.lines
        part(i) == a.ranges[i]
        whole(i) == part(i).bytes = Text(lines, part(i).start, part(i).end)
        given(i) == part(i).start..part(i).end
        cost == Cost(a.ranges, Len(a.ranges))
    IN /\ cost <= ReadBudget + Envelope * Len(a.ranges)
       /\ request.op # "read_lines" => cost <= request.room
       /\ \A i \in DOMAIN a.ranges :
            /\ given(i) \subseteq Wanted
            /\ \A j \in DOMAIN a.ranges : i = j \/ given(i) \cap given(j) = {}
            /\ whole(i) \/ (/\ part(i).start = part(i).end
                            /\ part(i).bytes < lines[part(i).start] /\ a.truncated)
       /\ ~a.truncated => UNION {given(i) : i \in DOMAIN a.ranges} = Wanted

===============================================================================
