----------------------------- MODULE MCRepoFiles -----------------------------
(***************************************************************************)
(* Walks over every tree of four nodes, some of them unreadable from the   *)
(* start and one lost on the way; reads of files of up to three lines.     *)
(***************************************************************************)
EXTENDS RepoFiles

MCContents == {<<"hit">>, <<"def", "hit", "miss">>, <<"hit", "def", "hit">>, <<>>}
MCContent == <<<<"hit", "def", "hit">>, <<"def", "hit", "miss">>, <<"hit">>, <<"hit", "def", "hit">>>>

ShortFiles == UNION {[1..n -> 0..2] : n \in 1..3}
Pairs == {<<1, 1>>, <<1, 2>>, <<2, 0>>, <<2, 2>>, <<3, 3>>, <<1, 9>>, <<4, 4>>, <<5, 9>>}

MCReads ==
  [op : {"read_lines"}, lines : ShortFiles, ranges : {<<p>> : p \in Pairs}, room : {0}]
    \cup [op : {"read_ranges"}, lines : ShortFiles, ranges : Pairs \X Pairs, room : {2, 5, 9}]
    \cup {r \in [op : {"around"}, lines : ShortFiles, matching : SUBSET (1..3), context : {0, 1},
                room : {4, 9}] : r.matching \subseteq DOMAIN r.lines}

\* The tree of the reads is of no account.
MCInit ==
  /\ content = MCContent
  /\ request \in Requests
  /\ IF request \in Reads
       THEN /\ kind = [n \in 1..Nodes |-> "file"] /\ parent = [n \in 1..Nodes |-> 0]
            /\ selected = Files /\ readable = 0..Nodes
       ELSE /\ kind \in [1..Nodes -> {"dir", "file", "binary", "link", "git"}]
            /\ Cardinality({n \in 1..Nodes : kind[n] \in {"binary", "link", "git"}}) <= 1
            /\ selected \in {Files, Files \ {Nodes}}
            /\ readable \in {0..Nodes} \cup {(0..Nodes) \ {n} : n \in 0..Nodes}
  /\ Init

MCSpec == MCInit /\ [][Next]_vars

===============================================================================
