---------------------------- MODULE MCArtifactScan ----------------------------
(***************************************************************************)
(* Every placing of newlines in seven bytes, lines over four bytes long,   *)
(* every chunking; up to three hits of the pattern.                        *)
(***************************************************************************)
EXTENDS ArtifactScan

Greps == [task : {"grep"}, context : {0, 1}, maxMatches : {2}, saveAll : BOOLEAN]
           \cup [task : {"grep"}, context : {2}, maxMatches : {3}, saveAll : {FALSE}]
Slices == [task : {"slice"}, from : {1, 2, 4}, to : {2, 3, 5}]
Queries == [task : {"sql"}, maxRows : 1..3, batch : {1, 2}]

MCRequests == {r \in Greps \cup Slices \cup Queries : r.task = "slice" => r.from < r.to}

MCInit ==
  /\ Init
  /\ Cardinality(hits) <= 3
  /\ request.task # "grep" => hits = {}

MCSpec == MCInit /\ [][Next]_vars

===============================================================================
