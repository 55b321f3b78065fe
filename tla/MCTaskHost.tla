------------------------------- MODULE MCTaskHost -------------------------------
(* Two commits on one scope.  With a setup: every two tasks of which one reads *)
(* the tree.  Without one, or with one that is not registered: one read.       *)
EXTENDS TaskHost

CONSTANTS c1, c2

MCRequests ==
  [commit : {c1, c2}, credentials : BOOLEAN, setup : {"open"},
   tasks : {<< >>, <<"read">>, <<"read", "read">>, <<"read", "boom">>, <<"boom", "read">>,
            <<"unknown", "read">>}]
  \cup [commit : {c1}, credentials : {TRUE}, setup : {"none", "unknown"}, tasks : {<<"read">>}]
===============================================================================
