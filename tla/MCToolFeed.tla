------------------------------ MODULE MCToolFeed ------------------------------
(***************************************************************************)
(* A tool that stops after the first piece without a word on stderr, or    *)
(* one that reads to the end and fills its stderr.                         *)
(***************************************************************************)
EXTENDS ToolFeed

MCInit ==
  /\ Init
  /\ <<request.reads, request.complains>> \in {<<1, 0>>, <<Pieces + 1, Messages>>}

MCSpec == MCInit /\ [][Next]_vars /\ Fairness

===============================================================================
