----------------------------- MODULE MCContextRun -----------------------------
(* Output that stays under, reaches and exceeds the budgets, through a pipe and *)
(* a chunk smaller than both.                                                   *)
EXTENDS ContextRun

MCBudget == [s \in Streams |-> IF s = "out" THEN 3 ELSE 1]

MCOutput == [s \in Streams |-> IF s = "out" THEN 5 ELSE 3]
===============================================================================
