------------------------------ MODULE MCRepoQuery ------------------------------
(* Up to four ops under a budget a few entries wide: each entry takes 2 to 6 *)
(* bytes or exceeds the budget by itself.                                    *)
EXTENDS RepoQuery

MCHeld == <<3, 5, 4, 5>>

MCHeldUpTo == [i \in 0..4 |-> IF i = 0 THEN 0 ELSE IF i = 1 THEN 3 ELSE IF i = 2 THEN 8
                              ELSE IF i = 3 THEN 12 ELSE 17]

MCDeadlineSize == <<2, 3, 2, 3>>

MCOwnSize == <<2, 4, 2, 2>>
===============================================================================
