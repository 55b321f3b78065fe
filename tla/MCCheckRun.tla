------------------------------ MODULE MCCheckRun ------------------------------
(* Four files in a tree of three nested directories, seven of the tool      *)
(* modules (every lane, guard, narrow hook and kind of report), batches of   *)
(* two files or four bytes, a result of at most two findings.                *)
EXTENDS CheckRun

\* Directory 1 is the root, 2 is in it, 3 is in 2.
MCParent == [d \in {2, 3} |-> d - 1]
MCDirOf == <<3, 2, 2, 2>>
MCNameBytes == <<1, 1, 1, 5>>

Plain == [required |-> TRUE, scope |-> "nearest", ci |-> TRUE, guard |-> TRUE, chain |-> FALSE,
          guardFiles |-> FALSE, narrow |-> "none", lane |-> "B", toFile |-> FALSE, sarif |-> FALSE]

Flake8   == [Plain EXCEPT !.narrow = "skip"]
Tflint   == [Plain EXCEPT !.lane = "D", !.sarif = TRUE]
Sqlfluff == [Plain EXCEPT !.chain = TRUE, !.guardFiles = TRUE, !.lane = "A"]
Checkov  == [Plain EXCEPT !.required = FALSE, !.narrow = "skip", !.toFile = TRUE, !.sarif = TRUE]
Gitleaks == [Plain EXCEPT !.required = FALSE, !.scope = "root", !.ci = FALSE, !.guard = FALSE,
                          !.lane = "C", !.toFile = TRUE, !.sarif = TRUE]
Osv      == [Plain EXCEPT !.required = FALSE, !.scope = "none", !.ci = FALSE, !.guard = FALSE,
                          !.narrow = "endpoint", !.lane = "A", !.sarif = TRUE]

Shellcheck == [Plain EXCEPT !.required = FALSE, !.guard = FALSE, !.lane = "A"]

MCTools == {Flake8, Tflint, Sqlfluff, Checkov, Gitleaks, Osv, Shellcheck}

MCReports == {<<>>, <<"own">>, <<"other", "own">>, <<"own", "own", "own", "own">>}
===============================================================================
