---------------------------- MODULE GuardedCheck ----------------------------
(***************************************************************************)
(* A check of one tool as _plan.plan and _runner.run_check compose it: the *)
(* tool's guard first, over the configs of the tree; the tool and its      *)
(* report only when the guard has returned None.                           *)
(***************************************************************************)
EXTENDS ConfigGuards, Reports

CheckInit == GuardInit /\ ReportInit

\* The guard works; no tool runs.
Guarding == GuardNext /\ UNCHANGED reportVars

\* The guard approved: the tool runs on a batch.  Nothing of the guard's walk
\* is kept.
RunTool ==
  /\ verdict = Safe
  /\ IF tool = "unguarded" THEN \E l \in Lints \ DOMAIN Guard : Run(l) ELSE Run(tool)
  /\ tree' = <<>> /\ search' = 0 /\ stack' = <<>> /\ visited' = {} /\ verdict' = Undecided
  /\ tool' = "unguarded"
  /\ UNCHANGED todo

\* Its report is read.
Reporting == rpc # "idle" /\ ReportStep /\ UNCHANGED guardVars

CheckNext == (rpc = "idle" /\ Guarding) \/ RunTool \/ Reporting

CheckSpec == CheckInit /\ [][CheckNext]_<<guardVars, reportVars>>
=============================================================================
