---------------------------- MODULE MCRollbacks ----------------------------
(***************************************************************************)
(* The instance of the reconcile loop with history for TLC.                *)
(***************************************************************************)
EXTENDS MCReconciler, Rollbacks

PromptHistorySpec ==
  Init /\ HistoryInit /\ [][Prompt /\ HistoryNext]_<<vars, histVars>>
=============================================================================
