----------------------------- MODULE MCDashboard ----------------------------
EXTENDS Dashboard

(* One instance runs when the dashboard starts, the last of the list, or   *)
(* both do: one may start before it, or end.                               *)
MCInit == TuiInit /\ alive \in {Ids, {2}}
MCSpec == MCInit /\ [][TuiNext]_tuiVars /\ TuiFairness
=============================================================================
