--------------------------- MODULE MCSLAScheduler ---------------------------
(* Three requests for two slots; budgets around the one length.             *)
EXTENDS SLAScheduler

MCRequests == 0 .. 2
MCBudgets == {None, 2, 3}
=============================================================================
