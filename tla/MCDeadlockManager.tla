------------------------- MODULE MCDeadlockManager --------------------------
(* Three requests: every graph of their waits, also of each for itself.      *)
EXTENDS DeadlockManager

MCNodes == 0 .. 2
=============================================================================
