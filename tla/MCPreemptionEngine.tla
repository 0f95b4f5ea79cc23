------------------------- MODULE MCPreemptionEngine -------------------------
(* Workloads of three or four requests, each of which fits the pool alone. *)
EXTENDS PreemptionEngine

MCThree == 0 .. 2
MCFour == 0 .. 3
=============================================================================
