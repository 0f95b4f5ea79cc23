---------------------- MODULE MCPhysicalBlockAllocator ----------------------
(* Two callers that compete for two blocks. *)
EXTENDS PhysicalBlockAllocator

MCRequests == 0 .. 1
=============================================================================
