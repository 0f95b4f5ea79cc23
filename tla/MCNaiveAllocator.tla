-------------------------- MODULE MCNaiveAllocator --------------------------
(* Three requests for a memory that two of them fill. *)
EXTENDS NaiveAllocator

MCRequests == 0 .. 2
=============================================================================
