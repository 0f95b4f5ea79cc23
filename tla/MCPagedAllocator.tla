-------------------------- MODULE MCPagedAllocator --------------------------
(* Three requests on a pool that a few tokens fill. *)
EXTENDS PagedAllocator

MCRequests == 0 .. 2
=============================================================================
