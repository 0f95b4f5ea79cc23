---------------------------- MODULE MCHeadToHead ----------------------------
(* Three requests, and memory that two reservations can fill. *)
EXTENDS HeadToHead

MCRequests == 0 .. 2
=============================================================================
