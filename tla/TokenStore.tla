----------------------------- MODULE TokenStore -----------------------------
(***************************************************************************)
(* What paged memory promises its requests, with no block in sight: every  *)
(* request has a private sequence of tokens that it reads back exactly as  *)
(* generated, that only its own generation extends, and that only leaves   *)
(* memory as a whole.  A sequence that is swapped out comes back as it was.*)
(***************************************************************************)
EXTENDS Naturals, Sequences

CONSTANT Requests

VARIABLES
  kv,    (* kv[r]: the tokens request r can read from memory             *)
  saved  (* saved[r]: the tokens of r that were swapped out              *)

Init ==
  /\ kv    = [r \in Requests |-> <<>>]
  /\ saved = [r \in Requests |-> <<>>]

(* Request r generates its next token; no other request sees a change. *)
Extend(r) ==
  /\ kv' = [kv EXCEPT ![r] = Append(@, <<r, Len(@)>>)]
  /\ UNCHANGED saved

(* The requests of S leave memory for good, or to start again. *)
Discard(S) ==
  /\ kv' = [r \in Requests |-> IF r \in S THEN <<>> ELSE kv[r]]
  /\ UNCHANGED saved

SwapOut(r) ==
  /\ saved' = [saved EXCEPT ![r] = kv[r]]
  /\ kv' = [kv EXCEPT ![r] = <<>>]

SwapIn(r) ==
  /\ kv[r] = <<>>
  /\ kv' = [kv EXCEPT ![r] = saved[r]]
  /\ UNCHANGED saved

Next ==
  \/ \E r \in Requests : Extend(r) \/ SwapOut(r) \/ SwapIn(r)
  \/ \E S \in SUBSET Requests : Discard(S)

Spec == Init /\ [][Next]_<<kv, saved>>
=============================================================================
