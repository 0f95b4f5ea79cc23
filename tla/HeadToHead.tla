----------------------------- MODULE HeadToHead -----------------------------
(***************************************************************************)
(* run_task_1 of main.py: both allocators get a copy of one workload and   *)
(* memories of the same size, the naive one runs to its end, then the      *)
(* paged one, and their results are compared.  The copies are deep and     *)
(* reset, so the second run starts from requests the first never touched.  *)
(***************************************************************************)
EXTENDS NaiveAllocator

CONSTANT BlockSize  (* of the paged memory, and of the naive peak in blocks *)

(* What PagedAllocator(total_tokens, block_size) raises ValueError without. *)
ASSUME HeadToHeadAssumption ==
  /\ BlockSize \in Nat \ {0}
  /\ \E k \in 0 .. BlockSize : BlockSize = 2^k
  /\ BlockSize <= TotalTokens
  /\ None \notin Requests \X Nat

VARIABLES
  paged_step, paged_phase, paged_todo, paged_finished, paged_active,
  paged_status, paged_tokens, paged_table, paged_finished_at, paged_pool,
  paged_peak

paged_vars == <<paged_step, paged_phase, paged_todo, paged_finished,
                paged_active, paged_status, paged_tokens, paged_table,
                paged_finished_at, paged_pool, paged_peak>>

(* PagedAllocator(total_tokens, block_size) *)
TotalBlocks == TotalTokens \div BlockSize

Paged == INSTANCE PagedAllocator WITH
  step        <- paged_step,     phase    <- paged_phase,
  todo        <- paged_todo,     finished <- paged_finished,
  active      <- paged_active,   status   <- paged_status,
  tokens      <- paged_tokens,   table    <- paged_table,
  finished_at <- paged_finished_at,
  pool        <- paged_pool,     peak     <- paged_peak

HeadInit == Init /\ Paged!Init

NaiveRuns == Next /\ UNCHANGED paged_vars

PagedRuns == phase = "done" /\ Paged!Next /\ UNCHANGED vars

HeadNext == NaiveRuns \/ PagedRuns

HeadSpec ==
  HeadInit /\ [][HeadNext]_<<vars, paged_vars>>
    /\ WF_<<vars, paged_vars>>(HeadNext)

-----------------------------------------------------------------------------
Compared == phase = "done" /\ paged_phase = "done"

RejectedBy(s) == {r \in Requests : s[r] = "rejected"}

(* Reservations that are whole blocks waste nothing when paged. *)
WholeBlocks == \A r \in Requests : max_length[r] % BlockSize = 0

(* ceil(peak_reserved_tokens / comparison_block_size) *)
PeakInBlocks == (peak + BlockSize - 1) \div BlockSize

(* Paging a workload never costs more than reserving it: if the naive       *)
(* allocator could serve every request, so can the paged one, with at most  *)
(* the same peak of blocks; and whoever completes under both completes in   *)
(* the same step.  Reservations are whole blocks here: a partly used last   *)
(* block is the one thing that only paging wastes.                          *)
PagedNeverWorse ==
  Compared =>
    /\ WholeBlocks /\ RejectedBy(status) = {} =>
         RejectedBy(paged_status) = {} /\ paged_peak <= PeakInBlocks
    /\ \A r \in Requests \ (RejectedBy(status) \cup RejectedBy(paged_status)) :
         finished_at[r] = paged_finished_at[r]

(* Both runs return, whatever the workload. *)
BothReturn == <>Compared
=============================================================================
