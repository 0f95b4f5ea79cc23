--------------------------- MODULE PagedAllocator ---------------------------
(***************************************************************************)
(* PagedAllocator.run of paged_allocator.py: requests arrive at their      *)
(* time step, every active request generates one token per step in id      *)
(* order, a request that finds no free block is rejected on the spot, and  *)
(* the blocks of the requests that completed or were rejected return to    *)
(* the pool only at the end of the step.                                   *)
(***************************************************************************)
EXTENDS BlockPool

CONSTANTS
  MaxLength,    (* bound on actual_length in the workloads considered      *)
  MaxArrival    (* bound on arrival_time in the workloads considered       *)

ASSUME PagedAssumption == MaxLength \in Nat \ {0} /\ MaxArrival \in Nat

VARIABLES
  arrival_time,   (* the workload: step at which a request arrives         *)
  actual_length,  (* the workload: number of tokens it wants               *)
  step,           (* the time step of the simulation                       *)
  phase,          (* where run() is: arrivals, generation loop, or done    *)
  todo,           (* active requests the generation loop has yet to serve  *)
  finished,       (* requests completed or rejected in this step           *)
  active,         (* self.active                                           *)
  status,         (* request.status                                        *)
  tokens,         (* request.tokens_generated                              *)
  table,          (* request.page_table                                    *)
  finished_at,    (* request.finished_at                                   *)
  pool,           (* self.physical                                         *)
  peak            (* self.peak_blocks_used                                 *)

workload == <<arrival_time, actual_length>>
vars == <<workload, step, phase, todo, finished, active, status, tokens,
          table, finished_at, pool, peak>>

Statuses == {"new", "active", "rejected", "completed"}

-----------------------------------------------------------------------------
Init ==
  /\ arrival_time \in [Requests -> 0 .. MaxArrival]
  /\ actual_length \in [Requests -> 1 .. MaxLength]
  /\ step = 0
  /\ phase = "arrive"
  /\ todo = {}
  /\ finished = {}
  /\ active = {}
  /\ status = [r \in Requests |-> "new"]
  /\ tokens = [r \in Requests |-> 0]
  /\ table = [r \in Requests |-> <<>>]
  /\ finished_at = [r \in Requests |-> None]
  /\ pool = NewPool
  /\ peak = 0

(* step <= last_arrival *)
ArrivalsRemain == \E r \in Requests : step <= arrival_time[r]

(* The requests of this step become active; the loop is to serve them all. *)
Arrive ==
  /\ phase = "arrive"
  /\ ArrivalsRemain \/ active # {}
  /\ LET arriving == {r \in Requests : arrival_time[r] = step}
     IN  /\ status' = [r \in Requests |->
                         IF r \in arriving THEN "active" ELSE status[r]]
         /\ active' = active \cup arriving
         /\ todo' = active \cup arriving
  /\ finished' = {}
  /\ phase' = "generate"
  /\ UNCHANGED <<workload, step, tokens, table, finished_at, pool, peak>>

(* Mutation: completion is noticed one token late. *)
LastTokenLate(r) == tokens[r] >= actual_length[r]

(* The token that r generates now is its last. *)
LastToken(r) == tokens[r] + 1 >= actual_length[r]

(* The rest of generate_one_token once token r has a block, in pool p and   *)
(* table t, and the completion test of the loop that called it.             *)
StoreToken(r, p, t) ==
  /\ pool' = Write(p, BlockAt(t, tokens[r]), OffsetOf(tokens[r]),
                   <<r, tokens[r]>>)
  /\ table' = [table EXCEPT ![r] = t]
  /\ tokens' = [tokens EXCEPT ![r] = @ + 1]
  /\ peak' = IF AllocatedCount(p) > peak THEN AllocatedCount(p) ELSE peak
  /\ IF LastToken(r)
     THEN /\ status' = [status EXCEPT ![r] = "completed"]
          /\ finished_at' = [finished_at EXCEPT ![r] = step]
          /\ finished' = finished \cup {r}
     ELSE UNCHANGED <<status, finished_at, finished>>

(* The generation loop turns to r, the least id it has not served yet. *)
Serve(r) ==
  /\ phase = "generate"
  /\ Least(r, todo)
  /\ todo' = todo \ {r}
  /\ UNCHANGED <<workload, step, phase, active>>

(* The next token fits the last block of r. *)
GenerateInBlock(r) ==
  /\ Serve(r)
  /\ ~NeedsBlock(table[r], tokens[r])
  /\ StoreToken(r, pool, table[r])

(* The next token opens a block, the least free one. *)
GenerateInNewBlock(r, b) ==
  /\ Serve(r)
  /\ NeedsBlock(table[r], tokens[r])
  /\ Least(b, pool.free)
  /\ StoreToken(r, Allocate(pool, b, r), Append(table[r], b))

(* Mutation: the blocks are freed on the spot and again at the end.         *)
RejectFreesBlocks(r) ==
  /\ Serve(r)
  /\ NeedsBlock(table[r], tokens[r])
  /\ pool.free = {}
  /\ status' = [status EXCEPT ![r] = "rejected"]
  /\ finished' = finished \cup {r}
  /\ pool' = Free(pool, Range(table[r]))
  /\ UNCHANGED <<tokens, table, finished_at, peak>>

(* No block is free: OutOfMemoryError is caught and r rejected.  Its own    *)
(* blocks stay allocated until the end of the step.                         *)
Reject(r) ==
  /\ Serve(r)
  /\ NeedsBlock(table[r], tokens[r])
  /\ pool.free = {}
  /\ status' = [status EXCEPT ![r] = "rejected"]
  /\ finished' = finished \cup {r}
  /\ UNCHANGED <<tokens, table, finished_at, pool, peak>>

(* Mutation: the blocks of rejected requests are not released. *)
ReleasedBlocksCompleted ==
  UNION {Range(table[r]) : r \in {q \in finished : status[q] = "completed"}}

ReleasedBlocks == UNION {Range(table[r]) : r \in finished}

(* Mutation: a step without active requests is skipped, its count included. *)
EndStepSkipsIdle ==
  /\ phase = "generate"
  /\ todo = {}
  /\ pool' = Free(pool, ReleasedBlocks)
  /\ table' = [r \in Requests |-> IF r \in finished THEN <<>> ELSE table[r]]
  /\ active' = active \ finished
  /\ step' = IF active = {} THEN step ELSE step + 1
  /\ phase' = "arrive"
  /\ UNCHANGED <<workload, todo, finished, status, tokens, finished_at, peak>>

(* release_request for every finished request, and the step is over. *)
EndStep ==
  /\ phase = "generate"
  /\ todo = {}
  /\ pool' = Free(pool, ReleasedBlocks)
  /\ table' = [r \in Requests |-> IF r \in finished THEN <<>> ELSE table[r]]
  /\ active' = active \ finished
  /\ step' = step + 1
  /\ phase' = "arrive"
  /\ UNCHANGED <<workload, todo, finished, status, tokens, finished_at, peak>>

(* The while condition fails: run() checks for leaks and returns. *)
Return ==
  /\ phase = "arrive"
  /\ ~ArrivalsRemain /\ active = {}
  /\ phase' = "done"
  /\ UNCHANGED <<workload, step, todo, finished, active, status, tokens,
                 table, finished_at, pool, peak>>

Terminated == phase = "done" /\ UNCHANGED vars

Next ==
  \/ Arrive
  \/ \E r \in Requests : GenerateInBlock(r) \/ Reject(r)
  \/ \E r \in Requests, b \in Blocks : GenerateInNewBlock(r, b)
  \/ EndStep
  \/ Return
  \/ Terminated

Spec == Init /\ [][Next]_vars

(* One thread runs the loop and nothing suspends it. *)
FairSpec == Spec /\ WF_vars(Next)

-----------------------------------------------------------------------------
TypeOK ==
  /\ arrival_time \in [Requests -> 0 .. MaxArrival]
  /\ actual_length \in [Requests -> 1 .. MaxLength]
  /\ step \in Nat
  /\ phase \in {"arrive", "generate", "done"}
  /\ todo \subseteq active
  /\ finished \subseteq Requests
  /\ active \subseteq Requests
  /\ status \in [Requests -> Statuses]
  /\ tokens \in [Requests -> Nat]
  /\ table \in [Requests -> Seq(Blocks)]
  /\ finished_at \in [Requests -> Nat \cup {None}]
  /\ pool \in Pool
  /\ peak \in 0 .. TotalBlocks

(* No block is shared, orphaned or lost between any two calls of the step,  *)
(* although requests are released long after they completed: the ownership  *)
(* records of the pool and the page tables are the same relation.           *)
NoSharedBlocks == BlocksAccounted(pool, table)

(* Every token a request generated is readable through its page table, with *)
(* the value generated for it, until the request is released; afterwards    *)
(* every access is a BoundaryMissError and no block of the past is reached. *)
TokensReadable ==
  \A r \in Requests, i \in 0 .. MaxLength - 1 :
    /\ r \in active /\ i < tokens[r] =>
         /\ AccessError(pool, table[r], i) = "none"
         /\ ReadToken(pool, table[r], i) = <<r, i>>
    /\ r \notin active => AccessError(pool, table[r], i) = "BoundaryMissError"

(* A request holds exactly the blocks its tokens need: in particular the    *)
(* logical block of the next token is mapped or the next one to map, so     *)
(* generate_one_token never raises BoundaryMissError.                       *)
NoIdleBlocks ==
  \A r \in active : Len(table[r]) = BlocksFor(tokens[r])

(* Generation never stalls: an active request has one token for each step   *)
(* since its arrival, so a completed one finished exactly actual_length     *)
(* steps after it arrived, however full the pool was.                       *)
OnePerStep ==
  \A r \in Requests :
    /\ phase = "arrive" /\ r \in active =>
         tokens[r] = step - arrival_time[r]
    /\ status[r] = "completed" =>
         /\ tokens[r] = actual_length[r]
         /\ finished_at[r] = arrival_time[r] + actual_length[r] - 1

(* A request is rejected only by a workload that does not fit: the pool was *)
(* full at some point, and the blocks that all requests together would need *)
(* exceed the pool.                                                         *)
RejectedOnlyIfFull ==
  (\E r \in Requests : status[r] = "rejected") =>
    /\ peak = TotalBlocks
    /\ SumFunction([r \in Requests |-> BlocksFor(actual_length[r])])
         > TotalBlocks

(* When run() returns every request completed or was rejected and the pool  *)
(* is as it was created: the final assertions of run().                     *)
NoLeakAtReturn ==
  phase = "done" =>
    /\ \A r \in Requests : status[r] \in {"completed", "rejected"}
    /\ pool = NewPool

(* What requests read from paged memory is a private token sequence each. *)
Store == INSTANCE TokenStore WITH
  kv    <- [r \in Requests |-> Visible(pool, table[r], tokens[r])],
  saved <- [r \in Requests |-> <<>>]

(* Paging is invisible: PagedAllocator implements the token store. *)
ImplementsTokenStore == Store!Spec

(* run() returns for every workload. *)
Terminates == <>(phase = "done")
=============================================================================
