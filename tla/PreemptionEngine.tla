-------------------------- MODULE PreemptionEngine --------------------------
(***************************************************************************)
(* PreemptionEngine of scheduler.py: an oversubscribed pool, a queue of    *)
(* waiting requests and a bounded set of active ones.  A request that      *)
(* needs a block takes it from the active request with the fewest tokens,  *)
(* which goes back to the queue: from scratch when it has fewer tokens     *)
(* than the threshold, with its tokens in the swap store otherwise.        *)
(*                                                                         *)
(* The loops of _admit, _make_room, _restore and of the generation are     *)
(* unrolled into one action per iteration; phase and restoring say which   *)
(* loop is running, so the order of the iterations is that of the code.    *)
(***************************************************************************)
EXTENDS BlockPool

CONSTANTS
  Thresholds,   (* the thresholds considered                               *)
  ActiveLimit,  (* most requests active at a time                          *)
  MaxLength,    (* bound on actual_length in the workloads considered      *)
  MaxArrival    (* bound on arrival_time in the workloads considered       *)

ASSUME PreemptionAssumption ==
  /\ Thresholds \subseteq Nat
  /\ ActiveLimit \in Nat \ {0}
  /\ MaxLength \in Nat \ {0}
  /\ MaxArrival \in Nat
  /\ None \notin Seq(Token)

VARIABLES
  arrival_time,   (* the workload: step at which a request arrives         *)
  actual_length,  (* the workload: number of tokens it wants               *)
  threshold,      (* self.threshold: fewer tokens are recomputed           *)
  step,           (* the time step; it stands still after the last arrival *)
  phase,          (* which part of a step is running                       *)
  attempts,       (* iterations left to the running _admit                 *)
  restoring,      (* the request _restore works on, or None                *)
  todo,           (* ids the generation loop has yet to look at            *)
  active,         (* self.active                                           *)
  waiting,        (* self.waiting, the head first                          *)
  status,         (* request.status                                        *)
  tokens,         (* request.tokens_generated                              *)
  token_sequence, (* request.token_sequence                                *)
  table,          (* request.page_table                                    *)
  pool,           (* self.physical                                         *)
  swap_store,     (* self.swap_store, None where it has no entry           *)
  output          (* self.completed_hashes: the sequence that was hashed   *)

workload == <<arrival_time, actual_length, threshold>>
memory == <<tokens, token_sequence, table, pool, swap_store>>
vars == <<workload, step, phase, attempts, restoring, todo, active, waiting,
          status, memory, output>>

Statuses == {"new", "waiting", "active", "completed"}
Phases == {"arrive", "admit", "generate", "readmit", "done"}

Demand == SumFunction([r \in Requests |-> BlocksFor(actual_length[r])])

-----------------------------------------------------------------------------
(* run() asserts an oversubscription of at least 3. *)
Init ==
  /\ arrival_time \in [Requests -> 0 .. MaxArrival]
  /\ actual_length \in [Requests -> 1 .. MaxLength]
  /\ threshold \in Thresholds
  /\ Demand >= 3 * TotalBlocks
  /\ step = 0
  /\ phase = "arrive"
  /\ attempts = 0
  /\ restoring = None
  /\ todo = {}
  /\ active = {}
  /\ waiting = <<>>
  /\ status = [r \in Requests |-> "new"]
  /\ tokens = [r \in Requests |-> 0]
  /\ token_sequence = [r \in Requests |-> <<>>]
  /\ table = [r \in Requests |-> <<>>]
  /\ pool = NewPool
  /\ swap_store = [r \in Requests |-> None]
  /\ output = [r \in Requests |-> None]

ArrivalsRemain == \E r \in Requests : step <= arrival_time[r]
Arriving == {r \in Requests : status[r] = "new" /\ arrival_time[r] = step}

(* The for loop over arrivals.get(step). *)
Enqueue(r) ==
  /\ phase = "arrive"
  /\ Least(r, Arriving)
  /\ status' = [status EXCEPT ![r] = "waiting"]
  /\ waiting' = Append(waiting, r)
  /\ UNCHANGED <<workload, step, phase, attempts, restoring, todo, active,
                 memory, output>>

(* All arrivals are queued; the first _admit of the step starts. *)
BeginAdmit ==
  /\ phase = "arrive"
  /\ Arriving = {}
  /\ ArrivalsRemain \/ waiting # <<>> \/ active # {}
  /\ phase' = "admit"
  /\ attempts' = Len(waiting)
  /\ UNCHANGED <<workload, step, restoring, todo, active, waiting, status,
                 memory, output>>

-----------------------------------------------------------------------------
(* Mutation: a request at the threshold is recomputed too. *)
ShortOrEqual(v) == tokens[v] <= threshold

Short(v) == tokens[v] < threshold

(* Mutation: an older snapshot is not refreshed. *)
FirstSnapshot(v) ==
  IF swap_store[v] = None THEN token_sequence[v] ELSE swap_store[v]

Snapshot(v) == token_sequence[v]

(* _preempt: the blocks of v return to the pool and v to the queue. *)
Preempt(v) ==
  /\ pool' = Free(pool, Range(table[v]))
  /\ table' = [table EXCEPT ![v] = <<>>]
  /\ active' = active \ {v}
  /\ IF Short(v)
     THEN /\ tokens' = [tokens EXCEPT ![v] = 0]
          /\ token_sequence' = [token_sequence EXCEPT ![v] = <<>>]
          /\ swap_store' = [swap_store EXCEPT ![v] = None]
     ELSE /\ swap_store' = [swap_store EXCEPT ![v] = Snapshot(v)]
          /\ UNCHANGED <<tokens, token_sequence>>
  /\ status' = [status EXCEPT ![v] = "waiting"]
  /\ waiting' = Append(waiting, v)

(* The candidate _make_room preempts: fewest tokens, then lowest id. *)
Victim(v, candidates) ==
  /\ v \in candidates
  /\ \A c \in candidates :
       tokens[v] < tokens[c] \/ (tokens[v] = tokens[c] /\ v <= c)

-----------------------------------------------------------------------------
(* Mutation: one request more than the limit. *)
SlotOpenAtLimit == Cardinality(active) <= ActiveLimit

SlotOpen == Cardinality(active) < ActiveLimit

(* _admit may look at the head of the queue. *)
MayAdmit ==
  /\ phase \in {"admit", "readmit"}
  /\ restoring = None
  /\ waiting # <<>>
  /\ SlotOpen
  /\ attempts > 0

(* Mutation: the request is looked at, not taken. *)
PeekFirst(r) ==
  /\ MayAdmit
  /\ r = Head(waiting)
  /\ attempts' = attempts - 1
  /\ UNCHANGED waiting

(* An iteration of _admit takes r from the head of the queue. *)
TakeFirst(r) ==
  /\ MayAdmit
  /\ r = Head(waiting)
  /\ waiting' = Tail(waiting)
  /\ attempts' = attempts - 1

(* A request without tokens needs no block to be admitted. *)
AdmitFresh(r) ==
  /\ TakeFirst(r)
  /\ tokens[r] = 0
  /\ status' = [status EXCEPT ![r] = "active"]
  /\ active' = active \cup {r}
  /\ UNCHANGED <<workload, step, phase, restoring, todo, memory, output>>

BeginRestore(r) ==
  /\ TakeFirst(r)
  /\ tokens[r] > 0
  /\ restoring' = r
  /\ UNCHANGED <<workload, step, phase, todo, active, status, memory, output>>

(* block_count of _restore, and whether its _make_room is over (mutation:   *)
(* one block short).                                                        *)
BlocksToRestore(r) == BlocksFor(tokens[r])
RoomMadeShort(r) ==
  \/ table[r] # <<>>
  \/ Cardinality(pool.free) >= BlocksToRestore(r) - 1
RoomMade(r) ==
  \/ table[r] # <<>>
  \/ Cardinality(pool.free) >= BlocksToRestore(r)

(* An iteration of _make_room called by _restore.  Its other exit, without  *)
(* candidates, is never taken: RestoreHasRoom below.                        *)
EvictForRestore(r, v) ==
  /\ restoring = r
  /\ ~RoomMade(r)
  /\ Victim(v, active)
  /\ Preempt(v)
  /\ UNCHANGED <<workload, step, phase, attempts, restoring, todo, output>>

RestoreBlock(r, b) ==
  /\ restoring = r
  /\ RoomMade(r)
  /\ Len(table[r]) < BlocksToRestore(r)
  /\ Least(b, pool.free)
  /\ pool' = Allocate(pool, b, r)
  /\ table' = [table EXCEPT ![r] = Append(@, b)]
  /\ UNCHANGED <<workload, step, phase, attempts, restoring, todo, active,
                 waiting, status, tokens, token_sequence, swap_store, output>>

(* swap_store.get(id, token_sequence) *)
Saved(r) == IF swap_store[r] = None THEN token_sequence[r] ELSE swap_store[r]

(* Mutation: the last token is not written back. *)
WrittenButLast(s, t, b, o) ==
  {i \in 1 .. Len(s) - 1 : BlockAt(t, i - 1) = b /\ OffsetOf(i - 1) = o}

(* The positions of s that are written through table t to slot o of block b.*)
Written(s, t, b, o) ==
  {i \in 1 .. Len(s) : BlockAt(t, i - 1) = b /\ OffsetOf(i - 1) = o}

(* The pool after the tokens of s are written one by one through table t.   *)
WriteAll(p, t, s) ==
  [p EXCEPT !.data = [b \in Blocks |-> [o \in Offsets |->
     LET here == Written(s, t, b, o)
     IN  IF here = {} THEN p.data[b][o]
         ELSE s[CHOOSE i \in here : \A j \in here : j <= i]]]]

(* The saved tokens are written back and the request is active again. *)
FinishRestore(r) ==
  /\ restoring = r
  /\ Len(table[r]) = BlocksToRestore(r)
  /\ pool' = WriteAll(pool, table[r], Saved(r))
  /\ token_sequence' = [token_sequence EXCEPT ![r] = Saved(r)]
  /\ status' = [status EXCEPT ![r] = "active"]
  /\ active' = active \cup {r}
  /\ restoring' = None
  /\ UNCHANGED <<workload, step, phase, attempts, todo, waiting, tokens,
                 table, swap_store, output>>

AdmitOver ==
  /\ restoring = None
  /\ ~MayAdmit
  /\ UNCHANGED <<workload, attempts, restoring, active, waiting, status,
                 memory, output>>

BeginGenerate ==
  /\ phase = "admit"
  /\ AdmitOver
  /\ phase' = "generate"
  /\ todo' = active
  /\ UNCHANGED step

EndStep ==
  /\ phase = "readmit"
  /\ AdmitOver
  /\ phase' = "arrive"
  /\ step' = IF ArrivalsRemain THEN step + 1 ELSE step
  /\ UNCHANGED todo

-----------------------------------------------------------------------------
(* The generation loop looks at id r. *)
Serve(r) ==
  /\ phase = "generate"
  /\ Least(r, todo)
  /\ UNCHANGED <<workload, step, phase, attempts, restoring>>

(* r was preempted by a request served before it. *)
SkipPreempted(r) ==
  /\ Serve(r)
  /\ r \notin active
  /\ todo' = todo \ {r}
  /\ UNCHANGED <<active, waiting, status, memory, output>>

(* Mutation: completion is noticed one token late. *)
LastTokenLate(r) == tokens[r] >= actual_length[r]

(* The token that r generates now is its last. *)
LastToken(r) == tokens[r] + 1 >= actual_length[r]

(* The rest of _generate once token r has a block, in pool p and table t,   *)
(* and the completion of r by the loop that called it.                      *)
StoreToken(r, p, t) ==
  LET written == Write(p, BlockAt(t, tokens[r]), OffsetOf(tokens[r]),
                       <<r, tokens[r]>>)
  IN  /\ token_sequence' = [token_sequence EXCEPT
                              ![r] = Append(@, <<r, tokens[r]>>)]
      /\ tokens' = [tokens EXCEPT ![r] = @ + 1]
      /\ IF LastToken(r)
         THEN /\ pool' = Free(written, Range(t))
              /\ table' = [table EXCEPT ![r] = <<>>]
              /\ active' = active \ {r}
              /\ status' = [status EXCEPT ![r] = "completed"]
              /\ output' = [output EXCEPT ![r] = token_sequence'[r]]
         ELSE /\ pool' = written
              /\ table' = [table EXCEPT ![r] = t]
              /\ UNCHANGED <<active, status, output>>

GenerateInBlock(r) ==
  /\ Serve(r)
  /\ r \in active
  /\ ~NeedsBlock(table[r], tokens[r])
  /\ StoreToken(r, pool, table[r])
  /\ todo' = todo \ {r}
  /\ UNCHANGED <<waiting, swap_store>>

GenerateInNewBlock(r, b) ==
  /\ Serve(r)
  /\ r \in active
  /\ NeedsBlock(table[r], tokens[r])
  /\ Least(b, pool.free)
  /\ StoreToken(r, Allocate(pool, b, r), Append(table[r], b))
  /\ todo' = todo \ {r}
  /\ UNCHANGED <<waiting, swap_store>>

(* An iteration of _make_room called by _generate. *)
EvictForGenerate(r, v) ==
  /\ Serve(r)
  /\ r \in active
  /\ NeedsBlock(table[r], tokens[r])
  /\ pool.free = {}
  /\ Victim(v, active \ {r})
  /\ Preempt(v)
  /\ UNCHANGED <<todo, output>>

(* No other request is left to preempt: r holds the whole pool. *)
PreemptItself(r) ==
  /\ Serve(r)
  /\ active = {r}
  /\ NeedsBlock(table[r], tokens[r])
  /\ pool.free = {}
  /\ Preempt(r)
  /\ todo' = todo \ {r}
  /\ UNCHANGED output

(* The generation loop is over; the second _admit of the step starts. *)
BeginReadmit ==
  /\ phase = "generate"
  /\ todo = {}
  /\ phase' = "readmit"
  /\ attempts' = Len(waiting)
  /\ UNCHANGED <<workload, step, restoring, todo, active, waiting, status,
                 memory, output>>

(* The while condition fails: run() verifies the hashes and returns. *)
Return ==
  /\ phase = "arrive"
  /\ ~ArrivalsRemain /\ waiting = <<>> /\ active = {}
  /\ phase' = "done"
  /\ UNCHANGED <<workload, step, attempts, restoring, todo, active, waiting,
                 status, memory, output>>

Terminated == phase = "done" /\ UNCHANGED vars

Admit ==
  \/ \E r \in Requests : AdmitFresh(r) \/ BeginRestore(r) \/ FinishRestore(r)
  \/ \E r, v \in Requests : EvictForRestore(r, v)
  \/ \E r \in Requests, b \in Blocks : RestoreBlock(r, b)

Generate ==
  \/ \E r \in Requests :
       SkipPreempted(r) \/ GenerateInBlock(r) \/ PreemptItself(r)
  \/ \E r, v \in Requests : EvictForGenerate(r, v)
  \/ \E r \in Requests, b \in Blocks : GenerateInNewBlock(r, b)

Next ==
  \/ \E r \in Requests : Enqueue(r)
  \/ BeginAdmit
  \/ Admit
  \/ BeginGenerate
  \/ Generate
  \/ BeginReadmit
  \/ EndStep
  \/ Return
  \/ Terminated

Spec == Init /\ [][Next]_vars

(* One thread runs the loop and nothing suspends it. *)
FairSpec == Spec /\ WF_vars(Next)

-----------------------------------------------------------------------------
TypeOK ==
  /\ arrival_time \in [Requests -> 0 .. MaxArrival]
  /\ actual_length \in [Requests -> 1 .. MaxLength]
  /\ threshold \in Thresholds
  /\ step \in Nat
  /\ phase \in Phases
  /\ attempts \in Nat
  /\ restoring \in Requests \cup {None}
  /\ todo \subseteq Requests
  /\ active \subseteq Requests
  /\ waiting \in Seq(Requests)
  /\ status \in [Requests -> Statuses]
  /\ tokens \in [Requests -> Nat]
  /\ token_sequence \in [Requests -> Seq(Token)]
  /\ table \in [Requests -> Seq(Blocks)]
  /\ pool \in Pool
  /\ swap_store \in [Requests -> Seq(Token) \cup {None}]
  /\ output \in [Requests -> Seq(Token) \cup {None}]

(* A request is in exactly one place: not arrived, once in the queue, under *)
(* restoration, active, or completed.  So none is served twice in a step,   *)
(* none is forgotten, and the head of the queue is never a completed one.   *)
(* Its blocks are with it: through every eviction, restoration and          *)
(* completion none is shared or orphaned, and only an active request or the *)
(* one being restored has any.  Evictions between two admissions keep the   *)
(* engine within its limit.                                                 *)
OnePlace ==
  /\ TypeOK
  /\ Cardinality(active \cup ({restoring} \ {None})) <= ActiveLimit
  /\ IsInjective(waiting)
  /\ \A r \in Requests :
       /\ status[r] = "active" <=> r \in active
       /\ status[r] = "waiting" <=> r \in Range(waiting) \/ r = restoring
       /\ r = restoring => r \notin Range(waiting)
       /\ table[r] # <<>> => r \in active \/ r = restoring
  /\ BlocksAccounted(pool, table)

(* A preempted request resumes where it was: the sequence of a request is   *)
(* always its first tokens in order, an active request reads it from its    *)
(* blocks, and one that waits with tokens has them all in the swap store,   *)
(* even if an older snapshot of it was stored there before.                 *)
SequencesIntact ==
  \A r \in Requests :
    /\ token_sequence[r] = TokensOf(r, tokens[r])
    /\ r \in active =>
         Visible(pool, table[r], tokens[r]) = token_sequence[r]
    /\ status[r] = "waiting" /\ tokens[r] > 0 =>
         swap_store[r] = token_sequence[r]

(* A completed request was hashed over exactly the sequence an uninter-     *)
(* rupted run generates, and when run() returns every request is completed, *)
(* with no block left allocated: mismatches == 0 and orphaned == 0.         *)
OutputsVerified ==
  /\ \A r \in Requests :
       status[r] = "completed" => output[r] = TokensOf(r, actual_length[r])
  /\ phase = "done" =>
       (\A r \in Requests : status[r] = "completed") /\ pool = NewPool

(* _restore always gets its blocks: _make_room never runs out of candidates *)
(* before there is room, and the room it made lasts until the last block of *)
(* the loop, so neither the give-up of _admit nor OutOfMemoryError happens. *)
RestoreHasRoom ==
  restoring # None =>
    LET missing == BlocksToRestore(restoring) - Len(table[restoring])
    IN  /\ missing >= 0
        /\ RoomMade(restoring) => Cardinality(pool.free) >= missing
        /\ ~RoomMade(restoring) => active # {}

(* Tokens at or above the threshold are never generated twice. *)
SwapKeepsWork ==
  [][\A r \in Requests : tokens[r] >= threshold => tokens'[r] >= tokens[r]]_vars

(* Preemption is invisible: what active requests read, and what the swap    *)
(* store keeps for the others, is the private sequence of each.             *)
Store == INSTANCE TokenStore WITH
  kv    <- [r \in Requests |->
              IF r \in active THEN Visible(pool, table[r], tokens[r])
              ELSE <<>>],
  saved <- [r \in Requests |->
              IF swap_store[r] = None THEN <<>> ELSE swap_store[r]]

ImplementsTokenStore == Store!Spec

(* The simulation converges if every preempted request keeps its tokens and *)
(* fits the pool alone: then every request is completed in the end, however *)
(* often it was preempted.                                                  *)
FitsAlone == \A r \in Requests : BlocksFor(actual_length[r]) <= TotalBlocks
AllCompleted == \A r \in Requests : status[r] = "completed"

Converges == FitsAlone /\ threshold <= 1 => <>AllCompleted

(* "Run the oversubscribed workload": the same for every threshold.         *)
AlwaysConverges == FitsAlone => <>AllCompleted
=============================================================================
