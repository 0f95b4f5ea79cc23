--------------------------- MODULE NaiveAllocator ---------------------------
(***************************************************************************)
(* NaiveContiguousAllocator of naive_allocator.py, the baseline that paged *)
(* memory is compared with: an arriving request reserves its maximum       *)
(* length in the first gap of a flat memory that is long enough, or is     *)
(* rejected.  The scan for that gap is one action per slot; everything a   *)
(* step does after its arrivals concerns one request at a time and is one  *)
(* action.                                                                 *)
(***************************************************************************)
EXTENDS Integers, FiniteSets, Functions

CONSTANTS
  Requests,     (* the request ids; arrivals are served in id order         *)
  TotalTokens,  (* number of token slots of the memory                      *)
  MaxLength,    (* bound on max_length in the workloads considered          *)
  MaxArrival,   (* bound on arrival_time in the workloads considered        *)
  None          (* Python's None: a free slot, a start that is not set      *)

ASSUME NaiveAssumption ==
  /\ Requests \subseteq Nat
  /\ IsFiniteSet(Requests)
  /\ TotalTokens \in Nat \ {0}
  /\ MaxLength \in Nat \ {0}
  /\ MaxArrival \in Nat
  /\ None \notin Nat

VARIABLES
  arrival_time,      (* the workload: step at which a request arrives       *)
  max_length,        (* the workload: tokens it reserves                    *)
  actual_length,     (* the workload: tokens it generates                   *)
  step,              (* time_step                                           *)
  phase,             (* where run() is                                      *)
  todo,              (* arrivals of the step that are still to be tried     *)
  request,           (* the arrival that is being tried                     *)
  index,             (* the slot _find_first_fit looks at next              *)
  run_start,         (* the first slot of the free run it is in             *)
  run_length,        (* the length of that run so far                       *)
  memory,            (* self.memory                                         *)
  allocation_start,  (* request.allocation_start                            *)
  active,            (* self.active                                         *)
  status,            (* request.status                                      *)
  tokens,            (* request.tokens_generated                            *)
  finished_at,       (* request.finished_at                                 *)
  peak,              (* self.peak_reserved_tokens                           *)
  samples            (* external fragmentation of the step's rejections     *)

workload == <<arrival_time, max_length, actual_length>>
scan == <<request, index, run_start, run_length>>
vars == <<workload, scan, step, phase, todo, memory, allocation_start, active,
          status, tokens, finished_at, peak, samples>>

Slots    == 0 .. TotalTokens - 1
Phases   == {"step", "admit", "scan", "fit", "done"}
Statuses == {"new", "waiting", "active", "rejected", "completed"}

-----------------------------------------------------------------------------
(* Slots start .. start + n - 1. *)
Region(start, n) == start .. start + n - 1

FreeSlots == {s \in Slots : memory[s] = None}

(* The free run that slot s lies in: one entry of _free_gaps. *)
Gap(s) == {t \in Slots : \A u \in (s .. t) \cup (t .. s) : memory[u] = None}

(* _external_fragmentation_for: the free slots in gaps too small for n      *)
(* tokens, out of all free slots.                                           *)
ExternalFragmentation(n) ==
  [unusable |-> Cardinality({s \in FreeSlots : Cardinality(Gap(s)) < n}),
   free     |-> Cardinality(FreeSlots)]

-----------------------------------------------------------------------------
(* Every workload that generate_workload can produce within the bounds: the *)
(* service time sampled is cut to the maximum length.                       *)
Workload ==
  /\ arrival_time \in [Requests -> 0 .. MaxArrival]
  /\ max_length \in [Requests -> 1 .. MaxLength]
  /\ actual_length \in [Requests -> 1 .. MaxLength]
  /\ \A r \in Requests : actual_length[r] <= max_length[r]

Init ==
  /\ Workload
  /\ step = 0
  /\ phase = "step"
  /\ todo = {}
  /\ request = None
  /\ index = 0
  /\ run_start = 0
  /\ run_length = 0
  /\ memory = [s \in Slots |-> None]
  /\ allocation_start = [r \in Requests |-> None]
  /\ active = {}
  /\ status = [r \in Requests |-> "new"]
  /\ tokens = [r \in Requests |-> 0]
  /\ finished_at = [r \in Requests |-> None]
  /\ peak = 0
  /\ samples = {}

(* time_step <= final_arrival *)
ArrivalsRemain == \E r \in Requests : step <= arrival_time[r]

BeginStep ==
  /\ phase = "step"
  /\ ArrivalsRemain \/ active # {}
  /\ todo' = {r \in Requests : arrival_time[r] = step}
  /\ samples' = {}
  /\ phase' = "admit"
  /\ UNCHANGED <<workload, scan, step, memory, allocation_start, active,
                 status, tokens, finished_at, peak>>

(* The next arrival, in id order, waits while the scan starts at slot 0. *)
Try(r) ==
  /\ phase = "admit"
  /\ r \in todo /\ \A q \in todo : r <= q
  /\ todo' = todo \ {r}
  /\ request' = r
  /\ index' = 0 /\ run_start' = 0 /\ run_length' = 0
  /\ status' = [status EXCEPT ![r] = "waiting"]
  /\ phase' = "scan"
  /\ UNCHANGED <<workload, step, memory, allocation_start, active, tokens,
                 finished_at, peak, samples>>

(* Mutation: a gap of exactly the requested length is not enough. *)
LongEnoughExclusive(n) == n > max_length[request]

LongEnough(n) == n >= max_length[request]

(* A free slot starts or extends a run, which ends the scan if long enough. *)
ScanFree ==
  /\ phase = "scan"
  /\ index \in FreeSlots
  /\ run_start' = IF run_length = 0 THEN index ELSE run_start
  /\ run_length' = run_length + 1
  /\ index' = index + 1
  /\ phase' = IF LongEnough(run_length + 1) THEN "fit" ELSE "scan"
  /\ UNCHANGED <<workload, request, step, todo, memory, allocation_start,
                 active, status, tokens, finished_at, peak, samples>>

(* Mutation: the run goes on behind a taken slot. *)
ScanTakenKeepsRun ==
  /\ phase = "scan"
  /\ index \in Slots \ FreeSlots
  /\ index' = index + 1
  /\ UNCHANGED <<workload, request, run_start, run_length, step, phase, todo,
                 memory, allocation_start, active, status, tokens,
                 finished_at, peak, samples>>

(* A taken slot ends the run. *)
ScanTaken ==
  /\ phase = "scan"
  /\ index \in Slots \ FreeSlots
  /\ run_length' = 0
  /\ index' = index + 1
  /\ UNCHANGED <<workload, request, run_start, step, phase, todo, memory,
                 allocation_start, active, status, tokens, finished_at, peak,
                 samples>>

(* _reserve, once the scan has returned run_start. *)
Reserve ==
  /\ phase = "fit"
  /\ memory' = [s \in Slots |->
       IF s \in Region(run_start, max_length[request]) THEN request
       ELSE memory[s]]
  /\ allocation_start' = [allocation_start EXCEPT ![request] = run_start]
  /\ status' = [status EXCEPT ![request] = "active"]
  /\ active' = active \cup {request}
  /\ LET reserved == SumFunctionOnSet(max_length, active')
     IN  peak' = IF reserved > peak THEN reserved ELSE peak
  /\ phase' = "admit"
  /\ UNCHANGED <<workload, scan, step, todo, tokens, finished_at, samples>>

(* The scan has seen every slot: the request is rejected, and only then is  *)
(* the fragmentation it met, measured before the attempt, kept.             *)
Reject ==
  /\ phase = "scan"
  /\ index = TotalTokens
  /\ status' = [status EXCEPT ![request] = "rejected"]
  /\ samples' = samples \cup {ExternalFragmentation(max_length[request])}
  /\ phase' = "admit"
  /\ UNCHANGED <<workload, scan, step, todo, memory, allocation_start, active,
                 tokens, finished_at, peak>>

-----------------------------------------------------------------------------
(* Mutation: a request is done when it has filled its reservation. *)
FinishedAtMaximum == {r \in active : tokens[r] + 1 >= max_length[r]}

(* The active requests whose token of this step is their last. *)
Finished == {r \in active : tokens[r] + 1 >= actual_length[r]}

(* Mutation: only the slots that tokens have reached are returned. *)
ReleasedReached(r) == Region(allocation_start[r], tokens[r] + 1)

(* The slots that _release walks over. *)
Released(r) == Region(allocation_start[r], max_length[r])

(* Mutation: the clock stands still while no request is active. *)
StepIfActive == IF active = {} THEN step ELSE step + 1

NextStep == step + 1

(* Every active request generates a token; the finished ones are released   *)
(* behind the loop, each only from slots that are its own; the step ends.   *)
GenerateAndRelease ==
  /\ phase = "admit"
  /\ todo = {}
  /\ tokens' = [r \in Requests |->
                  IF r \in active THEN tokens[r] + 1 ELSE tokens[r]]
  /\ status' = [r \in Requests |->
                  IF r \in Finished THEN "completed" ELSE status[r]]
  /\ finished_at' = [r \in Requests |->
                       IF r \in Finished THEN step ELSE finished_at[r]]
  /\ memory' = [s \in Slots |->
       IF \E r \in Finished : s \in Released(r) /\ memory[s] = r THEN None
       ELSE memory[s]]
  /\ allocation_start' = [r \in Requests |->
       IF r \in Finished THEN None ELSE allocation_start[r]]
  /\ active' = active \ Finished
  /\ step' = NextStep
  /\ phase' = "step"
  /\ UNCHANGED <<workload, scan, todo, peak, samples>>

(* The while condition fails and run() returns. *)
Return ==
  /\ phase = "step"
  /\ ~ArrivalsRemain /\ active = {}
  /\ phase' = "done"
  /\ UNCHANGED <<workload, scan, step, todo, memory, allocation_start, active,
                 status, tokens, finished_at, peak, samples>>

Terminated == phase = "done" /\ UNCHANGED vars

Next ==
  \/ BeginStep
  \/ \E r \in Requests : Try(r)
  \/ ScanFree \/ ScanTaken \/ Reserve \/ Reject
  \/ GenerateAndRelease
  \/ Return
  \/ Terminated

Spec == Init /\ [][Next]_vars

(* One thread runs the loop and nothing suspends it. *)
FairSpec == Spec /\ WF_vars(Next)

-----------------------------------------------------------------------------
TypeOK ==
  /\ Workload
  /\ step \in Nat
  /\ phase \in Phases
  /\ todo \subseteq Requests
  /\ request \in Requests \cup {None}
  /\ index \in 0 .. TotalTokens
  /\ run_start \in Slots
  /\ run_length \in 0 .. MaxLength
  /\ memory \in [Slots -> Requests \cup {None}]
  /\ allocation_start \in [Requests -> Slots \cup {None}]
  /\ active \subseteq Requests
  /\ status \in [Requests -> Statuses]
  /\ tokens \in [Requests -> Nat]
  /\ finished_at \in [Requests -> Nat \cup {None}]
  /\ samples \subseteq [unusable : Nat, free : Nat]

(* The memory map and the reservations of the active requests are the same  *)
(* thing: each holds max_length consecutive slots from its start, inside    *)
(* the memory, no two hold the same slot and no slot is left behind when    *)
(* they are released, all of them in one go, at the end of a step.          *)
ReservationsExact ==
  /\ TypeOK
  /\ \A r \in Requests : r \in active <=> allocation_start[r] # None
  /\ \A r \in active :
       Region(allocation_start[r], max_length[r]) \subseteq Slots
  /\ \A s \in Slots, r \in Requests :
       memory[s] = r <=>
         r \in active /\ s \in Region(allocation_start[r], max_length[r])

(* A reservation of n tokens could start at slot s. *)
Fits(s, n) == Region(s, n) \subseteq FreeSlots

(* "Return the start of the first free run large enough", at either end of  *)
(* the memory and in gaps of exactly that length too, and None only if      *)
(* there is no such run: one pass that only counts finds both.              *)
FirstFitExact ==
  /\ phase = "fit" =>
       /\ Fits(run_start, max_length[request])
       /\ \A s \in 0 .. run_start - 1 : ~Fits(s, max_length[request])
  /\ phase = "scan" /\ index = TotalTokens =>
       \A s \in Slots : ~Fits(s, max_length[request])

(* The scan and the gap measure agree: a rejected request always met        *)
(* external fragmentation of 100%, or of 0% in a full memory.  So the       *)
(* metric of a step tells whether it rejected a request, never how much of  *)
(* the memory was wasted.                                                   *)
SamplesAllOrNothing == \A m \in samples : m.unusable = m.free

(* Admission is immediate and generation never stalls or outgrows its       *)
(* reservation: an active request has a token for each step since it        *)
(* arrived, a completed one ended exactly actual_length steps after it, and *)
(* when run() returns every request was completed or rejected.              *)
OnePerStep ==
  /\ \A r \in Requests :
       /\ phase = "step" /\ r \in active =>
            /\ tokens[r] = step - arrival_time[r]
            /\ tokens[r] < max_length[r]
       /\ status[r] = "completed" =>
            /\ tokens[r] = actual_length[r]
            /\ finished_at[r] = arrival_time[r] + actual_length[r] - 1
  /\ phase = "done" =>
       \A r \in Requests : status[r] \in {"completed", "rejected"}

(* "External fragmentation is measured when an allocation is attempted":    *)
(* so an attempt that met unusable gaps counts in the metric of its step.   *)
EveryAttemptSampled ==
  [][\A r \in Requests :
       LET met == ExternalFragmentation(max_length[r])
       IN  r = request /\ phase \in {"scan", "fit"} /\ phase' = "admit" =>
             met.unusable = 0 \/ met \in samples']_vars
=============================================================================
