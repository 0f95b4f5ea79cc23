---------------------------- MODULE SLAScheduler ----------------------------
(***************************************************************************)
(* SLAScheduler of scheduler.py: waiting requests in a heap ordered by     *)
(* priority, deadline and arrival, admission into a bounded active set     *)
(* before and after the generation loop of every step, a token budget per  *)
(* request, and no preemption: a request that finds no free block keeps    *)
(* the blocks it has and tries again in the next step.                     *)
(***************************************************************************)
EXTENDS BlockPool

CONSTANTS
  ActiveLimit,  (* most requests active at a time                          *)
  MaxSteps,     (* run() gives up at this step                             *)
  MaxArrival,   (* bound on arrival_time in the workloads considered       *)
  Lengths,      (* actual_length in the workloads considered               *)
  Budgets,      (* token_budget in the workloads considered                *)
  Priorities,   (* priority in the workloads considered                    *)
  Deadlines     (* relative deadline in the workloads considered           *)

ASSUME SLAAssumption ==
  /\ ActiveLimit \in Nat \ {0}
  /\ MaxSteps \in Nat
  /\ MaxArrival \in Nat
  /\ Lengths \subseteq Nat \ {0}
  /\ Budgets \subseteq (Nat \ {0}) \cup {None}
  /\ Priorities \subseteq Nat
  /\ Deadlines \subseteq Nat
  /\ None \notin Nat

VARIABLES
  arrival_time, actual_length, token_budget, priority, deadline,
                  (* the workload: fields of the requests                  *)
  step,           (* the time step of the simulation                       *)
  phase,          (* which part of a step is running                       *)
  todo,           (* active requests the generation loop has yet to serve  *)
  done,           (* the ends of this step: <<request, reason>>            *)
  active,         (* self.active                                           *)
  waiting,        (* the requests in the heap self.waiting                 *)
  order,          (* self.order: next number of arrival                    *)
  arrived_as,     (* the number of arrival in the heap entry of a request  *)
  status,         (* request.status                                        *)
  tokens,         (* request.tokens_generated                              *)
  table,          (* request.page_table                                    *)
  started_at,     (* request.first_started_at                              *)
  wait_time,      (* request.wait_time                                     *)
  missed,         (* self.missed                                           *)
  pool            (* self.physical                                         *)

workload == <<arrival_time, actual_length, token_budget, priority, deadline>>
queue == <<waiting, order, arrived_as>>
memory == <<tokens, table, pool>>
vars == <<workload, step, phase, todo, done, active, queue, status, memory,
          started_at, wait_time, missed>>

Statuses == {"new", "waiting", "active", "completed", "terminated"}
Phases == {"arrive", "admit", "check", "generate", "readmit", "recheck",
           "done", "failed"}

-----------------------------------------------------------------------------
Init ==
  /\ arrival_time \in [Requests -> 0 .. MaxArrival]
  /\ actual_length \in [Requests -> Lengths]
  /\ token_budget \in [Requests -> Budgets]
  /\ priority \in [Requests -> Priorities]
  /\ deadline \in [Requests -> Deadlines]
  /\ step = 0
  /\ phase = "arrive"
  /\ todo = {}
  /\ done = {}
  /\ active = {}
  /\ waiting = {}
  /\ order = 0
  /\ arrived_as = [r \in Requests |-> None]
  /\ status = [r \in Requests |-> "new"]
  /\ tokens = [r \in Requests |-> 0]
  /\ table = [r \in Requests |-> <<>>]
  /\ started_at = [r \in Requests |-> None]
  /\ wait_time = [r \in Requests |-> 0]
  /\ missed = {}
  /\ pool = NewPool

DeadlineStep(r) == arrival_time[r] + deadline[r]

ArrivalsRemain == \E r \in Requests : step <= arrival_time[r]
Arriving == {r \in Requests : status[r] = "new" /\ arrival_time[r] = step}
Running == ArrivalsRemain \/ waiting # {} \/ active # {}

(* run() raises RuntimeError("SLA scheduler did not converge"). *)
GiveUp ==
  /\ phase = "arrive"
  /\ Running
  /\ step >= MaxSteps
  /\ phase' = "failed"
  /\ UNCHANGED <<workload, step, todo, done, active, queue, status, memory,
                 started_at, wait_time, missed>>

(* _queue, for the arrivals of the step in id order. *)
Enqueue(r) ==
  /\ phase = "arrive"
  /\ step < MaxSteps
  /\ Least(r, Arriving)
  /\ status' = [status EXCEPT ![r] = "waiting"]
  /\ waiting' = waiting \cup {r}
  /\ arrived_as' = [arrived_as EXCEPT ![r] = order]
  /\ order' = order + 1
  /\ UNCHANGED <<workload, step, phase, todo, done, active, memory,
                 started_at, wait_time, missed>>

BeginAdmit ==
  /\ phase = "arrive"
  /\ step < MaxSteps
  /\ Running
  /\ Arriving = {}
  /\ phase' = "admit"
  /\ UNCHANGED <<workload, step, todo, done, active, queue, status, memory,
                 started_at, wait_time, missed>>

-----------------------------------------------------------------------------
(* The order of the heap: priority, then deadline, then arrival. *)
Outranks(q, r) ==
  \/ priority[q] < priority[r]
  \/ /\ priority[q] = priority[r]
     /\ \/ DeadlineStep(q) < DeadlineStep(r)
        \/ /\ DeadlineStep(q) = DeadlineStep(r)
           /\ arrived_as[q] < arrived_as[r]

MayAdmit ==
  /\ phase \in {"admit", "readmit"}
  /\ waiting # {}
  /\ Cardinality(active) < ActiveLimit

(* Mutation: the heap is a queue. *)
FirstToArrive(r) ==
  r \in waiting /\ \A q \in waiting \ {r} : arrived_as[r] < arrived_as[q]

FirstInHeap(r) == r \in waiting /\ \A q \in waiting \ {r} : Outranks(r, q)

(* An iteration of _admit: the first of the heap becomes active. *)
Admit(r) ==
  /\ MayAdmit
  /\ FirstInHeap(r)
  /\ waiting' = waiting \ {r}
  /\ status' = [status EXCEPT ![r] = "active"]
  /\ started_at' = [started_at EXCEPT
                      ![r] = IF @ \in {None, 0} THEN step ELSE @]
  /\ active' = active \cup {r}
  /\ UNCHANGED <<workload, step, phase, todo, done, order, arrived_as,
                 memory, wait_time, missed>>

EndAdmit ==
  /\ phase \in {"admit", "readmit"}
  /\ ~MayAdmit
  /\ phase' = IF phase = "admit" THEN "check" ELSE "recheck"
  /\ UNCHANGED <<workload, step, todo, done, active, queue, status, memory,
                 started_at, wait_time, missed>>

(* Mutation: a deadline is missed at the deadline. *)
LateAtDeadline(r) == step >= DeadlineStep(r)

Late(r) == step > DeadlineStep(r)

(* _check_deadlines, over every request still in the heap. *)
CheckDeadlines ==
  /\ wait_time' = [r \in Requests |->
                     IF r \in waiting THEN step - arrival_time[r]
                     ELSE wait_time[r]]
  /\ missed' = missed \cup {r \in waiting : Late(r)}

BeginGenerate ==
  /\ phase = "check"
  /\ CheckDeadlines
  /\ todo' = active
  /\ done' = {}
  /\ phase' = "generate"
  /\ UNCHANGED <<workload, step, active, queue, status, memory, started_at>>

EndStep ==
  /\ phase = "recheck"
  /\ CheckDeadlines
  /\ step' = step + 1
  /\ phase' = "arrive"
  /\ UNCHANGED <<workload, todo, done, active, queue, status, memory,
                 started_at>>

-----------------------------------------------------------------------------
Serve(r) ==
  /\ phase = "generate"
  /\ Least(r, todo)
  /\ todo' = todo \ {r}
  /\ UNCHANGED <<workload, step, phase, active, queue, status, started_at,
                 wait_time, missed>>

(* Mutation: a request is stopped one token before its budget. *)
BudgetReachedEarly(r, n) ==
  IF token_budget[r] = None THEN FALSE ELSE n + 1 >= token_budget[r]

BudgetReached(r, n) ==
  IF token_budget[r] = None THEN FALSE ELSE n >= token_budget[r]

(* Whether request r ends with its n-th token, and why. *)
Ends(r, n) ==
  IF n >= actual_length[r] THEN {<<r, "completed">>}
  ELSE IF BudgetReached(r, n) THEN {<<r, "budget">>} ELSE {}

(* The rest of _generate once token r has a block, in pool p and table t,   *)
(* and the tests of the loop that called it.                                *)
StoreToken(r, p, t) ==
  /\ pool' = Write(p, BlockAt(t, tokens[r]), OffsetOf(tokens[r]),
                   <<r, tokens[r]>>)
  /\ table' = [table EXCEPT ![r] = t]
  /\ tokens' = [tokens EXCEPT ![r] = @ + 1]
  /\ done' = done \cup Ends(r, tokens[r] + 1)

GenerateInBlock(r) ==
  /\ Serve(r)
  /\ ~NeedsBlock(table[r], tokens[r])
  /\ StoreToken(r, pool, table[r])

GenerateInNewBlock(r, b) ==
  /\ Serve(r)
  /\ NeedsBlock(table[r], tokens[r])
  /\ Least(b, pool.free)
  /\ StoreToken(r, Allocate(pool, b, r), Append(table[r], b))

(* OutOfMemoryError is caught: r keeps its blocks and waits for another.    *)
Stall(r) ==
  /\ Serve(r)
  /\ NeedsBlock(table[r], tokens[r])
  /\ pool.free = {}
  /\ UNCHANGED <<memory, done>>

(* Mutation: a request stopped by its budget keeps its blocks. *)
EndedBlocksCompleted == UNION {Range(table[d[1]]) :
                                 d \in {e \in done : e[2] = "completed"}}

EndedBlocks == UNION {Range(table[d[1]]) : d \in done}

(* Mutation: a request stopped by its budget is left active. *)
EndStatusCompletedOnly(r) ==
  IF <<r, "completed">> \in done THEN "completed" ELSE status[r]

EndStatus(r) ==
  IF <<r, "budget">> \in done THEN "terminated"
  ELSE IF <<r, "completed">> \in done THEN "completed" ELSE status[r]

(* The loop over done: blocks are released and the ends recorded. *)
FinishDone ==
  /\ phase = "generate"
  /\ todo = {}
  /\ LET ended == {d[1] : d \in done}
     IN  /\ pool' = Free(pool, EndedBlocks)
         /\ table' = [r \in Requests |->
                        IF r \in ended THEN <<>> ELSE table[r]]
         /\ active' = active \ ended
         /\ status' = [r \in Requests |-> EndStatus(r)]
  /\ phase' = "readmit"
  /\ UNCHANGED <<workload, step, todo, done, queue, tokens, started_at,
                 wait_time, missed>>

Return ==
  /\ phase = "arrive"
  /\ ~Running
  /\ phase' = "done"
  /\ UNCHANGED <<workload, step, todo, done, active, queue, status, memory,
                 started_at, wait_time, missed>>

Terminated == phase \in {"done", "failed"} /\ UNCHANGED vars

Next ==
  \/ GiveUp
  \/ \E r \in Requests : Enqueue(r)
  \/ BeginAdmit
  \/ \E r \in Requests : Admit(r)
  \/ EndAdmit
  \/ BeginGenerate
  \/ \E r \in Requests : GenerateInBlock(r) \/ Stall(r)
  \/ \E r \in Requests, b \in Blocks : GenerateInNewBlock(r, b)
  \/ FinishDone
  \/ EndStep
  \/ Return
  \/ Terminated

Spec == Init /\ [][Next]_vars

(* One thread runs the loop and nothing suspends it. *)
FairSpec == Spec /\ WF_vars(Next)

-----------------------------------------------------------------------------
TypeOK ==
  /\ step \in 0 .. MaxSteps
  /\ phase \in Phases
  /\ todo \subseteq Requests
  /\ done \subseteq Requests \X {"completed", "budget"}
  /\ active \subseteq Requests
  /\ waiting \subseteq Requests
  /\ order \in Nat
  /\ arrived_as \in [Requests -> Nat \cup {None}]
  /\ status \in [Requests -> Statuses]
  /\ tokens \in [Requests -> Nat]
  /\ table \in [Requests -> Seq(Blocks)]
  /\ started_at \in [Requests -> Nat \cup {None}]
  /\ wait_time \in [Requests -> Nat]
  /\ missed \subseteq Requests
  /\ pool \in Pool

(* A request is in one place and its blocks are with it: none is shared or  *)
(* orphaned and only active requests hold any.  When run() returns every    *)
(* request was either completed or stopped by its budget (finished ==       *)
(* len(requests)) and the pool is whole again.                              *)
OnePlace ==
  /\ TypeOK
  /\ BlocksAccounted(pool, table)
  /\ \A r \in Requests :
       /\ status[r] = "active" <=> r \in active
       /\ status[r] = "waiting" <=> r \in waiting
       /\ table[r] # <<>> => r \in active
  /\ phase = "done" =>
       /\ pool = NewPool
       /\ \A r \in Requests : status[r] \in {"completed", "terminated"}

(* "stop exactly at the token budget": no request ever exceeds its length   *)
(* or its budget, a terminated one has exactly its budget and still had     *)
(* tokens to generate, and a completed one has exactly its length.          *)
BudgetExact ==
  \A r \in Requests :
    /\ tokens[r] <= actual_length[r]
    /\ token_budget[r] # None => tokens[r] <= token_budget[r]
    /\ status[r] = "completed" => tokens[r] = actual_length[r]
    /\ status[r] = "terminated" =>
         token_budget[r] # None /\ tokens[r] = token_budget[r]
           /\ tokens[r] < actual_length[r]

(* The deadline record and the start record agree: of the requests that     *)
(* started, exactly those that started after their deadline are missed, and *)
(* the waiting time of each is the time from its arrival to its start.      *)
(* _check_deadlines samples the queue only between two admissions, so this  *)
(* rests on when in a step a request can leave it.                          *)
MissedIffLate ==
  \A r \in Requests : started_at[r] # None =>
    /\ r \in missed <=> started_at[r] > DeadlineStep(r)
    /\ wait_time[r] = started_at[r] - arrival_time[r]

(* No request that had arrived when a lower-ranked one started is started   *)
(* after it.                                                                *)
NoPriorityInversion ==
  \A q, r \in Requests :
    /\ started_at[r] # None
    /\ arrival_time[q] <= started_at[r]
    /\ arrived_as[q] # None
    /\ Outranks(q, r)
    => started_at[q] # None /\ started_at[q] <= started_at[r]

(* The tokens that r generates before it ends. *)
Wanted(r) ==
  IF token_budget[r] = None THEN actual_length[r]
  ELSE IF token_budget[r] < actual_length[r] THEN token_budget[r]
  ELSE actual_length[r]

(* max_steps leaves a step for every token after the last arrival. *)
EnoughSteps ==
  MaxArrival + 1 + SumFunction([r \in Requests |-> Wanted(r)]) <= MaxSteps

(* With one step for each token, run() gives up only in a deadlock of its   *)
(* own making: the active requests hold the whole pool between them, and    *)
(* each of them waits for one block more.                                   *)
GivesUpOnlyInDeadlock ==
  phase = "failed" /\ EnoughSteps =>
    /\ active # {}
    /\ \A r \in active : NeedsBlock(table[r], tokens[r])
    /\ UNION {Range(table[r]) : r \in active} = Blocks

(* What active requests read is a private token sequence each. *)
Store == INSTANCE TokenStore WITH
  kv    <- [r \in Requests |-> Visible(pool, table[r], tokens[r])],
  saved <- [r \in Requests |-> <<>>]

ImplementsTokenStore == Store!Spec

(* "Schedule all requests": run() never gives up. *)
NeverGivesUp == phase # "failed"

(* A workload cannot exhaust the pool if a block is left even when every    *)
(* request has all the blocks it wants but one: then run() returns.         *)
Terminates ==
  SumFunction([r \in Requests |-> BlocksFor(Wanted(r)) - 1]) < TotalBlocks =>
    <>(phase = "done")
=============================================================================
