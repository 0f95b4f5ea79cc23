------------------------- MODULE SLAScheduler_proof -------------------------
(***************************************************************************)
(* Proofs about SLAScheduler, for every workload, pool, limit and number   *)
(* of steps: blocks and requests are where they should be, budgets are     *)
(* exact, the deadline record is that of the starts, no request starts     *)
(* before one that outranks it, giving up means a deadlock, and the        *)
(* scheduler is a token store.                                             *)
(***************************************************************************)
EXTENDS SLAScheduler, BlockPool_proof

WorkloadOK ==
  \A r \in Requests :
    /\ arrival_time[r] \in Nat
    /\ actual_length[r] \in Nat \ {0}
    /\ token_budget[r] \in (Nat \ {0}) \cup {None}
    /\ priority[r] \in Nat
    /\ deadline[r] \in Nat

(* How many tokens of each request memory holds. *)
Held == [r \in Requests |-> IF r \in active THEN tokens[r] ELSE 0]

Memory ==
  /\ MemoryOK(pool, table, Held)
  /\ \A r \in Requests : table[r] # <<>> => r \in active

(* The requests that the arrivals loop has yet to reach are untouched.      *)
Unseen(r) ==
  \/ arrival_time[r] > step
  \/ arrival_time[r] = step /\ phase \in {"arrive", "failed"}

(* A request is new, waiting, active or ended, and its records say so. *)
Lifecycle ==
  /\ phase \notin {"arrive", "done", "failed"} => step < MaxSteps
  /\ \A r \in Requests :
       /\ status[r] = "active" <=> r \in active
       /\ status[r] = "waiting" <=> r \in waiting
       /\ status[r] = "new" => Unseen(r)
       /\ status[r] = "new" <=> arrived_as[r] = None
       /\ status[r] # "new" => arrival_time[r] <= step
       /\ status[r] \in {"new", "waiting"} <=> started_at[r] = None
       /\ status[r] \in {"new", "waiting"} => tokens[r] = 0
       /\ status[r] = "new" => wait_time[r] = 0 /\ r \notin missed
       /\ started_at[r] # None =>
            started_at[r] <= step /\ (phase = "arrive" => started_at[r] < step)
       /\ phase = "done" =>
            r \notin active /\ r \notin waiting /\ arrival_time[r] < step

(* What the generation loop has yet to serve, and what it has ended. *)
Loop ==
  /\ todo \subseteq active
  /\ phase # "generate" => todo = {}
  /\ phase = "generate" => \A d \in done : d[1] \in active \ todo

WithinBudget(r, n) == token_budget[r] # None => n <= token_budget[r]

(* A request with n tokens was stopped for this reason. *)
EndedWith(r, n, reason) ==
  IF reason = "completed" THEN n = actual_length[r] /\ WithinBudget(r, n)
  ELSE /\ token_budget[r] # None
       /\ n = token_budget[r]
       /\ n < actual_length[r]

(* Request r still has a token to generate. *)
Unended(r) ==
  tokens[r] < actual_length[r] /\ ~BudgetReached(r, tokens[r])

Budget ==
  \A r \in Requests :
    /\ status[r] = "completed" => EndedWith(r, tokens[r], "completed")
    /\ status[r] = "terminated" => EndedWith(r, tokens[r], "budget")
    /\ r \in active /\ (phase = "generate" => \A d \in done : d[1] # r)
         => Unended(r)
    /\ phase = "generate" =>
         \A reason \in {"completed", "budget"} :
           <<r, reason>> \in done => EndedWith(r, tokens[r], reason)

NoSlot == ~(Cardinality(active) < ActiveLimit)

(* The record of a waiting request when it may start: up to date after      *)
(* _check_deadlines, untouched in the step of its arrival; and when neither *)
(* holds, no slot is free.                                                  *)
Waited ==
  \A r \in waiting :
    /\ r \in missed => Late(r)
    /\ phase \in {"arrive", "admit", "check"} /\ arrival_time[r] = step =>
         wait_time[r] = 0 /\ r \notin missed
    /\ phase \in {"generate", "readmit"} =>
         wait_time[r] = step - arrival_time[r] /\ (r \in missed <=> Late(r))
    /\ phase = "recheck" => NoSlot
    /\ phase \in {"arrive", "admit"} => arrival_time[r] = step \/ NoSlot

IInv ==
  /\ TypeOK
  /\ WorkloadOK
  /\ Memory
  /\ Lifecycle
  /\ Loop
  /\ Budget
  /\ Waited
  /\ MissedIffLate
  /\ NoPriorityInversion

-----------------------------------------------------------------------------
(* Pool p and table t are those of r when its next token is stored. *)
Prepared(r, p, t) ==
  /\ t \in Seq(Blocks)
  /\ BlockOf(tokens[r]) < Len(t)
  /\ MemoryOK(p, [table EXCEPT ![r] = t], Held)

Generate(r, p, t) ==
  /\ Serve(r)
  /\ Prepared(r, p, t)
  /\ StoreToken(r, p, t)

(* What the request that the loop serves looks like. *)
LEMMA Served ==
  ASSUME IInv, NEW r \in Requests, Serve(r)
  PROVE  /\ r \in active /\ r \in todo /\ status[r] = "active"
         /\ phase = "generate" /\ phase' = phase
         /\ tokens[r] \in Nat /\ Held[r] = tokens[r]
         /\ table[r] \in Seq(Blocks)
BY DEF IInv, TypeOK, Loop, Lifecycle, Serve, Least, Held

(* The block of the next token is the last of the table.                    *)
LEMMA PreparedInBlock ==
  ASSUME IInv, NEW r \in Requests, GenerateInBlock(r)
  PROVE  Generate(r, pool, table[r])
<1>1. /\ Serve(r) /\ StoreToken(r, pool, table[r])
      /\ BlockOf(tokens[r]) # Len(table[r])
  BY DEF GenerateInBlock, NeedsBlock
<1>2. tokens[r] \in Nat /\ Held[r] = tokens[r] /\ table[r] \in Seq(Blocks)
  BY <1>1, Served
<1>3. MemoryOK(pool, table, Held)
  BY DEF IInv, Memory
<1>4. [table EXCEPT ![r] = table[r]] = table
  BY DEF IInv, TypeOK
<1>5. BlocksFor(tokens[r]) <= Len(table[r])
  BY <1>2, <1>3 DEF MemoryOK
<1>6. BlockOf(tokens[r]) < Len(table[r])
  <2>1. /\ BlockOf(tokens[r]) \in Nat
        /\ BlocksFor(tokens[r]) \in {BlockOf(tokens[r]), BlockOf(tokens[r]) + 1}
    BY <1>2, BlocksForNext
  <2>2. Len(table[r]) \in Nat
    BY <1>2
  <2> QED  BY <1>1, <1>5, <2>1, <2>2
<1> QED  BY <1>1, <1>2, <1>3, <1>4, <1>6 DEF Generate, Prepared

(* Or it is taken from the pool. *)
LEMMA PreparedInNewBlock ==
  ASSUME IInv, NEW r \in Requests, NEW b \in Blocks, GenerateInNewBlock(r, b)
  PROVE  Generate(r, Allocate(pool, b, r), Append(table[r], b))
<1> DEFINE p == Allocate(pool, b, r)
           t == Append(table[r], b)
<1>1. /\ Serve(r) /\ StoreToken(r, p, t)
      /\ BlockOf(tokens[r]) = Len(table[r]) /\ b \in pool.free
  BY DEF GenerateInNewBlock, NeedsBlock, Least
<1>2. tokens[r] \in Nat /\ table[r] \in Seq(Blocks)
  BY <1>1, Served
<1>3. MemoryOK(pool, table, Held)
  BY DEF IInv, Memory
<1>4. MemoryOK(p, [table EXCEPT ![r] = t], Held)
  <2> HIDE DEF Held
  <2> QED  BY <1>1, <1>3, MemoryAllocate
<1>5. t \in Seq(Blocks) /\ Len(t) = Len(table[r]) + 1
  BY <1>2
<1>6. BlockOf(tokens[r]) < Len(t)
  BY <1>1, <1>2, <1>5
<1> HIDE DEF p, t
<1>7. Generate(r, p, t)
  BY <1>1, <1>4, <1>5, <1>6 DEF Generate, Prepared
<1> QED  BY <1>7 DEF p, t

(* The actions, the two ways to generate a token in one. *)
LEMMA StepCases ==
  ASSUME IInv, [Next]_vars
  PROVE  \/ GiveUp \/ BeginAdmit \/ EndAdmit \/ BeginGenerate
         \/ FinishDone \/ EndStep \/ Return \/ UNCHANGED vars
         \/ \E r \in Requests : Enqueue(r) \/ Admit(r) \/ Stall(r)
         \/ \E r \in Requests : \E p, t : Generate(r, p, t)
BY PreparedInBlock, PreparedInNewBlock DEF Next, Terminated

(* What the generation of a token changes. *)
LEMMA GenerateEffect ==
  ASSUME IInv, NEW r \in Requests, NEW p, NEW t, Generate(r, p, t)
  PROVE  /\ tokens' = [tokens EXCEPT ![r] = tokens[r] + 1]
         /\ tokens' \in [Requests -> Nat]
         /\ table' = [table EXCEPT ![r] = t]
         /\ done' = done \cup Ends(r, tokens[r] + 1)
         /\ todo' = todo \ {r}
         /\ UNCHANGED <<workload, step, phase, active, queue, status,
                        started_at, wait_time, missed>>
         /\ r \in active /\ r \in todo /\ phase = "generate"
         /\ MemoryOK(pool', table', Held')
<1>1. Serve(r) /\ Prepared(r, p, t) /\ StoreToken(r, p, t)
  BY DEF Generate
<1>2. /\ r \in active /\ r \in todo /\ phase = "generate"
      /\ tokens[r] \in Nat /\ Held[r] = tokens[r]
  BY <1>1, Served
<1>3. /\ tokens' = [tokens EXCEPT ![r] = tokens[r] + 1]
      /\ table' = [table EXCEPT ![r] = t]
      /\ done' = done \cup Ends(r, tokens[r] + 1)
      /\ pool' = Write(p, BlockAt(t, tokens[r]), OffsetOf(tokens[r]),
                       <<r, tokens[r]>>)
  BY <1>1 DEF StoreToken
<1>4. /\ todo' = todo \ {r}
      /\ UNCHANGED <<workload, step, phase, active, queue, status,
                     started_at, wait_time, missed>>
  BY <1>1 DEF Serve
<1>5. tokens \in [Requests -> Nat] /\ table \in [Requests -> Seq(Blocks)]
  BY DEF IInv, TypeOK
<1>6. tokens' \in [Requests -> Nat]
  BY <1>2, <1>3, <1>5
<1>7. Held' = [Held EXCEPT ![r] = Held[r] + 1]
  BY <1>2, <1>3, <1>4, <1>5 DEF Held
<1>8. /\ MemoryOK(p, table', Held) /\ BlockOf(tokens[r]) < Len(t)
      /\ table'[r] = t
  BY <1>1, <1>3, <1>5 DEF Prepared
<1>9. MemoryOK(pool', table', Held')
  <2>1. BlockOf(Held[r]) < Len(table'[r])
    BY <1>2, <1>8
  <2>2. MemoryOK(Write(p, BlockAt(table'[r], Held[r]), OffsetOf(Held[r]),
                       <<r, Held[r]>>),
                 table', [Held EXCEPT ![r] = Held[r] + 1])
    BY <1>8, <2>1, MemoryStore
  <2> QED  BY <1>2, <1>3, <1>7, <1>8, <2>2
<1> QED  BY <1>2, <1>3, <1>4, <1>6, <1>9

(* The end of the generation loop. *)
LEMMA FinishEffect ==
  ASSUME IInv, FinishDone
  PROVE  LET ended == {d[1] : d \in done}
         IN  /\ ended \in SUBSET Requests
             /\ table' = [r \in Requests |->
                            IF r \in ended THEN <<>> ELSE table[r]]
             /\ active' = active \ ended
             /\ MemoryOK(pool', table', Held')
<1> DEFINE ended == {d[1] : d \in done}
           bs == UNION {Range(table[r]) : r \in ended}
<1>1. /\ ended \in SUBSET Requests
      /\ MemoryOK(pool, table, Held)
  BY DEF IInv, TypeOK, Memory
<1>2. EndedBlocks = bs
  BY DEF EndedBlocks
<1>3. /\ pool' = Free(pool, EndedBlocks)
      /\ table' = [r \in Requests |-> IF r \in ended THEN <<>> ELSE table[r]]
      /\ active' = active \ ended
      /\ tokens' = tokens
  BY DEF FinishDone
<1> HIDE DEF ended
<1>4. Held' = [r \in Requests |-> IF r \in ended THEN 0 ELSE Held[r]]
  BY <1>3 DEF Held
<1>5. MemoryOK(pool', table', Held')
  BY <1>1, <1>2, <1>3, <1>4, MemoryRelease
<1> QED  BY <1>1, <1>3, <1>5 DEF ended

(* Every action keeps the blocks accounted for and the tokens in them.      *)
LEMMA MemoryStep ==
  ASSUME IInv, [Next]_vars
  PROVE  Memory'
<1>1. MemoryOK(pool, table, Held) /\ (\A r \in Requests : table[r] # <<>> => r \in active)
  BY DEF IInv, Memory
<1>2. ASSUME UNCHANGED <<memory, active>>  PROVE Memory'
  <2>1. Held' = Held
    BY <1>2 DEF memory, Held
  <2> QED  BY <1>1, <1>2, <2>1 DEF memory, Memory
<1>3. ASSUME NEW r \in Requests, Admit(r)  PROVE Memory'
  <2>1. /\ UNCHANGED memory /\ active' = active \cup {r} /\ r \in waiting
    BY <1>3 DEF Admit, FirstInHeap
  <2>2. tokens[r] = 0
    BY <2>1 DEF IInv, Lifecycle
  <2>3. Held' = Held
    BY <2>1, <2>2 DEF memory, Held
  <2> QED  BY <1>1, <2>1, <2>3 DEF memory, Memory
<1>4. ASSUME NEW r \in Requests, NEW p, NEW t, Generate(r, p, t)
      PROVE  Memory'
  <2>1. /\ table' = [table EXCEPT ![r] = t] /\ active' = active
        /\ r \in active /\ MemoryOK(pool', table', Held')
    BY <1>4, GenerateEffect
  <2> QED  BY <1>1, <2>1 DEF Memory
<1>5. ASSUME FinishDone  PROVE Memory'
  BY <1>1, <1>5, FinishEffect DEF Memory
<1> QED
  BY <1>2, <1>3, <1>4, <1>5, StepCases
  DEF GiveUp, BeginAdmit, EndAdmit, BeginGenerate, EndStep, Return, vars,
      Enqueue, Stall, Serve

(* The time that a waiting request has waited. *)
LEMMA WaitType ==
  ASSUME IInv
  PROVE  \A r \in waiting : step - arrival_time[r] \in Nat
<1> SUFFICES ASSUME NEW r \in waiting  PROVE step - arrival_time[r] \in Nat
  OBVIOUS
<1>1. r \in Requests /\ step \in Nat
  BY SLAAssumption DEF IInv, TypeOK
<1>2. status[r] = "waiting"
  BY <1>1 DEF IInv, Lifecycle
<1>3. arrival_time[r] \in Nat /\ arrival_time[r] <= step
  BY <1>1, <1>2 DEF IInv, Lifecycle, WorkloadOK
<1> QED  BY <1>1, <1>3

(* A request that has ended in this step is recorded with a reason. *)
LEMMA Reason ==
  ASSUME IInv, NEW r \in Requests
  PROVE  r \in {d[1] : d \in done} <=>
           <<r, "completed">> \in done \/ <<r, "budget">> \in done
<1>1. \A d \in done : d = <<d[1], "completed">> \/ d = <<d[1], "budget">>
  BY DEF IInv, TypeOK
<1> QED  BY <1>1

LEMMA TypeStep ==
  ASSUME IInv, Memory', [Next]_vars
  PROVE  TypeOK'
<1>1. /\ pool' \in Pool /\ table' \in [Requests -> Seq(Blocks)]
  BY DEF Memory, MemoryOK
<1> USE <1>1, SLAAssumption DEF IInv, TypeOK, queue
<1>2. ASSUME GiveUp  PROVE TypeOK'
  BY <1>2 DEF GiveUp, Phases, memory
<1>3. ASSUME NEW r \in Requests, Enqueue(r)  PROVE TypeOK'
  BY <1>3 DEF Enqueue, Statuses, memory
<1>4. ASSUME BeginAdmit  PROVE TypeOK'
  BY <1>4 DEF BeginAdmit, Phases, memory
<1>5. ASSUME NEW r \in Requests, Admit(r)  PROVE TypeOK'
  BY <1>5 DEF Admit, Statuses, memory
<1>6. ASSUME EndAdmit  PROVE TypeOK'
  BY <1>6 DEF EndAdmit, Phases, memory
<1>7. ASSUME CheckDeadlines, UNCHANGED <<waiting, arrival_time>>
      PROVE  wait_time' \in [Requests -> Nat] /\ missed' \subseteq Requests
  <2>1. \A r \in waiting : step - arrival_time[r] \in Nat
    BY WaitType
  <2> QED  BY <1>7, <2>1 DEF CheckDeadlines
<1>8. ASSUME BeginGenerate  PROVE TypeOK'
  BY <1>7, <1>8 DEF BeginGenerate, Phases, memory, workload
<1>9. ASSUME EndStep  PROVE TypeOK'
  <2>1. step < MaxSteps /\ step' = step + 1
    BY <1>9 DEF EndStep, Lifecycle
  <2>2. step' \in 0 .. MaxSteps
    BY <2>1
  <2> QED  BY <1>7, <1>9, <2>2 DEF EndStep, Phases, memory, workload
<1>10. ASSUME NEW r \in Requests, NEW p, NEW t, Generate(r, p, t)
       PROVE  TypeOK'
  <2>1. Ends(r, tokens[r] + 1) \subseteq Requests \X {"completed", "budget"}
    BY DEF Ends
  <2>2. /\ done' \subseteq Requests \X {"completed", "budget"}
        /\ todo' \subseteq Requests /\ tokens' \in [Requests -> Nat]
        /\ UNCHANGED <<step, phase, active, queue, status, started_at,
                       wait_time, missed>>
    BY <1>10, <2>1, GenerateEffect
  <2> QED  BY <2>2
<1>11. ASSUME NEW r \in Requests, Stall(r)  PROVE TypeOK'
  BY <1>11 DEF Stall, Serve, memory
<1>12. ASSUME FinishDone  PROVE TypeOK'
  <2>1. status' \in [Requests -> Statuses]
    BY <1>12 DEF FinishDone, EndStatus, Statuses
  <2>2. active' \subseteq Requests
    BY <1>12 DEF FinishDone
  <2> QED  BY <1>12, <2>1, <2>2 DEF FinishDone, Phases
<1>13. ASSUME Return  PROVE TypeOK'
  BY <1>13 DEF Return, Phases, memory
<1>14. ASSUME UNCHANGED vars  PROVE TypeOK'
  BY <1>14 DEF vars, memory
<1> QED
  BY <1>2, <1>3, <1>4, <1>5, <1>6, <1>8, <1>9, <1>10, <1>11, <1>12, <1>13,
     <1>14, StepCases

(* Every action moves requests through their lives in order. *)
LEMMA LifecycleStep ==
  ASSUME IInv, TypeOK', [Next]_vars
  PROVE  Lifecycle'
<1>served. ASSUME NEW r \in Requests, NEW p, NEW t, Generate(r, p, t)
      PROVE  /\ UNCHANGED <<workload, step, phase, active, queue, status,
                            started_at, wait_time, missed>>
             /\ r \in active
             /\ \A q \in Requests \ {r} : tokens'[q] = tokens[q]
  BY <1>served, GenerateEffect
<1>ended. ASSUME FinishDone, NEW r \in Requests
       PROVE  \/ /\ status'[r] = status[r]
                 /\ r \in active' <=> r \in active
              \/ /\ status[r] = "active" /\ r \notin active'
                 /\ status'[r] \in {"completed", "terminated"}
  <2>1. /\ status'[r] = EndStatus(r)
        /\ active' = active \ {d[1] : d \in done}
    BY <1>ended DEF FinishDone
  <2>2. r \in {d[1] : d \in done} => status[r] = "active"
    BY <1>ended DEF FinishDone, IInv, Loop, Lifecycle
  <2> QED  BY <2>1, <2>2, Reason DEF EndStatus
<1> USE SLAAssumption DEF Lifecycle, Unseen, IInv, TypeOK, WorkloadOK,
                          workload, queue, memory
<1>1. ASSUME GiveUp  PROVE Lifecycle'
  BY <1>1 DEF GiveUp
<1>2. ASSUME NEW r \in Requests, Enqueue(r)  PROVE Lifecycle'
  BY <1>2 DEF Enqueue, Least, Arriving
<1>3. ASSUME BeginAdmit  PROVE Lifecycle'
  BY <1>3 DEF BeginAdmit, Arriving
<1>4. ASSUME NEW r \in Requests, Admit(r)  PROVE Lifecycle'
  BY <1>4 DEF Admit, MayAdmit, FirstInHeap
<1>5. ASSUME EndAdmit  PROVE Lifecycle'
  BY <1>5 DEF EndAdmit
<1>6. ASSUME BeginGenerate  PROVE Lifecycle'
  BY <1>6 DEF BeginGenerate, CheckDeadlines
<1>7. ASSUME EndStep  PROVE Lifecycle'
  BY <1>7 DEF EndStep, CheckDeadlines
<1>8. ASSUME NEW r \in Requests, NEW p, NEW t, Generate(r, p, t)
      PROVE  Lifecycle'
  BY <1>served, <1>8
<1>9. ASSUME NEW r \in Requests, Stall(r)  PROVE Lifecycle'
  BY <1>9 DEF Stall, Serve
<1>10. ASSUME FinishDone  PROVE Lifecycle'
  <2>1. /\ phase = "generate" /\ phase' = "readmit" /\ todo = {}
        /\ UNCHANGED <<workload, step, queue, tokens, started_at, wait_time,
                       missed>>
    BY <1>10 DEF FinishDone
  <2> QED  BY <1>ended, <1>10, <2>1
<1>11. ASSUME Return  PROVE Lifecycle'
  BY <1>11 DEF Return, Running, ArrivalsRemain
<1>12. ASSUME UNCHANGED vars  PROVE Lifecycle'
  BY <1>12 DEF vars
<1> QED
  BY <1>1, <1>2, <1>3, <1>4, <1>5, <1>6, <1>7, <1>8, <1>9, <1>10, <1>11,
     <1>12, StepCases

(* The generation loop serves the active requests and ends some of those it *)
(* has served.                                                              *)
LEMMA LoopStep ==
  ASSUME IInv, [Next]_vars
  PROVE  Loop'
<1> USE DEF Loop, IInv
<1>1. ASSUME NEW r \in Requests, Enqueue(r)  PROVE Loop'
  BY <1>1 DEF Enqueue
<1>2. ASSUME NEW r \in Requests, Admit(r)  PROVE Loop'
  BY <1>2 DEF Admit, MayAdmit
<1>3. ASSUME BeginGenerate  PROVE Loop'
  BY <1>3 DEF BeginGenerate
<1>4. ASSUME NEW r \in Requests, NEW p, NEW t, Generate(r, p, t)
      PROVE  Loop'
  <2>1. /\ done' = done \cup Ends(r, tokens[r] + 1) /\ todo' = todo \ {r}
        /\ phase' = phase /\ active' = active
        /\ r \in active /\ r \in todo
    BY <1>4, GenerateEffect
  <2>2. \A d \in Ends(r, tokens[r] + 1) : d[1] = r
    BY DEF Ends
  <2> QED  BY <2>1, <2>2
<1>5. ASSUME NEW r \in Requests, Stall(r)  PROVE Loop'
  BY <1>5 DEF Stall, Serve
<1>6. ASSUME FinishDone  PROVE Loop'
  BY <1>6 DEF FinishDone
<1>7. ASSUME GiveUp \/ BeginAdmit \/ EndAdmit \/ EndStep \/ Return
      PROVE  Loop'
  BY <1>7 DEF GiveUp, BeginAdmit, EndAdmit, EndStep, Return
<1>8. ASSUME UNCHANGED vars  PROVE Loop'
  BY <1>8 DEF vars
<1> QED
  BY <1>1, <1>2, <1>3, <1>4, <1>5, <1>6, <1>7, <1>8, StepCases

-----------------------------------------------------------------------------
(* What a token does to the tests of the loop. *)
LEMMA EndsWith ==
  ASSUME IInv, NEW r \in Requests, Unended(r)
  PROVE  LET n == tokens[r] + 1
         IN  /\ Ends(r, n) = {} => n < actual_length[r] /\ ~BudgetReached(r, n)
             /\ \A reason \in {"completed", "budget"} :
                  <<r, reason>> \in Ends(r, n) => EndedWith(r, n, reason)
<1>1. /\ tokens[r] \in Nat /\ actual_length[r] \in Nat
      /\ token_budget[r] \in Nat \cup {None}
  BY DEF IInv, TypeOK, WorkloadOK
<1> QED
  BY <1>1, SLAAssumption
  DEF Unended, Ends, BudgetReached, EndedWith, WithinBudget

(* A request has at most the tokens it wants, and fewer if it is active.    *)
LEMMA BudgetStep ==
  ASSUME IInv, [Next]_vars
  PROVE  Budget'
<1>1. Budget
  BY DEF IInv
<1>2. ASSUME UNCHANGED <<workload, tokens, status, active>>,
             phase # "generate", phase' # "generate"
      PROVE  Budget'
  BY <1>1, <1>2
  DEF Budget, workload, Unended, BudgetReached, EndedWith, WithinBudget
<1>3. ASSUME UNCHANGED <<workload, tokens, status, active, done, phase>>
      PROVE  Budget'
  BY <1>1, <1>3
  DEF Budget, workload, Unended, BudgetReached, EndedWith, WithinBudget
<1>4. ASSUME NEW r \in Requests, Enqueue(r)  PROVE Budget'
  <2>1. /\ UNCHANGED <<workload, tokens, active, done, phase>>
        /\ phase = "arrive"
        /\ \A q \in Requests : status'[q] \in {status[q], "waiting"}
    BY <1>4 DEF Enqueue, memory, IInv, TypeOK
  <2> QED
    BY <1>1, <2>1
    DEF Budget, workload, Unended, BudgetReached, EndedWith, WithinBudget
<1>5. ASSUME NEW r \in Requests, Admit(r)  PROVE Budget'
  <2>1. /\ UNCHANGED <<workload, tokens, done, phase>>
        /\ phase # "generate" /\ r \in waiting
        /\ active' = active \cup {r}
        /\ \A q \in Requests : status'[q] \in {status[q], "active"}
    BY <1>5 DEF Admit, MayAdmit, FirstInHeap, memory, IInv, TypeOK
  <2>2. tokens[r] = 0 /\ actual_length[r] \in Nat \ {0}
        /\ token_budget[r] \in (Nat \ {0}) \cup {None}
    BY <2>1 DEF IInv, Lifecycle, WorkloadOK
  <2>3. Unended(r)
    BY <2>2, SLAAssumption DEF Unended, BudgetReached
  <2> QED
    BY <1>1, <2>1, <2>3
    DEF Budget, workload, Unended, BudgetReached, EndedWith, WithinBudget
<1>6. ASSUME BeginGenerate  PROVE Budget'
  <2>1. /\ UNCHANGED <<workload, tokens, status, active>>
        /\ phase = "check" /\ done' = {}
    BY <1>6 DEF BeginGenerate, memory
  <2> QED
    BY <1>1, <2>1
    DEF Budget, workload, Unended, BudgetReached, EndedWith, WithinBudget
<1>7. ASSUME NEW r \in Requests, NEW p, NEW t, Generate(r, p, t)
      PROVE  Budget'
  <2>1. /\ UNCHANGED <<workload, status, active, phase>>
        /\ phase = "generate" /\ r \in active /\ r \in todo
        /\ done' = done \cup Ends(r, tokens[r] + 1)
        /\ tokens'[r] = tokens[r] + 1
        /\ \A q \in Requests \ {r} : tokens'[q] = tokens[q]
    BY <1>7, GenerateEffect DEF IInv, TypeOK
  <2>2. /\ \A d \in done : d[1] # r
        /\ \A d \in Ends(r, tokens[r] + 1) : d[1] = r
        /\ status[r] = "active"
    BY <2>1 DEF IInv, Loop, Lifecycle, Ends
  <2>3. Unended(r)
    BY <1>1, <2>1, <2>2 DEF Budget
  <2>4. ASSUME NEW q \in Requests \ {r}
        PROVE  /\ \A d : d[1] = q => (d \in done' <=> d \in done)
               /\ \A reason : <<q, reason>> \in done' <=> <<q, reason>> \in done
    BY <2>1, <2>2
  <2>5. \A q \in Requests \ {r} :
          /\ status'[q] = "completed" => EndedWith(q, tokens[q], "completed")'
          /\ status'[q] = "terminated" => EndedWith(q, tokens[q], "budget")'
          /\ q \in active' /\ (\A d \in done' : d[1] # q) => Unended(q)'
          /\ \A reason \in {"completed", "budget"} :
               <<q, reason>> \in done' => EndedWith(q, tokens[q], reason)'
    BY <1>1, <2>1, <2>2, <2>4
    DEF Budget, workload, Unended, BudgetReached, EndedWith, WithinBudget
  <2>6. \A reason \in {"completed", "budget"} :
          <<r, reason>> \in done' => EndedWith(r, tokens[r], reason)'
    <3>1. ASSUME NEW reason \in {"completed", "budget"},
                 <<r, reason>> \in done'
          PROVE  EndedWith(r, tokens[r] + 1, reason)
      <4>1. <<r, reason>> \in Ends(r, tokens[r] + 1)
        BY <2>1, <2>2, <3>1
      <4> QED  BY <2>3, <4>1, EndsWith
    <3> QED  BY <2>1, <3>1 DEF workload, EndedWith, WithinBudget
  <2>7. (\A d \in done' : d[1] # r) => Unended(r)'
    <3>1. (\A d \in done' : d[1] # r) => Ends(r, tokens[r] + 1) = {}
      BY <2>1, <2>2
    <3>2. Ends(r, tokens[r] + 1) = {} =>
            /\ tokens[r] + 1 < actual_length[r]
            /\ ~BudgetReached(r, tokens[r] + 1)
      BY <2>3, EndsWith
    <3> QED  BY <2>1, <3>1, <3>2 DEF workload, Unended, BudgetReached
  <2> QED  BY <2>1, <2>2, <2>5, <2>6, <2>7 DEF Budget
<1>8. ASSUME FinishDone  PROVE Budget'
  <2>1. /\ phase = "generate" /\ phase' # "generate"
        /\ UNCHANGED <<workload, tokens, done>>
        /\ active' = active \ {d[1] : d \in done}
        /\ \A q \in Requests : status'[q] = EndStatus(q)
    BY <1>8 DEF FinishDone
  <2>2. ASSUME NEW q \in Requests
        PROVE  /\ status'[q] = "completed" => EndedWith(q, tokens[q], "completed")
               /\ status'[q] = "terminated" => EndedWith(q, tokens[q], "budget")
               /\ q \in active' => Unended(q)
    <3>1. CASE \A d \in done : d[1] # q
      <4>1. <<q, "completed">> \notin done /\ <<q, "budget">> \notin done
        BY <3>1, Reason
      <4>2. status'[q] = status[q]
        BY <2>1, <4>1 DEF EndStatus
      <4> QED  BY <1>1, <2>1, <3>1, <4>2 DEF Budget
    <3>2. CASE \E d \in done : d[1] = q
      <4>1. q \notin active'
        BY <2>1, <3>2
      <4>2. <<q, "completed">> \in done \/ <<q, "budget">> \in done
        BY <3>2, Reason
      <4>3. /\ <<q, "completed">> \in done => EndedWith(q, tokens[q], "completed")
            /\ <<q, "budget">> \in done => EndedWith(q, tokens[q], "budget")
        BY <1>1, <2>1 DEF Budget
      <4> QED  BY <2>1, <4>1, <4>2, <4>3 DEF EndStatus
    <3> QED  BY <3>1, <3>2
  <2> QED
    BY <2>1, <2>2
    DEF Budget, workload, Unended, BudgetReached, EndedWith, WithinBudget
<1>9. ASSUME GiveUp \/ BeginAdmit \/ EndAdmit \/ EndStep \/ Return
      PROVE  Budget'
  BY <1>2, <1>9 DEF GiveUp, BeginAdmit, EndAdmit, EndStep, Return, memory
<1>10. ASSUME NEW r \in Requests, Stall(r)  PROVE Budget'
  BY <1>3, <1>10 DEF Stall, Serve, memory
<1>11. ASSUME UNCHANGED vars  PROVE Budget'
  BY <1>3, <1>11 DEF vars, memory
<1> QED
  BY <1>4, <1>5, <1>6, <1>7, <1>8, <1>9, <1>10, <1>11, StepCases

-----------------------------------------------------------------------------
(* What _check_deadlines leaves of the record of a request.                 *)
LEMMA Checked ==
  ASSUME IInv, CheckDeadlines, NEW r \in Requests
  PROVE  /\ r \in waiting =>
              /\ wait_time'[r] = step - arrival_time[r]
              /\ r \in missed' <=> Late(r)
         /\ r \notin waiting =>
              /\ wait_time'[r] = wait_time[r]
              /\ r \in missed' <=> r \in missed
<1>1. r \in waiting /\ r \in missed => Late(r)
  BY DEF IInv, Waited
<1> QED  BY <1>1 DEF CheckDeadlines

(* A request that is still in the heap has its record up to date when it    *)
(* can leave it.                                                            *)
LEMMA WaitedStep ==
  ASSUME IInv, [Next]_vars
  PROVE  Waited'
<1>1. Waited /\ waiting \subseteq Requests
  BY DEF IInv, TypeOK
<1>2. ASSUME UNCHANGED <<workload, step, phase, active, waiting, wait_time,
                         missed>>
      PROVE  Waited'
  BY <1>1, <1>2 DEF Waited, workload, NoSlot, Late, DeadlineStep
<1>3. ASSUME GiveUp \/ BeginAdmit \/ Return  PROVE Waited'
  <2>1. /\ UNCHANGED <<workload, step, active, waiting, wait_time, missed>>
        /\ phase = "arrive" /\ phase' \in {"failed", "admit", "done"}
    BY <1>3 DEF GiveUp, BeginAdmit, Return, queue
  <2> QED  BY <1>1, <2>1 DEF Waited, workload, NoSlot, Late, DeadlineStep
<1>4. ASSUME NEW r \in Requests, Enqueue(r)  PROVE Waited'
  <2>1. /\ UNCHANGED <<workload, step, phase, active, wait_time, missed>>
        /\ phase = "arrive" /\ waiting' = waiting \cup {r}
        /\ status[r] = "new" /\ arrival_time[r] = step
    BY <1>4 DEF Enqueue, Least, Arriving
  <2>2. wait_time[r] = 0 /\ r \notin missed
    BY <2>1 DEF IInv, Lifecycle
  <2> QED  BY <1>1, <2>1, <2>2 DEF Waited, workload, NoSlot, Late, DeadlineStep
<1>5. ASSUME NEW r \in Requests, Admit(r)  PROVE Waited'
  <2>1. /\ UNCHANGED <<workload, step, phase, wait_time, missed>>
        /\ phase \in {"admit", "readmit"} /\ waiting' = waiting \ {r}
        /\ ~NoSlot
    BY <1>5 DEF Admit, MayAdmit, NoSlot
  <2> QED  BY <1>1, <2>1 DEF Waited, workload, Late, DeadlineStep
<1>6. ASSUME EndAdmit  PROVE Waited'
  <2>1. /\ UNCHANGED <<workload, step, active, waiting, wait_time, missed>>
        /\ \/ phase = "admit" /\ phase' = "check"
           \/ phase = "readmit" /\ phase' = "recheck" /\ (waiting = {} \/ NoSlot)
    BY <1>6 DEF EndAdmit, MayAdmit, queue, NoSlot
  <2> QED  BY <1>1, <2>1 DEF Waited, workload, NoSlot, Late, DeadlineStep
<1>7. ASSUME BeginGenerate  PROVE Waited'
  <2>1. /\ UNCHANGED <<workload, step, active, waiting>>
        /\ phase' = "generate" /\ CheckDeadlines
    BY <1>7 DEF BeginGenerate, queue
  <2> QED
    BY <1>1, <2>1, Checked DEF Waited, workload, Late, DeadlineStep
<1>8. ASSUME EndStep  PROVE Waited'
  <2>1. /\ UNCHANGED <<workload, active, waiting>> /\ step' = step + 1
        /\ phase = "recheck" /\ phase' = "arrive" /\ CheckDeadlines
    BY <1>8 DEF EndStep, queue
  <2>2. ASSUME NEW r \in waiting
        PROVE  /\ r \in missed' => Late(r)'
               /\ arrival_time[r] # step + 1
               /\ NoSlot
    <3>1. /\ r \in Requests /\ step \in Nat
          /\ arrival_time[r] \in Nat /\ deadline[r] \in Nat
      BY <1>1, SLAAssumption DEF IInv, TypeOK, WorkloadOK
    <3>2. arrival_time[r] <= step
      BY <3>1 DEF IInv, Lifecycle
    <3>3. r \in missed' => Late(r)
      BY <2>1, <3>1, Checked
    <3>4. Late(r) => Late(r)'
      BY <2>1, <3>1 DEF Late, DeadlineStep, workload
    <3>5. NoSlot
      BY <1>1, <2>1 DEF Waited
    <3> QED  BY <3>1, <3>2, <3>3, <3>4, <3>5
  <2> QED  BY <2>1, <2>2 DEF Waited, workload, NoSlot
<1>9. ASSUME NEW r \in Requests, NEW p, NEW t, Generate(r, p, t)
      PROVE  Waited'
  <2>1. UNCHANGED <<workload, step, phase, active, waiting, wait_time, missed>>
    BY <1>9, GenerateEffect DEF queue
  <2> QED  BY <1>2, <2>1
<1>10. ASSUME NEW r \in Requests, Stall(r)  PROVE Waited'
  BY <1>2, <1>10 DEF Stall, Serve, queue
<1>11. ASSUME FinishDone  PROVE Waited'
  <2>1. /\ UNCHANGED <<workload, step, waiting, wait_time, missed>>
        /\ phase = "generate" /\ phase' = "readmit"
    BY <1>11 DEF FinishDone, queue
  <2> QED  BY <1>1, <2>1 DEF Waited, workload, Late, DeadlineStep
<1>12. ASSUME UNCHANGED vars  PROVE Waited'
  BY <1>2, <1>12 DEF vars, queue
<1> QED
  BY <1>3, <1>4, <1>5, <1>6, <1>7, <1>8, <1>9, <1>10, <1>11, <1>12, StepCases

(* The record of a request that starts is right, and then it stays.         *)
LEMMA MissedStep ==
  ASSUME IInv, [Next]_vars
  PROVE  MissedIffLate'
<1>1. MissedIffLate
  BY DEF IInv
<1>2. ASSUME UNCHANGED <<workload, started_at, wait_time, missed>>
      PROVE  MissedIffLate'
  BY <1>1, <1>2 DEF MissedIffLate, workload, DeadlineStep
<1>3. ASSUME NEW r \in Requests, Admit(r)  PROVE MissedIffLate'
  <2>1. /\ UNCHANGED <<workload, wait_time, missed>>
        /\ r \in waiting /\ phase \in {"admit", "readmit"} /\ ~NoSlot
        /\ started_at' = [started_at EXCEPT
                            ![r] = IF @ \in {None, 0} THEN step ELSE @]
    BY <1>3 DEF Admit, MayAdmit, FirstInHeap, NoSlot
  <2>2. status[r] = "waiting"
    BY <2>1 DEF IInv, Lifecycle
  <2>3. started_at[r] = None
    BY <2>2 DEF IInv, Lifecycle
  <2>4. /\ started_at'[r] = step
        /\ \A q \in Requests \ {r} : started_at'[q] = started_at[q]
    BY <2>1, <2>3 DEF IInv, TypeOK
  <2>5. /\ wait_time[r] = step - arrival_time[r]
        /\ r \in missed <=> Late(r)
    <3>1. step \in Nat /\ arrival_time[r] \in Nat /\ deadline[r] \in Nat
      BY SLAAssumption DEF IInv, TypeOK, WorkloadOK
    <3>2. CASE phase = "readmit"
      BY <2>1, <3>2 DEF IInv, Waited
    <3>3. CASE phase = "admit"
      <4>1. arrival_time[r] = step
        BY <2>1, <3>3 DEF IInv, Waited
      <4>2. wait_time[r] = 0 /\ r \notin missed
        BY <2>1, <3>3, <4>1 DEF IInv, Waited
      <4>3. ~Late(r)
        BY <3>1, <4>1 DEF Late, DeadlineStep
      <4> QED  BY <3>1, <4>1, <4>2, <4>3
    <3> QED  BY <2>1, <3>2, <3>3
  <2> QED
    BY <1>1, <2>1, <2>4, <2>5 DEF MissedIffLate, workload, Late, DeadlineStep
<1>4. ASSUME BeginGenerate \/ EndStep  PROVE MissedIffLate'
  <2>1. UNCHANGED <<workload, started_at>> /\ CheckDeadlines
    BY <1>4 DEF BeginGenerate, EndStep
  <2>2. ASSUME NEW r \in Requests, started_at[r] # None
        PROVE  /\ wait_time'[r] = wait_time[r]
               /\ r \in missed' <=> r \in missed
    <3>1. r \notin waiting
      BY <2>2 DEF IInv, Lifecycle
    <3> QED  BY <2>1, <3>1, Checked
  <2> QED  BY <1>1, <2>1, <2>2 DEF MissedIffLate, workload, DeadlineStep
<1>5. ASSUME NEW r \in Requests, NEW p, NEW t, Generate(r, p, t)
      PROVE  MissedIffLate'
  <2>1. UNCHANGED <<workload, started_at, wait_time, missed>>
    BY <1>5, GenerateEffect
  <2> QED  BY <1>2, <2>1
<1>6. ASSUME \E r \in Requests : Enqueue(r) \/ Stall(r)  PROVE MissedIffLate'
  BY <1>2, <1>6 DEF Enqueue, Stall, Serve
<1>7. ASSUME GiveUp \/ BeginAdmit \/ EndAdmit \/ FinishDone \/ Return
      PROVE  MissedIffLate'
  BY <1>2, <1>7 DEF GiveUp, BeginAdmit, EndAdmit, FinishDone, Return
<1>8. ASSUME UNCHANGED vars  PROVE MissedIffLate'
  BY <1>2, <1>8 DEF vars
<1> QED  BY <1>3, <1>4, <1>5, <1>6, <1>7, <1>8, StepCases

-----------------------------------------------------------------------------
(* Of two requests in the heap at most one outranks the other. *)
LEMMA RankAsymmetric ==
  ASSUME IInv, NEW q \in waiting, NEW r \in waiting, Outranks(q, r)
  PROVE  ~Outranks(r, q)
<1>1. /\ q \in Requests /\ r \in Requests
      /\ arrived_as \in [Requests -> Nat \cup {None}]
  BY DEF IInv, TypeOK
<1>2. status[q] = "waiting" /\ status[r] = "waiting"
  BY <1>1 DEF IInv, Lifecycle
<1>3. arrived_as[q] # None /\ arrived_as[r] # None
  BY <1>1, <1>2 DEF IInv, Lifecycle
<1>4. arrived_as[q] \in Nat /\ arrived_as[r] \in Nat
  BY <1>1, <1>3
<1>5. /\ priority[q] \in Nat /\ priority[r] \in Nat
      /\ DeadlineStep(q) \in Nat /\ DeadlineStep(r) \in Nat
  BY <1>1 DEF IInv, WorkloadOK, DeadlineStep
<1> QED  BY <1>4, <1>5 DEF Outranks

(* No start overtakes a request of a higher rank. *)
LEMMA InversionStep ==
  ASSUME IInv, [Next]_vars
  PROVE  NoPriorityInversion'
<1>1. NoPriorityInversion
  BY DEF IInv
<1>2. ASSUME UNCHANGED <<workload, started_at, arrived_as>>
      PROVE  NoPriorityInversion'
  BY <1>1, <1>2 DEF NoPriorityInversion, workload, Outranks, DeadlineStep
<1>3. ASSUME NEW r \in Requests, Admit(r)  PROVE NoPriorityInversion'
  <2>1. /\ UNCHANGED <<workload, arrived_as>>
        /\ FirstInHeap(r) /\ r \in waiting
        /\ started_at' = [started_at EXCEPT
                            ![r] = IF @ \in {None, 0} THEN step ELSE @]
    BY <1>3 DEF Admit, FirstInHeap
  <2>2. status[r] = "waiting"
    BY <2>1 DEF IInv, Lifecycle
  <2>3. started_at[r] = None
    BY <2>2 DEF IInv, Lifecycle
  <2>4. /\ started_at'[r] = step
        /\ \A q \in Requests \ {r} : started_at'[q] = started_at[q]
    BY <2>1, <2>3 DEF IInv, TypeOK
  <2>5. ASSUME NEW q \in Requests, NEW s \in Requests, started_at'[s] # None,
               arrival_time[q] <= started_at'[s], arrived_as[q] # None,
               Outranks(q, s)
        PROVE  started_at'[q] # None /\ started_at'[q] <= started_at'[s]
    <3>1. CASE q # r /\ s # r
      BY <1>1, <2>4, <2>5, <3>1 DEF NoPriorityInversion
    <3>2. CASE q = r /\ s # r
      BY <1>1, <2>3, <2>4, <2>5, <3>2 DEF NoPriorityInversion
    <3>3. CASE q # r /\ s = r
      <4>1. q \notin waiting
        BY <2>1, <2>5, <3>3, RankAsymmetric DEF FirstInHeap
      <4>2. status[q] \notin {"new", "waiting"}
        BY <2>5, <4>1 DEF IInv, Lifecycle
      <4>3. started_at[q] # None /\ started_at[q] <= step
        BY <4>2 DEF IInv, Lifecycle
      <4> QED  BY <2>4, <3>3, <4>3
    <3>4. CASE q = r /\ s = r
      <4>1. step \in Nat /\ step # None
        BY SLAAssumption DEF IInv, TypeOK
      <4> QED  BY <2>4, <3>4, <4>1
    <3> QED  BY <3>1, <3>2, <3>3, <3>4
  <2>6. /\ \A q, s \in Requests : Outranks(q, s)' <=> Outranks(q, s)
        /\ arrival_time' = arrival_time
    BY <2>1 DEF workload, Outranks, DeadlineStep
  <2> QED  BY <2>1, <2>5, <2>6 DEF NoPriorityInversion
<1>4. ASSUME NEW r \in Requests, Enqueue(r)  PROVE NoPriorityInversion'
  <2>1. /\ UNCHANGED <<workload, started_at>> /\ phase = "arrive"
        /\ status[r] = "new" /\ arrival_time[r] = step
        /\ \A q \in Requests \ {r} : arrived_as'[q] = arrived_as[q]
    BY <1>4 DEF Enqueue, Least, Arriving, IInv, TypeOK
  <2>2. started_at[r] = None
    BY <2>1 DEF IInv, Lifecycle
  <2>3. ASSUME NEW s \in Requests, started_at[s] # None
        PROVE  ~(arrival_time[r] <= started_at[s])
    <3>1. started_at[s] < step /\ started_at[s] \in Nat /\ step \in Nat
      BY <2>1, <2>3, SLAAssumption DEF IInv, Lifecycle, TypeOK
    <3> QED  BY <2>1, <3>1
  <2>4. \A q, s \in Requests \ {r} : Outranks(q, s)' <=> Outranks(q, s)
    BY <2>1 DEF workload, Outranks, DeadlineStep
  <2>5. arrival_time' = arrival_time
    BY <2>1 DEF workload
  <2> QED  BY <1>1, <2>1, <2>2, <2>3, <2>4, <2>5 DEF NoPriorityInversion
<1>5. ASSUME NEW r \in Requests, NEW p, NEW t, Generate(r, p, t)
      PROVE  NoPriorityInversion'
  <2>1. UNCHANGED <<workload, started_at, arrived_as>>
    BY <1>5, GenerateEffect DEF queue
  <2> QED  BY <1>2, <2>1
<1>6. ASSUME NEW r \in Requests, Stall(r)  PROVE NoPriorityInversion'
  BY <1>2, <1>6 DEF Stall, Serve, queue
<1>7. ASSUME \/ GiveUp \/ BeginAdmit \/ EndAdmit \/ BeginGenerate
             \/ FinishDone \/ EndStep \/ Return
      PROVE  NoPriorityInversion'
  BY <1>2, <1>7
  DEF GiveUp, BeginAdmit, EndAdmit, BeginGenerate, FinishDone, EndStep,
      Return, queue
<1>8. ASSUME UNCHANGED vars  PROVE NoPriorityInversion'
  BY <1>2, <1>8 DEF vars, queue
<1> QED  BY <1>3, <1>4, <1>5, <1>6, <1>7, <1>8, StepCases

-----------------------------------------------------------------------------
LEMMA InitIInv == Init => IInv
<1> SUFFICES ASSUME Init  PROVE IInv
  OBVIOUS
<1>1. TypeOK
  BY NewPoolType, EmptyTable, SLAAssumption DEF Init, TypeOK, Phases, Statuses
<1>2. WorkloadOK
  <2> SUFFICES ASSUME NEW r \in Requests
               PROVE  /\ arrival_time[r] \in Nat
                      /\ actual_length[r] \in Nat \ {0}
                      /\ token_budget[r] \in (Nat \ {0}) \cup {None}
                      /\ priority[r] \in Nat
                      /\ deadline[r] \in Nat
    BY DEF WorkloadOK
  <2>1. /\ arrival_time[r] \in 0 .. MaxArrival
        /\ actual_length[r] \in Lengths
        /\ token_budget[r] \in Budgets
        /\ priority[r] \in Priorities /\ deadline[r] \in Deadlines
    BY DEF Init
  <2>2. arrival_time[r] \in Nat
    BY <2>1
  <2>3. actual_length[r] \in Nat \ {0}
    BY <2>1, SLAAssumption
  <2>4. token_budget[r] \in (Nat \ {0}) \cup {None}
    BY <2>1, SLAAssumption
  <2>5. priority[r] \in Nat /\ deadline[r] \in Nat
    BY <2>1, SLAAssumption
  <2> QED  BY <2>2, <2>3, <2>4, <2>5
<1>3. Memory
  <2>1. Held = [r \in Requests |-> 0]
    BY DEF Init, Held
  <2> QED  BY <2>1, MemoryNew DEF Init, Memory
<1>4. Lifecycle
  <2>1. \A r \in Requests : arrival_time[r] \in Nat
    BY <1>2 DEF WorkloadOK
  <2> QED  BY <2>1 DEF Init, Lifecycle, Unseen
<1>5. Loop /\ Waited /\ MissedIffLate /\ NoPriorityInversion
  BY DEF Init, Loop, Waited, MissedIffLate, NoPriorityInversion
<1>6. Budget
  BY DEF Init, Budget
<1> QED  BY <1>1, <1>2, <1>3, <1>4, <1>5, <1>6 DEF IInv

LEMMA NextIInv == IInv /\ [Next]_vars => IInv'
<1> SUFFICES ASSUME IInv, [Next]_vars  PROVE IInv'
  OBVIOUS
<1>1. Memory' /\ Loop' /\ Budget'
  BY MemoryStep, LoopStep, BudgetStep
<1>2. Waited' /\ MissedIffLate' /\ NoPriorityInversion'
  BY WaitedStep, MissedStep, InversionStep
<1>3. TypeOK'
  BY <1>1, TypeStep
<1>4. Lifecycle'
  BY <1>3, LifecycleStep
<1>5. WorkloadOK'
  <2>1. UNCHANGED workload
    <3>1. ASSUME NEW r \in Requests, NEW p, NEW t, Generate(r, p, t)
          PROVE  UNCHANGED workload
      BY <3>1, GenerateEffect
    <3> QED
      BY <3>1, StepCases
      DEF vars, GiveUp, Enqueue, BeginAdmit, Admit, EndAdmit, BeginGenerate,
          Stall, Serve, FinishDone, EndStep, Return
  <2> QED  BY <2>1 DEF IInv, WorkloadOK, workload
<1> QED  BY <1>1, <1>2, <1>3, <1>4, <1>5 DEF IInv

LEMMA Invariance == Spec => []IInv
BY InitIInv, NextIInv, PTL DEF Spec

(* Every request is in the heap, active or ended, only active ones hold     *)
(* blocks, no block is shared or lost, and when run() returns every request *)
(* was completed or stopped by its budget and the pool is whole             *)
(* (scheduler.py SLAScheduler.run).                                         *)
THEOREM RequestsInPlace == Spec => []OnePlace
<1>1. IInv => OnePlace
  <2> SUFFICES ASSUME IInv  PROVE OnePlace
    OBVIOUS
  <2>1. TypeOK /\ Memory /\ Lifecycle
    BY DEF IInv
  <2>2. ASSUME phase = "done"
        PROVE  /\ pool = NewPool
               /\ \A r \in Requests : status[r] \in {"completed", "terminated"}
    <3>1. ASSUME NEW r \in Requests
          PROVE  r \notin active /\ r \notin waiting /\ arrival_time[r] < step
      BY <2>1, <2>2 DEF Lifecycle
    <3>2. MemoryOK(pool, table, Held) /\ \A r \in Requests : table[r] = <<>>
      BY <2>1, <3>1 DEF Memory
    <3>3. pool = NewPool
      BY <3>2, MemoryWhole
    <3>4. ASSUME NEW r \in Requests
          PROVE  status[r] \in {"completed", "terminated"}
      <4>1. status[r] # "active" /\ status[r] # "waiting"
        BY <2>1, <3>1 DEF Lifecycle
      <4>2. step \in Nat /\ arrival_time[r] \in Nat
        BY SLAAssumption DEF IInv, TypeOK, WorkloadOK
      <4>3. status[r] # "new"
        BY <2>1, <2>2, <3>1, <4>2 DEF Lifecycle, Unseen
      <4> QED  BY <2>1, <4>1, <4>3 DEF TypeOK, Statuses
    <3> QED  BY <3>3, <3>4
  <2>3. BlocksAccounted(pool, table)
    BY <2>1 DEF Memory, MemoryOK
  <2> QED  BY <2>1, <2>2, <2>3 DEF OnePlace, Memory, Lifecycle
<1> QED  BY <1>1, Invariance, PTL

(* What Budget says of ended requests holds of all of them. *)
LEMMA BudgetKept == IInv => BudgetExact
<1> SUFFICES ASSUME IInv, NEW r \in Requests
             PROVE  /\ tokens[r] <= actual_length[r]
                    /\ token_budget[r] # None => tokens[r] <= token_budget[r]
                    /\ status[r] = "completed" => tokens[r] = actual_length[r]
                    /\ status[r] = "terminated" =>
                         token_budget[r] # None /\ tokens[r] = token_budget[r]
                           /\ tokens[r] < actual_length[r]
  BY DEF BudgetExact
<1>1. /\ tokens[r] \in Nat /\ actual_length[r] \in Nat
      /\ token_budget[r] \in Nat \cup {None}
      /\ status[r] \in Statuses
  BY DEF IInv, TypeOK, WorkloadOK
<1>2. CASE status[r] \in {"new", "waiting"}
  <2>1. tokens[r] = 0
    BY <1>2 DEF IInv, Lifecycle
  <2> QED  BY <1>1, <1>2, <2>1
<1>3. CASE status[r] = "active"
  <2>1. r \in active
    BY <1>3 DEF IInv, Lifecycle
  <2>2. \/ Unended(r)
        \/ \E reason \in {"completed", "budget"} :
             EndedWith(r, tokens[r], reason)
    <3>1. (\E d \in done : d[1] = r) =>
            <<r, "completed">> \in done \/ <<r, "budget">> \in done
      BY Reason
    <3> QED  BY <2>1, <3>1 DEF IInv, Budget
  <2> QED
    BY <1>1, <1>3, <2>2, SLAAssumption
    DEF Unended, BudgetReached, EndedWith, WithinBudget
<1>4. CASE status[r] = "completed"
  <2>1. EndedWith(r, tokens[r], "completed")
    BY <1>4 DEF IInv, Budget
  <2> QED  BY <1>1, <1>4, <2>1 DEF EndedWith, WithinBudget
<1>5. CASE status[r] = "terminated"
  <2>1. EndedWith(r, tokens[r], "budget")
    BY <1>5 DEF IInv, Budget
  <2> QED  BY <1>1, <1>5, <2>1 DEF EndedWith
<1> QED  BY <1>1, <1>2, <1>3, <1>4, <1>5 DEF Statuses

(* "Stop exactly at the token budget": no request generates more tokens     *)
(* than its length or its budget, and a request that was stopped or         *)
(* completed has exactly as many.                                           *)
THEOREM StopsAtBudget == Spec => []BudgetExact
BY BudgetKept, Invariance, PTL

(* _check_deadlines, which samples the heap twice in a step, records as     *)
(* missed exactly the requests that start after their deadline, and as the  *)
(* waiting time of each the time from its arrival to its start.             *)
THEOREM DeadlinesRecorded == Spec => []MissedIffLate
<1>1. IInv => MissedIffLate
  BY DEF IInv
<1> QED  BY <1>1, Invariance, PTL

(* The heap is never bypassed: a request that had arrived when a request of *)
(* a lower rank started was started by then.                                *)
THEOREM PriorityRespected == Spec => []NoPriorityInversion
<1>1. IInv => NoPriorityInversion
  BY DEF IInv
<1> QED  BY <1>1, Invariance, PTL

-----------------------------------------------------------------------------
(* How many tokens have been generated, and the steps this accounts for: at *)
(* most one after the last arrival for each of them.                        *)
Generated == SumFunctionOnSet(tokens, Requests)
Accounted == MaxArrival + 1 + Generated

(* The active requests wait for each other. *)
Deadlock ==
  /\ active # {}
  /\ pool.free = {}
  /\ \A r \in active : NeedsBlock(table[r], tokens[r])
  /\ phase = "generate" => done = {}

(* Whoever was served in this step found no block. *)
AllStalled ==
  /\ done = {}
  /\ \A r \in active \ todo : pool.free = {} /\ NeedsBlock(table[r], tokens[r])

(* Every step but those before the last arrival generates a token. *)
Advancing ==
  /\ step <= Accounted
  /\ phase \in {"readmit", "recheck"} => step < Accounted
  /\ phase = "generate" => step < Accounted \/ AllStalled
  /\ phase = "admit" => step <= MaxArrival \/ waiting # {} \/ active # {}
  /\ phase \in {"check", "generate"} => step <= MaxArrival \/ active # {}

SInv ==
  /\ \A r \in Requests : arrival_time[r] <= MaxArrival
  /\ Deadlock \/ Advancing
  /\ phase = "failed" => Deadlock \/ ~EnoughSteps


(* The tokens of all requests are counted, and a new one counts as one. *)
LEMMA GeneratedType ==
  ASSUME IInv
  PROVE  Generated \in Nat /\ step \in Nat /\ step <= MaxSteps /\ Accounted \in Nat
<1>1. \A r \in Requests : tokens[r] \in Nat
  BY DEF IInv, TypeOK
<1>2. {} \in SUBSET Units(tokens, Requests)
  OBVIOUS
<1>3. Generated \in Nat
  BY <1>1, <1>2, BlockPoolAssumption, UnitsBelowSum DEF Generated
<1>4. step \in 0 .. MaxSteps
  BY DEF IInv, TypeOK
<1> QED  BY <1>3, <1>4, SLAAssumption DEF Accounted

LEMMA GeneratedNext ==
  ASSUME IInv, NEW r \in Requests, NEW p, NEW t, Generate(r, p, t)
  PROVE  Accounted' = Accounted + 1
<1>1. tokens \in [Requests -> Nat] /\ tokens' = [tokens EXCEPT ![r] = tokens[r] + 1]
  BY GenerateEffect DEF IInv, TypeOK
<1>2. Generated' = Generated + 1
  BY <1>1, BlockPoolAssumption, SumIncrement DEF Generated
<1> QED  BY <1>2, GeneratedType, SLAAssumption DEF Accounted

(* A request generates all that it wants before it ends. *)
LEMMA WantedBound ==
  ASSUME IInv, NEW r \in Requests
  PROVE  /\ Wanted(r) \in Nat \ {0} /\ tokens[r] \in 0 .. Wanted(r)
         /\ Unended(r) => tokens[r] # Wanted(r)
<1>1. /\ actual_length[r] \in Nat \ {0}
      /\ token_budget[r] \in (Nat \ {0}) \cup {None}
      /\ tokens[r] \in Nat
  BY DEF IInv, TypeOK, WorkloadOK
<1>2. /\ tokens[r] <= actual_length[r]
      /\ token_budget[r] # None => tokens[r] <= token_budget[r]
  BY BudgetKept DEF BudgetExact
<1>3. Unended(r) =>
        /\ tokens[r] < actual_length[r]
        /\ token_budget[r] # None => ~ tokens[r] >= token_budget[r]
  BY DEF Unended, BudgetReached
<1> QED  BY <1>1, <1>2, <1>3 DEF Wanted

(* Nobody who has a token left to generate is there when there have been as *)
(* many steps as all the tokens account for.                                *)
LEMMA NobodyLeft ==
  ASSUME IInv, SInv, phase = "arrive", Running, step >= MaxSteps, step <= Accounted
  PROVE  ~EnoughSteps
<1> DEFINE wanted == [r \in Requests |-> Wanted(r)]
<1> SUFFICES ASSUME EnoughSteps  PROVE FALSE
  OBVIOUS
<1>1. \A r \in Requests : /\ wanted[r] \in Nat \ {0} /\ tokens[r] \in 0 .. wanted[r]
                          /\ Unended(r) => tokens[r] # wanted[r]
  BY WantedBound
<1>2. MaxArrival + 1 + SumFunctionOnSet(wanted, Requests) <= MaxSteps
  BY DEF EnoughSteps, SumFunction
<1> HIDE DEF wanted
<1>3. \A r \in Requests : wanted[r] \in Nat /\ tokens[r] \in Nat
  BY <1>1
<1>4. /\ IsFiniteSet(Units(wanted, Requests)) /\ Cardinality(Units(wanted, Requests)) \in Nat
      /\ SumFunctionOnSet(wanted, Requests) = Cardinality(Units(wanted, Requests))
      /\ Generated = Cardinality(Units(tokens, Requests))
  BY <1>3, BlockPoolAssumption, UnitsFinite, SumIsCount DEF Generated
<1>5. Units(tokens, Requests) \subseteq Units(wanted, Requests)
  BY <1>1 DEF Units
<1>6. Cardinality(Units(wanted, Requests)) <= Generated /\ step > MaxArrival
  <2> DEFINE w == Cardinality(Units(wanted, Requests))
  <2>1. /\ w \in Nat /\ MaxArrival + 1 + w <= MaxSteps
        /\ step <= MaxArrival + 1 + Generated
    BY <1>2, <1>4 DEF Accounted
  <2>2. /\ step \in Nat /\ Generated \in Nat /\ MaxSteps \in Nat /\ MaxArrival \in Nat
        /\ step >= MaxSteps
    BY GeneratedType, SLAAssumption
  <2> HIDE DEF w
  <2>3. w <= Generated /\ step > MaxArrival
    BY <2>1, <2>2
  <2> QED  BY <2>3 DEF w
<1>7. Cardinality(Units(tokens, Requests)) = Cardinality(Units(wanted, Requests))
  BY <1>4, <1>5, <1>6, FS_Subset, GeneratedType
<1>8. Units(tokens, Requests) = Units(wanted, Requests)
  BY <1>4, <1>5, <1>7, FS_Subset
<1>9. ASSUME NEW r \in Requests
      PROVE  tokens[r] = wanted[r]
  <2>1. <<r, wanted[r]>> \in Units(wanted, Requests)
    BY <1>1 DEF Units
  <2>2. <<r, wanted[r]>> \in Units(tokens, Requests)
    BY <1>8, <2>1
  <2>3. wanted[r] \in 1 .. tokens[r]
    BY <2>2 DEF Units
  <2> QED  BY <1>1, <2>3
<1>10. active = {}
  <2>1. \A r \in active : r \in Requests /\ Unended(r)
    BY DEF IInv, TypeOK, Budget
  <2> QED  BY <1>1, <1>9, <2>1
<1>11. waiting = {}
  <2>1. \A r \in waiting : r \in Requests /\ tokens[r] = 0
    BY DEF IInv, TypeOK, Lifecycle
  <2> QED  BY <1>1, <1>9, <2>1
<1>12. ~ArrivalsRemain
  BY <1>6, GeneratedType, SLAAssumption DEF SInv, ArrivalsRemain, IInv, WorkloadOK
<1> QED  BY <1>10, <1>11, <1>12 DEF Running

-----------------------------------------------------------------------------
(* A request that starts waits for its first block. *)
LEMMA FirstBlock ==
  ASSUME IInv, NEW r \in waiting
  PROVE  r \in Requests /\ NeedsBlock(table[r], tokens[r])
<1>1. r \in Requests /\ r \notin active /\ tokens[r] = 0
  BY DEF IInv, TypeOK, Lifecycle
<1>2. table[r] = <<>>
  BY <1>1 DEF IInv, Memory
<1>3. BlockOf(0) = 0
  <2>1. BlocksFor(0) = 0 /\ BlockOf(0) \in Nat /\ BlocksFor(0) \in {BlockOf(0), BlockOf(0) + 1}
    BY BlocksForNext
  <2> QED  BY <2>1
<1> QED  BY <1>1, <1>2, <1>3 DEF NeedsBlock

(* Without a free block, only a request that needs none generates. *)
LEMMA NoneGenerates ==
  ASSUME NEW r \in Requests, pool.free = {}, NeedsBlock(table[r], tokens[r])
  PROVE  ~GenerateInBlock(r) /\ \A b \in Blocks : ~GenerateInNewBlock(r, b)
BY DEF GenerateInBlock, GenerateInNewBlock, Least

(* Nothing ends a deadlock. *)
LEMMA DeadlockStays ==
  ASSUME IInv, Deadlock, [Next]_vars
  PROVE  Deadlock'
<1>1. ASSUME NEW r \in Requests, Serve(r)
      PROVE  r \in active
  BY <1>1, Served
<1>2. ASSUME NEW r \in Requests, Admit(r)
      PROVE  Deadlock'
  <2>1. /\ r \in waiting /\ active' = active \cup {r}
        /\ UNCHANGED <<phase, done, memory>> /\ phase \in {"admit", "readmit"}
    BY <1>2 DEF Admit, FirstInHeap, MayAdmit
  <2>2. \A q \in active' : NeedsBlock(table[q], tokens[q])
    BY <2>1, FirstBlock DEF Deadlock
  <2> QED  BY <2>1, <2>2 DEF Deadlock, memory
<1>3. ASSUME FinishDone
      PROVE  Deadlock'
  <2>1. done = {} /\ EndedBlocks = {} /\ {d[1] : d \in done} = {}
    BY <1>3 DEF FinishDone, Deadlock, EndedBlocks
  <2>2. /\ active' = active /\ tokens' = tokens /\ phase' = "readmit"
        /\ \A r \in Requests : table'[r] = table[r]
        /\ pool'.free = {}
    BY <1>3, <2>1 DEF FinishDone, Deadlock, Free
  <2> QED  BY <2>2 DEF Deadlock, IInv, TypeOK
<1>4. ASSUME NEW r \in Requests, Stall(r)
      PROVE  Deadlock'
  BY <1>4 DEF Stall, Serve, Deadlock, memory
<1>5. ASSUME NEW r \in Requests, GenerateInBlock(r) \/ \E b \in Blocks : GenerateInNewBlock(r, b)
      PROVE  FALSE
  <2>1. r \in active
    BY <1>1, <1>5 DEF GenerateInBlock, GenerateInNewBlock
  <2> QED  BY <1>5, <2>1, NoneGenerates DEF Deadlock
<1>6. CASE \/ GiveUp \/ BeginAdmit \/ EndAdmit \/ BeginGenerate \/ EndStep
           \/ Return \/ UNCHANGED vars \/ \E r \in Requests : Enqueue(r)
  BY <1>6
  DEF GiveUp, BeginAdmit, EndAdmit, BeginGenerate, EndStep, Return, vars, Enqueue,
      Deadlock, memory
<1> QED  BY <1>2, <1>3, <1>4, <1>5, <1>6 DEF Next, Terminated

(* A step of the simulation that generates nothing is before the last       *)
(* arrival, or it is the beginning of a deadlock.                           *)
LEMMA AdvancingStep ==
  ASSUME IInv, SInv, Advancing, [Next]_vars
  PROVE  Deadlock' \/ Advancing'
<1>1. Accounted \in Nat /\ step \in Nat /\ step <= Accounted /\ MaxArrival < Accounted
  BY GeneratedType, SLAAssumption DEF Advancing, Accounted
<1>2. tokens' = tokens => Accounted' = Accounted
  BY DEF Accounted, Generated
<1>3. CASE GiveUp \/ Return \/ \E r \in Requests : Enqueue(r)
  <2>1. step' = step /\ tokens' = tokens /\ phase' \in {"failed", "done", "arrive"}
    BY <1>3 DEF GiveUp, Return, Enqueue, memory
  <2> QED  BY <1>1, <1>2, <2>1 DEF Advancing
<1>4. CASE BeginAdmit
  <2>1. /\ UNCHANGED <<step, tokens, active, waiting>> /\ phase' = "admit"
        /\ ArrivalsRemain \/ waiting # {} \/ active # {}
    BY <1>4 DEF BeginAdmit, Running, memory, queue
  <2>2. ArrivalsRemain => step <= MaxArrival
    BY <1>1, SLAAssumption DEF SInv, ArrivalsRemain, IInv, WorkloadOK
  <2> QED  BY <1>1, <1>2, <2>1, <2>2 DEF Advancing
<1>5. ASSUME NEW r \in Requests, Admit(r)
      PROVE  Advancing'
  <2>1. /\ UNCHANGED <<step, tokens, phase>> /\ active' # {}
        /\ phase \in {"admit", "readmit"}
    BY <1>5 DEF Admit, MayAdmit, memory
  <2> QED  BY <1>1, <1>2, <2>1 DEF Advancing
<1>6. CASE EndAdmit
  <2>1. /\ UNCHANGED <<step, tokens, active, waiting>> /\ phase \in {"admit", "readmit"}
        /\ phase' = IF phase = "admit" THEN "check" ELSE "recheck"
        /\ waiting = {} \/ ~(Cardinality(active) < ActiveLimit)
    BY <1>6 DEF EndAdmit, MayAdmit, memory, queue
  <2>2. active = {} => waiting = {}
    BY <2>1, FS_EmptySet, SLAAssumption
  <2> QED  BY <1>1, <1>2, <2>1, <2>2 DEF Advancing
<1>7. CASE BeginGenerate
  <2>1. /\ UNCHANGED <<step, tokens, active>> /\ phase = "check" /\ phase' = "generate"
        /\ todo' = active' /\ done' = {}
    BY <1>7 DEF BeginGenerate, memory
  <2>2. AllStalled'
    BY <2>1 DEF AllStalled
  <2> QED  BY <1>1, <1>2, <2>1, <2>2 DEF Advancing
<1>8. ASSUME NEW r \in Requests, NEW p, NEW t, Generate(r, p, t)
      PROVE  Advancing'
  <2>1. Accounted' = Accounted + 1 /\ UNCHANGED <<step, phase, active>> /\ phase = "generate"
    BY <1>8, GeneratedNext, GenerateEffect
  <2> QED  BY <1>1, <2>1 DEF Advancing
<1>9. ASSUME NEW r \in Requests, Stall(r)
      PROVE  Advancing'
  <2>1. /\ UNCHANGED <<step, phase, active, tokens, table, pool, done>>
        /\ phase = "generate" /\ todo' = todo \ {r}
        /\ pool.free = {} /\ NeedsBlock(table[r], tokens[r])
    BY <1>9 DEF Stall, Serve, memory
  <2>2. AllStalled => AllStalled'
    BY <2>1 DEF AllStalled
  <2> QED  BY <1>1, <1>2, <2>1, <2>2 DEF Advancing
<1>10. CASE FinishDone
  <2>1. /\ phase = "generate" /\ phase' = "readmit" /\ todo = {}
        /\ UNCHANGED <<step, tokens>>
    BY <1>10 DEF FinishDone
  <2>2. CASE step < Accounted
    BY <1>1, <1>2, <2>1, <2>2 DEF Advancing
  <2>3. CASE ~(step < Accounted)
    <3>1. AllStalled /\ active # {}
      BY <1>1, <2>1, <2>3, SLAAssumption DEF Advancing
    <3>2. Deadlock
      BY <2>1, <3>1 DEF AllStalled, Deadlock
    <3> QED  BY <3>2, DeadlockStays
  <2> QED  BY <2>2, <2>3
<1>11. CASE EndStep
  <2>1. /\ phase = "recheck" /\ phase' = "arrive" /\ step' = step + 1 /\ tokens' = tokens
    BY <1>11 DEF EndStep, memory
  <2> QED  BY <1>1, <1>2, <2>1 DEF Advancing
<1>12. CASE UNCHANGED vars
  BY <1>12 DEF vars, memory, queue, Advancing, Accounted, Generated, AllStalled
<1> QED
  BY <1>3, <1>4, <1>5, <1>6, <1>7, <1>8, <1>9, <1>10, <1>11, <1>12, StepCases

LEMMA SInvStep ==
  ASSUME IInv, SInv, [Next]_vars
  PROVE  SInv'
<1>1. UNCHANGED workload
  <2>1. ASSUME NEW r \in Requests, NEW p, NEW t, Generate(r, p, t)
        PROVE  UNCHANGED workload
    BY <2>1, GenerateEffect
  <2> QED
    BY <2>1, StepCases
    DEF vars, GiveUp, Enqueue, BeginAdmit, Admit, EndAdmit, BeginGenerate,
        Stall, Serve, FinishDone, EndStep, Return
<1>2. Deadlock' \/ Advancing'
  BY DeadlockStays, AdvancingStep DEF SInv
<1>3. EnoughSteps' = EnoughSteps
  BY <1>1 DEF EnoughSteps, Wanted, workload
<1>4. ASSUME phase' = "failed"
      PROVE  Deadlock' \/ ~EnoughSteps
  <2>1. CASE GiveUp
    <3>1. phase = "arrive" /\ Running /\ step >= MaxSteps
      BY <2>1 DEF GiveUp
    <3>2. Advancing => ~EnoughSteps
      BY <3>1, NobodyLeft DEF Advancing
    <3> QED  BY <3>2, DeadlockStays DEF SInv
  <2>2. CASE ~GiveUp
    <3>1. phase = "failed"
      <4>1. ASSUME NEW r \in Requests, NEW p, NEW t, Generate(r, p, t)
            PROVE  FALSE
        BY <1>4, <4>1, GenerateEffect
      <4> QED
        BY <1>4, <2>2, <4>1, StepCases
        DEF BeginAdmit, EndAdmit, BeginGenerate, FinishDone, EndStep, Return, vars,
            Enqueue, Admit, MayAdmit, Stall, Serve
    <3> QED  BY <3>1, DeadlockStays DEF SInv
  <2> QED  BY <2>1, <2>2
<1> QED  BY <1>1, <1>2, <1>3, <1>4 DEF SInv, workload

(* "Did not converge" is said of a deadlock, of active requests that hold   *)
(* the pool between them and each wait for one block more, and of nothing   *)
(* else, once max_steps leaves a step for every token after the last        *)
(* arrival (scheduler.py SLAScheduler.run).                                 *)
THEOREM StallsOnlyInDeadlock == Spec => []GivesUpOnlyInDeadlock
<1>1. Init => SInv
  <2> SUFFICES ASSUME Init  PROVE SInv
    OBVIOUS
  <2>1. IInv /\ step = 0 /\ phase = "arrive"
    BY InitIInv DEF Init
  <2>2. \A r \in Requests : arrival_time[r] <= MaxArrival
    BY SLAAssumption DEF Init
  <2>3. Advancing
    BY <2>1, GeneratedType DEF Advancing
  <2> QED  BY <2>1, <2>2, <2>3 DEF SInv
<1>2. IInv /\ SInv /\ [Next]_vars => SInv'
  BY SInvStep
<1>3. IInv /\ SInv => GivesUpOnlyInDeadlock
  <2> SUFFICES ASSUME IInv, SInv, phase = "failed", EnoughSteps
               PROVE  /\ active # {}
                      /\ \A r \in active : NeedsBlock(table[r], tokens[r])
                      /\ UNION {Range(table[r]) : r \in active} = Blocks
    BY DEF GivesUpOnlyInDeadlock
  <2>1. Deadlock
    BY DEF SInv
  <2>2. /\ pool \in Pool /\ BlocksAccounted(pool, table) /\ active \subseteq Requests
        /\ \A r \in Requests : table[r] \in Seq(Blocks) /\ (table[r] # <<>> => r \in active)
    BY DEF IInv, Memory, MemoryOK, TypeOK
  <2>3. ASSUME NEW b \in Blocks
        PROVE  \E r \in active : b \in Range(table[r])
    <3>1. pool.owner[b] \in Requests
      BY <2>1, <2>2 DEF Deadlock, BlocksAccounted, Pool
    <3>2. b \in Range(table[pool.owner[b]])
      BY <2>2, <3>1 DEF BlocksAccounted
    <3> QED  BY <2>2, <3>1, <3>2, EmptyTable
  <2>4. \A r \in active : Range(table[r]) \subseteq Blocks
    BY <2>2 DEF Range
  <2>5. UNION {Range(table[r]) : r \in active} = Blocks
    BY <2>3, <2>4
  <2> QED  BY <2>1, <2>5 DEF Deadlock
<1> QED  BY <1>1, <1>2, <1>3, Invariance, PTL DEF Spec

-----------------------------------------------------------------------------
(* The refinement mapping, as a function of what the scheduler records. *)
Mapped == [r \in Requests |-> TokensOf(r, Held[r])]

(* An active request reads its tokens, the others read nothing. *)
LEMMA ViewOfStore ==
  ASSUME IInv, NEW r \in Requests
  PROVE  Visible(pool, table[r], tokens[r]) = TokensOf(r, Held[r])
<1>1. MemoryOK(pool, table, Held) /\ (table[r] # <<>> => r \in active)
  BY DEF IInv, Memory
<1>2. CASE r \in active
  <2>1. Held[r] = tokens[r]
    BY <1>2 DEF Held
  <2> QED  BY <1>1, <2>1, MemoryReads
<1>3. CASE r \notin active
  <2>1. Held[r] = 0 /\ table[r] = <<>>
    BY <1>1, <1>3 DEF Held
  <2> QED  BY <2>1, TokensOfNext DEF Visible
<1> QED  BY <1>2, <1>3

(* Every step of the scheduler is one of the store, or invisible to it. *)
LEMMA MappedStep ==
  ASSUME IInv, [Next]_vars
  PROVE  \/ \E r \in Requests :
              Mapped' = [Mapped EXCEPT ![r] = Append(@, <<r, Len(@)>>)]
         \/ \E S \in SUBSET Requests :
              Mapped' = [r \in Requests |-> IF r \in S THEN <<>> ELSE Mapped[r]]
         \/ Mapped' = Mapped
<1>1. ASSUME UNCHANGED <<tokens, active>>  PROVE Mapped' = Mapped
  BY <1>1 DEF Mapped, Held
<1>2. ASSUME NEW r \in Requests, Admit(r)  PROVE Mapped' = Mapped
  <2>1. /\ UNCHANGED memory /\ active' = active \cup {r} /\ r \in waiting
    BY <1>2 DEF Admit, FirstInHeap
  <2>2. tokens[r] = 0
    BY <2>1 DEF IInv, Lifecycle
  <2>3. Held' = Held
    BY <2>1, <2>2 DEF memory, Held
  <2> QED  BY <2>3 DEF Mapped
<1>3. ASSUME NEW r \in Requests, NEW p, NEW t, Generate(r, p, t)
      PROVE  Mapped' = [Mapped EXCEPT ![r] = Append(@, <<r, Len(@)>>)]
  <2>1. /\ tokens' = [tokens EXCEPT ![r] = tokens[r] + 1]
        /\ active' = active /\ r \in active
    BY <1>3, GenerateEffect
  <2>2. tokens[r] \in Nat /\ tokens \in [Requests -> Nat]
    BY DEF IInv, TypeOK
  <2>3. /\ Mapped[r] = TokensOf(r, tokens[r])
        /\ Mapped'[r] = TokensOf(r, tokens[r] + 1)
    BY <2>1, <2>2 DEF Mapped, Held
  <2>4. Mapped'[r] = Append(Mapped[r], <<r, Len(Mapped[r])>>)
    BY <2>2, <2>3, TokensOfNext
  <2>5. \A q \in Requests \ {r} : Mapped'[q] = Mapped[q]
    BY <2>1, <2>2 DEF Mapped, Held
  <2> QED  BY <2>4, <2>5 DEF Mapped
<1>4. ASSUME FinishDone
      PROVE  \E S \in SUBSET Requests :
               Mapped' = [r \in Requests |-> IF r \in S THEN <<>> ELSE Mapped[r]]
  <2> DEFINE ended == {d[1] : d \in done}
  <2>1. /\ ended \in SUBSET Requests /\ active' = active \ ended
        /\ tokens' = tokens
    BY <1>4, FinishEffect DEF FinishDone
  <2> HIDE DEF ended
  <2>2. \A r \in Requests : Mapped'[r] = IF r \in ended THEN <<>> ELSE Mapped[r]
    BY <2>1, TokensOfNext DEF Mapped, Held
  <2>3. Mapped' = [r \in Requests |-> IF r \in ended THEN <<>> ELSE Mapped[r]]
    BY <2>2 DEF Mapped
  <2> QED  BY <2>1, <2>3
<1> QED
  BY <1>1, <1>2, <1>3, <1>4, StepCases
  DEF vars, GiveUp, Enqueue, BeginAdmit, EndAdmit, BeginGenerate, Stall,
      Serve, EndStep, Return, memory

(* Scheduling is invisible to the requests: the scheduler implements the    *)
(* token store, and a request that stalls keeps what it has.                *)
THEOREM SchedulingInvisible == Spec => ImplementsTokenStore
<1> DEFINE kv == [r \in Requests |-> Visible(pool, table[r], tokens[r])]
           saved == [r \in Requests |-> <<>>]
<1>1. Init => Store!Init
  <2> SUFFICES ASSUME Init  PROVE Store!Init
    OBVIOUS
  <2>1. kv = [r \in Requests |-> <<>>]
    BY DEF Init, Visible
  <2> QED  BY <2>1 DEF Store!Init
<1>2. IInv => kv = Mapped
  BY ViewOfStore DEF Mapped
<1>3. IInv' => (kv = Mapped)'
  BY <1>2, PTL
<1>4. ASSUME IInv, IInv', [Next]_vars
      PROVE  [Store!Next]_<<kv, saved>>
  <2>1. kv = Mapped
    BY <1>2, <1>4
  <2>2. kv' = Mapped'
    BY <1>3, <1>4
  <2>3. saved' = saved
    OBVIOUS
  <2> HIDE DEF kv, saved
  <2>4. ASSUME NEW r \in Requests,
               kv' = [kv EXCEPT ![r] = Append(@, <<r, Len(@)>>)]
        PROVE  Store!Next
    BY <2>3, <2>4 DEF Store!Next, Store!Extend, kv, saved
  <2>5. ASSUME NEW S \in SUBSET Requests,
               kv' = [r \in Requests |-> IF r \in S THEN <<>> ELSE kv[r]]
        PROVE  Store!Next
    BY <2>3, <2>5 DEF Store!Next, Store!Discard, kv, saved
  <2> QED  BY <1>4, <2>1, <2>2, <2>3, <2>4, <2>5, MappedStep
<1> QED  BY <1>1, <1>4, Invariance, PTL DEF Spec, ImplementsTokenStore, Store!Spec
=============================================================================
