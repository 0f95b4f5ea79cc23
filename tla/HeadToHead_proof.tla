-------------------------- MODULE HeadToHead_proof --------------------------
(***************************************************************************)
(* Proofs about NaiveAllocator, for every set of requests, every workload  *)
(* and every size of the memory: reservations, the first-fit scan, the     *)
(* generation schedule, and what a fragmentation sample can be; and about  *)
(* HeadToHead, for every block size too: what paging costs in comparison,  *)
(* and that both runs are finite.                                          *)
(***************************************************************************)
EXTENDS HeadToHead, Sequences, WellFoundedInduction, FiniteSetTheorems, TLAPS

(* A set of natural numbers that is not empty has a least one: the least   *)
(* number principle stands in for induction over the length of a run.      *)
LEMMA LeastNat ==
  ASSUME NEW T \in SUBSET Nat, T # {}
  PROVE  \E x \in T : \A y \in T : x <= y
<1> DEFINE R == OpToRel(<, Nat)
<1>1. IsWellFoundedOn(R, Nat)
  BY NatLessThanWellFounded
<1>2. PICK x \in T : \A y \in T : <<y, x>> \notin R
  <2> HIDE DEF R
  <2> QED  BY <1>1, WFMin
<1>3. \A y \in T : <<y, x>> \notin R => ~ y < x
  BY DEF OpToRel
<1>4. \A y \in T : ~ y < x
  <2> HIDE DEF R
  <2> QED  BY <1>2, <1>3
<1>5. \A y \in T : x \in Nat /\ y \in Nat
  OBVIOUS
<1>6. \A y \in T : x <= y
  <2> HIDE DEF R
  <2> QED  BY <1>4, <1>5
<1> QED  BY <1>6, Zenon

(* The requests that the arrivals loop has yet to reach. *)
Unseen(r) ==
  \/ arrival_time[r] > step
  \/ arrival_time[r] = step /\ (phase = "step" \/ r \in todo)

(* The status of a request tells where it is in its life. *)
Lifecycle ==
  /\ phase \in {"scan", "fit"} => request \in Requests /\ request \notin todo
  /\ \A r \in Requests :
       /\ r \in todo => arrival_time[r] = step
       /\ phase \in {"step", "done"} => r \notin todo
       /\ phase = "done" => r \notin active /\ arrival_time[r] < step
       /\ Unseen(r) => status[r] = "new" /\ tokens[r] = 0
       /\ status[r] = "new" => Unseen(r)
       /\ status[r] = "waiting" <=> phase \in {"scan", "fit"} /\ r = request
       /\ status[r] = "waiting" => arrival_time[r] = step /\ tokens[r] = 0
       /\ status[r] = "active" <=> r \in active

(* An active request has one token per step since its arrival. *)
Progress ==
  \A r \in Requests :
    /\ status[r] = "active" =>
         /\ tokens[r] < actual_length[r]
         /\ tokens[r] = step - arrival_time[r]
    /\ status[r] = "completed" =>
         /\ tokens[r] = actual_length[r]
         /\ finished_at[r] = arrival_time[r] + actual_length[r] - 1

(* No free run of n slots ends before slot i. *)
NoFitBefore(i, n) == \A s \in Slots : s + n <= i => ~Fits(s, n)

(* The scan counts the free run that ends at index, back to the taken slot  *)
(* before it, and has seen no run that is long enough.                      *)
ScanInv ==
  phase = "scan" =>
    /\ run_length < max_length[request]
    /\ run_length <= index
    /\ run_length > 0 => run_start = index - run_length
    /\ index - run_length .. index - 1 \subseteq FreeSlots
    /\ index > run_length => index - run_length - 1 \notin FreeSlots
    /\ NoFitBefore(index, max_length[request])

IInv ==
  /\ ReservationsExact
  /\ Lifecycle
  /\ Progress
  /\ ScanInv
  /\ FirstFitExact
  /\ SamplesAllOrNothing

-----------------------------------------------------------------------------
LEMMA SlotsFinite ==
  ASSUME NEW S \in SUBSET Slots
  PROVE  IsFiniteSet(S) /\ Cardinality(S) \in Nat
<1>1. IsFiniteSet(Slots)
  BY NaiveAssumption, FS_Interval DEF Slots
<1>2. IsFiniteSet(S)
  BY <1>1, FS_Subset
<1> QED  BY <1>2, FS_CardinalityType

(* What a rejection records is a pair of numbers of slots. *)
LEMMA SampleType ==
  ASSUME NEW n \in Nat
  PROVE  ExternalFragmentation(n) \in [unusable : Nat, free : Nat]
<1> DEFINE U == {s \in FreeSlots : Cardinality(Gap(s)) < n}
<1>1. FreeSlots \in SUBSET Slots /\ U \in SUBSET Slots
  BY DEF FreeSlots
<1> HIDE DEF U
<1>2. Cardinality(FreeSlots) \in Nat /\ Cardinality(U) \in Nat
  BY <1>1, SlotsFinite
<1> QED  BY <1>2 DEF ExternalFragmentation, U

LEMMA TypeStep ==
  ASSUME TypeOK, Lifecycle, ScanInv, [Next]_vars
  PROVE  TypeOK'
<1>1. ASSUME BeginStep  PROVE TypeOK'
  BY <1>1 DEF TypeOK, BeginStep, Workload, workload, scan, Phases
<1>2. ASSUME NEW r \in Requests, Try(r)  PROVE TypeOK'
  <2>1. index' \in 0 .. TotalTokens /\ run_start' \in Slots
    BY <1>2, NaiveAssumption DEF Try, Slots
  <2>2. run_length' \in 0 .. MaxLength
    BY <1>2, NaiveAssumption DEF Try
  <2>3. status' \in [Requests -> Statuses]
    BY <1>2 DEF Try, TypeOK, Statuses
  <2> QED  BY <1>2, <2>1, <2>2, <2>3
    DEF TypeOK, Try, Workload, workload, Phases
<1>3. ASSUME ScanFree  PROVE TypeOK'
  <2>1. request \in Requests /\ max_length[request] \in 1 .. MaxLength
    BY <1>3 DEF ScanFree, Lifecycle, TypeOK, Workload
  <2>2. index' \in 0 .. TotalTokens /\ run_start' \in Slots
    BY <1>3, NaiveAssumption DEF ScanFree, TypeOK, FreeSlots, Slots
  <2>3. run_length' \in 0 .. MaxLength
    BY <1>3, <2>1, NaiveAssumption DEF ScanFree, ScanInv, TypeOK
  <2>4. phase' \in Phases
    BY <1>3 DEF ScanFree, Phases
  <2> QED  BY <1>3, <2>2, <2>3, <2>4
    DEF TypeOK, ScanFree, Workload, workload
<1>4. ASSUME ScanTaken  PROVE TypeOK'
  <2>1. index' \in 0 .. TotalTokens
    BY <1>4, NaiveAssumption DEF ScanTaken, TypeOK, Slots
  <2>2. run_length' \in 0 .. MaxLength
    BY <1>4, NaiveAssumption DEF ScanTaken
  <2> QED  BY <1>4, <2>1, <2>2
    DEF TypeOK, ScanTaken, Workload, workload
<1>5. ASSUME Reserve  PROVE TypeOK'
  <2>1. request \in Requests
    BY <1>5 DEF Reserve, Lifecycle
  <2>2. memory' \in [Slots -> Requests \cup {None}]
    BY <1>5, <2>1 DEF Reserve, TypeOK
  <2> QED  BY <1>5, <2>1, <2>2
    DEF TypeOK, Reserve, Workload, workload, scan, Phases, Statuses
<1>6. ASSUME Reject  PROVE TypeOK'
  <2>1. request \in Requests /\ max_length[request] \in Nat
    BY <1>6, NaiveAssumption DEF Reject, Lifecycle, TypeOK, Workload
  <2>2. samples' \subseteq [unusable : Nat, free : Nat]
    BY <1>6, <2>1, SampleType DEF Reject, TypeOK
  <2> QED  BY <1>6, <2>2
    DEF TypeOK, Reject, Workload, workload, scan, Phases, Statuses
<1>7. ASSUME GenerateAndRelease  PROVE TypeOK'
  <2>1. memory' \in [Slots -> Requests \cup {None}]
    BY <1>7 DEF GenerateAndRelease, TypeOK
  <2>2. tokens' \in [Requests -> Nat]
    BY <1>7 DEF GenerateAndRelease, TypeOK
  <2>3. step' \in Nat
    BY <1>7 DEF GenerateAndRelease, TypeOK, NextStep
  <2> QED  BY <1>7, <2>1, <2>2, <2>3
    DEF TypeOK, GenerateAndRelease, Workload, workload, scan, Phases, Statuses
<1>8. ASSUME Return  PROVE TypeOK'
  BY <1>8 DEF TypeOK, Return, Workload, workload, scan, Phases
<1>9. ASSUME UNCHANGED vars  PROVE TypeOK'
  BY <1>9 DEF TypeOK, vars, Workload, workload, scan
<1> QED  BY <1>1, <1>2, <1>3, <1>4, <1>5, <1>6, <1>7, <1>8, <1>9
  DEF Next, Terminated

(* A reservation is made in free slots, for a request that has none; a      *)
(* release frees all the slots of the finished requests and no others.      *)
LEMMA ReservationsStep ==
  ASSUME IInv, TypeOK', [Next]_vars
  PROVE  ReservationsExact'
<1> USE NaiveAssumption
<1>1. ASSUME Reserve  PROVE ReservationsExact'
  <2>1. request \in Requests /\ request \notin active
    BY <1>1 DEF Reserve, IInv, Lifecycle
  <2>2. Region(run_start, max_length[request]) \subseteq FreeSlots
    BY <1>1 DEF Reserve, IInv, FirstFitExact, Fits
  <2>3. active' = active \cup {request} /\ max_length' = max_length
    BY <1>1 DEF Reserve, workload
  <2>4. /\ allocation_start'[request] = run_start
        /\ \A r \in Requests \ {request} :
             allocation_start'[r] = allocation_start[r]
    BY <1>1, <2>1 DEF Reserve, IInv, ReservationsExact, TypeOK
  <2>5. run_start \in Slots /\ run_start # None
    BY DEF IInv, ReservationsExact, TypeOK, Slots
  <2>6. \A r \in Requests : r \in active' <=> allocation_start'[r] # None
    BY <2>1, <2>3, <2>4, <2>5 DEF IInv, ReservationsExact
  <2>7. \A r \in active' :
          Region(allocation_start'[r], max_length'[r]) \subseteq Slots
    BY <2>1, <2>2, <2>3, <2>4 DEF IInv, ReservationsExact, TypeOK, FreeSlots
  <2>8. ASSUME NEW s \in Slots, NEW r \in Requests
        PROVE  memory'[s] = r <=>
                 r \in active'
                 /\ s \in Region(allocation_start'[r], max_length'[r])
    <3>1. memory'[s] = IF s \in Region(run_start, max_length[request])
                         THEN request ELSE memory[s]
      BY <1>1 DEF Reserve
    <3>2. memory[s] = r <=>
            r \in active /\ s \in Region(allocation_start[r], max_length[r])
      BY DEF IInv, ReservationsExact
    <3>3. s \in Region(run_start, max_length[request]) => memory[s] # r
      BY <2>2 DEF FreeSlots
    <3>4. CASE r = request
      BY <2>1, <2>3, <2>4, <3>1, <3>2, <3>4
    <3>5. CASE r # request
      BY <2>3, <2>4, <3>1, <3>2, <3>3, <3>5
    <3> QED  BY <3>4, <3>5
  <2> QED  BY <2>6, <2>7, <2>8 DEF ReservationsExact, Region
<1>2. ASSUME GenerateAndRelease  PROVE ReservationsExact'
  <2>1. active' = active \ Finished /\ max_length' = max_length
    BY <1>2 DEF GenerateAndRelease, workload
  <2>2. Finished \subseteq active
    BY DEF Finished
  <2>3. \A r \in Requests : allocation_start'[r] =
          IF r \in Finished THEN None ELSE allocation_start[r]
    BY <1>2 DEF GenerateAndRelease
  <2>4. \A r \in Requests : r \in active' <=> allocation_start'[r] # None
    BY <2>1, <2>2, <2>3 DEF IInv, ReservationsExact
  <2>5. \A r \in active' :
          Region(allocation_start'[r], max_length'[r]) \subseteq Slots
    BY <2>1, <2>3 DEF IInv, ReservationsExact, TypeOK
  <2>6. ASSUME NEW s \in Slots, NEW r \in Requests
        PROVE  memory'[s] = r <=>
                 r \in active'
                 /\ s \in Region(allocation_start'[r], max_length'[r])
    <3>1. memory'[s] =
            IF \E q \in Finished : s \in Released(q) /\ memory[s] = q
            THEN None ELSE memory[s]
      BY <1>2 DEF GenerateAndRelease
    <3>2. memory[s] = r <=>
            r \in active /\ s \in Region(allocation_start[r], max_length[r])
      BY DEF IInv, ReservationsExact
    <3>3. CASE r \in Finished
      BY <2>1, <3>1, <3>2, <3>3 DEF Released
    <3>4. CASE r \notin Finished
      BY <2>1, <2>3, <3>1, <3>2, <3>4
    <3> QED  BY <3>3, <3>4
  <2> QED  BY <2>4, <2>5, <2>6 DEF ReservationsExact, Region
<1>3. ASSUME UNCHANGED <<max_length, memory, allocation_start, active>>
      PROVE  ReservationsExact'
  BY <1>3 DEF IInv, ReservationsExact, Region
<1> QED
  BY <1>1, <1>2, <1>3
  DEF Next, vars, workload, scan, BeginStep, Try, ScanFree, ScanTaken, Reject,
      Return, Terminated

(* A request is new until its arrival is tried, waits while it is tried,   *)
(* and is then active, or out for good.                                    *)
LEMMA LifecycleStep ==
  ASSUME IInv, TypeOK', [Next]_vars
  PROVE  Lifecycle'
<1> USE NaiveAssumption DEF Lifecycle, Unseen, IInv, ReservationsExact, TypeOK,
                            Workload, workload, scan
<1>1. ASSUME BeginStep  PROVE Lifecycle'
  BY <1>1 DEF BeginStep
<1>2. ASSUME NEW r \in Requests, Try(r)  PROVE Lifecycle'
  BY <1>2 DEF Try
<1>3. ASSUME ScanFree  PROVE Lifecycle'
  BY <1>3 DEF ScanFree
<1>4. ASSUME ScanTaken  PROVE Lifecycle'
  BY <1>4 DEF ScanTaken
<1>5. ASSUME Reserve  PROVE Lifecycle'
  BY <1>5 DEF Reserve
<1>6. ASSUME Reject  PROVE Lifecycle'
  BY <1>6 DEF Reject
<1>7. ASSUME GenerateAndRelease  PROVE Lifecycle'
  BY <1>7 DEF GenerateAndRelease, NextStep, Finished
<1>8. ASSUME Return  PROVE Lifecycle'
  BY <1>8 DEF Return, ArrivalsRemain
<1>9. ASSUME UNCHANGED vars  PROVE Lifecycle'
  BY <1>9 DEF vars
<1> QED  BY <1>1, <1>2, <1>3, <1>4, <1>5, <1>6, <1>7, <1>8, <1>9
  DEF Next, Terminated

(* Only a reservation and the generation of a token change the progress of  *)
(* an active request.                                                       *)
LEMMA ProgressStep ==
  ASSUME IInv, TypeOK', [Next]_vars
  PROVE  Progress'
<1> USE NaiveAssumption DEF Progress, IInv, ReservationsExact, TypeOK,
                            Workload, workload, scan
<1>1. ASSUME NEW r \in Requests, Try(r)  PROVE Progress'
  <2>1. \A q \in Requests :
          status'[q] = status[q] \/ status'[q] = "waiting"
    BY <1>1 DEF Try
  <2>2. UNCHANGED <<workload, step, tokens, finished_at>>
    BY <1>1 DEF Try
  <2> QED  BY <2>1, <2>2
<1>2. ASSUME Reserve  PROVE Progress'
  BY <1>2 DEF Reserve, Lifecycle
<1>3. ASSUME Reject  PROVE Progress'
  BY <1>3 DEF Reject
<1>4. ASSUME GenerateAndRelease  PROVE Progress'
  BY <1>4 DEF GenerateAndRelease, NextStep, Finished, Lifecycle
<1>5. ASSUME UNCHANGED <<workload, step, active, status, tokens, finished_at>>
      PROVE  Progress'
  BY <1>5
<1> QED  BY <1>1, <1>2, <1>3, <1>4, <1>5
  DEF Next, vars, BeginStep, ScanFree, ScanTaken, Return, Terminated

-----------------------------------------------------------------------------
(* A reservation that could be made lies inside the memory. *)
LEMMA FitInside ==
  ASSUME NEW F \in SUBSET Slots, NEW s \in Nat, NEW n \in Nat \ {0},
         Region(s, n) \subseteq F
  PROVE  s + n <= TotalTokens
<1>1. s + n - 1 \in Region(s, n)
  BY DEF Region
<1>2. s + n - 1 \in 0 .. TotalTokens - 1
  BY <1>1 DEF Slots
<1> QED  BY <1>2, NaiveAssumption

(* The length that the scan looks for. *)
LEMMA LengthType ==
  ASSUME TypeOK, Lifecycle, phase \in {"scan", "fit"}
  PROVE  /\ request \in Requests
         /\ max_length[request] \in Nat \ {0}
         /\ max_length[request] <= MaxLength
<1>1. request \in Requests
  BY DEF Lifecycle
<1>2. max_length[request] \in 1 .. MaxLength
  BY <1>1 DEF TypeOK, Workload
<1> QED  BY <1>1, <1>2, NaiveAssumption

(* Each slot that the scan passes extends what ScanInv says of those before *)
(* it: a fit ending at index would reach back over the taken slot that the  *)
(* run began behind.                                                        *)
LEMMA ScanStep ==
  ASSUME IInv, TypeOK', [Next]_vars
  PROVE  ScanInv'
<1> USE NaiveAssumption
<1> DEFINE n == max_length[request]
<1>1. ASSUME NEW r \in Requests, Try(r)  PROVE ScanInv'
  <2>1. /\ index' = 0 /\ run_length' = 0 /\ request' = r
        /\ max_length' = max_length
    BY <1>1 DEF Try, workload
  <2>2. max_length[r] \in Nat \ {0}
    BY DEF IInv, ReservationsExact, TypeOK, Workload
  <2>3. NoFitBefore(index, max_length[request])'
    BY <2>1, <2>2 DEF NoFitBefore, Slots
  <2> QED  BY <2>1, <2>2, <2>3 DEF ScanInv
<1>2. ASSUME ScanFree  PROVE ScanInv'
  <2> SUFFICES ASSUME phase' = "scan"  PROVE ScanInv'
    BY DEF ScanInv
  <2>1. /\ phase = "scan" /\ index \in FreeSlots
        /\ index' = index + 1 /\ run_length' = run_length + 1
        /\ run_start' = IF run_length = 0 THEN index ELSE run_start
        /\ run_length + 1 < n
        /\ request' = request /\ max_length' = max_length
        /\ FreeSlots' = FreeSlots
    <3>1. /\ phase = "scan" /\ index \in FreeSlots
          /\ index' = index + 1 /\ run_length' = run_length + 1
          /\ run_start' = IF run_length = 0 THEN index ELSE run_start
          /\ ~LongEnough(run_length + 1)
          /\ request' = request /\ max_length' = max_length
          /\ memory' = memory
      BY <1>2 DEF ScanFree, workload
    <3>2. n \in Nat /\ run_length \in Nat
      BY <3>1, LengthType DEF IInv, ReservationsExact, TypeOK
    <3> QED  BY <3>1, <3>2 DEF LongEnough, FreeSlots
  <2>2. index \in Nat /\ run_length \in Nat /\ n \in Nat \ {0}
    BY <2>1, LengthType DEF IInv, ReservationsExact, TypeOK
  <2>3. ScanInv
    BY DEF IInv
  <2>4. index' - run_length' .. index' - 1 \subseteq FreeSlots'
    BY <2>1, <2>2, <2>3 DEF ScanInv
  <2>5. ASSUME NEW s \in Slots, s + n <= index + 1, Fits(s, n)
        PROVE  FALSE
    <3>1. CASE s + n <= index
      BY <2>1, <2>3, <2>5, <3>1 DEF ScanInv, NoFitBefore
    <3>2. CASE s + n = index + 1
      <4>1. index > run_length /\ index - run_length - 1 \in Region(s, n)
        BY <2>1, <2>2, <3>2 DEF Region, Slots
      <4> QED  BY <2>1, <2>3, <2>5, <4>1 DEF ScanInv, Fits
    <3> QED  BY <2>2, <2>5, <3>1, <3>2 DEF Slots
  <2>6. NoFitBefore(index, n)'
    BY <2>1, <2>5 DEF NoFitBefore, Fits
  <2> QED  BY <2>1, <2>2, <2>3, <2>4, <2>6 DEF ScanInv
<1>3. ASSUME ScanTaken  PROVE ScanInv'
  <2>1. /\ phase = "scan" /\ index \in Slots \ FreeSlots
        /\ index' = index + 1 /\ run_length' = 0
        /\ request' = request /\ max_length' = max_length
        /\ FreeSlots' = FreeSlots
    BY <1>3 DEF ScanTaken, workload, FreeSlots
  <2>2. index \in Nat /\ n \in Nat \ {0}
    BY <2>1, LengthType DEF IInv, ReservationsExact, TypeOK
  <2>3. ScanInv
    BY DEF IInv
  <2>4. ASSUME NEW s \in Slots, s + n <= index + 1, Fits(s, n)
        PROVE  FALSE
    <3>1. CASE s + n <= index
      BY <2>1, <2>3, <2>4, <3>1 DEF ScanInv, NoFitBefore
    <3>2. CASE s + n = index + 1
      <4>1. index \in Region(s, n)
        BY <2>2, <3>2 DEF Region, Slots
      <4> QED  BY <2>1, <2>4, <4>1 DEF Fits
    <3> QED  BY <2>2, <2>4, <3>1, <3>2 DEF Slots
  <2>5. NoFitBefore(index, n)'
    BY <2>1, <2>4 DEF NoFitBefore, Fits
  <2> QED  BY <2>1, <2>2, <2>5 DEF ScanInv
<1>4. ASSUME phase' # "scan"  PROVE ScanInv'
  BY <1>4 DEF ScanInv
<1>5. ASSUME UNCHANGED vars  PROVE ScanInv'
  BY <1>5 DEF vars, workload, scan, IInv, ScanInv, NoFitBefore, Fits, FreeSlots
<1> QED  BY <1>1, <1>2, <1>3, <1>4, <1>5
  DEF Next, BeginStep, Reserve, Reject, GenerateAndRelease, Return, Terminated

(* The scan stops at the first run that is long enough, and a scan that has *)
(* passed every slot has passed every run.                                  *)
LEMMA FitStep ==
  ASSUME IInv, TypeOK', Lifecycle', ScanInv', [Next]_vars
  PROVE  FirstFitExact'
<1> USE NaiveAssumption
<1> DEFINE n == max_length[request]
<1>1. ASSUME ScanFree, phase' = "fit"
      PROVE  /\ Fits(run_start, n)'
             /\ \A s \in 0 .. run_start' - 1 : ~Fits(s, n)'
  <2>1. /\ phase = "scan" /\ index \in FreeSlots
        /\ run_start' = IF run_length = 0 THEN index ELSE run_start
        /\ LongEnough(run_length + 1)
        /\ request' = request /\ max_length' = max_length
        /\ FreeSlots' = FreeSlots
    BY <1>1 DEF ScanFree, workload, FreeSlots
  <2>2. index \in Nat /\ run_length \in Nat /\ n \in Nat \ {0}
    BY <2>1, LengthType DEF IInv, ReservationsExact, TypeOK
  <2>3. ScanInv
    BY DEF IInv
  <2>4. n = run_length + 1 /\ run_start' = index - run_length
    BY <2>1, <2>2, <2>3 DEF ScanInv, LongEnough
  <2>5. Region(run_start', n) \subseteq FreeSlots
    BY <2>1, <2>2, <2>3, <2>4 DEF ScanInv, Region
  <2>6. ASSUME NEW s \in 0 .. run_start' - 1  PROVE ~Fits(s, n)
    <3>1. s \in Slots /\ s + n <= index
      BY <2>1, <2>2, <2>4 DEF FreeSlots, Slots
    <3> QED  BY <2>1, <2>3, <3>1 DEF ScanInv, NoFitBefore
  <2> QED  BY <2>1, <2>5, <2>6 DEF Fits
<1>2. ASSUME phase' = "scan", index' = TotalTokens, NEW s \in Slots, Fits(s, n)'
      PROVE  FALSE
  <2>1. request' \in Requests /\ max_length'[request'] \in Nat \ {0}
    BY <1>2 DEF Lifecycle, TypeOK, Workload
  <2>2. Region(s, n') \subseteq FreeSlots' /\ FreeSlots' \in SUBSET Slots
    BY <1>2 DEF Fits, FreeSlots
  <2>3. s + n' <= TotalTokens
    <3>1. s \in Nat
      BY DEF Slots
    <3> QED  BY <2>1, <2>2, <3>1, FitInside
  <2>4. NoFitBefore(index, n)'
    BY <1>2 DEF ScanInv
  <2> QED  BY <1>2, <2>3, <2>4 DEF NoFitBefore
<1>3. ASSUME phase' = "fit", ~ScanFree
      PROVE  UNCHANGED vars
  BY <1>3 DEF Next, BeginStep, Try, ScanTaken, Reserve, Reject,
              GenerateAndRelease, Return, Terminated, vars, workload, scan
<1>4. ASSUME UNCHANGED vars  PROVE FirstFitExact'
  BY <1>4 DEF vars, workload, scan, IInv, FirstFitExact, Fits, FreeSlots
<1> QED  BY <1>1, <1>2, <1>3, <1>4 DEF FirstFitExact, Fits

(* If no n tokens fit anywhere, every free slot is in a gap shorter than n: *)
(* the gap of s lies between the least a from which all is free up to s and *)
(* the least u behind s that is not free.                                   *)
LEMMA AllUnusable ==
  ASSUME NEW n \in Nat \ {0}, \A s \in Slots : ~Fits(s, n)
  PROVE  \A s \in FreeSlots : Cardinality(Gap(s)) < n
<1> USE NaiveAssumption
<1> SUFFICES ASSUME NEW s \in FreeSlots, ~(Cardinality(Gap(s)) < n)
             PROVE  FALSE
  OBVIOUS
<1> DEFINE A == {b \in Slots : b <= s /\ b .. s \subseteq FreeSlots}
           U == {v \in Nat : s < v /\ v \notin FreeSlots}
<1>1. s \in Nat /\ s <= TotalTokens - 1 /\ s \in A
  BY DEF FreeSlots, Slots
<1>2. PICK a \in A : \A b \in A : a <= b
  <2>1. A \subseteq Nat
    BY DEF Slots
  <2> HIDE DEF A
  <2> QED  BY <1>1, <2>1, LeastNat
<1>3. PICK u \in U : \A v \in U : u <= v
  <2>1. TotalTokens \in U
    BY <1>1 DEF FreeSlots, Slots
  <2>2. U \in SUBSET Nat /\ U # {}
    BY <2>1
  <2> HIDE DEF U
  <2> QED  BY <2>2, LeastNat
<1>4. /\ a \in Nat /\ u \in Nat /\ a <= s /\ s < u
      /\ a \in Slots
      /\ a .. s \subseteq FreeSlots
      /\ u \notin FreeSlots
  BY <1>2, <1>3 DEF Slots
<1>5. a .. u - 1 \subseteq FreeSlots
  <2> SUFFICES ASSUME NEW x \in a .. u - 1  PROVE x \in FreeSlots
    OBVIOUS
  <2>1. CASE x <= s
    BY <1>1, <1>4, <2>1
  <2>2. CASE s < x
    BY <1>1, <1>3, <1>4, <2>2
  <2> QED  BY <1>1, <1>4, <2>1, <2>2
<1>6. Gap(s) \subseteq a .. u - 1
  <2> SUFFICES ASSUME NEW t \in Gap(s)  PROVE t \in a .. u - 1
    OBVIOUS
  <2>1. t \in Slots /\ t \in Nat /\ t <= TotalTokens - 1
    BY DEF Gap, Slots
  <2>2. \A x \in (s .. t) \cup (t .. s) : x \in FreeSlots
    BY <1>1, <2>1 DEF Gap, FreeSlots, Slots
  <2>3. CASE t <= s
    <3>1. t \in A
      BY <2>1, <2>2, <2>3
    <3>2. a <= t
      BY <1>2, <3>1
    <3> QED  BY <1>1, <1>4, <2>1, <2>3, <3>2
  <2>4. CASE s < t
    <3>1. ~(u <= t)
      BY <1>1, <1>4, <2>1, <2>2
    <3> QED  BY <1>1, <1>4, <2>1, <2>4, <3>1
  <2> QED  BY <1>1, <2>1, <2>3, <2>4
<1>7. Cardinality(Gap(s)) <= u - a
  <2>1. IsFiniteSet(a .. u - 1) /\ Cardinality(a .. u - 1) = u - a
    <3>1. a \in Int /\ u - 1 \in Int /\ a <= u - 1
      BY <1>1, <1>4
    <3>2. Cardinality(a .. u - 1) = u - 1 - a + 1
      BY <3>1, FS_Interval
    <3> QED  BY <1>4, <3>1, <3>2, FS_Interval
  <2> QED  BY <1>6, <2>1, FS_Subset
<1>8. Cardinality(Gap(s)) \in Nat
  BY SlotsFinite DEF Gap
<1>9. Fits(a, n)
  BY <1>1, <1>4, <1>5, <1>7, <1>8 DEF Fits, Region
<1> QED  BY <1>4, <1>9

(* Only a rejection adds a sample, and it found no fit. *)
LEMMA SampleStep ==
  ASSUME IInv, TypeOK', [Next]_vars
  PROVE  SamplesAllOrNothing'
<1>1. ASSUME Reject  PROVE SamplesAllOrNothing'
  <2> DEFINE n == max_length[request]
  <2>1. n \in Nat \ {0}
    BY <1>1, LengthType DEF Reject, IInv, ReservationsExact
  <2>2. \A s \in Slots : ~Fits(s, n)
    BY <1>1 DEF Reject, IInv, FirstFitExact
  <2>3. \A s \in FreeSlots : Cardinality(Gap(s)) < n
    <3> HIDE DEF n
    <3> QED  BY <2>1, <2>2, AllUnusable
  <2>4. {s \in FreeSlots : Cardinality(Gap(s)) < n} = FreeSlots
    BY <2>3
  <2>5. ExternalFragmentation(n).unusable = ExternalFragmentation(n).free
    BY <2>4 DEF ExternalFragmentation
  <2> QED  BY <1>1, <2>5 DEF Reject, IInv, SamplesAllOrNothing
<1>2. ASSUME samples' \subseteq samples  PROVE SamplesAllOrNothing'
  BY <1>2 DEF IInv, SamplesAllOrNothing
<1> QED
  BY <1>1, <1>2
  DEF Next, vars, BeginStep, Try, ScanFree, ScanTaken, Reserve,
      GenerateAndRelease, Return, Terminated

-----------------------------------------------------------------------------
LEMMA InitIInv == Init => IInv
<1> SUFFICES ASSUME Init  PROVE IInv
  OBVIOUS
<1>1. TypeOK
  BY NaiveAssumption DEF Init, TypeOK, Workload, Phases, Statuses, Slots
<1>2. ReservationsExact
  BY <1>1, NaiveAssumption DEF Init, ReservationsExact
<1>3. Lifecycle
  BY NaiveAssumption DEF Init, Workload, Lifecycle, Unseen
<1>4. Progress /\ ScanInv /\ FirstFitExact /\ SamplesAllOrNothing
  BY DEF Init, Progress, ScanInv, FirstFitExact, SamplesAllOrNothing
<1> QED  BY <1>2, <1>3, <1>4 DEF IInv

LEMMA NextIInv == IInv /\ [Next]_vars => IInv'
<1> SUFFICES ASSUME IInv, [Next]_vars  PROVE IInv'
  OBVIOUS
<1>1. TypeOK'
  BY TypeStep DEF IInv, ReservationsExact
<1>2. ReservationsExact' /\ Lifecycle' /\ Progress' /\ ScanInv'
  BY <1>1, ReservationsStep, LifecycleStep, ProgressStep, ScanStep
<1>3. FirstFitExact' /\ SamplesAllOrNothing'
  BY <1>1, <1>2, FitStep, SampleStep
<1> QED  BY <1>2, <1>3 DEF IInv

LEMMA Invariance == Spec => []IInv
BY InitIInv, NextIInv, PTL DEF Spec

(* Each active request holds exactly the slots of its reservation, inside   *)
(* the memory, and nothing stays reserved behind its release                *)
(* (naive_allocator.py _reserve and _release).                              *)
THEOREM ReservationsHold == Spec => []ReservationsExact
<1>1. IInv => ReservationsExact
  BY DEF IInv
<1> QED  BY <1>1, Invariance, PTL

(* The one-pass scan of _find_first_fit returns the first run of free slots *)
(* that is long enough, and None only if there is none.                     *)
THEOREM FirstFitCorrect == Spec => []FirstFitExact
<1>1. IInv => FirstFitExact
  BY DEF IInv
<1> QED  BY <1>1, Invariance, PTL

(* The external fragmentation that _try_allocate records for a rejection is *)
(* all of the free memory or nothing.                                       *)
THEOREM SamplesExtreme == Spec => []SamplesAllOrNothing
<1>1. IInv => SamplesAllOrNothing
  BY DEF IInv
<1> QED  BY <1>1, Invariance, PTL

LEMMA OnTime == IInv => OnePerStep
<1> SUFFICES ASSUME IInv  PROVE OnePerStep
  OBVIOUS
<1>1. ASSUME NEW r \in Requests
      PROVE  /\ phase = "step" /\ r \in active =>
                  /\ tokens[r] = step - arrival_time[r]
                  /\ tokens[r] < max_length[r]
             /\ status[r] = "completed" =>
                  /\ tokens[r] = actual_length[r]
                  /\ finished_at[r] = arrival_time[r] + actual_length[r] - 1
  <2>1. status[r] = "active" <=> r \in active
    BY DEF IInv, Lifecycle
  <2>2. /\ actual_length[r] \in Nat /\ max_length[r] \in Nat
        /\ actual_length[r] <= max_length[r] /\ tokens[r] \in Nat
    BY NaiveAssumption DEF IInv, ReservationsExact, TypeOK, Workload
  <2> QED  BY <2>1, <2>2 DEF IInv, Progress
<1>2. ASSUME phase = "done", NEW r \in Requests
      PROVE  status[r] \in {"completed", "rejected"}
  <2>1. status[r] \in Statuses /\ arrival_time[r] \in Nat /\ step \in Nat
    BY NaiveAssumption DEF IInv, ReservationsExact, TypeOK, Workload
  <2>2. status[r] # "new" /\ status[r] # "waiting" /\ status[r] # "active"
    BY <1>2, <2>1 DEF IInv, Lifecycle, Unseen
  <2> QED  BY <2>1, <2>2 DEF Statuses
<1> QED  BY <1>1, <1>2 DEF OnePerStep

(* A request that is admitted generates one token in each step from its     *)
(* arrival to its last, inside its reservation; run() returns when every    *)
(* request has completed or was rejected.                                   *)
THEOREM GeneratesOnTime == Spec => []OnePerStep
BY OnTime, Invariance, PTL

-----------------------------------------------------------------------------
(* What PagedAllocator_proof establishes, for the paged half of the run. *)
P == INSTANCE PagedAllocator_proof WITH
  step        <- paged_step,     phase    <- paged_phase,
  todo        <- paged_todo,     finished <- paged_finished,
  active      <- paged_active,   status   <- paged_status,
  tokens      <- paged_tokens,   table    <- paged_table,
  finished_at <- paged_finished_at,
  pool        <- paged_pool,     peak     <- paged_peak

LEMMA SameFinite ==
  ASSUME NEW S
  PROVE  P!IsFiniteSet(S) <=> IsFiniteSet(S)
BY DEF P!IsFiniteSet, IsFiniteSet

LEMMA SameCardinality ==
  ASSUME NEW S
  PROVE  P!Cardinality(S) = Cardinality(S)
BY DEF P!Cardinality, Cardinality, P!IsFiniteSet, IsFiniteSet

LEMMA SameSum ==
  ASSUME NEW f, NEW S
  PROVE  P!SumFunctionOnSet(f, S) = SumFunctionOnSet(f, S)
BY DEF P!SumFunctionOnSet, SumFunctionOnSet, P!FoldFunctionOnSet,
       FoldFunctionOnSet, P!MapThenFoldSet, MapThenFoldSet

(* The paged memory has at least one block. *)
LEMMA TotalBlocksType == TotalBlocks \in Nat \ {0}
BY HeadToHeadAssumption, NaiveAssumption DEF TotalBlocks

LEMMA PagedAssumptions == P!BlockPoolAssumption /\ P!PagedAssumption
BY HeadToHeadAssumption, NaiveAssumption, TotalBlocksType, SameFinite

LEMMA PagedInitIInv == P!Init => P!IInv
BY P!InitIInv, PagedAssumptions

LEMMA PagedNextIInv == P!IInv /\ [P!Next]_(P!vars) => P!IInv'
BY P!NextIInv, PagedAssumptions

(* Sums, as PagedAllocator_proof counts them. *)
LEMMA SumCounts ==
  ASSUME NEW f, NEW S, IsFiniteSet(S), \A x \in S : f[x] \in Nat
  PROVE  /\ SumFunctionOnSet(f, S) = Cardinality(P!Units(f, S))
         /\ SumFunctionOnSet(f, S) \in Nat
BY P!SumIsCount, P!UnitsFinite, PagedAssumptions, SameFinite, SameCardinality,
   SameSum

LEMMA SumBelow ==
  ASSUME NEW f, NEW S, IsFiniteSet(S), \A x \in S : f[x] \in Nat,
         NEW R \in SUBSET S
  PROVE  /\ SumFunctionOnSet(f, R) \in Nat /\ SumFunctionOnSet(f, S) \in Nat
         /\ SumFunctionOnSet(f, R) <= SumFunctionOnSet(f, S)
BY P!SumSubset, PagedAssumptions, SameFinite, SameSum

LEMMA SumOfNone == ASSUME NEW f PROVE SumFunctionOnSet(f, {}) = 0
<1>1. SumFunctionOnSet(f, {}) = Cardinality(P!Units(f, {}))
  BY SumCounts, FS_EmptySet
<1>2. P!Units(f, {}) = {}
  BY DEF P!Units
<1> QED  BY <1>1, <1>2, FS_EmptySet

-----------------------------------------------------------------------------
(* The tokens that the active requests have reserved. *)
Reserved == SumFunctionOnSet(max_length, active)

LEMMA ReservedType ==
  ASSUME TypeOK
  PROVE  /\ IsFiniteSet(active) /\ \A r \in active : max_length[r] \in Nat
         /\ IsFiniteSet(Requests) /\ \A r \in Requests : max_length[r] \in Nat
         /\ Reserved \in Nat
<1>1. IsFiniteSet(Requests) /\ \A r \in Requests : max_length[r] \in Nat
  BY NaiveAssumption DEF TypeOK, Workload
<1>2. IsFiniteSet(active) /\ \A r \in active : max_length[r] \in Nat
  BY <1>1, FS_Subset DEF TypeOK
<1> QED  BY <1>1, <1>2, SumCounts DEF Reserved

(* Each token reserved has a slot of its own. *)
LEMMA ReservedFits == IInv => Reserved <= TotalTokens
<1> SUFFICES ASSUME IInv  PROVE Reserved <= TotalTokens
  OBVIOUS
<1>1. ReservationsExact /\ TypeOK
  BY DEF IInv, ReservationsExact
<1> DEFINE U == P!Units(max_length, active)
           h == [u \in U |-> allocation_start[u[1]] + u[2] - 1]
<1>2. IsFiniteSet(Slots) /\ Cardinality(Slots) = TotalTokens
  <2>1. /\ IsFiniteSet(Slots)
        /\ Cardinality(Slots) = IF 0 > TotalTokens - 1 THEN 0
                                ELSE TotalTokens - 1 - 0 + 1
    BY FS_Interval, NaiveAssumption DEF Slots
  <2> QED  BY <2>1, NaiveAssumption
<1>3. ASSUME NEW r \in active, NEW k \in 1 .. max_length[r]
      PROVE  /\ allocation_start[r] \in Nat
             /\ allocation_start[r] + k - 1 \in Slots
             /\ memory[allocation_start[r] + k - 1] = r
  <2>1. /\ r \in Requests /\ max_length[r] \in Nat
        /\ allocation_start[r] \in Slots
    BY <1>1, ReservedType DEF TypeOK, ReservationsExact
  <2>2. allocation_start[r] \in Nat
    BY <2>1 DEF Slots
  <2>3. allocation_start[r] + k - 1 \in Region(allocation_start[r], max_length[r])
    BY <2>1, <2>2 DEF Region
  <2> QED  BY <1>1, <2>1, <2>2, <2>3 DEF ReservationsExact
<1>4. \A u \in U : /\ u[1] \in active /\ u[2] \in 1 .. max_length[u[1]]
                   /\ u = <<u[1], u[2]>> /\ u[2] \in Nat
  BY DEF P!Units
<1>5. h \in Injection(U, Slots)
  <2>1. h \in [U -> Slots]
    BY <1>3, <1>4
  <2>2. ASSUME NEW u \in U, NEW v \in U, h[u] = h[v]
        PROVE  u = v
    <3>1. u[1] = v[1]
      BY <1>3, <1>4, <2>2
    <3>2. u[2] = v[2]
      BY <1>3, <1>4, <2>2, <3>1
    <3> QED  BY <1>4, <3>1, <3>2
  <2> QED  BY <2>1, <2>2 DEF Injection, IsInjective
<1> HIDE DEF h
<1>6. Cardinality(U) <= TotalTokens
  BY <1>2, <1>5, FS_Injection
<1>7. Reserved = Cardinality(U)
  BY <1>1, ReservedType, SumCounts DEF Reserved
<1> QED  BY <1>6, <1>7

LEMMA ReservedFitsNext == IInv' => Reserved' <= TotalTokens
<1>1. (IInv => Reserved <= TotalTokens)'
  BY ReservedFits, PTL
<1> QED  BY <1>1

(* The peak is one of the reserved tokens, all of them in memory. *)
Peaked == peak \in Nat /\ Reserved <= peak /\ peak <= TotalTokens

LEMMA PeakedStep ==
  ASSUME IInv, Peaked, [Next]_vars
  PROVE  Peaked'
<1>1. IInv' /\ TypeOK /\ TypeOK'
  BY NextIInv DEF IInv, ReservationsExact
<1>2. CASE Reserve
  <2> DEFINE reserved == SumFunctionOnSet(max_length, active')
  <2>1. /\ max_length' = max_length
        /\ peak' = IF reserved > peak THEN reserved ELSE peak
    BY <1>2 DEF Reserve, workload
  <2>2. Reserved' = reserved /\ Reserved' \in Nat /\ Reserved' <= TotalTokens
    <3>1. \A r \in active' : max_length[r] \in Nat
      BY <1>1, <2>1, ReservedType DEF TypeOK
    <3>2. IsFiniteSet(active')
      BY <1>1, NaiveAssumption, FS_Subset DEF TypeOK
    <3>3. reserved \in Nat
      BY <3>1, <3>2, SumCounts
    <3>4. Reserved' = reserved
      BY <2>1 DEF Reserved
    <3> QED  BY <1>1, <3>3, <3>4, ReservedFitsNext
  <2> HIDE DEF reserved
  <2> QED  BY <2>1, <2>2 DEF Peaked
<1>3. CASE GenerateAndRelease
  <2>1. /\ UNCHANGED <<max_length, peak>> /\ active' \in SUBSET active
    BY <1>3 DEF GenerateAndRelease, workload
  <2>2. /\ SumFunctionOnSet(max_length, active') \in Nat
        /\ SumFunctionOnSet(max_length, active') <= Reserved /\ Reserved \in Nat
    BY <1>1, <2>1, ReservedType, SumBelow DEF Reserved
  <2>3. Reserved' = SumFunctionOnSet(max_length, active')
    BY <2>1 DEF Reserved
  <2> QED  BY <2>1, <2>2, <2>3 DEF Peaked
<1>4. ASSUME UNCHANGED <<max_length, active, peak>>  PROVE Peaked'
  BY <1>4 DEF Peaked, Reserved
<1> QED
  BY <1>2, <1>3, <1>4
  DEF Next, BeginStep, Try, ScanFree, ScanTaken, Reject, Return, Terminated,
      vars, workload

(* If nobody was rejected, the peak is at least what the requests that want *)
(* a token reserve, in every step up to now; and who completed wants none.  *)
Recorded ==
  /\ \A r \in Requests :
       status[r] = "completed" => arrival_time[r] + actual_length[r] <= step
  /\ RejectedBy(status) = {} =>
       \A t \in Nat :
         t < step => SumFunctionOnSet(max_length, P!AliveAt(t)) <= peak

(* When the arrivals of a step have been served, everyone who wants a token *)
(* is active.                                                               *)
LEMMA AliveActive ==
  ASSUME IInv, Recorded, RejectedBy(status) = {},
         phase = "admit", todo = {}
  PROVE  P!AliveAt(step) \in SUBSET active
<1> SUFFICES ASSUME NEW r \in P!AliveAt(step)  PROVE r \in active
  OBVIOUS
<1>1. /\ r \in Requests /\ arrival_time[r] <= step
      /\ step < arrival_time[r] + actual_length[r]
  BY DEF P!AliveAt
<1>2. /\ status[r] \in Statuses /\ arrival_time[r] \in Nat /\ step \in Nat
      /\ actual_length[r] \in Nat
  BY <1>1, NaiveAssumption DEF IInv, ReservationsExact, TypeOK, Workload
<1>3. status[r] # "new" /\ status[r] # "waiting"
  BY <1>1, <1>2 DEF IInv, Lifecycle, Unseen
<1>4. status[r] # "rejected"
  BY <1>1 DEF RejectedBy
<1>5. status[r] # "completed"
  BY <1>1, <1>2 DEF Recorded
<1> QED  BY <1>1, <1>2, <1>3, <1>4, <1>5 DEF Statuses, IInv, Lifecycle

LEMMA RecordedStep ==
  ASSUME IInv, Peaked, Recorded, [Next]_vars
  PROVE  Recorded'
<1>1. TypeOK /\ Lifecycle /\ Progress
  BY DEF IInv, ReservationsExact
<1>2. UNCHANGED workload /\ peak' \in Nat /\ peak \in Nat
  BY PeakedStep
  DEF Next, BeginStep, Try, ScanFree, ScanTaken, Reserve, Reject,
      GenerateAndRelease, Return, Terminated, vars, Peaked
<1>3. /\ UNCHANGED <<arrival_time, max_length, actual_length>>
      /\ \A t : P!AliveAt(t)' = P!AliveAt(t)
  BY <1>2 DEF workload, P!AliveAt
<1>4. peak <= peak'
  BY <1>2
  DEF Next, BeginStep, Try, ScanFree, ScanTaken, Reserve, Reject,
      GenerateAndRelease, Return, Terminated, vars
<1>5. \A t \in Nat : SumFunctionOnSet(max_length, P!AliveAt(t)) \in Nat
  <2> SUFFICES ASSUME NEW t \in Nat
               PROVE  SumFunctionOnSet(max_length, P!AliveAt(t)) \in Nat
    OBVIOUS
  <2>1. P!AliveAt(t) \in SUBSET Requests
    BY DEF P!AliveAt
  <2> QED  BY <1>1, <2>1, ReservedType, SumBelow
<1>6. RejectedBy(status) \subseteq RejectedBy(status')
  BY <1>1
  DEF Next, BeginStep, Try, ScanFree, ScanTaken, Reserve, Reject,
      GenerateAndRelease, Return, Terminated, vars, RejectedBy, TypeOK,
      Lifecycle, Unseen, Finished
<1>7. ASSUME UNCHANGED step,
             \A r \in Requests : status'[r] = "completed" => status[r] = "completed"
      PROVE  Recorded'
  <2>1. \A r \in Requests : status'[r] = "completed" =>
          arrival_time'[r] + actual_length'[r] <= step'
    BY <1>3, <1>7 DEF Recorded
  <2>2. ASSUME RejectedBy(status)' = {}, NEW t \in Nat, t < step'
        PROVE  SumFunctionOnSet(max_length', P!AliveAt(t)') <= peak'
    <3>1. SumFunctionOnSet(max_length, P!AliveAt(t)) <= peak
      BY <1>6, <1>7, <2>2 DEF Recorded, RejectedBy
    <3>2. SumFunctionOnSet(max_length, P!AliveAt(t)) <= peak'
      BY <1>2, <1>4, <1>5, <3>1
    <3> QED  BY <1>3, <3>2
  <2> QED  BY <2>1, <2>2 DEF Recorded
<1>8. CASE GenerateAndRelease
  <2>1. /\ phase = "admit" /\ todo = {} /\ step' = step + 1 /\ peak' = peak
        /\ \A r \in Requests :
             status'[r] = IF r \in Finished THEN "completed" ELSE status[r]
    BY <1>8 DEF GenerateAndRelease, NextStep
  <2>2. step \in Nat /\ \A r \in Requests :
          arrival_time[r] \in Nat /\ actual_length[r] \in Nat /\ tokens[r] \in Nat
    BY <1>1, NaiveAssumption DEF TypeOK, Workload
  <2>3. ASSUME NEW r \in Requests, status'[r] = "completed"
        PROVE  arrival_time'[r] + actual_length'[r] <= step'
    <3>1. CASE r \in Finished
      <4>1. status[r] = "active" /\ tokens[r] + 1 >= actual_length[r]
        BY <1>1, <3>1 DEF Finished, Lifecycle
      <4>2. tokens[r] < actual_length[r] /\ tokens[r] = step - arrival_time[r]
        BY <1>1, <4>1 DEF Progress
      <4> QED  BY <1>3, <2>1, <2>2, <4>1, <4>2
    <3>2. CASE r \notin Finished
      <4>1. arrival_time[r] + actual_length[r] <= step
        BY <2>1, <2>3, <3>2 DEF Recorded
      <4> QED  BY <1>3, <2>1, <2>2, <4>1
    <3> QED  BY <3>1, <3>2
  <2>4. ASSUME RejectedBy(status)' = {}, NEW t \in Nat, t < step'
        PROVE  SumFunctionOnSet(max_length', P!AliveAt(t)') <= peak'
    <3>1. RejectedBy(status) = {}
      BY <1>6, <2>4 DEF RejectedBy
    <3>2. CASE t < step
      <4>1. SumFunctionOnSet(max_length, P!AliveAt(t)) <= peak
        BY <3>1, <3>2 DEF Recorded
      <4> QED  BY <1>3, <2>1, <4>1
    <3>3. CASE t = step
      <4>1. P!AliveAt(step) \in SUBSET active
        BY <2>1, <3>1, AliveActive
      <4>2. /\ SumFunctionOnSet(max_length, P!AliveAt(step)) <= Reserved
            /\ Reserved \in Nat
        BY <1>1, <4>1, ReservedType, SumBelow DEF Reserved
      <4>3. SumFunctionOnSet(max_length, P!AliveAt(step)) <= peak
        BY <1>2, <1>5, <2>2, <4>2 DEF Peaked
      <4> QED  BY <1>3, <2>1, <3>3, <4>3
    <3> QED  BY <2>1, <2>2, <2>4, <3>2, <3>3
  <2> QED  BY <2>3, <2>4 DEF Recorded
<1> QED
  BY <1>1, <1>7, <1>8
  DEF Next, BeginStep, Try, ScanFree, ScanTaken, Reserve, Reject, Return,
      Terminated, vars, TypeOK

-----------------------------------------------------------------------------
(* No request of any workload wants a token in this step or a later one. *)
LastStep == MaxArrival + MaxLength

(* A step is only begun while some request wants a token or is to arrive.   *)
InTime ==
  /\ step <= LastStep
  /\ phase \in {"admit", "scan", "fit"} => step < LastStep

(* An attempt to reserve takes no more actions than this. *)
TrySteps == TotalTokens + 3

(* What is left of the run: of its steps; of the arrivals in this one, and  *)
(* of the slots that the scan has yet to see.                               *)
StepActions == Cardinality(Requests) * TrySteps + 2

StepsLeft == (LastStep - step) * StepActions

InStepLeft ==
  CASE phase = "step"  -> StepActions
    [] phase = "admit" -> Cardinality(todo) * TrySteps + 1
    [] phase = "scan"  -> Cardinality(todo) * TrySteps + 3 + (TotalTokens - index)
    [] phase = "fit"   -> Cardinality(todo) * TrySteps + 2
    [] phase = "done"  -> 0

Remaining == StepsLeft + InStepLeft

LEMMA LastStepType ==
  /\ LastStep \in Nat /\ MaxArrival \in Nat /\ MaxLength \in Nat \ {0}
  /\ LastStep = MaxArrival + MaxLength
  /\ TrySteps \in Nat /\ TrySteps = TotalTokens + 3 /\ TotalTokens \in Nat
  /\ IsFiniteSet(Requests) /\ Cardinality(Requests) \in Nat
BY NaiveAssumption, FS_CardinalityType DEF LastStep, TrySteps

LEMMA InTimeStep ==
  ASSUME IInv, InTime, [Next]_vars
  PROVE  InTime'
<1>1. step \in Nat /\ step <= LastStep /\ LastStep \in Nat /\ TypeOK
  BY LastStepType DEF IInv, ReservationsExact, TypeOK, InTime
<1>2. CASE BeginStep
  <2>1. \A r \in Requests : /\ arrival_time[r] \in Nat /\ arrival_time[r] <= MaxArrival
                            /\ actual_length[r] \in Nat /\ actual_length[r] <= MaxLength
    BY <1>1, LastStepType DEF TypeOK, Workload
  <2>2. CASE ArrivalsRemain
    <3>1. step < LastStep
      BY <1>1, <2>1, <2>2, LastStepType DEF ArrivalsRemain
    <3> QED  BY <1>2, <3>1 DEF BeginStep, InTime, LastStep
  <2>3. CASE active # {}
    <3>1. PICK r : r \in active
      BY <2>3
    <3>2. r \in Requests /\ status[r] = "active" /\ tokens[r] \in Nat
      BY <1>1, <3>1 DEF TypeOK, IInv, Lifecycle
    <3>3. tokens[r] < actual_length[r] /\ tokens[r] = step - arrival_time[r]
      BY <3>2 DEF IInv, Progress
    <3>4. step < LastStep
      BY <1>1, <2>1, <3>2, <3>3, LastStepType
    <3> QED  BY <1>2, <3>4 DEF BeginStep, InTime, LastStep
  <2> QED  BY <1>2, <2>2, <2>3 DEF BeginStep
<1>3. CASE GenerateAndRelease
  <2>1. step < LastStep /\ step' = step + 1 /\ phase' = "step"
    BY <1>3 DEF GenerateAndRelease, NextStep, InTime
  <2> QED  BY <1>1, <2>1 DEF InTime, LastStep
<1>4. ASSUME UNCHANGED step,
             phase' \in {"admit", "scan", "fit"} => phase \in {"admit", "scan", "fit"}
      PROVE  InTime'
  BY <1>4 DEF InTime, LastStep
<1> QED
  BY <1>2, <1>3, <1>4
  DEF Next, Try, ScanFree, ScanTaken, Reserve, Reject, Return, Terminated, vars

LEMMA RemainingType ==
  ASSUME IInv, InTime
  PROVE  /\ StepActions \in Nat /\ StepsLeft \in Nat /\ InStepLeft \in Nat
         /\ Remaining \in Nat
         /\ IsFiniteSet(todo) /\ Cardinality(todo) \in Nat
         /\ Cardinality(todo) * TrySteps \in Nat
         /\ Cardinality(todo) * TrySteps <= Cardinality(Requests) * TrySteps
<1> DEFINE n == Cardinality(Requests)
           c == Cardinality(todo)
           d == LastStep - step
           i == TotalTokens - index
<1>1. n \in Nat /\ c \in Nat /\ c <= n /\ TrySteps \in Nat /\ TypeOK /\ IsFiniteSet(todo)
  <2>1. todo \in SUBSET Requests /\ IsFiniteSet(Requests) /\ TypeOK
    BY LastStepType DEF IInv, ReservationsExact, TypeOK
  <2> QED  BY <2>1, LastStepType, FS_Subset, FS_CardinalityType
<1>2. d \in Nat /\ i \in Nat /\ phase \in {"step", "admit", "scan", "fit", "done"}
  BY <1>1, LastStepType DEF InTime, TypeOK, Phases
<1>3. StepsLeft = d * StepActions /\ StepActions = n * TrySteps + 2
  BY DEF StepsLeft, StepActions
<1>4. InStepLeft = CASE phase = "step"  -> StepActions
                     [] phase = "admit" -> c * TrySteps + 1
                     [] phase = "scan"  -> c * TrySteps + 3 + i
                     [] phase = "fit"   -> c * TrySteps + 2
                     [] phase = "done"  -> 0
  BY DEF InStepLeft
<1> HIDE DEF n, c, d, i
<1>5. n * TrySteps \in Nat /\ c * TrySteps \in Nat /\ c * TrySteps <= n * TrySteps
  BY <1>1, P!MulMonotone, PagedAssumptions
<1>6. StepActions \in Nat
  BY <1>3, <1>5
<1>7. StepsLeft \in Nat
  BY <1>2, <1>3, <1>6
<1>8. InStepLeft \in Nat
  BY <1>2, <1>4, <1>5, <1>6
<1> QED  BY <1>1, <1>5, <1>6, <1>7, <1>8 DEF Remaining, c, n

LEMMA RemainingTypeNext ==
  IInv' /\ InTime' =>
    /\ StepsLeft' \in Nat /\ InStepLeft' \in Nat
    /\ Cardinality(todo') * TrySteps \in Nat
    /\ Cardinality(todo') * TrySteps <= Cardinality(Requests) * TrySteps
<1>1. IInv /\ InTime =>
        /\ StepsLeft \in Nat /\ InStepLeft \in Nat
        /\ Cardinality(todo) * TrySteps \in Nat
        /\ Cardinality(todo) * TrySteps <= Cardinality(Requests) * TrySteps
  BY RemainingType
<1>2. (IInv /\ InTime =>
         /\ StepsLeft \in Nat /\ InStepLeft \in Nat
         /\ Cardinality(todo) * TrySteps \in Nat
         /\ Cardinality(todo) * TrySteps <= Cardinality(Requests) * TrySteps)'
  BY <1>1, PTL
<1> QED  BY <1>2 DEF TrySteps

(* Whatever run() does leaves less of it. *)
LEMMA RemainingShrinks ==
  ASSUME IInv, InTime, [Next]_vars
  PROVE  UNCHANGED vars \/ Remaining' < Remaining
<1> DEFINE all == Cardinality(Requests) * TrySteps
           left == Cardinality(todo) * TrySteps
           next == Cardinality(todo') * TrySteps
           i == TotalTokens - index
           ahead == StepsLeft
           now == InStepLeft
           later == StepsLeft'
           then == InStepLeft'
<1>1. /\ StepActions \in Nat /\ ahead \in Nat /\ now \in Nat
      /\ left \in Nat /\ left <= all /\ StepActions = all + 2
      /\ IsFiniteSet(todo) /\ Cardinality(todo) \in Nat
  BY RemainingType DEF StepActions
<1>2. /\ later \in Nat /\ then \in Nat /\ next \in Nat /\ next <= all
      /\ Remaining = ahead + now /\ Remaining' = later + then
  BY NextIInv, InTimeStep, RemainingTypeNext DEF Remaining
<1>3. UNCHANGED step => later = ahead
  BY DEF StepsLeft, LastStep, StepActions, TrySteps
<1>4. now = CASE phase = "step"  -> StepActions
              [] phase = "admit" -> left + 1
              [] phase = "scan"  -> left + 3 + i
              [] phase = "fit"   -> left + 2
              [] phase = "done"  -> 0
  BY DEF InStepLeft
<1>5. then = CASE phase' = "step"  -> StepActions
               [] phase' = "admit" -> next + 1
               [] phase' = "scan"  -> next + 3 + (TotalTokens - index')
               [] phase' = "fit"   -> next + 2
               [] phase' = "done"  -> 0
  BY DEF InStepLeft, StepActions, TrySteps
<1>6. /\ index \in Nat /\ index <= TotalTokens /\ TotalTokens \in Nat
      /\ TrySteps = TotalTokens + 3 /\ i = TotalTokens - index
  BY LastStepType DEF IInv, ReservationsExact, TypeOK
<1>7. todo' = todo => next = left
  OBVIOUS
<1> HIDE DEF all, left, next, i, ahead, now, later, then
<1>8. all \in Nat
  BY RemainingType, LastStepType, FS_CardinalityType DEF all, IInv, TypeOK
<1>9. ASSUME UNCHANGED step, then < now  PROVE Remaining' < Remaining
  BY <1>1, <1>2, <1>3, <1>9
<1>10. CASE BeginStep
  <2>1. phase = "step" /\ phase' = "admit" /\ UNCHANGED step
    BY <1>10 DEF BeginStep
  <2>2. now = StepActions /\ then = next + 1
    BY <1>4, <1>5, <2>1
  <2> QED  BY <1>1, <1>2, <1>8, <1>9, <2>1, <2>2
<1>11. ASSUME NEW r \in Requests, Try(r)  PROVE Remaining' < Remaining
  <2>1. /\ phase = "admit" /\ phase' = "scan" /\ index' = 0 /\ UNCHANGED step
        /\ r \in todo /\ todo' = todo \ {r}
    BY <1>11 DEF Try
  <2>2. next = left - TrySteps
    <3>1. Cardinality(todo') = Cardinality(todo) - 1
      BY <1>1, <2>1, FS_RemoveElement
    <3> DEFINE c == Cardinality(todo)
               e == Cardinality(todo')
    <3>2. c \in Nat /\ e = c - 1 /\ TrySteps \in Nat
      BY <1>1, <3>1, LastStepType
    <3> HIDE DEF c, e
    <3>3. e * TrySteps = c * TrySteps - TrySteps
      BY <3>2
    <3> QED  BY <3>3 DEF c, e, left, next
  <2>3. now = left + 1 /\ then = next + 3 + TotalTokens
    BY <1>4, <1>5, <1>6, <2>1
  <2> QED  BY <1>1, <1>2, <1>8, <1>9, <1>6, <2>1, <2>2, <2>3
<1>12. CASE ScanFree
  <2>1. /\ phase = "scan" /\ index \in Slots /\ index' = index + 1
        /\ phase' \in {"scan", "fit"} /\ UNCHANGED <<step, todo>>
    BY <1>12 DEF ScanFree, FreeSlots
  <2>2. now = left + 3 + i
    BY <1>4, <2>1
  <2>3. then = left + 2 + i \/ then = left + 2
    BY <1>1, <1>5, <1>6, <1>7, <2>1
  <2>4. i \in Nat
    BY <1>6
  <2>5. then < now
    BY <1>1, <2>2, <2>3, <2>4
  <2> QED  BY <1>9, <2>1, <2>5
<1>13. CASE ScanTaken
  <2>1. /\ phase = "scan" /\ phase' = "scan" /\ index' = index + 1
        /\ UNCHANGED <<step, todo>>
    BY <1>13 DEF ScanTaken
  <2>2. now = left + 3 + i /\ then = left + 2 + i
    BY <1>1, <1>4, <1>5, <1>6, <1>7, <2>1
  <2> QED  BY <1>1, <1>9, <1>6, <2>1, <2>2
<1>14. CASE Reserve
  <2>1. phase = "fit" /\ phase' = "admit" /\ UNCHANGED <<step, todo>>
    BY <1>14 DEF Reserve
  <2>2. now = left + 2 /\ then = left + 1
    BY <1>4, <1>5, <1>7, <2>1
  <2> QED  BY <1>1, <1>9, <2>1, <2>2
<1>15. CASE Reject
  <2>1. phase = "scan" /\ phase' = "admit" /\ UNCHANGED <<step, todo>>
    BY <1>15 DEF Reject
  <2>2. now = left + 3 + i /\ then = left + 1
    BY <1>4, <1>5, <1>7, <2>1
  <2> QED  BY <1>1, <1>9, <1>6, <2>1, <2>2
<1>16. CASE GenerateAndRelease
  <2>1. phase = "admit" /\ phase' = "step" /\ step' = step + 1
    BY <1>16 DEF GenerateAndRelease, NextStep
  <2>2. now = left + 1 /\ then = StepActions
    BY <1>4, <1>5, <2>1
  <2>3. later = ahead - StepActions
    <3> DEFINE d == LastStep - step
    <3>1. LastStep - step' = d - 1 /\ d \in Int
      BY <2>1, LastStepType DEF IInv, ReservationsExact, TypeOK
    <3>2. ahead = d * StepActions /\ later = (LastStep - step') * StepActions
      BY DEF ahead, later, StepsLeft, LastStep, StepActions, TrySteps
    <3> HIDE DEF d
    <3>3. (d - 1) * StepActions = d * StepActions - StepActions
      BY <1>1, <3>1
    <3> QED  BY <3>1, <3>2, <3>3
  <2> QED  BY <1>1, <1>2, <2>2, <2>3
<1>17. CASE Return
  <2>1. phase = "step" /\ phase' = "done" /\ UNCHANGED step
    BY <1>17 DEF Return
  <2>2. now = StepActions /\ then = 0
    BY <1>4, <1>5, <2>1
  <2> QED  BY <1>1, <1>2, <1>8, <1>9, <2>1, <2>2
<1> QED
  BY <1>10, <1>11, <1>12, <1>13, <1>14, <1>15, <1>16, <1>17 DEF Next, Terminated

LEMMA InitInTime == Init => InTime
BY LastStepType DEF Init, InTime

(* run() of the naive allocator cannot go on for ever: what is left of it   *)
(* is a natural number that every action makes smaller, the scan included.  *)
THEOREM RunIsFinite == Spec => [](Remaining \in Nat) /\ [][Remaining' < Remaining]_vars
<1>1. IInv /\ InTime /\ [Next]_vars => InTime'
  BY InTimeStep
<1>2. IInv /\ InTime => Remaining \in Nat
  BY RemainingType
<1>3. IInv /\ InTime /\ [Next]_vars => [Remaining' < Remaining]_vars
  BY RemainingShrinks
<1> QED  BY <1>1, <1>2, <1>3, InitInTime, Invariance, PTL DEF Spec

-----------------------------------------------------------------------------
(* Both halves, which are the same whichever way the paged one is named. *)
LEMMA SameInit == Paged!Init <=> P!Init
BY DEF Paged!Init, P!Init, Paged!NewPool, P!NewPool, Paged!Blocks, P!Blocks,
       Paged!Blank, P!Blank, Paged!Offsets, P!Offsets

LEMMA SamePool ==
  ASSUME NEW p, NEW b, NEW o, NEW v, NEW bs, NEW r, NEW t, NEW n
  PROVE  /\ Paged!Allocate(p, b, r) = P!Allocate(p, b, r)
         /\ Paged!Write(p, b, o, v) = P!Write(p, b, o, v)
         /\ Paged!Free(p, bs) = P!Free(p, bs)
         /\ Paged!AllocatedCount(p) = P!AllocatedCount(p)
         /\ Paged!NeedsBlock(t, n) <=> P!NeedsBlock(t, n)
         /\ Paged!BlockAt(t, n) = P!BlockAt(t, n)
         /\ Paged!OffsetOf(n) = P!OffsetOf(n)
<1>1. Paged!Allocate(p, b, r) = P!Allocate(p, b, r)
  BY DEF Paged!Allocate, P!Allocate, Paged!Blank, P!Blank, Paged!Offsets,
         P!Offsets
<1>2. Paged!Write(p, b, o, v) = P!Write(p, b, o, v)
  BY DEF Paged!Write, P!Write
<1>3. Paged!Free(p, bs) = P!Free(p, bs)
  BY DEF Paged!Free, P!Free, Paged!Blank, P!Blank, Paged!Offsets, P!Offsets,
         Paged!Blocks, P!Blocks
<1>4. Paged!AllocatedCount(p) = P!AllocatedCount(p)
  BY DEF Paged!AllocatedCount, P!AllocatedCount, Paged!Cardinality,
         P!Cardinality, Paged!IsFiniteSet, P!IsFiniteSet
<1>5. /\ Paged!NeedsBlock(t, n) <=> P!NeedsBlock(t, n)
      /\ Paged!BlockAt(t, n) = P!BlockAt(t, n)
      /\ Paged!OffsetOf(n) = P!OffsetOf(n)
  BY DEF Paged!NeedsBlock, P!NeedsBlock, Paged!BlockAt, P!BlockAt,
         Paged!BlockOf, P!BlockOf, Paged!OffsetOf, P!OffsetOf
<1> QED  BY <1>1, <1>2, <1>3, <1>4, <1>5

LEMMA SameStore ==
  ASSUME NEW r, NEW p, NEW t
  PROVE  Paged!StoreToken(r, p, t) <=> P!StoreToken(r, p, t)
BY SamePool
DEF Paged!StoreToken, P!StoreToken, Paged!LastToken, P!LastToken

LEMMA SameServe ==
  ASSUME NEW r, NEW b
  PROVE  /\ Paged!Serve(r) <=> P!Serve(r)
         /\ Paged!Least(b, paged_pool.free) <=> P!Least(b, paged_pool.free)
BY DEF Paged!Serve, P!Serve, Paged!Least, P!Least, Paged!workload, P!workload

LEMMA SameNext == Paged!Next <=> P!Next
<1>1. Paged!Arrive <=> P!Arrive
  BY DEF Paged!Arrive, P!Arrive, Paged!ArrivalsRemain, P!ArrivalsRemain,
         Paged!workload, P!workload
<1>2. ASSUME NEW r  PROVE Paged!GenerateInBlock(r) <=> P!GenerateInBlock(r)
  BY SameServe, SameStore, SamePool DEF Paged!GenerateInBlock, P!GenerateInBlock
<1>3. ASSUME NEW r, NEW b
      PROVE  Paged!GenerateInNewBlock(r, b) <=> P!GenerateInNewBlock(r, b)
  <2>1. /\ Paged!Serve(r) <=> P!Serve(r)
        /\ Paged!Least(b, paged_pool.free) <=> P!Least(b, paged_pool.free)
        /\ Paged!NeedsBlock(paged_table[r], paged_tokens[r])
             <=> P!NeedsBlock(paged_table[r], paged_tokens[r])
    BY SameServe, SamePool
  <2> DEFINE p == P!Allocate(paged_pool, b, r)
             t == Append(paged_table[r], b)
  <2>2. /\ Paged!Allocate(paged_pool, b, r) = p
        /\ Paged!StoreToken(r, p, t) <=> P!StoreToken(r, p, t)
    BY SamePool, SameStore
  <2> QED  BY <2>1, <2>2 DEF Paged!GenerateInNewBlock, P!GenerateInNewBlock
<1>4. ASSUME NEW r  PROVE Paged!Reject(r) <=> P!Reject(r)
  BY SameServe, SamePool DEF Paged!Reject, P!Reject
<1>5. Paged!EndStep <=> P!EndStep
  <2>1. Paged!ReleasedBlocks = P!ReleasedBlocks
    BY DEF Paged!ReleasedBlocks, P!ReleasedBlocks, Paged!Range, P!Range
  <2>2. Paged!Free(paged_pool, P!ReleasedBlocks) = P!Free(paged_pool, P!ReleasedBlocks)
    BY SamePool
  <2> QED  BY <2>1, <2>2 DEF Paged!EndStep, P!EndStep, Paged!workload, P!workload
<1>6. (Paged!Return <=> P!Return) /\ (Paged!Terminated <=> P!Terminated)
  BY DEF Paged!Return, P!Return, Paged!ArrivalsRemain, P!ArrivalsRemain,
         Paged!Terminated, P!Terminated, Paged!vars, P!vars, Paged!workload,
         P!workload
<1>7. Paged!Blocks = P!Blocks
  BY DEF Paged!Blocks, P!Blocks
<1> QED  BY <1>1, <1>2, <1>3, <1>4, <1>5, <1>6, <1>7 DEF Paged!Next, P!Next

-----------------------------------------------------------------------------
(* Until the naive allocator has returned, the paged one has done nothing;  *)
(* from then on it is served within the peak of the naive one.              *)
HeadInv ==
  /\ IInv /\ Peaked /\ Recorded
  /\ P!IInv /\ P!Justified
  /\ phase # "done" => \A m \in Nat : P!Within(m)
  /\ phase = "done" /\ WholeBlocks /\ RejectedBy(status) = {} =>
       P!Within(peak)

(* What the naive allocator reserved for everyone affords the paged one.    *)
LEMMA NaiveAffords ==
  ASSUME HeadInv, phase = "done", WholeBlocks, RejectedBy(status) = {}
  PROVE  P!Afforded(max_length, peak)
<1>1. /\ TypeOK /\ IInv /\ Lifecycle /\ Peaked /\ Recorded
      /\ BlockSize \in Nat \ {0} /\ TotalBlocks \in Nat \ {0}
  BY HeadToHeadAssumption, TotalBlocksType DEF HeadInv, IInv, ReservationsExact
<1>2. /\ max_length \in [Requests -> Nat]
      /\ \A r \in Requests : actual_length[r] \in 0 .. max_length[r]
  BY <1>1, NaiveAssumption DEF TypeOK, Workload
<1>3. \A r \in Requests :
        P!BlocksFor(actual_length[r]) * BlockSize <= max_length[r]
  BY <1>2, P!BlocksForWhole, PagedAssumptions DEF WholeBlocks
<1>4. peak \in Nat /\ peak < (TotalBlocks + 1) * BlockSize
  <2> DEFINE q == TotalBlocks
             r == TotalTokens % BlockSize
  <2>1. r \in 0 .. BlockSize - 1 /\ TotalTokens = BlockSize * q + r
    BY <1>1, NaiveAssumption, P!DivMod, PagedAssumptions DEF TotalBlocks
  <2> HIDE DEF q, r
  <2>2. q \in Nat
    BY <1>1 DEF q
  <2>3. (q + 1) * BlockSize = BlockSize * q + BlockSize /\ BlockSize * q \in Nat
    BY <1>1, <2>2
  <2>4. TotalTokens < (q + 1) * BlockSize
    BY <1>1, <2>1, <2>3
  <2>5. peak \in Nat /\ peak <= TotalTokens
    BY <1>1 DEF Peaked
  <2>6. (q + 1) * BlockSize \in Nat /\ TotalTokens \in Nat
    BY <1>1, <2>3, NaiveAssumption
  <2>7. peak < (q + 1) * BlockSize
    BY <2>4, <2>5, <2>6
  <2> QED  BY <2>5, <2>7 DEF q
<1>5. ASSUME NEW t \in Nat
      PROVE  SumFunctionOnSet(max_length, P!AliveAt(t)) <= peak
  <2>1. CASE t < step
    BY <1>1, <2>1 DEF Recorded
  <2>2. CASE ~(t < step)
    <3>1. P!AliveAt(t) = {}
      <4> SUFFICES ASSUME NEW r \in P!AliveAt(t)  PROVE FALSE
        OBVIOUS
      <4>1. r \in Requests /\ t < arrival_time[r] + actual_length[r]
        BY DEF P!AliveAt
      <4>2. status[r] = "completed"
        <5>1. status[r] \in {"completed", "rejected"}
          BY <1>1, <4>1, OnTime DEF OnePerStep
        <5> QED  BY <4>1, <5>1 DEF RejectedBy
      <4>3. arrival_time[r] + actual_length[r] <= step
        BY <1>1, <4>1, <4>2 DEF Recorded
      <4>4. /\ step \in Nat /\ arrival_time[r] \in Nat /\ actual_length[r] \in Nat
        BY <1>1, <4>1, NaiveAssumption DEF TypeOK, Workload
      <4> QED  BY <2>2, <4>1, <4>3, <4>4
    <3> QED  BY <1>4, <3>1, SumOfNone
  <2> QED  BY <2>1, <2>2
<1>6. \A t \in Nat : P!SumFunctionOnSet(max_length, P!AliveAt(t)) <= peak
  BY <1>5, SameSum
<1> QED  BY <1>2, <1>3, <1>4, <1>6 DEF P!Afforded

LEMMA HeadInitInv == HeadInit => HeadInv
<1> SUFFICES ASSUME HeadInit  PROVE HeadInv
  OBVIOUS
<1>1. Init /\ P!Init /\ phase = "step" /\ active = {} /\ peak = 0 /\ step = 0
  BY SameInit DEF HeadInit, Init
<1>2. IInv /\ P!IInv /\ P!Justified
  BY <1>1, InitIInv, PagedInitIInv, P!InitJustified, PagedAssumptions
<1>3. Peaked
  BY <1>1, SumOfNone, NaiveAssumption DEF Peaked, Reserved
<1>4. Recorded
  BY <1>1 DEF Recorded, Init
<1>5. \A m \in Nat : P!Within(m)
  BY <1>1, P!InitWithin, PagedAssumptions
<1> QED  BY <1>1, <1>2, <1>3, <1>4, <1>5 DEF HeadInv

LEMMA HeadNextInv == HeadInv /\ [HeadNext]_<<vars, paged_vars>> => HeadInv'
<1> SUFFICES ASSUME HeadInv, [HeadNext]_<<vars, paged_vars>>
             PROVE  HeadInv'
  OBVIOUS
<1>1. [Next]_vars
  BY DEF HeadNext, NaiveRuns, PagedRuns
<1>2. IInv' /\ Peaked' /\ Recorded'
  BY <1>1, NextIInv, PeakedStep, RecordedStep DEF HeadInv
<1>3. UNCHANGED workload
  BY <1>1
  DEF Next, BeginStep, Try, ScanFree, ScanTaken, Reserve, Reject,
      GenerateAndRelease, Return, Terminated, vars
<1>4. [P!Next]_(P!vars)
  <2>1. CASE UNCHANGED paged_vars
    BY <1>3, <2>1 DEF paged_vars, P!vars, P!workload, workload
  <2>2. CASE PagedRuns
    BY <2>2, SameNext DEF PagedRuns
  <2> QED  BY <2>1, <2>2 DEF HeadNext, NaiveRuns
<1>5. P!IInv' /\ P!Justified'
  BY <1>4, PagedNextIInv, P!JustifiedStep, PagedAssumptions DEF HeadInv
<1>6. CASE UNCHANGED paged_vars
  <2>1. \A m : P!Within(m)' <=> P!Within(m)
    BY <1>3, <1>6 DEF P!Within, P!AliveAt, paged_vars, workload
  <2>2. phase = "done" => UNCHANGED vars
    BY <1>1
    DEF Next, BeginStep, Try, ScanFree, ScanTaken, Reserve, Reject,
        GenerateAndRelease, Return, Terminated, vars
  <2>3. phase' # "done" => \A m \in Nat : P!Within(m)'
    BY <2>1, <2>2 DEF HeadInv, vars
  <2>4. ASSUME phase' = "done", WholeBlocks', RejectedBy(status)' = {}
        PROVE  P!Within(peak)'
    <3>1. P!Within(peak')
      <4>1. CASE phase = "done"
        <5>1. UNCHANGED vars
          BY <2>2, <4>1
        <5>2. WholeBlocks /\ RejectedBy(status) = {} /\ peak' = peak
          BY <2>4, <5>1 DEF vars, workload, WholeBlocks, RejectedBy
        <5> QED  BY <4>1, <5>2 DEF HeadInv
      <4>2. CASE phase # "done"
        BY <1>2, <4>2 DEF HeadInv, Peaked
      <4> QED  BY <4>1, <4>2
    <3> QED  BY <1>3, <1>6, <3>1 DEF P!Within, P!AliveAt, paged_vars, workload
  <2> QED  BY <1>2, <1>5, <2>3, <2>4 DEF HeadInv
<1>7. CASE PagedRuns
  <2>1. phase = "done" /\ UNCHANGED vars
    BY <1>7 DEF PagedRuns
  <2>2. ASSUME WholeBlocks', RejectedBy(status)' = {}
        PROVE  P!Within(peak)'
    <3>1. WholeBlocks /\ RejectedBy(status) = {} /\ peak' = peak
      BY <2>1, <2>2 DEF vars, workload, WholeBlocks, RejectedBy
    <3>2. P!Afforded(max_length, peak) /\ P!Within(peak)
      BY <2>1, <3>1, NaiveAffords DEF HeadInv
    <3>3. P!IInv /\ P!Justified
      BY DEF HeadInv
    <3>4. \A f, m : P!Afforded(f, m) /\ P!Within(m) =>
            /\ paged_active' \subseteq P!AliveAt(paged_step)'
            /\ \A r \in Requests : paged_status'[r] # "rejected"
            /\ paged_peak' * BlockSize <= m
      BY <1>4, <3>3, P!WithinStep, PagedAssumptions DEF P!Within
    <3> QED  BY <3>1, <3>2, <3>4 DEF P!Within
  <2> QED  BY <1>2, <1>5, <2>1, <2>2 DEF HeadInv, vars
<1> QED  BY <1>6, <1>7 DEF HeadNext, NaiveRuns

(* Paging the workload of a naive run that rejected nobody rejects nobody   *)
(* and needs no more blocks at its peak, if reservations are whole blocks;  *)
(* and whoever both serve completes in the same step: what run_task_1 of    *)
(* main.py compares.                                                        *)
THEOREM PagingNeverCostsMore == HeadSpec => []PagedNeverWorse
<1>1. HeadInv => PagedNeverWorse
  <2> SUFFICES ASSUME HeadInv, Compared  PROVE PagedNeverWorse
    BY DEF PagedNeverWorse
  <2>1. phase = "done" /\ paged_phase = "done" /\ IInv /\ P!IInv
    BY DEF Compared, HeadInv
  <2>2. ASSUME WholeBlocks, RejectedBy(status) = {}
        PROVE  RejectedBy(paged_status) = {} /\ paged_peak <= PeakInBlocks
    <3>1. P!Within(peak)
      BY <2>1, <2>2 DEF HeadInv
    <3>2. RejectedBy(paged_status) = {}
      BY <3>1 DEF P!Within, RejectedBy
    <3>3. paged_peak \in Nat /\ peak \in Nat /\ paged_peak * BlockSize <= peak
      BY <2>1, <3>1, TotalBlocksType DEF P!Within, P!IInv, P!TypeOK, HeadInv, Peaked
    <3>4. paged_peak <= P!BlocksFor(peak)
      BY <3>3, P!BelowBlocksFor, PagedAssumptions
    <3> QED  BY <3>2, <3>4 DEF PeakInBlocks, P!BlocksFor
  <2>3. ASSUME NEW r \in Requests \ (RejectedBy(status) \cup RejectedBy(paged_status))
        PROVE  finished_at[r] = paged_finished_at[r]
    <3>1. status[r] = "completed"
      BY <2>1, OnTime DEF OnePerStep, RejectedBy
    <3>2. paged_status[r] = "completed"
      BY <2>1, P!ReturnsClean, PagedAssumptions DEF P!NoLeakAtReturn, RejectedBy
    <3>3. finished_at[r] = arrival_time[r] + actual_length[r] - 1
      BY <2>1, <3>1, OnTime DEF OnePerStep
    <3>4. paged_finished_at[r] = arrival_time[r] + actual_length[r] - 1
      BY <2>1, <3>2, P!OnTime, PagedAssumptions DEF P!OnePerStep
    <3> QED  BY <3>3, <3>4
  <2> QED  BY <2>2, <2>3 DEF PagedNeverWorse
<1> QED  BY <1>1, HeadInitInv, HeadNextInv, PTL DEF HeadSpec

-----------------------------------------------------------------------------
(* What is left of the two runs together. *)
BothInTime == InTime /\ P!InTime

BothRemaining == Remaining + P!Remaining

LEMMA PagedRemaining ==
  ASSUME HeadInv, BothInTime, [P!Next]_(P!vars)
  PROVE  /\ P!InTime' /\ P!Remaining \in Nat
         /\ UNCHANGED P!vars \/ P!Remaining' < P!Remaining
BY P!InTimeStep, P!RemainingType, P!RemainingShrinks, PagedAssumptions
DEF HeadInv, BothInTime

LEMMA PagedRemainingNext ==
  P!IInv' /\ P!InTime' => P!Remaining' \in Nat
<1>1. P!IInv /\ P!InTime => P!Remaining \in Nat
  BY P!RemainingType, PagedAssumptions
<1>2. (P!IInv /\ P!InTime => P!Remaining \in Nat)'
  BY <1>1, PTL
<1> QED  BY <1>2

LEMMA RemainingNatNext == IInv' /\ InTime' => Remaining' \in Nat
<1>1. IInv /\ InTime => Remaining \in Nat
  BY RemainingType
<1>2. (IInv /\ InTime => Remaining \in Nat)'
  BY <1>1, PTL
<1> QED  BY <1>2

(* Less of one and no more of the other is less of both. *)
LEMMA SmallerPart ==
  ASSUME /\ Remaining \in Nat /\ P!Remaining \in Nat
         /\ Remaining' \in Nat /\ P!Remaining' \in Nat,
         Remaining' <= Remaining, P!Remaining' <= P!Remaining,
         Remaining' < Remaining \/ P!Remaining' < P!Remaining
  PROVE  BothRemaining' < BothRemaining
<1>1. PICK a \in Nat : a = Remaining'
  OBVIOUS
<1>2. PICK b \in Nat : b = P!Remaining'
  OBVIOUS
<1>3. PICK c \in Nat : c = Remaining
  OBVIOUS
<1>4. PICK d \in Nat : d = P!Remaining
  OBVIOUS
<1>5. a <= c /\ b <= d /\ (a < c \/ b < d)
  BY <1>1, <1>2, <1>3, <1>4
<1>6. a + b < c + d
  BY <1>5
<1>7. BothRemaining' = a + b /\ BothRemaining = c + d
  BY <1>1, <1>2, <1>3, <1>4 DEF BothRemaining
<1> QED  BY <1>6, <1>7

LEMMA BothShrink ==
  ASSUME HeadInv, BothInTime, [HeadNext]_<<vars, paged_vars>>
  PROVE  /\ BothInTime' /\ BothRemaining \in Nat
         /\ UNCHANGED <<vars, paged_vars>> \/ BothRemaining' < BothRemaining
<1>1. [Next]_vars /\ (UNCHANGED vars \/ UNCHANGED paged_vars)
  BY DEF HeadNext, NaiveRuns, PagedRuns
<1>2. UNCHANGED workload
  BY <1>1
  DEF Next, BeginStep, Try, ScanFree, ScanTaken, Reserve, Reject,
      GenerateAndRelease, Return, Terminated, vars
<1>3. [P!Next]_(P!vars)
  <2>1. CASE UNCHANGED paged_vars
    BY <1>2, <2>1 DEF paged_vars, P!vars, P!workload, workload
  <2>2. CASE PagedRuns
    BY <2>2, SameNext DEF PagedRuns
  <2> QED  BY <2>1, <2>2 DEF HeadNext, NaiveRuns
<1>4. HeadInv'
  BY HeadNextInv
<1>5. InTime' /\ (UNCHANGED vars \/ Remaining' < Remaining)
  BY <1>1, InTimeStep, RemainingShrinks DEF HeadInv, BothInTime
<1>6. P!InTime' /\ (UNCHANGED P!vars \/ P!Remaining' < P!Remaining)
  BY <1>3, PagedRemaining
<1>7. /\ Remaining \in Nat /\ P!Remaining \in Nat
      /\ Remaining' \in Nat /\ P!Remaining' \in Nat
  BY <1>3, <1>4, <1>5, <1>6, RemainingType, RemainingNatNext, PagedRemaining,
     PagedRemainingNext
  DEF HeadInv, BothInTime
<1>8. UNCHANGED vars => Remaining' = Remaining
  BY DEF Remaining, StepsLeft, InStepLeft, StepActions, TrySteps, LastStep, vars
<1>9. UNCHANGED P!vars => P!Remaining' = P!Remaining
  BY DEF P!Remaining, P!LastStep, P!vars, P!workload
<1>10. BothRemaining \in Nat
  BY <1>7 DEF BothRemaining
<1>11. ASSUME UNCHANGED vars, ~UNCHANGED P!vars
       PROVE  BothRemaining' < BothRemaining
  <2>1. P!Remaining' < P!Remaining
    BY <1>6, <1>11
  <2>2. Remaining' <= Remaining /\ P!Remaining' <= P!Remaining
    BY <1>7, <1>8, <1>11, <2>1
  <2> QED  BY <1>7, <2>1, <2>2, SmallerPart
<1>12. ASSUME UNCHANGED P!vars, ~UNCHANGED vars
       PROVE  BothRemaining' < BothRemaining
  <2>1. Remaining' < Remaining
    BY <1>5, <1>12
  <2>2. Remaining' <= Remaining /\ P!Remaining' <= P!Remaining
    BY <1>7, <1>9, <1>12, <2>1
  <2> QED  BY <1>7, <2>1, <2>2, SmallerPart
<1>13. UNCHANGED P!vars => UNCHANGED paged_vars
  BY DEF P!vars, paged_vars
<1>14. UNCHANGED vars \/ UNCHANGED P!vars
  BY <1>1, <1>2 DEF paged_vars, P!vars, P!workload, workload
<1>15. UNCHANGED <<vars, paged_vars>> \/ BothRemaining' < BothRemaining
  <2>1. CASE UNCHANGED vars /\ UNCHANGED P!vars
    <3>1. vars' = vars /\ paged_vars' = paged_vars
      BY <1>13, <2>1
    <3>2. <<vars, paged_vars>>' = <<vars, paged_vars>>
      BY <3>1
    <3> QED  BY <3>2
  <2> QED  BY <1>11, <1>12, <1>14, <2>1
<1>16. BothInTime'
  BY <1>5, <1>6 DEF BothInTime
<1> QED  BY <1>10, <1>15, <1>16

(* The comparison of main.py cannot go on for ever: every action of either  *)
(* run leaves less of the two.                                              *)
THEOREM ComparisonIsFinite ==
  HeadSpec => /\ [](BothRemaining \in Nat)
              /\ [][BothRemaining' < BothRemaining]_<<vars, paged_vars>>
<1>1. HeadInit => BothInTime
  BY InitInTime, SameInit, P!InitInTime, PagedAssumptions
  DEF HeadInit, BothInTime
<1>2. HeadInv /\ BothInTime /\ [HeadNext]_<<vars, paged_vars>> => BothInTime'
  BY BothShrink
<1>3. HeadInv /\ BothInTime => BothRemaining \in Nat
  BY RemainingType, P!RemainingType, PagedAssumptions
  DEF HeadInv, BothInTime, BothRemaining
<1>4. HeadInv /\ BothInTime /\ [HeadNext]_<<vars, paged_vars>>
        => [BothRemaining' < BothRemaining]_<<vars, paged_vars>>
  BY BothShrink
<1> QED
  BY <1>1, <1>2, <1>3, <1>4, HeadInitInv, HeadNextInv, PTL DEF HeadSpec
=============================================================================
