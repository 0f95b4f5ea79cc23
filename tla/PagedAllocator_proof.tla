------------------------ MODULE PagedAllocator_proof ------------------------
(***************************************************************************)
(* Proofs about PagedAllocator, for every set of requests, every workload, *)
(* every pool and every block size: its types, the ownership of the        *)
(* blocks, what the requests read from them, why requests are rejected,    *)
(* and that the run is finite.                                             *)
(***************************************************************************)
EXTENDS PagedAllocator, BlockPool_proof

(* The requests whose arrival is still to come. *)
Waiting(r) ==
  \/ arrival_time[r] > step
  \/ arrival_time[r] = step /\ phase = "arrive"

(* A request that waits has left no trace. *)
Untouched ==
  \A r \in Requests :
    Waiting(r) => /\ r \notin active /\ status[r] = "new"
                  /\ tokens[r] = 0 /\ table[r] = <<>>

(* Only active requests hold blocks. *)
OnlyActiveHold == \A r \in Requests : r \notin active => table[r] = <<>>

(* The token that was generated is the token that is stored. *)
TokensStored ==
  \A r \in active : \A i \in 0 .. tokens[r] - 1 :
    ReadToken(pool, table[r], i) = <<r, i>>

(* A free block keeps nothing of its last owner. *)
FreeIsBlank == \A b \in pool.free : pool.data[b] = Blank

(* The status of a request tells where it is in its life. *)
Lifecycle ==
  \A r \in Requests :
    /\ status[r] = "new" => Waiting(r)
    /\ status[r] = "active" => r \in active /\ r \notin finished
    /\ r \in active /\ status[r] # "active" =>
         phase = "generate" /\ r \in finished
    /\ r \in todo => status[r] = "active" /\ phase = "generate"
    /\ phase = "done" => r \notin active /\ arrival_time[r] < step

-----------------------------------------------------------------------------
(* An active request that runs has one token per step since its arrival,    *)
(* the one of this step included once the loop served it.                   *)
Progress ==
  \A r \in Requests :
    /\ status[r] = "active" =>
         /\ tokens[r] < actual_length[r]
         /\ tokens[r] = step - arrival_time[r]
                        + (IF phase = "generate" /\ r \notin todo THEN 1 ELSE 0)
    /\ status[r] = "completed" =>
         /\ tokens[r] = actual_length[r]
         /\ finished_at[r] = arrival_time[r] + actual_length[r] - 1

IInv ==
  /\ TypeOK
  /\ NoSharedBlocks
  /\ Untouched
  /\ OnlyActiveHold
  /\ NoIdleBlocks
  /\ TokensStored
  /\ FreeIsBlank
  /\ Lifecycle
  /\ Progress

-----------------------------------------------------------------------------
(* A new block extends the table of r and costs the pool one block. *)
LEMMA NewBlockType ==
  ASSUME TypeOK, NEW r \in Requests, NEW b \in Blocks, Least(b, pool.free)
  PROVE  /\ b \in pool.free
         /\ Allocate(pool, b, r) \in Pool
         /\ Append(table[r], b) \in Seq(Blocks)
<1>1. b \in pool.free
  BY DEF Least
<1>2. Allocate(pool, b, r) \in Pool
  BY AllocateType DEF TypeOK
<1>3. table[r] \in Seq(Blocks)
  BY DEF TypeOK
<1> QED  BY <1>1, <1>2, <1>3, AppendRange

(* The end of the step releases blocks of the pool. *)
LEMMA ReleasedType ==
  ASSUME TypeOK
  PROVE  ReleasedBlocks \in SUBSET Blocks
<1>1. ASSUME NEW r \in finished
      PROVE  Range(table[r]) \subseteq Blocks
  <2>1. table[r] \in Seq(Blocks)
    BY DEF TypeOK
  <2> QED  BY <2>1 DEF Range
<1> QED  BY <1>1 DEF ReleasedBlocks

(* Storing a token keeps every type, if the pool and the table it is stored *)
(* through are of theirs.                                                   *)
LEMMA StoreTokenType ==
  ASSUME TypeOK, NEW r \in Requests, NEW p \in Pool, NEW t \in Seq(Blocks),
         Serve(r), StoreToken(r, p, t)
  PROVE  TypeOK'
<1>1. tokens[r] \in Nat /\ tokens[r] + 1 \in Nat
  BY DEF TypeOK
<1>2. <<r, tokens[r]>> \in Token
  BY <1>1 DEF Token
<1>3. pool' \in Pool
  BY <1>2, WriteType DEF StoreToken
<1>4. table' \in [Requests -> Seq(Blocks)]
  BY DEF TypeOK, StoreToken
<1>5. tokens' \in [Requests -> Nat]
  BY <1>1 DEF TypeOK, StoreToken
<1>6. peak' \in 0 .. TotalBlocks
  BY AllocatedCountType DEF TypeOK, StoreToken
<1>7. /\ status' \in [Requests -> Statuses]
      /\ finished_at' \in [Requests -> Nat \cup {None}]
      /\ finished' \subseteq Requests
  <2>1. CASE LastToken(r)
    BY <2>1 DEF TypeOK, StoreToken, Statuses
  <2>2. CASE ~LastToken(r)
    BY <2>2 DEF TypeOK, StoreToken
  <2> QED  BY <2>1, <2>2
<1>8. /\ arrival_time' \in [Requests -> 0 .. MaxArrival]
      /\ actual_length' \in [Requests -> 1 .. MaxLength]
      /\ step' \in Nat
      /\ phase' \in {"arrive", "generate", "done"}
      /\ todo' \subseteq active'
      /\ active' \subseteq Requests
  BY DEF TypeOK, Serve, workload
<1> QED  BY <1>3, <1>4, <1>5, <1>6, <1>7, <1>8 DEF TypeOK

(* The types at the start. *)
LEMMA InitType ==
  ASSUME Init
  PROVE  TypeOK
<1>1. pool \in Pool
  BY NewPoolType DEF Init
<1>2. /\ status \in [Requests -> Statuses]
      /\ tokens \in [Requests -> Nat]
      /\ table \in [Requests -> Seq(Blocks)]
      /\ finished_at \in [Requests -> Nat \cup {None}]
  BY EmptyTable DEF Init, Statuses
<1>3. peak \in 0 .. TotalBlocks
  BY BlockPoolAssumption DEF Init
<1> QED  BY <1>1, <1>2, <1>3 DEF Init, TypeOK

(* Every action keeps the types. *)
LEMMA NextType ==
  ASSUME TypeOK, [Next]_vars
  PROVE  TypeOK'
<1>1. CASE Arrive
  BY <1>1 DEF TypeOK, Arrive, Statuses, workload
<1>2. ASSUME NEW r \in Requests, GenerateInBlock(r)
      PROVE  TypeOK'
  <2>1. pool \in Pool /\ table[r] \in Seq(Blocks)
    BY DEF TypeOK
  <2> QED  BY <1>2, <2>1, StoreTokenType DEF GenerateInBlock
<1>3. ASSUME NEW r \in Requests, NEW b \in Blocks, GenerateInNewBlock(r, b)
      PROVE  TypeOK'
  BY <1>3, NewBlockType, StoreTokenType DEF GenerateInNewBlock
<1>4. ASSUME NEW r \in Requests, Reject(r)
      PROVE  TypeOK'
  BY <1>4 DEF TypeOK, Reject, Serve, Statuses, workload
<1>5. CASE EndStep
  <2>1. pool' \in Pool
    BY <1>5, ReleasedType, FreeType DEF TypeOK, EndStep
  <2>2. table' \in [Requests -> Seq(Blocks)]
    BY <1>5, EmptyTable DEF TypeOK, EndStep
  <2> QED  BY <1>5, <2>1, <2>2 DEF TypeOK, EndStep, workload
<1>6. CASE Return
  BY <1>6 DEF TypeOK, Return, workload
<1>7. CASE UNCHANGED vars
  BY <1>7 DEF TypeOK, vars, workload
<1> QED  BY <1>1, <1>2, <1>3, <1>4, <1>5, <1>6, <1>7 DEF Next, Terminated

(* Every variable of the allocator keeps its type, whatever the workload:   *)
(* the peak of used blocks never exceeds the pool.                          *)
THEOREM TypeCorrect == Spec => []TypeOK
<1>1. Init => TypeOK
  BY InitType
<1>2. TypeOK /\ [Next]_vars => TypeOK'
  BY NextType
<1> QED  BY <1>1, <1>2, PTL DEF Spec

-----------------------------------------------------------------------------
(* Pool p and table t are those of r when its next token is about to be     *)
(* stored: there is room for it, and no stored token moved.                 *)
Prepared(r, p, t) ==
  /\ p \in Pool
  /\ t \in Seq(Blocks)
  /\ Len(t) = BlockOf(tokens[r]) + 1
  /\ BlocksAccounted(p, [table EXCEPT ![r] = t])
  /\ \A b \in p.free : p.data[b] = Blank
  /\ \A s \in active : \A i \in 0 .. tokens[s] - 1 :
       ReadToken(p, [table EXCEPT ![r] = t][s], i) = <<s, i>>

Generate(r, p, t) ==
  /\ Prepared(r, p, t)
  /\ Serve(r)
  /\ StoreToken(r, p, t)

(* What the request that the loop serves looks like. *)
LEMMA Served ==
  ASSUME IInv, NEW r \in Requests, Serve(r)
  PROVE  /\ r \in active /\ r \in todo /\ r \notin finished
         /\ status[r] = "active" /\ phase = "generate"
         /\ tokens[r] \in Nat /\ tokens[r] + 1 \in Nat
         /\ table[r] \in Seq(Blocks)
         /\ Len(table[r]) = BlocksFor(tokens[r])
<1>1. r \in todo /\ r \in active
  BY DEF IInv, TypeOK, Serve, Least
<1>2. status[r] = "active" /\ phase = "generate" /\ r \notin finished
  BY <1>1 DEF IInv, Lifecycle
<1>3. tokens[r] \in Nat /\ table[r] \in Seq(Blocks)
  BY DEF IInv, TypeOK
<1> QED  BY <1>1, <1>2, <1>3 DEF IInv, NoIdleBlocks

(* Every stored token has its place in the table of its request. *)
LEMMA StoredPlace ==
  ASSUME TypeOK, NoIdleBlocks, NEW s \in active, NEW i \in 0 .. tokens[s] - 1
  PROVE  s \in Requests /\ i \in Nat /\ BlockOf(i) < Len(table[s])
<1>1. s \in Requests /\ tokens[s] \in Nat
  BY DEF TypeOK
<1>2. i \in Nat /\ BlockOf(i) < BlocksFor(tokens[s])
  BY <1>1, BlockOfBelow
<1> QED  BY <1>1, <1>2 DEF NoIdleBlocks

(* The last block of the request has a slot left. *)
LEMMA PreparedInBlock ==
  ASSUME IInv, NEW r \in Requests, GenerateInBlock(r)
  PROVE  Generate(r, pool, table[r])
<1>1. Serve(r) /\ StoreToken(r, pool, table[r]) /\ BlockOf(tokens[r]) # Len(table[r])
  BY DEF GenerateInBlock, NeedsBlock
<1>2. pool \in Pool /\ table \in [Requests -> Seq(Blocks)]
  BY DEF IInv, TypeOK
<1>3. [table EXCEPT ![r] = table[r]] = table
  BY <1>2
<1>4. Len(table[r]) = BlockOf(tokens[r]) + 1
  BY <1>1, Served, BlocksForNext
<1>5. /\ BlocksAccounted(pool, [table EXCEPT ![r] = table[r]])
      /\ \A b \in pool.free : pool.data[b] = Blank
  BY <1>3 DEF IInv, NoSharedBlocks, FreeIsBlank
<1>6. \A s \in active : \A i \in 0 .. tokens[s] - 1 :
        ReadToken(pool, [table EXCEPT ![r] = table[r]][s], i) = <<s, i>>
  BY <1>3 DEF IInv, TokensStored
<1> QED  BY <1>1, <1>2, <1>4, <1>5, <1>6 DEF Generate, Prepared

(* A free block becomes the last block of the request. *)
LEMMA PreparedInNewBlock ==
  ASSUME IInv, NEW r \in Requests, NEW b \in Blocks, GenerateInNewBlock(r, b)
  PROVE  Generate(r, Allocate(pool, b, r), Append(table[r], b))
<1> DEFINE p == Allocate(pool, b, r)
           t == Append(table[r], b)
<1>1. /\ Serve(r) /\ StoreToken(r, p, t)
      /\ BlockOf(tokens[r]) = Len(table[r]) /\ Least(b, pool.free)
  BY DEF GenerateInNewBlock, NeedsBlock
<1>2. /\ pool \in Pool /\ table \in [Requests -> Seq(Blocks)]
      /\ BlocksAccounted(pool, table) /\ TypeOK
  BY DEF IInv, TypeOK, NoSharedBlocks
<1>3. b \in pool.free /\ p \in Pool /\ t \in Seq(Blocks)
  BY <1>1, <1>2, NewBlockType
<1>4. Len(t) = BlockOf(tokens[r]) + 1
  BY <1>1, Served
<1>5. BlocksAccounted(p, [table EXCEPT ![r] = t])
  BY <1>2, <1>3, AllocateAccounted
<1>6. \A c \in p.free : p.data[c] = Blank
  <2>1. p.free \subseteq pool.free /\ \A c \in p.free : c # b
    BY <1>2, <1>3 DEF Allocate, Pool
  <2>2. \A c \in Blocks \ {b} : p.data[c] = pool.data[c]
    BY <1>2 DEF Allocate, Pool
  <2>3. \A c \in pool.free : c \in Blocks /\ pool.data[c] = Blank
    BY <1>2 DEF IInv, FreeIsBlank, Pool
  <2> QED  BY <2>1, <2>2, <2>3
<1>7. ASSUME NEW s \in active, NEW i \in 0 .. tokens[s] - 1
      PROVE  ReadToken(p, [table EXCEPT ![r] = t][s], i) = <<s, i>>
  <2>1. s \in Requests /\ i \in Nat /\ BlockOf(i) < Len(table[s])
    BY StoredPlace DEF IInv
  <2>2. /\ ReadToken(p, table[s], i) = ReadToken(pool, table[s], i)
        /\ ReadToken(p, Append(table[s], b), i) = ReadToken(pool, table[s], i)
    BY <1>2, <1>3, <2>1, AllocateReads
  <2>3. ReadToken(pool, table[s], i) = <<s, i>>
    BY DEF IInv, TokensStored
  <2>4. [table EXCEPT ![r] = t][s] = IF s = r THEN Append(table[s], b) ELSE table[s]
    BY <1>2, <2>1
  <2> HIDE DEF p, t
  <2> QED  BY <2>2, <2>3, <2>4
<1> HIDE DEF p, t
<1>8. Prepared(r, p, t)
  BY <1>3, <1>4, <1>5, <1>6, <1>7 DEF Prepared
<1> QED  BY <1>1, <1>8 DEF Generate, p, t

(* What a step can be, once it is known that generation finds its room.     *)
LEMMA StepCases ==
  ASSUME IInv, [Next]_vars
  PROVE  \/ Arrive
         \/ \E r \in Requests, p \in Pool, t \in Seq(Blocks) : Generate(r, p, t)
         \/ \E r \in Requests : Reject(r)
         \/ EndStep
         \/ Return
         \/ UNCHANGED vars
<1>1. ASSUME NEW r \in Requests, GenerateInBlock(r)
      PROVE  \E p \in Pool, t \in Seq(Blocks) : Generate(r, p, t)
  BY <1>1, PreparedInBlock DEF Generate, Prepared
<1>2. ASSUME NEW r \in Requests, NEW b \in Blocks, GenerateInNewBlock(r, b)
      PROVE  \E p \in Pool, t \in Seq(Blocks) : Generate(r, p, t)
  BY <1>2, PreparedInNewBlock DEF Generate, Prepared
<1> QED  BY <1>1, <1>2 DEF Next, Terminated

-----------------------------------------------------------------------------
(* Each part of the invariant is preserved. *)
LEMMA SharedStep ==
  ASSUME IInv, [Next]_vars
  PROVE  NoSharedBlocks'
<1>1. /\ pool \in Pool /\ table \in [Requests -> Seq(Blocks)]
      /\ BlocksAccounted(pool, table) /\ finished \in SUBSET Requests
  BY DEF IInv, TypeOK, NoSharedBlocks
<1>2. SUFFICES BlocksAccounted(pool', table')
  BY DEF NoSharedBlocks, BlocksAccounted
<1>3. ASSUME NEW r \in Requests, NEW p \in Pool, NEW t \in Seq(Blocks),
             Generate(r, p, t)
      PROVE  BlocksAccounted(pool', table')
  <2>1. <<r, tokens[r]>> \in Token
    BY <1>3, Served DEF Token, Generate
  <2> QED  BY <1>3, <2>1, WriteAccounted DEF Generate, Prepared, StoreToken
<1>4. CASE EndStep
  BY <1>1, <1>4, FreeAccounted DEF EndStep, ReleasedBlocks
<1>5. CASE Arrive \/ Return \/ UNCHANGED vars \/ \E r \in Requests : Reject(r)
  BY <1>1, <1>5 DEF Arrive, Return, vars, Reject
<1> QED  BY <1>3, <1>4, <1>5, StepCases

(* Where the requests are after a token was stored. *)
LEMMA GenerateEffect ==
  ASSUME IInv, NEW r \in Requests, NEW p \in Pool, NEW t \in Seq(Blocks),
         Generate(r, p, t)
  PROVE  /\ r \in active /\ r \in todo /\ status[r] = "active"
         /\ todo' = todo \ {r}
         /\ UNCHANGED <<arrival_time, actual_length, step, phase, active>>
         /\ \A s \in Requests :
              /\ tokens'[s] = IF s = r THEN tokens[s] + 1 ELSE tokens[s]
              /\ table'[s] = IF s = r THEN t ELSE table[s]
              /\ s # r => /\ status'[s] = status[s]
                          /\ finished_at'[s] = finished_at[s]
                          /\ s \in finished' <=> s \in finished
         /\ IF LastToken(r)
            THEN /\ status'[r] = "completed" /\ finished_at'[r] = step
                 /\ r \in finished'
            ELSE /\ status'[r] = "active" /\ r \notin finished'
<1>1. Serve(r) /\ StoreToken(r, p, t) /\ TypeOK
  BY DEF Generate, IInv
<1>2. /\ r \in active /\ r \in todo /\ status[r] = "active"
      /\ r \notin finished
  BY <1>1, Served
<1>3. /\ todo' = todo \ {r}
      /\ UNCHANGED <<arrival_time, actual_length, step, phase, active>>
  BY <1>1 DEF Serve, workload
<1>4. \A s \in Requests :
        /\ tokens'[s] = IF s = r THEN tokens[s] + 1 ELSE tokens[s]
        /\ table'[s] = IF s = r THEN t ELSE table[s]
  BY <1>1 DEF StoreToken, TypeOK
<1>5. CASE LastToken(r)
  BY <1>1, <1>2, <1>3, <1>4, <1>5 DEF StoreToken, TypeOK
<1>6. CASE ~LastToken(r)
  BY <1>1, <1>2, <1>3, <1>4, <1>6 DEF StoreToken, TypeOK
<1> QED  BY <1>5, <1>6

(* Where the requests are after one was rejected. *)
LEMMA RejectEffect ==
  ASSUME IInv, NEW r \in Requests, Reject(r)
  PROVE  /\ r \in active /\ r \in todo /\ status[r] = "active"
         /\ todo' = todo \ {r} /\ finished' = finished \cup {r}
         /\ UNCHANGED <<arrival_time, actual_length, step, phase, active,
                        tokens, table, finished_at, pool>>
         /\ status'[r] = "rejected"
         /\ \A s \in Requests : s # r => status'[s] = status[s]
<1>1. Serve(r) /\ TypeOK
  BY DEF Reject, IInv
<1> QED  BY <1>1, Served DEF Reject, Serve, TypeOK, workload

LEMMA UntouchedStep ==
  ASSUME IInv, [Next]_vars
  PROVE  Untouched'
<1>1. TypeOK /\ Untouched /\ Lifecycle
  BY DEF IInv
<1> SUFFICES ASSUME NEW q \in Requests, Waiting(q)'
             PROVE  /\ q \notin active' /\ status'[q] = "new"
                    /\ tokens'[q] = 0 /\ table'[q] = <<>>
  BY DEF Untouched
<1>2. arrival_time' = arrival_time /\ step \in Nat /\ arrival_time[q] \in Nat
  BY <1>1 DEF Next, vars, workload, Arrive, GenerateInBlock, GenerateInNewBlock,
              Reject, Serve, EndStep, Return, Terminated, TypeOK
<1>3. CASE Arrive
  BY <1>1, <1>2, <1>3 DEF Arrive, Waiting, Untouched, TypeOK
<1>4. ASSUME NEW r \in Requests, NEW p \in Pool, NEW t \in Seq(Blocks),
             Generate(r, p, t)
      PROVE  /\ q \notin active' /\ status'[q] = "new"
             /\ tokens'[q] = 0 /\ table'[q] = <<>>
  <2>1. Waiting(q)
    BY <1>4, GenerateEffect DEF Waiting
  <2> QED  BY <1>1, <1>4, <2>1, GenerateEffect DEF Untouched
<1>5. ASSUME NEW r \in Requests, Reject(r)
      PROVE  /\ q \notin active' /\ status'[q] = "new"
             /\ tokens'[q] = 0 /\ table'[q] = <<>>
  <2>1. Waiting(q)
    BY <1>5, RejectEffect DEF Waiting
  <2> QED  BY <1>1, <1>5, <2>1, RejectEffect DEF Untouched
<1>6. CASE EndStep
  BY <1>1, <1>2, <1>6 DEF EndStep, Waiting, Untouched, TypeOK
<1>7. CASE Return
  BY <1>1, <1>2, <1>7 DEF Return, Waiting, Untouched
<1>8. CASE UNCHANGED vars
  BY <1>1, <1>8 DEF vars, workload, Waiting, Untouched
<1> QED  BY <1>3, <1>4, <1>5, <1>6, <1>7, <1>8, StepCases

LEMMA HoldStep ==
  ASSUME IInv, [Next]_vars
  PROVE  OnlyActiveHold'
<1>1. TypeOK /\ OnlyActiveHold
  BY DEF IInv
<1> SUFFICES ASSUME NEW q \in Requests, q \notin active'
             PROVE  table'[q] = <<>>
  BY DEF OnlyActiveHold
<1>2. CASE Arrive
  BY <1>1, <1>2 DEF Arrive, OnlyActiveHold
<1>3. ASSUME NEW r \in Requests, NEW p \in Pool, NEW t \in Seq(Blocks),
             Generate(r, p, t)
      PROVE  table'[q] = <<>>
  BY <1>1, <1>3, GenerateEffect DEF OnlyActiveHold
<1>4. ASSUME NEW r \in Requests, Reject(r)
      PROVE  table'[q] = <<>>
  BY <1>1, <1>4, RejectEffect DEF OnlyActiveHold
<1>5. CASE EndStep
  BY <1>1, <1>5 DEF EndStep, OnlyActiveHold
<1>6. CASE Return \/ UNCHANGED vars
  BY <1>1, <1>6 DEF Return, vars, OnlyActiveHold
<1> QED  BY <1>2, <1>3, <1>4, <1>5, <1>6, StepCases

LEMMA IdleStep ==
  ASSUME IInv, [Next]_vars
  PROVE  NoIdleBlocks'
<1>1. TypeOK /\ Untouched /\ NoIdleBlocks
  BY DEF IInv
<1> SUFFICES ASSUME NEW q \in active'
             PROVE  Len(table'[q]) = BlocksFor(tokens'[q])
  BY DEF NoIdleBlocks, BlocksFor
<1>2. CASE Arrive
  <2>1. CASE q \in active
    BY <1>1, <1>2, <2>1 DEF Arrive, NoIdleBlocks
  <2>2. CASE q \notin active
    <3>1. q \in Requests /\ Waiting(q)
      BY <1>2, <2>2 DEF Arrive, Waiting
    <3>2. table[q] = <<>> /\ tokens[q] = 0
      BY <1>1, <3>1 DEF Untouched
    <3>3. BlocksFor(0) = 0
      BY BlocksForNext
    <3> QED  BY <1>2, <3>2, <3>3 DEF Arrive
  <2> QED  BY <2>1, <2>2
<1>3. ASSUME NEW r \in Requests, NEW p \in Pool, NEW t \in Seq(Blocks),
             Generate(r, p, t)
      PROVE  Len(table'[q]) = BlocksFor(tokens'[q])
  <2>1. q \in active /\ q \in Requests
    BY <1>1, <1>3, GenerateEffect DEF TypeOK
  <2>2. CASE q = r
    <3>1. Len(t) = BlockOf(tokens[r]) + 1 /\ tokens[r] \in Nat
      BY <1>3, Served DEF Generate, Prepared
    <3> QED  BY <1>3, <2>1, <2>2, <3>1, GenerateEffect, BlocksForNext
  <2>3. CASE q # r
    BY <1>1, <1>3, <2>1, <2>3, GenerateEffect DEF NoIdleBlocks
  <2> QED  BY <2>2, <2>3
<1>4. ASSUME NEW r \in Requests, Reject(r)
      PROVE  Len(table'[q]) = BlocksFor(tokens'[q])
  BY <1>1, <1>4, RejectEffect DEF NoIdleBlocks
<1>5. CASE EndStep
  BY <1>1, <1>5 DEF EndStep, NoIdleBlocks, TypeOK
<1>6. CASE Return \/ UNCHANGED vars
  BY <1>1, <1>6 DEF Return, vars, NoIdleBlocks
<1> QED  BY <1>2, <1>3, <1>4, <1>5, <1>6, StepCases

LEMMA StoredStep ==
  ASSUME IInv, [Next]_vars
  PROVE  TokensStored'
<1>1. /\ TypeOK /\ NoSharedBlocks /\ NoIdleBlocks /\ Untouched /\ TokensStored
      /\ pool \in Pool /\ table \in [Requests -> Seq(Blocks)]
      /\ BlocksAccounted(pool, table)
  BY DEF IInv, TypeOK, NoSharedBlocks
<1> SUFFICES ASSUME NEW q \in active', NEW i \in 0 .. tokens'[q] - 1
             PROVE  ReadToken(pool', table'[q], i) = <<q, i>>
  BY DEF TokensStored, ReadToken, BlockAt, BlockOf, OffsetOf
<1>2. CASE Arrive
  <2>1. CASE q \in active
    BY <1>1, <1>2, <2>1 DEF Arrive, TokensStored
  <2>2. CASE q \notin active
    <3>1. q \in Requests /\ Waiting(q)
      BY <1>2, <2>2 DEF Arrive, Waiting
    <3>2. tokens'[q] = 0
      BY <1>1, <1>2, <3>1 DEF Untouched, Arrive
    <3> QED  BY <3>2
  <2> QED  BY <2>1, <2>2
<1>3. ASSUME NEW r \in Requests, NEW p \in Pool, NEW t \in Seq(Blocks),
             Generate(r, p, t)
      PROVE  ReadToken(pool', table'[q], i) = <<q, i>>
  <2> DEFINE u == [table EXCEPT ![r] = t]
             n == tokens[r]
  <2>0. n \in Nat /\ BlockOf(n) \in Nat
    BY <1>3, Served, BlocksForNext DEF Generate
  <2>1. /\ u \in [Requests -> Seq(Blocks)] /\ BlocksAccounted(p, u)
        /\ u[r] = t /\ Len(t) = BlockOf(n) + 1 /\ BlockOf(n) < Len(u[r])
    BY <1>1, <1>3, <2>0 DEF Generate, Prepared
  <2>2. /\ table' = u
        /\ pool' = Write(p, BlockAt(u[r], n), OffsetOf(n), <<r, n>>)
    BY <1>3, <2>1 DEF Generate, StoreToken
  <2>3. /\ q \in Requests /\ q \in active
        /\ tokens'[q] = IF q = r THEN tokens[q] + 1 ELSE tokens[q]
        /\ tokens[q] \in Nat
    BY <1>1, <1>3, GenerateEffect DEF TypeOK
  <2>4. i \in Nat
    BY <2>3
  <2>5. ASSUME BlockOf(i) < Len(u[q])
        PROVE  ReadToken(pool', table'[q], i) =
                 IF q = r /\ i = n THEN <<r, n>> ELSE ReadToken(p, u[q], i)
    <3> DEFINE v == <<r, n>>
               w == Write(p, BlockAt(u[r], n), OffsetOf(n), v)
    <3>1. v \in Token
      BY <2>0 DEF Token
    <3> HIDE DEF u, n, v
    <3>2. /\ q = r /\ i = n => ReadToken(w, u[q], i) = v
          /\ ~(q = r /\ i = n) => ReadToken(w, u[q], i) = ReadToken(p, u[q], i)
      BY <2>0, <2>1, <2>3, <2>4, <2>5, <3>1, WriteReads
    <3> QED  BY <2>2, <3>2 DEF v
  <2>6. CASE q = r /\ i = n
    <3>1. BlockOf(i) < Len(u[q])
      BY <2>1, <2>6
    <3> HIDE DEF u, n
    <3> QED  BY <2>5, <2>6, <3>1
  <2>7. CASE ~(q = r /\ i = n)
    <3>1. i \in 0 .. tokens[q] - 1
      BY <2>0, <2>3, <2>7
    <3>2. BlockOf(i) < Len(table[q])
      BY <1>1, <2>3, <3>1, StoredPlace
    <3>3. BlockOf(i) \in Nat /\ BlocksFor(n) \in Nat
      BY <2>0, <2>4, BlocksForNext
    <3>4. BlockOf(i) < Len(u[q])
      <4>1. CASE q = r
        <5>1. /\ Len(table[r]) = BlocksFor(n)
              /\ BlocksFor(n) \in {BlockOf(n), BlockOf(n) + 1}
          BY <1>3, <2>0, Served, BlocksForNext DEF Generate
        <5>2. Len(u[q]) = BlockOf(n) + 1 /\ BlockOf(i) < BlocksFor(n)
          BY <2>1, <3>2, <4>1, <5>1
        <5> HIDE DEF u, n
        <5> QED  BY <2>0, <3>3, <5>1, <5>2
      <4>2. CASE q # r
        <5>1. u[q] = table[q]
          BY <1>1, <2>3, <4>2
        <5> QED  BY <3>2, <5>1
      <4> QED  BY <4>1, <4>2
    <3>5. ReadToken(p, u[q], i) = <<q, i>>
      BY <1>3, <2>3, <3>1 DEF Generate, Prepared
    <3> HIDE DEF u, n
    <3> QED  BY <2>5, <2>7, <3>4, <3>5
  <2> QED  BY <2>6, <2>7
<1>4. ASSUME NEW r \in Requests, Reject(r)
      PROVE  ReadToken(pool', table'[q], i) = <<q, i>>
  BY <1>1, <1>4, RejectEffect DEF TokensStored
<1>5. CASE EndStep
  <2>1. /\ q \in active \ finished /\ q \in Requests \ finished
        /\ i \in 0 .. tokens[q] - 1 /\ table'[q] = table[q]
        /\ finished \in SUBSET Requests
    BY <1>1, <1>5 DEF EndStep, TypeOK
  <2>2. ReadToken(pool, table[q], i) = <<q, i>>
    BY <1>1, <2>1 DEF TokensStored
  <2>3. i \in Nat /\ BlockOf(i) < Len(table[q])
    BY <1>1, <2>1, StoredPlace
  <2> QED  BY <1>1, <1>5, <2>1, <2>2, <2>3, FreeReads DEF EndStep, ReleasedBlocks
<1>6. CASE Return \/ UNCHANGED vars
  BY <1>1, <1>6 DEF Return, vars, TokensStored
<1> QED  BY <1>2, <1>3, <1>4, <1>5, <1>6, StepCases

LEMMA BlankStep ==
  ASSUME IInv, [Next]_vars
  PROVE  FreeIsBlank'
<1>1. FreeIsBlank /\ pool \in Pool
  BY DEF IInv, TypeOK
<1> SUFFICES ASSUME NEW b \in pool'.free
             PROVE  pool'.data[b] = Blank
  BY DEF FreeIsBlank, Blank, Offsets
<1>2. ASSUME NEW r \in Requests, NEW p \in Pool, NEW t \in Seq(Blocks),
             Generate(r, p, t)
      PROVE  pool'.data[b] = Blank
  <2> DEFINE u == [table EXCEPT ![r] = t]
             n == tokens[r]
  <2>0. table \in [Requests -> Seq(Blocks)] /\ n \in Nat /\ BlockOf(n) \in Nat
    BY <1>2, Served, BlocksForNext DEF Generate, IInv, TypeOK
  <2>1. /\ u \in [Requests -> Seq(Blocks)] /\ BlocksAccounted(p, u)
        /\ u[r] = t /\ BlockOf(n) < Len(u[r])
        /\ \A c \in p.free : p.data[c] = Blank
    BY <1>2, <2>0 DEF Generate, Prepared
  <2>2. pool' = Write(p, BlockAt(t, n), OffsetOf(n), <<r, n>>)
    BY <1>2 DEF Generate, StoreToken
  <2> HIDE DEF u, n
  <2>3. BlockAt(t, n) \notin p.free
    BY <2>0, <2>1, PlaceOwned
  <2>4. pool'.free = p.free /\ pool'.data =
          [p.data EXCEPT ![BlockAt(t, n)][OffsetOf(n)] = <<r, n>>]
    BY <2>2 DEF Write, Pool
  <2>5. b \in Blocks /\ b # BlockAt(t, n) /\ p.data[b] = Blank
    BY <2>1, <2>3, <2>4 DEF Pool
  <2> QED  BY <2>4, <2>5 DEF Pool
<1>3. CASE EndStep
  <2>1. ReleasedBlocks \in SUBSET Blocks
    BY ReleasedType DEF IInv
  <2> QED  BY <1>1, <1>3, <2>1 DEF EndStep, Free, FreeIsBlank, Pool
<1>4. CASE Arrive \/ Return \/ UNCHANGED vars \/ \E r \in Requests : Reject(r)
  BY <1>1, <1>4 DEF Arrive, Return, vars, Reject, FreeIsBlank
<1> QED  BY <1>2, <1>3, <1>4, StepCases

LEMMA LifecycleStep ==
  ASSUME IInv, [Next]_vars
  PROVE  Lifecycle'
<1>1. TypeOK /\ Untouched /\ Lifecycle
  BY DEF IInv
<1> SUFFICES ASSUME NEW q \in Requests
             PROVE  /\ status'[q] = "new" => Waiting(q)'
                    /\ status'[q] = "active" => q \in active' /\ q \notin finished'
                    /\ q \in active' /\ status'[q] # "active" =>
                         phase' = "generate" /\ q \in finished'
                    /\ q \in todo' => status'[q] = "active" /\ phase' = "generate"
                    /\ phase' = "done" => q \notin active' /\ arrival_time'[q] < step'
  BY DEF Lifecycle, Waiting
<1>2. /\ status[q] \in Statuses /\ arrival_time[q] \in Nat /\ step \in Nat
      /\ todo \subseteq active
      /\ phase \in {"arrive", "generate", "done"}
  BY <1>1 DEF TypeOK
<1>3. CASE Arrive
  <2>1. /\ phase = "arrive" /\ phase' = "generate" /\ finished' = {}
        /\ status'[q] = IF arrival_time[q] = step THEN "active" ELSE status[q]
        /\ q \in active' <=> q \in active \/ arrival_time[q] = step
        /\ todo' = active' /\ arrival_time' = arrival_time /\ step' = step
    BY <1>3 DEF Arrive, workload
  <2>2. q \in active => status[q] = "active"
    BY <1>1, <2>1 DEF Lifecycle
  <2> QED  BY <1>1, <1>2, <2>1, <2>2 DEF Lifecycle, Waiting
<1>4. ASSUME NEW r \in Requests, NEW p \in Pool, NEW t \in Seq(Blocks),
             Generate(r, p, t)
      PROVE  /\ status'[q] = "new" => Waiting(q)'
             /\ status'[q] = "active" => q \in active' /\ q \notin finished'
             /\ q \in active' /\ status'[q] # "active" =>
                  phase' = "generate" /\ q \in finished'
             /\ q \in todo' => status'[q] = "active" /\ phase' = "generate"
             /\ phase' = "done" => q \notin active' /\ arrival_time'[q] < step'
  <2>1. phase = "generate" /\ phase' = "generate"
    BY <1>4, Served, GenerateEffect DEF Generate
  <2>2. CASE q = r
    BY <1>4, <2>1, <2>2, GenerateEffect
  <2>3. CASE q # r
    BY <1>1, <1>2, <1>4, <2>1, <2>3, GenerateEffect DEF Lifecycle, Waiting
  <2> QED  BY <2>2, <2>3
<1>5. ASSUME NEW r \in Requests, Reject(r)
      PROVE  /\ status'[q] = "new" => Waiting(q)'
             /\ status'[q] = "active" => q \in active' /\ q \notin finished'
             /\ q \in active' /\ status'[q] # "active" =>
                  phase' = "generate" /\ q \in finished'
             /\ q \in todo' => status'[q] = "active" /\ phase' = "generate"
             /\ phase' = "done" => q \notin active' /\ arrival_time'[q] < step'
  <2>1. phase = "generate" /\ phase' = "generate"
    BY <1>5, Served, RejectEffect DEF Reject
  <2>2. CASE q = r
    BY <1>5, <2>1, <2>2, RejectEffect
  <2>3. CASE q # r
    BY <1>1, <1>2, <1>5, <2>1, <2>3, RejectEffect DEF Lifecycle, Waiting
  <2> QED  BY <2>2, <2>3
<1>6. CASE EndStep
  <2>1. /\ phase = "generate" /\ phase' = "arrive" /\ todo' = {}
        /\ status' = status /\ finished' = finished
        /\ active' = active \ finished
        /\ arrival_time' = arrival_time /\ step' = step + 1
    BY <1>6 DEF EndStep, workload
  <2>2. status[q] = "new" => Waiting(q)'
    BY <1>1, <1>2, <2>1 DEF Lifecycle, Waiting
  <2> QED  BY <1>1, <2>1, <2>2 DEF Lifecycle
<1>7. CASE Return
  <2>1. /\ phase' = "done" /\ active = {} /\ step > arrival_time[q]
        /\ UNCHANGED <<arrival_time, step, todo, finished, active, status>>
    BY <1>2, <1>7 DEF Return, ArrivalsRemain, workload
  <2> QED  BY <1>1, <1>2, <2>1 DEF Lifecycle, Waiting
<1>8. CASE UNCHANGED vars
  BY <1>1, <1>8 DEF vars, workload, Lifecycle, Waiting
<1> QED  BY <1>3, <1>4, <1>5, <1>6, <1>7, <1>8, StepCases

LEMMA ProgressStep ==
  ASSUME IInv, [Next]_vars
  PROVE  Progress'
<1>1. TypeOK /\ Untouched /\ Lifecycle /\ Progress
  BY DEF IInv
<1> DEFINE Due(q) == step - arrival_time[q]
                     + (IF phase = "generate" /\ q \notin todo THEN 1 ELSE 0)
<1> SUFFICES ASSUME NEW q \in Requests
             PROVE  /\ status'[q] = "active" =>
                         /\ tokens'[q] < actual_length'[q]
                         /\ tokens'[q] = Due(q)'
                    /\ status'[q] = "completed" =>
                         /\ tokens'[q] = actual_length'[q]
                         /\ finished_at'[q] =
                              arrival_time'[q] + actual_length'[q] - 1
  BY DEF Progress
<1>2. /\ status[q] \in Statuses /\ arrival_time[q] \in Nat /\ step \in Nat
      /\ tokens[q] \in Nat /\ actual_length[q] \in Nat /\ actual_length[q] >= 1
  BY <1>1, PagedAssumption DEF TypeOK
<1>3. CASE Arrive
  <2>1. /\ phase = "arrive" /\ phase' = "generate"
        /\ status'[q] = IF arrival_time[q] = step THEN "active" ELSE status[q]
        /\ todo' = active'
        /\ q \in active' <=> q \in active \/ arrival_time[q] = step
        /\ UNCHANGED <<arrival_time, actual_length, step, tokens, finished_at>>
    BY <1>3 DEF Arrive, workload
  <2>2. CASE arrival_time[q] = step
    BY <1>1, <1>2, <2>1, <2>2 DEF Untouched, Waiting
  <2>3. CASE arrival_time[q] # step
    BY <1>1, <1>2, <2>1, <2>3 DEF Progress, Lifecycle
  <2> QED  BY <2>2, <2>3
<1>4. ASSUME NEW r \in Requests, NEW p \in Pool, NEW t \in Seq(Blocks),
             Generate(r, p, t)
      PROVE  /\ status'[q] = "active" =>
                  /\ tokens'[q] < actual_length'[q]
                  /\ tokens'[q] = Due(q)'
             /\ status'[q] = "completed" =>
                  /\ tokens'[q] = actual_length'[q]
                  /\ finished_at'[q] = arrival_time'[q] + actual_length'[q] - 1
  <2>1. phase = "generate" /\ phase' = "generate"
    BY <1>4, Served, GenerateEffect DEF Generate
  <2>2. CASE q = r
    <3>1. tokens[r] < actual_length[r] /\ tokens[r] = step - arrival_time[r]
      BY <1>1, <1>2, <1>4, <2>1, <2>2, GenerateEffect DEF Progress
    <3>2. /\ tokens'[r] = tokens[r] + 1 /\ r \notin todo'
          /\ UNCHANGED <<arrival_time, actual_length, step>>
      BY <1>4, GenerateEffect
    <3>3. CASE LastToken(r)
      <4>1. tokens'[r] = actual_length'[r]
        BY <1>2, <2>2, <3>1, <3>2, <3>3 DEF LastToken
      <4>2. status'[r] = "completed" /\ finished_at'[r] = step
        BY <1>4, <3>3, GenerateEffect
      <4> QED  BY <1>2, <2>2, <3>1, <3>2, <4>1, <4>2 DEF LastToken
    <3>4. CASE ~LastToken(r)
      <4>1. tokens'[r] < actual_length'[r]
        BY <1>2, <2>2, <3>2, <3>4 DEF LastToken
      <4>2. status'[r] = "active"
        BY <1>4, <3>4, GenerateEffect
      <4> QED  BY <1>2, <2>1, <2>2, <3>1, <3>2, <4>1, <4>2
    <3> QED  BY <3>3, <3>4
  <2>3. CASE q # r
    BY <1>1, <1>4, <2>1, <2>3, GenerateEffect DEF Progress
  <2> QED  BY <2>2, <2>3
<1>5. ASSUME NEW r \in Requests, Reject(r)
      PROVE  /\ status'[q] = "active" =>
                  /\ tokens'[q] < actual_length'[q]
                  /\ tokens'[q] = Due(q)'
             /\ status'[q] = "completed" =>
                  /\ tokens'[q] = actual_length'[q]
                  /\ finished_at'[q] = arrival_time'[q] + actual_length'[q] - 1
  BY <1>1, <1>5, RejectEffect DEF Progress
<1>6. CASE EndStep
  BY <1>1, <1>2, <1>6 DEF EndStep, Progress, workload
<1>7. CASE Return
  BY <1>1, <1>2, <1>7 DEF Return, Progress, workload
<1>8. CASE UNCHANGED vars
  BY <1>1, <1>8 DEF vars, workload, Progress
<1> QED  BY <1>3, <1>4, <1>5, <1>6, <1>7, <1>8, StepCases

-----------------------------------------------------------------------------
LEMMA InitIInv == Init => IInv
<1> SUFFICES ASSUME Init  PROVE IInv
  OBVIOUS
<1>1. /\ active = {} /\ todo = {} /\ finished = {}
      /\ phase = "arrive" /\ step = 0
      /\ arrival_time \in [Requests -> 0 .. MaxArrival]
      /\ \A r \in Requests : /\ table[r] = <<>> /\ tokens[r] = 0
                             /\ status[r] = "new"
  BY DEF Init
<1>2. \A r \in Requests : Waiting(r)
  BY <1>1, PagedAssumption DEF Waiting
<1>3. NoSharedBlocks
  BY NewPoolAccounted DEF Init, NoSharedBlocks
<1>4. Untouched /\ OnlyActiveHold /\ NoIdleBlocks /\ TokensStored
  BY <1>1 DEF Untouched, OnlyActiveHold, NoIdleBlocks, TokensStored
<1>5. FreeIsBlank
  BY DEF Init, FreeIsBlank, NewPool
<1>6. Lifecycle /\ Progress
  BY <1>1, <1>2 DEF Lifecycle, Progress
<1>7. TypeOK
  BY InitType
<1> QED  BY <1>3, <1>4, <1>5, <1>6, <1>7 DEF IInv

LEMMA NextIInv == IInv /\ [Next]_vars => IInv'
<1> SUFFICES ASSUME IInv, [Next]_vars  PROVE IInv'
  OBVIOUS
<1>1. TypeOK'
  BY NextType DEF IInv
<1> QED  BY <1>1, SharedStep, UntouchedStep, HoldStep, IdleStep, StoredStep,
            BlankStep, LifecycleStep, ProgressStep DEF IInv

(* The inductive invariant holds of every behaviour. *)
THEOREM Invariance == Spec => []IInv
BY InitIInv, NextIInv, PTL DEF Spec

(* No physical block is ever in two places, orphaned or lost, between any   *)
(* two calls of run(): the pool's records and the page tables agree.        *)
THEOREM NoBlockShared == Spec => []NoSharedBlocks
<1>1. IInv => NoSharedBlocks
  BY DEF IInv
<1> QED  BY <1>1, Invariance, PTL

(* generate_one_token never finds a gap before the block of the next token  *)
(* and never leaves a request with a block it does not use.                 *)
THEOREM BlocksMatchTokens == Spec => []NoIdleBlocks
<1>1. IInv => NoIdleBlocks
  BY DEF IInv
<1> QED  BY <1>1, Invariance, PTL

(* Every token reads back as generated until its request is released, and   *)
(* nothing of the past can be reached through the page table afterwards.    *)
THEOREM TokensAlwaysReadable == Spec => []TokensReadable
<1>1. IInv => TokensReadable
  <2> SUFFICES ASSUME IInv, NEW r \in Requests, NEW i \in 0 .. MaxLength - 1
               PROVE  /\ r \in active /\ i < tokens[r] =>
                           /\ AccessError(pool, table[r], i) = "none"
                           /\ ReadToken(pool, table[r], i) = <<r, i>>
                      /\ r \notin active =>
                           AccessError(pool, table[r], i) = "BoundaryMissError"
    BY DEF TokensReadable
  <2>1. ASSUME r \in active, i < tokens[r]
        PROVE  /\ AccessError(pool, table[r], i) = "none"
               /\ ReadToken(pool, table[r], i) = <<r, i>>
    <3>1. /\ pool \in Pool /\ table \in [Requests -> Seq(Blocks)]
          /\ BlocksAccounted(pool, table) /\ tokens[r] \in Nat
          /\ TypeOK /\ NoIdleBlocks
      BY DEF IInv, TypeOK, NoSharedBlocks
    <3>2. i \in 0 .. tokens[r] - 1
      BY <2>1, <3>1
    <3>3. i \in Nat /\ BlockOf(i) < Len(table[r])
      BY <2>1, <3>1, <3>2, StoredPlace
    <3>4. /\ BlockOf(i) + 1 \in DOMAIN table[r]
          /\ BlockAt(table[r], i) \notin pool.free
      BY <3>1, <3>3, PlaceOwned
    <3> QED  BY <2>1, <3>2, <3>4 DEF AccessError, IInv, TokensStored
  <2>2. ASSUME r \notin active
        PROVE  AccessError(pool, table[r], i) = "BoundaryMissError"
    BY <2>2 DEF IInv, OnlyActiveHold, AccessError
  <2> QED  BY <2>1, <2>2
<1> QED  BY <1>1, Invariance, PTL

LEMMA OnTime == IInv => OnePerStep
<1> SUFFICES ASSUME IInv, NEW r \in Requests
             PROVE  /\ phase = "arrive" /\ r \in active =>
                         tokens[r] = step - arrival_time[r]
                    /\ status[r] = "completed" =>
                         /\ tokens[r] = actual_length[r]
                         /\ finished_at[r] =
                              arrival_time[r] + actual_length[r] - 1
  BY DEF OnePerStep
<1>1. step \in Nat /\ arrival_time[r] \in Nat
  BY DEF IInv, TypeOK
<1>2. phase = "arrive" /\ r \in active => status[r] = "active"
  BY DEF IInv, Lifecycle
<1> QED  BY <1>1, <1>2 DEF IInv, Progress

(* No request waits: one token per step from its arrival to its last.       *)
THEOREM NeverStalls == Spec => []OnePerStep
BY OnTime, Invariance, PTL

LEMMA ReturnsClean == IInv => NoLeakAtReturn
<1> SUFFICES ASSUME IInv, phase = "done"
             PROVE  /\ \A r \in Requests : status[r] \in {"completed", "rejected"}
                    /\ pool = NewPool
  BY DEF NoLeakAtReturn
<1>1. \A r \in Requests : r \notin active /\ arrival_time[r] < step
  BY DEF IInv, Lifecycle
<1>2. ASSUME NEW r \in Requests
      PROVE  status[r] \in {"completed", "rejected"}
  <2>1. status[r] \in Statuses /\ arrival_time[r] \in Nat /\ step \in Nat
    BY DEF IInv, TypeOK
  <2> QED  BY <1>1, <2>1 DEF IInv, Lifecycle, Waiting, Statuses
<1>3. \A r \in Requests : Range(table[r]) = {}
  BY <1>1, EmptyTable DEF IInv, OnlyActiveHold
<1>4. pool \in Pool /\ BlocksAccounted(pool, table)
  BY DEF IInv, TypeOK, NoSharedBlocks
<1>5. \A b \in Blocks : pool.owner[b] = None
  BY <1>3, <1>4 DEF BlocksAccounted, Pool
<1>6. pool.free = Blocks
  BY <1>4, <1>5 DEF BlocksAccounted, Pool
<1>7. \A b \in Blocks : pool.data[b] = Blank
  BY <1>6 DEF IInv, FreeIsBlank
<1>8. pool.owner = [b \in Blocks |-> None] /\ pool.data = [b \in Blocks |-> Blank]
  BY <1>4, <1>5, <1>7 DEF Pool
<1>9. pool = NewPool
  BY <1>4, <1>6, <1>8 DEF Pool, NewPool
<1> QED  BY <1>2, <1>9

(* When run() returns, every request has completed or was rejected and the  *)
(* pool is as it was created: the assertions that end run() cannot fail.    *)
THEOREM NothingLeaks == Spec => []NoLeakAtReturn
BY ReturnsClean, Invariance, PTL

-----------------------------------------------------------------------------
(* No request has generated more than it wants, the peak is one of the use  *)
(* of the pool, and who was rejected was so for a full pool.                *)
Justified ==
  /\ \A r \in Requests : tokens[r] <= actual_length[r]
  /\ AllocatedCount(pool) <= peak
  /\ RejectedOnlyIfFull

(* The blocks that request r would need. *)
Demand == [r \in Requests |-> BlocksFor(actual_length[r])]

(* Nobody holds more blocks than it would need, and only active requests    *)
(* hold any.                                                                *)
LEMMA DemandHeld ==
  ASSUME IInv, Justified
  PROVE  /\ \A q \in Requests :
               /\ Demand[q] \in Nat
               /\ Len(table[q]) \in Nat /\ Len(table[q]) <= Demand[q]
         /\ Pages(table) \in SUBSET Units(Demand, active)
         /\ IsFiniteSet(active) /\ active \in SUBSET Requests
         /\ AllocatedCount(pool) \in Nat
         /\ SumFunctionOnSet(Demand, active) \in Nat
         /\ AllocatedCount(pool) <= SumFunctionOnSet(Demand, active)
<1>1. /\ TypeOK /\ BlocksAccounted(pool, table) /\ pool \in Pool
      /\ table \in [Requests -> Seq(Blocks)]
  BY DEF IInv, TypeOK, NoSharedBlocks
<1>2. \A q \in Requests : /\ actual_length[q] \in Nat /\ tokens[q] \in 0 .. actual_length[q]
                          /\ Demand[q] = BlocksFor(actual_length[q])
                          /\ Demand[q] \in Nat
  <2>1. \A q \in Requests : /\ actual_length[q] \in Nat
                            /\ tokens[q] \in 0 .. actual_length[q]
    BY <1>1, PagedAssumption DEF Justified, TypeOK
  <2> QED  BY <2>1, BlocksForNext DEF Demand
<1>3. ASSUME NEW q \in Requests
      PROVE  /\ Len(table[q]) \in Nat /\ Len(table[q]) <= Demand[q]
             /\ q \notin active => Len(table[q]) = 0
  <2>1. CASE q \in active
    BY <1>2, <2>1, BlocksForMonotone DEF IInv, NoIdleBlocks
  <2>2. CASE q \notin active
    BY <1>2, <2>2 DEF IInv, OnlyActiveHold
  <2> QED  BY <2>1, <2>2
<1>4. IsFiniteSet(active) /\ active \in SUBSET Requests
  BY <1>1, BlockPoolAssumption, FS_Subset DEF TypeOK
<1>5. Pages(table) \in SUBSET Units(Demand, active)
  <2> SUFFICES ASSUME NEW q \in Requests, NEW k \in 1 .. Len(table[q])
               PROVE  <<q, k>> \in Units(Demand, active)
    BY DEF Pages
  <2> QED  BY <1>2, <1>3 DEF Units
<1>6. IsFiniteSet(Pages(table)) /\ Cardinality(Pages(table)) = AllocatedCount(pool)
  BY <1>1, PagesCounted
<1>7. /\ AllocatedCount(pool) \in Nat
      /\ SumFunctionOnSet(Demand, active) \in Nat
      /\ AllocatedCount(pool) <= SumFunctionOnSet(Demand, active)
  <2> DEFINE M == Pages(table)
  <2>1. M \in SUBSET Units(Demand, active) /\ Cardinality(M) = AllocatedCount(pool)
    BY <1>5, <1>6
  <2>2. \A q \in active : Demand[q] \in Nat
    BY <1>2, <1>4
  <2> HIDE DEF M
  <2> QED  BY <1>4, <2>1, <2>2, UnitsBelowSum
<1> QED  BY <1>2, <1>3, <1>4, <1>5, <1>7

(* A request that finds the pool full holds, with the other active ones,    *)
(* every block of it, and wants one more.                                   *)
LEMMA DemandExceeds ==
  ASSUME IInv, Justified, NEW r \in Requests, Reject(r)
  PROVE  /\ peak = TotalBlocks
         /\ SumFunctionOnSet(Demand, active) \in Nat
         /\ TotalBlocks + 1 <= SumFunctionOnSet(Demand, active)
<1>1. /\ TypeOK /\ BlocksAccounted(pool, table) /\ pool \in Pool
      /\ table \in [Requests -> Seq(Blocks)] /\ pool.free = {}
      /\ BlockOf(tokens[r]) = Len(table[r]) /\ Serve(r) /\ r \in active
  BY Served DEF IInv, TypeOK, NoSharedBlocks, Reject, NeedsBlock
<1>2. AllocatedCount(pool) = TotalBlocks /\ TotalBlocks \in Nat
  BY <1>1, FS_EmptySet, BlockPoolAssumption DEF AllocatedCount
<1>3. peak = TotalBlocks
  BY <1>1, <1>2 DEF Justified, TypeOK
<1>4. /\ \A q \in Requests : Demand[q] \in Nat /\ Len(table[q]) \in Nat
      /\ Pages(table) \in SUBSET Units(Demand, active)
      /\ IsFiniteSet(active) /\ active \in SUBSET Requests
  BY DemandHeld
<1> DEFINE next == <<r, Len(table[r]) + 1>>
<1>5. Len(table[r]) + 1 <= Demand[r]
  <2>1. tokens[r] < actual_length[r] /\ tokens[r] \in Nat
    BY <1>1, Served DEF IInv, Progress
  <2>2. BlocksFor(tokens[r] + 1) = BlockOf(tokens[r]) + 1
    BY <2>1, BlocksForNext
  <2>3. actual_length[r] \in Nat
    BY <1>1, PagedAssumption DEF TypeOK
  <2>4. BlocksFor(tokens[r] + 1) <= BlocksFor(actual_length[r])
    BY <2>1, <2>3, BlocksForMonotone
  <2> QED  BY <1>1, <2>2, <2>4 DEF Demand
<1>6. next \notin Pages(table) /\ next \in Units(Demand, active)
  BY <1>1, <1>4, <1>5 DEF Pages, Units
<1>7. IsFiniteSet(Pages(table)) /\ Cardinality(Pages(table)) = TotalBlocks
  BY <1>1, <1>2, PagesCounted
<1> HIDE DEF next
<1>8. Cardinality(Pages(table) \cup {next}) = TotalBlocks + 1
  BY <1>6, <1>7, FS_AddElement
<1>9. /\ SumFunctionOnSet(Demand, active) \in Nat
      /\ TotalBlocks + 1 <= SumFunctionOnSet(Demand, active)
  <2> DEFINE M == Pages(table) \cup {next}
  <2>1. M \in SUBSET Units(Demand, active) /\ Cardinality(M) = TotalBlocks + 1
    BY <1>4, <1>6, <1>8
  <2>2. \A q \in active : Demand[q] \in Nat
    BY <1>4
  <2> HIDE DEF M
  <2> QED  BY <1>4, <2>1, <2>2, UnitsBelowSum
<1> QED  BY <1>3, <1>9

(* So all requests together need more than the pool.                        *)
LEMMA WorkloadExceeds ==
  ASSUME IInv, Justified, NEW r \in Requests, Reject(r)
  PROVE  peak = TotalBlocks /\ SumFunction(Demand) > TotalBlocks
<1>1. /\ peak = TotalBlocks /\ SumFunctionOnSet(Demand, active) \in Nat
      /\ TotalBlocks + 1 <= SumFunctionOnSet(Demand, active)
  BY DemandExceeds
<1>2. /\ active \in SUBSET Requests /\ IsFiniteSet(Requests)
      /\ \A q \in Requests : Demand[q] \in Nat
  BY DemandHeld, BlockPoolAssumption
<1>3. /\ SumFunctionOnSet(Demand, Requests) \in Nat
      /\ SumFunctionOnSet(Demand, active) <= SumFunctionOnSet(Demand, Requests)
  BY <1>2, SumSubset
<1>4. SumFunction(Demand) = SumFunctionOnSet(Demand, Requests)
  BY DEF SumFunction, Demand
<1> QED  BY <1>1, <1>3, <1>4, BlockPoolAssumption

LEMMA JustifiedStep ==
  ASSUME IInv, Justified, [Next]_vars
  PROVE  Justified'
<1>1. TypeOK
  BY DEF IInv
<1>2. RejectedOnlyIfFull =
        ((\E r \in Requests : status[r] = "rejected") =>
           peak = TotalBlocks /\ SumFunction(Demand) > TotalBlocks)
  BY DEF RejectedOnlyIfFull, Demand
<1>3. actual_length' = actual_length => Demand' = Demand
  BY DEF Demand
<1>4. RejectedOnlyIfFull' =
        ((\E r \in Requests : status'[r] = "rejected") =>
           peak' = TotalBlocks /\ SumFunction(Demand') > TotalBlocks)
  BY DEF RejectedOnlyIfFull, Demand
<1>5. CASE Arrive
  <2>1. /\ UNCHANGED <<actual_length, tokens, pool, peak>>
        /\ \A r \in Requests : status'[r] = "rejected" => status[r] = "rejected"
    BY <1>1, <1>5 DEF Arrive, workload, TypeOK
  <2> QED  BY <1>2, <1>3, <1>4, <2>1 DEF Justified, AllocatedCount
<1>6. ASSUME NEW r \in Requests, NEW p \in Pool, NEW t \in Seq(Blocks),
             Generate(r, p, t)
      PROVE  Justified'
  <2>1. /\ actual_length' = actual_length
        /\ \A s \in Requests :
             tokens'[s] = IF s = r THEN tokens[s] + 1 ELSE tokens[s]
        /\ \A s \in Requests : status'[s] = "rejected" => status[s] = "rejected"
    BY <1>6, GenerateEffect
  <2>2. tokens[r] < actual_length[r]
    BY <1>6, GenerateEffect DEF IInv, Progress
  <2>3. \A s \in Requests : tokens'[s] <= actual_length'[s]
    <3>1. \A s \in Requests : /\ tokens[s] \in Nat /\ actual_length[s] \in Nat
                              /\ tokens[s] <= actual_length[s]
      BY <1>1, PagedAssumption DEF Justified, TypeOK
    <3> QED  BY <2>1, <2>2, <3>1
  <2>4. pool'.free = p.free
    <3>1. <<r, tokens[r]>> \in Token
      BY <1>1 DEF TypeOK, Token
    <3> QED  BY <1>6, <3>1, WriteType DEF Generate, StoreToken
  <2>5. AllocatedCount(pool') = AllocatedCount(p) /\ AllocatedCount(p) \in 0 .. TotalBlocks
    BY <2>4, AllocatedCountType DEF AllocatedCount
  <2>6. /\ AllocatedCount(p) <= peak'
        /\ peak = TotalBlocks => peak' = TotalBlocks
    BY <1>1, <1>6, <2>5, BlockPoolAssumption DEF Generate, StoreToken, TypeOK
  <2>7. AllocatedCount(pool)' <= peak'
    BY <2>5, <2>6 DEF AllocatedCount
  <2>8. RejectedOnlyIfFull'
    BY <1>2, <1>3, <1>4, <2>1, <2>6 DEF Justified
  <2> QED  BY <2>3, <2>7, <2>8 DEF Justified
<1>7. ASSUME NEW r \in Requests, Reject(r)
      PROVE  Justified'
  <2>1. UNCHANGED <<actual_length, tokens, pool, peak>>
    BY <1>7 DEF Reject, Serve, workload
  <2> QED  BY <1>3, <1>4, <1>7, <2>1, WorkloadExceeds DEF Justified, AllocatedCount
<1>8. CASE EndStep
  <2>1. /\ UNCHANGED <<actual_length, tokens, status, peak>>
        /\ pool' = Free(pool, ReleasedBlocks)
    BY <1>8 DEF EndStep, workload
  <2>2. /\ pool \in Pool /\ pool' \in Pool /\ pool.free \subseteq pool'.free
    BY <1>1, <2>1, ReleasedType, FreeType DEF TypeOK, Free
  <2>3. AllocatedCount(pool') <= AllocatedCount(pool)
    <3>1. IsFiniteSet(pool'.free)
      BY <2>2, BlocksFinite, FS_Subset DEF Pool
    <3>2. /\ Cardinality(pool.free) \in Nat /\ Cardinality(pool'.free) \in Nat
          /\ Cardinality(pool.free) <= Cardinality(pool'.free)
      BY <2>2, <3>1, FS_Subset, FS_CardinalityType
    <3> QED  BY <3>2, BlockPoolAssumption DEF AllocatedCount
  <2>4. /\ AllocatedCount(pool) \in Int /\ AllocatedCount(pool') \in Int /\ peak \in Int
    BY <1>1, <2>2, AllocatedCountType, BlockPoolAssumption DEF TypeOK
  <2>5. AllocatedCount(pool)' <= peak'
    BY <2>1, <2>3, <2>4 DEF Justified, AllocatedCount
  <2> QED  BY <1>2, <1>3, <1>4, <2>1, <2>5 DEF Justified
<1>9. CASE Return \/ UNCHANGED vars
  <2>1. UNCHANGED <<actual_length, tokens, status, pool, peak>>
    BY <1>9 DEF Return, vars, workload
  <2> QED  BY <1>2, <1>3, <1>4, <2>1 DEF Justified, AllocatedCount
<1> QED  BY <1>5, <1>6, <1>7, <1>8, <1>9, StepCases

LEMMA InitJustified == Init => Justified
<1> SUFFICES ASSUME Init  PROVE Justified
  OBVIOUS
<1>1. \A r \in Requests : tokens[r] <= actual_length[r]
  BY PagedAssumption DEF Init
<1>2. AllocatedCount(pool) = 0 /\ peak = 0
  BY BlocksFinite, BlockPoolAssumption DEF Init, NewPool, AllocatedCount
<1>3. RejectedOnlyIfFull
  BY DEF Init, RejectedOnlyIfFull
<1> QED  BY <1>1, <1>2, <1>3 DEF Justified

(* No request is ever rejected but by a pool that is full, in a workload    *)
(* whose requests together need more blocks than the pool has.              *)
THEOREM RejectionsJustified == Spec => []RejectedOnlyIfFull
<1>1. IInv /\ Justified /\ [Next]_vars => Justified'
  BY JustifiedStep
<1>2. Justified => RejectedOnlyIfFull
  BY DEF Justified
<1> QED  BY <1>1, <1>2, InitJustified, Invariance, PTL DEF Spec

-----------------------------------------------------------------------------
(* The requests of the workload that want a token in step t. *)
AliveAt(t) ==
  {r \in Requests : arrival_time[r] <= t
                    /\ t < arrival_time[r] + actual_length[r]}

(* If f[r] tokens are set aside for each request r, which is as much as its *)
(* blocks hold, then in no step are more than m set aside, and m fit.       *)
Afforded(f, m) ==
  /\ f \in [Requests -> Nat]
  /\ \A r \in Requests : BlocksFor(actual_length[r]) * BlockSize <= f[r]
  /\ m \in Nat /\ m < (TotalBlocks + 1) * BlockSize
  /\ \A t \in Nat : SumFunctionOnSet(f, AliveAt(t)) <= m

(* Only requests of the step hold blocks, nobody was rejected, and the peak *)
(* is at most m tokens.                                                     *)
Within(m) ==
  /\ active \subseteq AliveAt(step)
  /\ \A r \in Requests : status[r] # "rejected"
  /\ peak * BlockSize <= m

(* What active requests hold, and what they would hold with their last      *)
(* token, is within m.                                                      *)
LEMMA AffordedUse ==
  IInv /\ Justified /\ active \subseteq AliveAt(step) =>
    \A f, m : Afforded(f, m) =>
      /\ SumFunctionOnSet(Demand, active) * BlockSize <= m
      /\ AllocatedCount(pool) * BlockSize <= m
<1> SUFFICES ASSUME IInv, Justified, active \subseteq AliveAt(step),
                    NEW f, NEW m, Afforded(f, m)
             PROVE  /\ SumFunctionOnSet(Demand, active) * BlockSize <= m
                    /\ AllocatedCount(pool) * BlockSize <= m
  OBVIOUS
<1> DEFINE wanted == SumFunctionOnSet(Demand, active)
           aside == SumFunctionOnSet(f, active)
           all == SumFunctionOnSet(f, AliveAt(step))
<1>1. /\ IsFiniteSet(active) /\ active \in SUBSET Requests
      /\ \A r \in Requests : Demand[r] \in Nat
      /\ AllocatedCount(pool) \in Nat /\ wanted \in Nat
      /\ AllocatedCount(pool) <= wanted
  BY DemandHeld
<1>2. BlockSize \in Nat /\ step \in Nat /\ m \in Nat
  BY BlockPoolAssumption DEF IInv, TypeOK, Afforded
<1>3. wanted * BlockSize <= aside
  <2>1. \A r \in active : /\ f[r] \in Nat /\ Demand[r] \in Nat
                          /\ Demand[r] * BlockSize <= f[r]
    BY <1>1 DEF Demand, Afforded
  <2> QED  BY <1>1, <1>2, <2>1, SumScaled
<1>4. aside \in Nat /\ all \in Nat /\ aside <= all
  <2>1. AliveAt(step) \in SUBSET Requests /\ IsFiniteSet(AliveAt(step))
    BY BlockPoolAssumption, FS_Subset DEF AliveAt
  <2>2. \A r \in AliveAt(step) : f[r] \in Nat
    BY <2>1 DEF Afforded
  <2> QED  BY <2>1, <2>2, SumSubset
<1>5. all <= m
  BY <1>2 DEF Afforded
<1> HIDE DEF wanted, aside, all
<1>6. AllocatedCount(pool) * BlockSize <= wanted * BlockSize
  <2> DEFINE n == AllocatedCount(pool)
  <2>1. n \in Nat /\ n <= wanted
    BY <1>1
  <2> HIDE DEF n
  <2> QED  BY <1>1, <1>2, <2>1, MulMonotone DEF n
<1>7. wanted * BlockSize \in Nat /\ AllocatedCount(pool) * BlockSize \in Nat
  BY <1>1, <1>2
<1>8. wanted * BlockSize <= m /\ AllocatedCount(pool) * BlockSize <= m
  BY <1>2, <1>3, <1>4, <1>5, <1>6, <1>7
<1> QED  BY <1>8 DEF wanted

LEMMA AffordedUseNext ==
  IInv' /\ Justified' /\ (active \subseteq AliveAt(step))' =>
    \A f, m : Afforded(f, m)' =>
      /\ SumFunctionOnSet(Demand', active') * BlockSize <= m
      /\ AllocatedCount(pool') * BlockSize <= m
<1>1. (IInv /\ Justified /\ active \subseteq AliveAt(step) =>
         \A f, m : Afforded(f, m) =>
           /\ SumFunctionOnSet(Demand, active) * BlockSize <= m
           /\ AllocatedCount(pool) * BlockSize <= m)'
  BY AffordedUse, PTL
<1> QED  BY <1>1

(* A request that arrives wants its first token now; one that is active in  *)
(* the next step still has a token to come.                                 *)
LEMMA AliveStep ==
  ASSUME IInv, [Next]_vars, active \subseteq AliveAt(step)
  PROVE  (active \subseteq AliveAt(step))'
<1>1. /\ TypeOK /\ Lifecycle /\ Progress
      /\ \A q \in Requests : actual_length[q] \in Nat \ {0} /\ arrival_time[q] \in Nat
      /\ step \in Nat
  BY PagedAssumption DEF IInv, TypeOK
<1> DEFINE Lives(q, t) == /\ q \in Requests /\ arrival_time[q] <= t
                          /\ t < arrival_time[q] + actual_length[q]
<1>2. ASSUME UNCHANGED <<arrival_time, actual_length>>,
             \A q \in active' : Lives(q, step')
      PROVE  (active \subseteq AliveAt(step))'
  BY <1>2 DEF AliveAt
<1>3. \A q \in active : Lives(q, step)
  BY DEF AliveAt
<1>4. CASE Arrive
  <2>1. /\ active' = active \cup {r \in Requests : arrival_time[r] = step}
        /\ UNCHANGED <<arrival_time, actual_length, step>>
    BY <1>4 DEF Arrive, workload
  <2>2. \A q \in active' : Lives(q, step')
    BY <1>1, <1>3, <2>1
  <2> QED  BY <1>2, <2>1, <2>2
<1>5. CASE EndStep
  <2>1. /\ active' = active \ finished /\ step' = step + 1
        /\ phase = "generate" /\ todo = {}
        /\ UNCHANGED <<arrival_time, actual_length>>
    BY <1>5 DEF EndStep, workload
  <2>2. ASSUME NEW q \in active'  PROVE Lives(q, step')
    <3>1. /\ q \in active /\ q \in Requests /\ q \notin finished
          /\ tokens[q] \in Nat
      BY <1>1, <2>1 DEF TypeOK
    <3>2. status[q] = "active"
      BY <1>1, <3>1 DEF Lifecycle
    <3>3. tokens[q] < actual_length[q] /\ tokens[q] = step - arrival_time[q] + 1
      BY <1>1, <2>1, <3>1, <3>2 DEF Progress
    <3> QED  BY <1>1, <2>1, <3>1, <3>3
  <2> QED  BY <1>2, <2>1, <2>2
<1>6. ASSUME UNCHANGED <<arrival_time, actual_length, step, active>>
      PROVE  (active \subseteq AliveAt(step))'
  BY <1>2, <1>3, <1>6
<1>7. CASE \E r \in Requests, p \in Pool, t \in Seq(Blocks) : Generate(r, p, t)
  BY <1>6, <1>7, GenerateEffect
<1>8. CASE \E r \in Requests : Reject(r)
  BY <1>6, <1>8, RejectEffect
<1>9. CASE Return \/ UNCHANGED vars
  BY <1>6, <1>9 DEF Return, vars, workload
<1> QED  BY <1>4, <1>5, <1>7, <1>8, <1>9, StepCases

LEMMA InitWithin ==
  ASSUME Init, NEW m \in Nat
  PROVE  Within(m)
<1>1. /\ active = {} /\ peak = 0 /\ \A r \in Requests : status[r] = "new"
  BY DEF Init
<1>2. peak * BlockSize <= m
  BY <1>1, BlockPoolAssumption
<1> QED  BY <1>1, <1>2 DEF Within

(* A workload that can be afforded is served within what it affords, and    *)
(* nobody is rejected: who were would want one block more than there are.   *)
LEMMA WithinStep ==
  ASSUME IInv, Justified, [Next]_vars,
         NEW f, NEW m, Afforded(f, m), Within(m)
  PROVE  Within(m)'
<1>1. IInv' /\ Justified'
  BY NextIInv, JustifiedStep
<1>2. active \subseteq AliveAt(step) /\ (active \subseteq AliveAt(step))'
  BY AliveStep DEF Within
<1>3. UNCHANGED <<arrival_time, actual_length>>
  BY DEF Next, Arrive, GenerateInBlock, GenerateInNewBlock, Reject, Serve,
         EndStep, Return, Terminated, vars, workload
<1>4. Afforded(f, m)'
  BY <1>3 DEF Afforded, AliveAt
<1>5. ASSUME NEW r \in Requests, Reject(r)  PROVE FALSE
  <2> DEFINE wanted == SumFunctionOnSet(Demand, active)
  <2>1. wanted \in Nat /\ TotalBlocks + 1 <= wanted
    BY <1>5, DemandExceeds
  <2>2. wanted * BlockSize <= m
    BY <1>2, AffordedUse
  <2> HIDE DEF wanted
  <2>3. TotalBlocks + 1 \in Nat /\ BlockSize \in Nat /\ m \in Nat
    BY BlockPoolAssumption DEF Afforded
  <2> DEFINE n == TotalBlocks + 1
  <2>4. n \in Nat /\ n <= wanted /\ m < n * BlockSize
    BY <2>1, <2>3 DEF Afforded
  <2> HIDE DEF n
  <2>5. n * BlockSize <= wanted * BlockSize
    BY <2>1, <2>3, <2>4, MulMonotone
  <2>6. n * BlockSize \in Nat /\ wanted * BlockSize \in Nat
    BY <2>1, <2>3, <2>4
  <2> QED  BY <2>2, <2>3, <2>4, <2>5, <2>6
<1>6. \A r \in Requests : status'[r] # "rejected"
  <2> SUFFICES ASSUME NEW q \in Requests, status'[q] = "rejected"
               PROVE  FALSE
    OBVIOUS
  <2>1. status[q] # "rejected" /\ TypeOK
    BY DEF Within, IInv
  <2>2. CASE Arrive
    BY <2>1, <2>2 DEF Arrive
  <2>3. ASSUME NEW r \in Requests, NEW p \in Pool, NEW t \in Seq(Blocks),
               Generate(r, p, t)
        PROVE  FALSE
    <3>1. q # r => status'[q] = status[q]
      BY <2>3, GenerateEffect
    <3>2. status'[r] = "completed" \/ status'[r] = "active"
      BY <2>3, GenerateEffect
    <3> QED  BY <2>1, <3>1, <3>2
  <2>4. CASE EndStep \/ Return \/ UNCHANGED vars
    BY <2>1, <2>4 DEF EndStep, Return, vars
  <2> QED  BY <1>5, <2>2, <2>3, <2>4, StepCases
<1>7. peak' * BlockSize <= m
  <2>1. CASE peak' = peak
    BY <2>1 DEF Within
  <2>2. CASE peak' = AllocatedCount(pool')
    BY <1>1, <1>2, <1>4, <2>2, AffordedUseNext
  <2>3. ASSUME NEW r \in Requests, NEW p \in Pool, NEW t \in Seq(Blocks),
               Generate(r, p, t)
        PROVE  peak' = peak \/ peak' = AllocatedCount(pool')
    <3>1. <<r, tokens[r]>> \in Token
      BY DEF IInv, TypeOK, Token
    <3>2. pool'.free = p.free
      BY <2>3, <3>1, WriteType DEF Generate, StoreToken
    <3> QED  BY <2>3, <3>2 DEF Generate, StoreToken, AllocatedCount
  <2>4. CASE Arrive \/ EndStep \/ Return \/ UNCHANGED vars
    BY <2>1, <2>4 DEF Arrive, EndStep, Return, vars
  <2> QED  BY <1>5, <2>1, <2>2, <2>3, <2>4, StepCases
<1> QED  BY <1>2, <1>6, <1>7 DEF Within

-----------------------------------------------------------------------------
(* No request of any workload wants a token in this step or a later one. *)
LastStep == MaxArrival + MaxLength

(* A step is only begun while some request wants a token or is to arrive.   *)
InTime ==
  /\ active \subseteq AliveAt(step)
  /\ step <= LastStep
  /\ phase = "generate" => step < LastStep

(* What is left of the run: of the steps, and of the requests in this one. *)
Remaining ==
  (LastStep - step) * (Cardinality(Requests) + 3)
    + (CASE phase = "arrive"   -> Cardinality(Requests) + 2
         [] phase = "generate" -> Cardinality(todo) + 1
         [] phase = "done"     -> 0)

LEMMA LastStepType ==
  /\ LastStep \in Nat /\ MaxArrival \in Nat /\ MaxLength \in Nat \ {0}
  /\ LastStep = MaxArrival + MaxLength
  /\ Cardinality(Requests) \in Nat
BY PagedAssumption, BlockPoolAssumption, FS_CardinalityType DEF LastStep

LEMMA InTimeStep ==
  ASSUME IInv, InTime, [Next]_vars
  PROVE  InTime'
<1>1. (active \subseteq AliveAt(step))'
  BY AliveStep DEF InTime
<1>2. step \in Nat /\ step <= LastStep /\ LastStep \in Nat
  BY LastStepType DEF IInv, TypeOK, InTime
<1>3. CASE Arrive
  <2>1. step < LastStep
    <3>1. \A r \in Requests : /\ arrival_time[r] \in Nat /\ arrival_time[r] <= MaxArrival
                              /\ actual_length[r] \in Nat /\ actual_length[r] <= MaxLength
      BY LastStepType DEF IInv, TypeOK
    <3>2. CASE ArrivalsRemain
      BY <1>2, <3>1, <3>2, LastStepType DEF ArrivalsRemain
    <3>3. CASE active # {}
      <4>1. PICK r : r \in active
        BY <3>3
      <4>2. r \in Requests /\ step < arrival_time[r] + actual_length[r]
        BY <4>1 DEF InTime, AliveAt
      <4> QED  BY <1>2, <3>1, <4>2, LastStepType
    <3> QED  BY <1>3, <3>2, <3>3 DEF Arrive
  <2> QED  BY <1>1, <1>2, <1>3, <2>1 DEF Arrive, InTime, LastStep
<1>4. CASE EndStep
  <2>1. step < LastStep /\ step' = step + 1 /\ phase' = "arrive"
    BY <1>4 DEF EndStep, InTime
  <2> QED  BY <1>1, <1>2, <2>1 DEF InTime, LastStep
<1>5. ASSUME UNCHANGED step, phase' = "generate" => phase = "generate"
      PROVE  InTime'
  BY <1>1, <1>5 DEF InTime, LastStep
<1>6. CASE \E r \in Requests, p \in Pool, t \in Seq(Blocks) : Generate(r, p, t)
  BY <1>5, <1>6, GenerateEffect
<1>7. CASE \E r \in Requests : Reject(r)
  BY <1>5, <1>7, RejectEffect
<1>8. CASE Return \/ UNCHANGED vars
  BY <1>5, <1>8 DEF Return, vars
<1> QED  BY <1>3, <1>4, <1>6, <1>7, <1>8, StepCases

LEMMA RemainingType ==
  ASSUME IInv, InTime
  PROVE  Remaining \in Nat
<1> DEFINE n == Cardinality(Requests)
           c == Cardinality(todo)
           d == LastStep - step
<1>1. n \in Nat /\ c \in Nat
  <2>1. todo \in SUBSET Requests /\ IsFiniteSet(Requests)
    BY BlockPoolAssumption DEF IInv, TypeOK
  <2> QED  BY <2>1, FS_Subset, FS_CardinalityType
<1>2. d \in Nat
  BY LastStepType DEF InTime, IInv, TypeOK
<1>3. /\ Remaining = d * (n + 3) + (CASE phase = "arrive"   -> n + 2
                                      [] phase = "generate" -> c + 1
                                      [] phase = "done"     -> 0)
      /\ phase \in {"arrive", "generate", "done"}
  BY DEF Remaining, IInv, TypeOK
<1> HIDE DEF n, c, d
<1>4. d * (n + 3) \in Nat
  BY <1>1, <1>2
<1> QED  BY <1>1, <1>3, <1>4

(* Whatever run() does leaves less of it. *)
LEMMA RemainingShrinks ==
  ASSUME IInv, InTime, [Next]_vars
  PROVE  UNCHANGED vars \/ Remaining' < Remaining
<1> DEFINE n == Cardinality(Requests)
           c == Cardinality(todo)
           d == LastStep - step
           more == d * (n + 3)
<1>1. TypeOK /\ IsFiniteSet(todo) /\ c \in Nat /\ c <= n /\ n \in Nat
  <2>1. TypeOK
    BY DEF IInv
  <2>2. todo \in SUBSET Requests /\ IsFiniteSet(Requests)
    BY <2>1, BlockPoolAssumption DEF TypeOK
  <2> QED  BY <2>1, <2>2, FS_Subset, FS_CardinalityType
<1>2. d \in Nat /\ (phase = "generate" => d - 1 \in Nat)
  BY LastStepType DEF InTime, IInv, TypeOK
<1>3. /\ Remaining = more + (CASE phase = "arrive"   -> n + 2
                               [] phase = "generate" -> c + 1
                               [] phase = "done"     -> 0)
      /\ phase \in {"arrive", "generate", "done"}
  BY <1>1 DEF Remaining, TypeOK
<1>4. ASSUME UNCHANGED step
      PROVE  Remaining' = more + (CASE phase' = "arrive"   -> n + 2
                                    [] phase' = "generate" -> c'
                                                              + 1
                                    [] phase' = "done"     -> 0)
  BY <1>4 DEF Remaining, LastStep
<1>5. Remaining' = (LastStep - step') * (n + 3)
                     + (CASE phase' = "arrive"   -> n + 2
                          [] phase' = "generate" -> c' + 1
                          [] phase' = "done"     -> 0)
  BY DEF Remaining, LastStep
<1> HIDE DEF n, c, d
<1>6. more \in Nat /\ (d - 1) * (n + 3) = more - (n + 3)
  BY <1>1, <1>2
<1> HIDE DEF more
<1>7. CASE Arrive
  <2>1. phase = "arrive" /\ phase' = "generate" /\ UNCHANGED step
    BY <1>7 DEF Arrive
  <2>2. c' \in Nat /\ c' <= n
    <3>1. TypeOK'
      BY <1>1, NextType
    <3>2. todo' \in SUBSET Requests /\ IsFiniteSet(Requests)
      BY <3>1, BlockPoolAssumption DEF TypeOK
    <3> QED  BY <3>2, FS_Subset, FS_CardinalityType DEF c, n
  <2>3. Remaining' = more + (c' + 1) /\ Remaining = more + (n + 2)
    BY <1>3, <1>4, <2>1
  <2>4. more + (c' + 1) < more + (n + 2)
    <3> SUFFICES ASSUME NEW k \in Nat, k <= n  PROVE more + (k + 1) < more + (n + 2)
      BY <2>2
    <3> QED  BY <1>1, <1>6
  <2>5. Remaining' < Remaining
    BY <2>3, <2>4
  <2> QED  BY <2>5
<1>8. ASSUME NEW r \in todo, todo' = todo \ {r}, phase = "generate",
             UNCHANGED <<step, phase>>
      PROVE  Remaining' < Remaining
  <2>1. c' = c - 1
    BY <1>1, <1>8, FS_RemoveElement DEF c
  <2>2. Remaining' = more + (c' + 1) /\ Remaining = more + (c + 1)
    BY <1>3, <1>4, <1>8
  <2> QED  BY <1>1, <1>6, <2>1, <2>2
<1>9. CASE \E r \in Requests, p \in Pool, t \in Seq(Blocks) : Generate(r, p, t)
  <2>1. PICK r \in Requests : r \in todo /\ todo' = todo \ {r} /\ UNCHANGED <<step, phase>>
    BY <1>9, GenerateEffect
  <2>2. phase = "generate"
    BY <2>1 DEF IInv, Lifecycle
  <2> QED  BY <1>8, <2>1, <2>2
<1>10. CASE \E r \in Requests : Reject(r)
  <2>1. PICK r \in Requests : r \in todo /\ todo' = todo \ {r} /\ UNCHANGED <<step, phase>>
    BY <1>10, RejectEffect
  <2>2. phase = "generate"
    BY <2>1 DEF IInv, Lifecycle
  <2> QED  BY <1>8, <2>1, <2>2
<1>11. CASE EndStep
  <2>1. phase = "generate" /\ phase' = "arrive" /\ step' = step + 1
    BY <1>11 DEF EndStep
  <2>2. LastStep - step' = d - 1
    BY <1>1, <2>1, LastStepType DEF d, TypeOK
  <2>3. Remaining' = more - (n + 3) + (n + 2)
    BY <1>5, <1>6, <2>1, <2>2
  <2>4. Remaining = more + (c + 1)
    BY <1>3, <2>1
  <2>5. Remaining' < Remaining
    BY <1>1, <1>6, <2>3, <2>4
  <2> QED  BY <2>5
<1>12. CASE Return
  <2>1. phase = "arrive" /\ phase' = "done" /\ UNCHANGED step
    BY <1>12 DEF Return
  <2>2. Remaining' = more + 0 /\ Remaining = more + (n + 2)
    BY <1>3, <1>4, <2>1
  <2>3. Remaining' < Remaining
    BY <1>1, <1>6, <2>2
  <2> QED  BY <2>3
<1> QED  BY <1>7, <1>9, <1>10, <1>11, <1>12, StepCases

LEMMA InitInTime == Init => InTime
BY LastStepType DEF Init, InTime

(* run() cannot go on for ever: what is left of it is a natural number that *)
(* every step makes smaller.  It does reach "done" if it never gets stuck.  *)
THEOREM RunIsFinite == Spec => [](Remaining \in Nat) /\ [][Remaining' < Remaining]_vars
<1>1. IInv /\ InTime /\ [Next]_vars => InTime'
  BY InTimeStep
<1>2. IInv /\ InTime => Remaining \in Nat
  BY RemainingType
<1>3. IInv /\ InTime /\ [Next]_vars => [Remaining' < Remaining]_vars
  BY RemainingShrinks
<1> QED  BY <1>1, <1>2, <1>3, InitInTime, Invariance, PTL DEF Spec

-----------------------------------------------------------------------------
(* What requests read is what they generated, from arrival to release. *)
LEMMA ViewOfStore ==
  ASSUME IInv
  PROVE  \A r \in Requests :
           Visible(pool, table[r], tokens[r]) =
             IF r \in active THEN TokensOf(r, tokens[r]) ELSE <<>>
<1> SUFFICES ASSUME NEW r \in Requests
             PROVE  Visible(pool, table[r], tokens[r]) =
                      IF r \in active THEN TokensOf(r, tokens[r]) ELSE <<>>
  OBVIOUS
<1>1. CASE r \notin active
  BY <1>1 DEF IInv, OnlyActiveHold, Visible
<1>2. CASE r \in active /\ table[r] = <<>>
  <2>1. tokens[r] \in Nat /\ BlocksFor(tokens[r]) = 0
    BY <1>2 DEF IInv, TypeOK, NoIdleBlocks
  <2>2. tokens[r] = 0
    BY <2>1, BlocksForNext
  <2> QED  BY <1>2, <2>2, TokensOfNext DEF Visible
<1>3. CASE r \in active /\ table[r] # <<>>
  <2>1. tokens[r] \in Nat
    BY DEF IInv, TypeOK
  <2>2. \A i \in 1 .. tokens[r] : ReadToken(pool, table[r], i - 1) = <<r, i - 1>>
    <3>1. ASSUME NEW i \in 1 .. tokens[r]
          PROVE  ReadToken(pool, table[r], i - 1) = <<r, i - 1>>
      <4>1. i - 1 \in 0 .. tokens[r] - 1
        BY <2>1
      <4> QED  BY <1>3, <4>1 DEF IInv, TokensStored
    <3> QED  BY <3>1
  <2> QED  BY <1>3, <2>2 DEF Visible, TokensOf
<1> QED  BY <1>1, <1>2, <1>3

(* The refinement mapping, as a function of what the allocator records. *)
Mapped == [r \in Requests |-> IF r \in active THEN TokensOf(r, tokens[r]) ELSE <<>>]

(* Every step of the allocator is one of the store, or invisible to it. *)
LEMMA MappedStep ==
  ASSUME IInv, [Next]_vars
  PROVE  \/ \E r \in Requests :
              Mapped' = [Mapped EXCEPT ![r] = Append(@, <<r, Len(@)>>)]
         \/ \E S \in SUBSET Requests :
              Mapped' = [r \in Requests |-> IF r \in S THEN <<>> ELSE Mapped[r]]
         \/ Mapped' = Mapped
<1>1. TypeOK /\ Untouched
  BY DEF IInv
<1>2. CASE Arrive
  <2>1. ASSUME NEW q \in Requests
        PROVE  Mapped'[q] = Mapped[q]
    <3>1. CASE q \in active \/ arrival_time[q] # step
      BY <1>2, <3>1 DEF Arrive, Mapped
    <3>2. CASE q \notin active /\ arrival_time[q] = step
      <4>1. tokens'[q] = 0
        BY <1>1, <1>2, <3>2 DEF Untouched, Waiting, Arrive
      <4> QED  BY <1>2, <3>2, <4>1, TokensOfNext DEF Mapped
    <3> QED  BY <3>1, <3>2
  <2> QED  BY <2>1 DEF Mapped
<1>3. ASSUME NEW r \in Requests, NEW p \in Pool, NEW t \in Seq(Blocks),
             Generate(r, p, t)
      PROVE  Mapped' = [Mapped EXCEPT ![r] = Append(@, <<r, Len(@)>>)]
  <2>1. r \in active /\ tokens[r] \in Nat
    BY <1>1, <1>3, GenerateEffect DEF TypeOK
  <2>2. Mapped[r] = TokensOf(r, tokens[r])
    BY <2>1 DEF Mapped
  <2>3. Mapped'[r] = Append(Mapped[r], <<r, Len(Mapped[r])>>)
    <3>1. Mapped'[r] = TokensOf(r, tokens[r] + 1)
      BY <1>3, <2>1, GenerateEffect DEF Mapped
    <3> QED  BY <2>1, <2>2, <3>1, TokensOfNext
  <2>4. \A q \in Requests \ {r} : Mapped'[q] = Mapped[q]
    BY <1>3, GenerateEffect DEF Mapped
  <2> QED  BY <2>3, <2>4 DEF Mapped
<1>4. ASSUME NEW r \in Requests, Reject(r)
      PROVE  Mapped' = Mapped
  BY <1>4, RejectEffect DEF Mapped
<1>5. CASE EndStep
  <2>1. Mapped' = [r \in Requests |-> IF r \in finished THEN <<>> ELSE Mapped[r]]
    BY <1>5 DEF EndStep, Mapped
  <2> QED  BY <1>1, <2>1 DEF TypeOK
<1>6. CASE Return \/ UNCHANGED vars
  BY <1>6 DEF Return, vars, Mapped
<1> QED  BY <1>2, <1>3, <1>4, <1>5, <1>6, StepCases

(* Paging is invisible to the requests: the allocator implements the token  *)
(* store, in which there is no pool, no block and no page table.            *)
THEOREM PagingInvisible == Spec => ImplementsTokenStore
<1> DEFINE kv == [r \in Requests |-> Visible(pool, table[r], tokens[r])]
           saved == [r \in Requests |-> <<>>]
<1>1. Init => Store!Init
  <2> SUFFICES ASSUME Init  PROVE Store!Init
    OBVIOUS
  <2>1. kv = [r \in Requests |-> <<>>]
    BY DEF Init, Visible
  <2> QED  BY <2>1 DEF Store!Init
<1>2. IInv => kv = Mapped
  BY ViewOfStore DEF Mapped
<1>3. IInv' => (kv = Mapped)'
  BY <1>2, PTL
<1>4. ASSUME IInv, IInv', [Next]_vars
      PROVE  [Store!Next]_<<kv, saved>>
  <2>1. kv = Mapped
    BY <1>2, <1>4
  <2>2. kv' = Mapped'
    BY <1>3, <1>4
  <2>3. saved' = saved
    OBVIOUS
  <2> HIDE DEF kv, saved
  <2>4. ASSUME NEW r \in Requests,
               kv' = [kv EXCEPT ![r] = Append(@, <<r, Len(@)>>)]
        PROVE  Store!Next
    BY <2>3, <2>4 DEF Store!Next, Store!Extend, kv, saved
  <2>5. ASSUME NEW S \in SUBSET Requests,
               kv' = [r \in Requests |-> IF r \in S THEN <<>> ELSE kv[r]]
        PROVE  Store!Next
    BY <2>3, <2>5 DEF Store!Next, Store!Discard, kv, saved
  <2> QED  BY <1>4, <2>1, <2>2, <2>3, <2>4, <2>5, MappedStep
<1> QED  BY <1>1, <1>4, Invariance, PTL DEF Spec, ImplementsTokenStore, Store!Spec
=============================================================================
