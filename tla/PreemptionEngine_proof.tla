----------------------- MODULE PreemptionEngine_proof -----------------------
(***************************************************************************)
(* Proofs about PreemptionEngine, for every workload, pool, threshold and  *)
(* limit: requests and their blocks are where they should be, sequences    *)
(* survive preemption, restorations find the room they need, the engine is *)
(* a token store with a swap, and with a threshold of at most 1 its run is *)
(* finite.                                                                 *)
(***************************************************************************)
EXTENDS PreemptionEngine, BlockPool_proof

(* How many tokens of each request memory holds. *)
Held == [r \in Requests |-> IF r \in active THEN tokens[r] ELSE 0]

Memory ==
  /\ MemoryOK(pool, table, Held)
  /\ \A r \in Requests : table[r] # <<>> => r \in active \/ r = restoring

(* A request is new, queued, under restoration, active or completed. *)
Places ==
  /\ IsInjective(waiting)
  /\ restoring # None => phase \in {"admit", "readmit"}
  /\ \A r \in Requests :
       /\ status[r] = "active" <=> r \in active
       /\ status[r] = "waiting" <=> r \in Range(waiting) \/ r = restoring
       /\ r = restoring => r \notin Range(waiting)
       /\ status[r] = "new" =>
            \/ arrival_time[r] > step
            \/ arrival_time[r] = step /\ phase = "arrive"
       /\ phase = "done" => status[r] = "completed"

WithinLimit == Cardinality(active \cup ({restoring} \ {None})) <= ActiveLimit

(* What each request has generated, and where it is kept. *)
Sequences ==
  \A r \in Requests :
    /\ token_sequence[r] = TokensOf(r, tokens[r])
    /\ status[r] = "new" => tokens[r] = 0
    /\ status[r] # "completed" => tokens[r] < actual_length[r]
    /\ status[r] = "waiting" /\ tokens[r] > 0 =>
         swap_store[r] = token_sequence[r]
    /\ swap_store[r] # None => tokens[r] >= threshold
    /\ r = restoring => tokens[r] > 0
    /\ status[r] = "completed" => output[r] = TokensOf(r, actual_length[r])

(* No request ever had more tokens than the pool has room for. *)
Room ==
  /\ RestoreHasRoom
  /\ \A r \in Requests : BlocksFor(tokens[r]) <= TotalBlocks

IInv ==
  /\ TypeOK
  /\ Memory
  /\ Places
  /\ WithinLimit
  /\ Sequences
  /\ Room

-----------------------------------------------------------------------------
(* The queue of waiting requests: append and popleft. *)
LEMMA QueueAppend ==
  ASSUME NEW w \in Seq(Requests), NEW r \in Requests
  PROVE  /\ Append(w, r) \in Seq(Requests)
         /\ Range(Append(w, r)) = Range(w) \cup {r}
         /\ IsInjective(w) /\ r \notin Range(w) => IsInjective(Append(w, r))
<1>1. /\ Append(w, r) \in Seq(Requests)
      /\ DOMAIN w = 1 .. Len(w) /\ Len(w) \in Nat
      /\ DOMAIN Append(w, r) = 1 .. Len(w) + 1
      /\ Append(w, r)[Len(w) + 1] = r
      /\ \A i \in 1 .. Len(w) : Append(w, r)[i] = w[i]
  OBVIOUS
<1>2. Range(Append(w, r)) = Range(w) \cup {r}
  BY <1>1 DEF Range
<1>3. ASSUME IsInjective(w), r \notin Range(w)
      PROVE  IsInjective(Append(w, r))
  BY <1>1, <1>3 DEF IsInjective, Range
<1> QED  BY <1>1, <1>2, <1>3

LEMMA QueueTail ==
  ASSUME NEW w \in Seq(Requests), w # <<>>, IsInjective(w)
  PROVE  /\ Tail(w) \in Seq(Requests) /\ IsInjective(Tail(w))
         /\ Head(w) \in Requests /\ Head(w) \in Range(w)
         /\ Range(Tail(w)) = Range(w) \ {Head(w)}
<1>1. /\ Tail(w) \in Seq(Requests) /\ Head(w) \in Requests
      /\ DOMAIN w = 1 .. Len(w) /\ Len(w) \in Nat /\ Len(w) > 0
      /\ DOMAIN Tail(w) = 1 .. Len(w) - 1
      /\ Head(w) = w[1]
      /\ \A i \in 1 .. Len(w) - 1 : Tail(w)[i] = w[i + 1]
  OBVIOUS
<1>2. \A i, j \in 1 .. Len(w) : w[i] = w[j] => i = j
  BY <1>1 DEF IsInjective
<1>3. IsInjective(Tail(w))
  <2>1. ASSUME NEW i \in 1 .. Len(w) - 1, NEW j \in 1 .. Len(w) - 1,
               Tail(w)[i] = Tail(w)[j]
        PROVE  i = j
    <3>1. w[i + 1] = w[j + 1] /\ i + 1 \in 1 .. Len(w) /\ j + 1 \in 1 .. Len(w)
      BY <1>1, <2>1
    <3>2. i + 1 = j + 1
      BY <1>2, <3>1
    <3> QED  BY <3>2
  <2> QED  BY <1>1, <2>1 DEF IsInjective
<1>4. Range(Tail(w)) = Range(w) \ {Head(w)}
  <2>1. ASSUME NEW x \in Range(Tail(w))  PROVE x \in Range(w) \ {Head(w)}
    <3>1. PICK i \in 1 .. Len(w) - 1 : x = w[i + 1]
      BY <1>1 DEF Range
    <3>2. i + 1 \in 1 .. Len(w) /\ 1 \in 1 .. Len(w) /\ i + 1 # 1
      BY <1>1
    <3> QED  BY <1>1, <1>2, <3>1, <3>2 DEF Range
  <2>2. ASSUME NEW x \in Range(w), x # Head(w)  PROVE x \in Range(Tail(w))
    <3>1. PICK i \in 1 .. Len(w) : x = w[i]
      BY <1>1 DEF Range
    <3>2. i # 1
      BY <1>1, <2>2, <3>1
    <3>3. i - 1 \in 1 .. Len(w) - 1 /\ (i - 1) + 1 = i
      BY <1>1, <3>2
    <3>4. Tail(w)[i - 1] = x
      BY <1>1, <3>1, <3>3
    <3> QED  BY <1>1, <3>3, <3>4 DEF Range
  <2> QED  BY <2>1, <2>2
<1>5. Head(w) \in Range(w)
  BY <1>1 DEF Range
<1> QED  BY <1>1, <1>3, <1>4, <1>5

(* A table holds no more blocks than the pool has. *)
LEMMA TableFits ==
  ASSUME NEW t \in Seq(Blocks), IsInjective(t)
  PROVE  Len(t) <= TotalBlocks
<1>1. t \in [1 .. Len(t) -> Blocks] /\ Len(t) \in Nat
  OBVIOUS
<1>2. IsFiniteSet(1 .. Len(t)) /\ Cardinality(1 .. Len(t)) = Len(t)
  <2>1. /\ IsFiniteSet(1 .. Len(t))
        /\ Cardinality(1 .. Len(t)) = IF 1 > Len(t) THEN 0 ELSE Len(t) - 1 + 1
    BY <1>1, FS_Interval
  <2>2. CASE Len(t) = 0
    BY <2>1, <2>2
  <2>3. CASE Len(t) > 0
    BY <1>1, <2>1, <2>3
  <2> QED  BY <1>1, <2>2, <2>3
<1>3. IsFiniteSet(Blocks) /\ Cardinality(Blocks) = TotalBlocks
  BY BlocksFinite
<1>4. ASSUME TotalBlocks < Len(t)  PROVE FALSE
  <2>1. \E i, j \in 1 .. Len(t) : i # j /\ t[i] = t[j]
    BY <1>1, <1>2, <1>3, <1>4, FS_PigeonHole
  <2> QED  BY <1>1, <2>1 DEF IsInjective
<1> QED  BY <1>1, <1>4, BlockPoolAssumption

-----------------------------------------------------------------------------
(* _restore writes token i of a sequence of m where it will be read.        *)
LEMMA WrittenAtPlace ==
  ASSUME NEW t \in Seq(Blocks), IsInjective(t), NEW m \in Nat,
         BlocksFor(m) <= Len(t), NEW r \in Requests,
         NEW i \in 0 .. m - 1
  PROVE  Written(TokensOf(r, m), t, BlockAt(t, i), OffsetOf(i)) = {i + 1}
<1> DEFINE s == TokensOf(r, m)
           here == Written(s, t, BlockAt(t, i), OffsetOf(i))
<1>1. Len(s) = m
  BY TokensOfNext
<1>2. ASSUME NEW j \in 0 .. m - 1
      PROVE  BlockOf(j) + 1 \in DOMAIN t /\ j \in Nat
  <2>1. j \in Nat /\ BlockOf(j) \in Nat /\ BlockOf(j) < BlocksFor(m)
    BY BlockOfBelow
  <2>2. BlocksFor(m) \in Nat /\ Len(t) \in Nat
    BY BlocksForNext
  <2>3. BlockOf(j) + 1 \in 1 .. Len(t)
    BY <2>1, <2>2
  <2> QED  BY <2>1, <2>3
<1>3. i + 1 \in here
  <2>1. i + 1 \in 1 .. m /\ (i + 1) - 1 = i
    OBVIOUS
  <2> HIDE DEF s
  <2> QED  BY <1>1, <2>1 DEF Written
<1>4. ASSUME NEW k \in here  PROVE k = i + 1
  <2>1. /\ k \in 1 .. m
        /\ BlockAt(t, k - 1) = BlockAt(t, i) /\ OffsetOf(k - 1) = OffsetOf(i)
    <3> HIDE DEF s
    <3> QED  BY <1>1 DEF Written
  <2>2. k - 1 \in 0 .. m - 1
    BY <2>1
  <2>3. /\ BlockOf(k - 1) + 1 \in DOMAIN t /\ k - 1 \in Nat
        /\ BlockOf(i) + 1 \in DOMAIN t /\ i \in Nat
    BY <1>2, <2>2
  <2>4. BlockOf(k - 1) + 1 = BlockOf(i) + 1
    BY <2>1, <2>3 DEF IsInjective, BlockAt
  <2>5. BlockOf(k - 1) \in Nat /\ BlockOf(i) \in Nat
    BY <2>3, BlocksForNext
  <2>6. k - 1 = i
    BY <2>1, <2>3, <2>4, <2>5, PlacesDiffer
  <2> QED  BY <2>1, <2>6
<1> QED  BY <1>3, <1>4

(* It writes nothing outside the table, and a slot inside it gets at most   *)
(* one token.                                                               *)
LEMMA WrittenInside ==
  ASSUME NEW t \in Seq(Blocks), IsInjective(t), NEW m \in Nat,
         BlocksFor(m) <= Len(t), NEW r \in Requests,
         NEW b \in Blocks, NEW o \in Offsets,
         NEW k \in Written(TokensOf(r, m), t, b, o)
  PROVE  /\ Written(TokensOf(r, m), t, b, o) = {k}
         /\ k \in 1 .. m /\ b \in Range(t)
<1> DEFINE s == TokensOf(r, m)
<1>1. Len(s) = m
  BY TokensOfNext
<1>2. /\ k \in 1 .. m
      /\ BlockAt(t, k - 1) = b /\ OffsetOf(k - 1) = o
  <2> HIDE DEF s
  <2>1. k \in Written(s, t, b, o)
    BY DEF s
  <2> QED  BY <1>1, <2>1 DEF Written
<1>3. k - 1 \in 0 .. m - 1 /\ (k - 1) + 1 = k
  BY <1>2
<1>4. Written(s, t, b, o) = {k}
  <2>1. Written(s, t, BlockAt(t, k - 1), OffsetOf(k - 1)) = {(k - 1) + 1}
    BY <1>3, WrittenAtPlace
  <2> QED  BY <1>2, <1>3, <2>1
<1>5. b \in Range(t)
  <2>1. k - 1 \in Nat /\ BlockOf(k - 1) \in Nat /\ BlockOf(k - 1) < BlocksFor(m)
    BY <1>3, BlockOfBelow
  <2>2. BlocksFor(m) \in Nat /\ Len(t) \in Nat
    BY BlocksForNext
  <2>3. BlockOf(k - 1) + 1 \in 1 .. Len(t)
    BY <2>1, <2>2
  <2> QED  BY <1>2, <2>3 DEF BlockAt, Range
<1> QED  BY <1>2, <1>4, <1>5

(* What a slot holds after the tokens are written back. *)
LEMMA WriteAllSlot ==
  ASSUME NEW p \in Pool, NEW t \in Seq(Blocks), IsInjective(t), NEW m \in Nat,
         BlocksFor(m) <= Len(t), NEW r \in Requests,
         NEW b \in Blocks, NEW o \in Offsets
  PROVE  LET q == WriteAll(p, t, TokensOf(r, m))
             here == Written(TokensOf(r, m), t, b, o)
         IN  /\ here = {} => q.data[b][o] = p.data[b][o]
             /\ \A k \in here : q.data[b][o] = <<r, k - 1>> /\ k - 1 \in Nat
<1> DEFINE s == TokensOf(r, m)
           q == WriteAll(p, t, s)
           here == Written(s, t, b, o)
<1>1. q.data[b][o] = IF here = {} THEN p.data[b][o]
                     ELSE s[CHOOSE i \in here : \A j \in here : j <= i]
  <2> HIDE DEF s
  <2>1. q.data = [c \in Blocks |-> [d \in Offsets |->
                    IF Written(s, t, c, d) = {} THEN p.data[c][d]
                    ELSE s[CHOOSE i \in Written(s, t, c, d) :
                             \A j \in Written(s, t, c, d) : j <= i]]]
    BY DEF WriteAll, Pool
  <2> HIDE DEF q
  <2> QED  BY <2>1
<1>2. ASSUME NEW k \in here
      PROVE  q.data[b][o] = <<r, k - 1>> /\ k - 1 \in Nat
  <2>1. here = {k} /\ k \in 1 .. m
    BY WrittenInside
  <2> HIDE DEF here, q
  <2>2. (CHOOSE i \in here : \A j \in here : j <= i) = k
    BY <2>1
  <2>3. s[k] = <<r, k - 1>>
    BY <2>1 DEF TokensOf
  <2> HIDE DEF s
  <2>4. here # {}
    BY <2>1
  <2> QED  BY <1>1, <2>1, <2>2, <2>3, <2>4
<1> QED  BY <1>1, <1>2

(* _restore puts the tokens of a request back into its new table. *)
LEMMA MemoryRestore ==
  ASSUME NEW p, NEW t, NEW n, MemoryOK(p, t, n),
         NEW r \in Requests, NEW m \in Nat, n[r] = 0,
         BlocksFor(m) <= Len(t[r])
  PROVE  MemoryOK(WriteAll(p, t[r], TokensOf(r, m)), t, [n EXCEPT ![r] = m])
<1> DEFINE s == TokensOf(r, m)
           q == WriteAll(p, t[r], s)
           h(b, o) == Written(s, t[r], b, o)
           u == [n EXCEPT ![r] = m]
<1>1. /\ p \in Pool /\ t[r] \in Seq(Blocks) /\ IsInjective(t[r])
      /\ t \in [Requests -> Seq(Blocks)] /\ n \in [Requests -> Nat]
      /\ BlocksAccounted(p, t)
  BY DEF MemoryOK, BlocksAccounted
<1>2. /\ u \in [Requests -> Nat] /\ u[r] = m
      /\ \A x \in Requests \ {r} : u[x] = n[x]
  BY <1>1
<1>3. /\ q \in [free : SUBSET Blocks, data : {q.data},
                owner : [Blocks -> Requests \cup {None}]]
      /\ q.free = p.free /\ q.owner = p.owner
      /\ q.data = [b \in Blocks |-> [o \in Offsets |-> q.data[b][o]]]
  <2> DEFINE f == [b \in Blocks |-> [o \in Offsets |->
                     IF h(b, o) = {} THEN p.data[b][o]
                     ELSE s[CHOOSE i \in h(b, o) : \A j \in h(b, o) : j <= i]]]
  <2>1. q = [p EXCEPT !.data = f]
    BY DEF WriteAll
  <2>2. f = [b \in Blocks |-> [o \in Offsets |-> f[b][o]]]
    <3> HIDE DEF h, s
    <3> QED  OBVIOUS
  <2> HIDE DEF f, q
  <2>3. /\ q \in [free : SUBSET Blocks, data : {f},
                  owner : [Blocks -> Requests \cup {None}]]
        /\ q.free = p.free /\ q.owner = p.owner /\ q.data = f
    BY <1>1, <2>1 DEF Pool
  <2> QED  BY <2>2, <2>3
<1>4. ASSUME NEW b \in Blocks, NEW o \in Offsets
      PROVE  /\ h(b, o) = {} => q.data[b][o] = p.data[b][o]
             /\ \A k \in h(b, o) : q.data[b][o] = <<r, k - 1>> /\ k - 1 \in Nat
             /\ b \notin Range(t[r]) => h(b, o) = {}
  <2>1. /\ h(b, o) = {} => q.data[b][o] = p.data[b][o]
        /\ \A k \in h(b, o) : q.data[b][o] = <<r, k - 1>> /\ k - 1 \in Nat
    BY <1>1, WriteAllSlot
  <2>2. \A k \in h(b, o) : b \in Range(t[r])
    BY <1>1, WrittenInside
  <2> HIDE DEF h, q
  <2> QED  BY <2>1, <2>2
<1> HIDE DEF q, h, u
<1>5. ASSUME NEW b \in Blocks, NEW o \in Offsets
      PROVE  q.data[b][o] \in Token \cup {None}
  <2>1. CASE h(b, o) = {}
    <3>1. q.data[b][o] = p.data[b][o]
      BY <1>4, <2>1
    <3> QED  BY <1>1, <3>1 DEF Pool
  <2>2. CASE h(b, o) # {}
    <3>1. PICK k \in h(b, o) : TRUE
      BY <2>2
    <3>2. q.data[b][o] = <<r, k - 1>> /\ k - 1 \in Nat
      BY <1>4, <3>1
    <3> QED  BY <3>2 DEF Token
  <2> QED  BY <2>1, <2>2
<1>6. q \in Pool
  <2>1. [b \in Blocks |-> [o \in Offsets |-> q.data[b][o]]]
          \in [Blocks -> [Offsets -> Token \cup {None}]]
    BY <1>5
  <2>2. q.data \in [Blocks -> [Offsets -> Token \cup {None}]]
    BY <1>3, <2>1
  <2> QED  BY <1>3, <2>2 DEF Pool
<1>7. BlocksAccounted(q, t)
  BY <1>1, <1>3 DEF BlocksAccounted
<1>8. ASSUME NEW c \in q.free  PROVE q.data[c] = Blank
  <2>1. c \in Blocks /\ c \in p.free /\ p.data[c] = Blank
    BY <1>1, <1>3 DEF MemoryOK, Pool
  <2>2. c \notin Range(t[r])
    BY <1>1, <2>1, BlockPoolAssumption DEF BlocksAccounted
  <2>3. \A o \in Offsets : q.data[c][o] = p.data[c][o]
    BY <1>4, <2>1, <2>2
  <2>4. q.data[c] \in [Offsets -> Token \cup {None}]
    BY <1>6, <2>1 DEF Pool
  <2> QED  BY <2>1, <2>3, <2>4 DEF Blank
<1>9. ASSUME NEW x \in Requests  PROVE BlocksFor(u[x]) <= Len(t[x])
  BY <1>2 DEF MemoryOK
<1>10. ASSUME NEW x \in Requests, NEW i \in 0 .. u[x] - 1
       PROVE  ReadToken(q, t[x], i) = <<x, i>>
  <2>1. CASE x = r
    <3>1. i \in 0 .. m - 1 /\ i \in Nat /\ (i + 1) - 1 = i
      BY <1>2, <2>1
    <3>2. BlockOf(i) \in Nat /\ BlockOf(i) < BlocksFor(m) /\ OffsetOf(i) \in Offsets
      BY <3>1, BlockOfBelow
    <3>3. BlocksFor(m) \in Nat /\ Len(t[r]) \in Nat
      BY <1>1, BlocksForNext
    <3>4. BlockAt(t[r], i) \in Blocks
      <4>1. BlockOf(i) < Len(t[r])
        BY <3>2, <3>3
      <4> QED  BY <1>1, <3>1, <4>1, PlaceOwned
    <3>5. i + 1 \in h(BlockAt(t[r], i), OffsetOf(i))
      BY <1>1, <3>1, WrittenAtPlace DEF h
    <3>6. q.data[BlockAt(t[r], i)][OffsetOf(i)] = <<r, (i + 1) - 1>>
      BY <1>4, <3>2, <3>4, <3>5
    <3> QED  BY <2>1, <3>1, <3>6 DEF ReadToken
  <2>2. CASE x # r
    <3>1. i \in 0 .. n[x] - 1
      BY <1>2, <2>2
    <3>2. i \in Nat /\ BlockOf(i) < Len(t[x]) /\ ReadToken(p, t[x], i) = <<x, i>>
      BY <3>1, MemoryPlace
    <3>3. /\ BlockAt(t[x], i) \in Blocks /\ p.owner[BlockAt(t[x], i)] = x
          /\ OffsetOf(i) \in Offsets
      <4>1. OffsetOf(i) \in Offsets
        BY <3>2, BlocksForNext
      <4> QED  BY <1>1, <3>2, <4>1, PlaceOwned
    <3>4. BlockAt(t[x], i) \notin Range(t[r])
      BY <1>1, <2>2, <3>3 DEF BlocksAccounted
    <3>5. q.data[BlockAt(t[x], i)][OffsetOf(i)] = p.data[BlockAt(t[x], i)][OffsetOf(i)]
      BY <1>4, <3>3, <3>4
    <3> QED  BY <3>2, <3>5 DEF ReadToken
  <2> QED  BY <2>1, <2>2
<1>11. MemoryOK(q, t, u)
  BY <1>1, <1>2, <1>6, <1>7, <1>8, <1>9, <1>10 DEF MemoryOK
<1> QED  BY <1>11 DEF q, u

-----------------------------------------------------------------------------
(* One request leaves memory with all its tokens. *)
LEMMA MemoryDrop ==
  ASSUME NEW p, NEW t, NEW n, MemoryOK(p, t, n), NEW r \in Requests
  PROVE  MemoryOK(Free(p, Range(t[r])), [t EXCEPT ![r] = <<>>],
                  [n EXCEPT ![r] = 0])
<1>1. t \in [Requests -> Seq(Blocks)] /\ n \in [Requests -> Nat]
  BY DEF MemoryOK
<1> DEFINE R == {r}
<1>2. /\ UNION {Range(t[x]) : x \in R} = Range(t[r])
      /\ [x \in Requests |-> IF x \in R THEN <<>> ELSE t[x]] =
           [t EXCEPT ![r] = <<>>]
      /\ [x \in Requests |-> IF x \in R THEN 0 ELSE n[x]] =
           [n EXCEPT ![r] = 0]
  BY <1>1
<1>3. R \in SUBSET Requests
  OBVIOUS
<1> HIDE DEF R
<1>4. MemoryOK(Free(p, UNION {Range(t[x]) : x \in R}),
               [x \in Requests |-> IF x \in R THEN <<>> ELSE t[x]],
               [x \in Requests |-> IF x \in R THEN 0 ELSE n[x]])
  BY <1>3, MemoryRelease
<1> QED  BY <1>2, <1>4

(* A preemption, by whichever loop. *)
Evict(v) ==
  /\ v \in active
  /\ Preempt(v)
  /\ restoring # None => ~RoomMade(restoring)
  /\ todo' \subseteq todo
  /\ UNCHANGED <<workload, step, phase, attempts, restoring, output>>

(* Pool p and table t are those of r when its next token is stored. *)
Prepared(r, p, t) ==
  /\ t \in Seq(Blocks)
  /\ BlockOf(tokens[r]) < Len(t)
  /\ MemoryOK(p, [table EXCEPT ![r] = t], Held)

GenerateToken(r, p, t) ==
  /\ Serve(r)
  /\ r \in active
  /\ Prepared(r, p, t)
  /\ StoreToken(r, p, t)
  /\ todo' = todo \ {r}
  /\ UNCHANGED <<waiting, swap_store>>

(* The block of the next token is the last of the table. *)
LEMMA PreparedInBlock ==
  ASSUME IInv, NEW r \in Requests, GenerateInBlock(r)
  PROVE  GenerateToken(r, pool, table[r])
<1>1. /\ Serve(r) /\ r \in active /\ StoreToken(r, pool, table[r])
      /\ todo' = todo \ {r} /\ UNCHANGED <<waiting, swap_store>>
      /\ BlockOf(tokens[r]) # Len(table[r])
  BY DEF GenerateInBlock, NeedsBlock
<1>2. tokens[r] \in Nat /\ Held[r] = tokens[r] /\ table[r] \in Seq(Blocks)
  BY <1>1 DEF IInv, TypeOK, Held
<1>3. MemoryOK(pool, table, Held)
  BY DEF IInv, Memory
<1>4. [table EXCEPT ![r] = table[r]] = table
  BY DEF IInv, TypeOK
<1>5. BlocksFor(tokens[r]) <= Len(table[r])
  BY <1>2, <1>3 DEF MemoryOK
<1>6. BlockOf(tokens[r]) < Len(table[r])
  <2>1. /\ BlockOf(tokens[r]) \in Nat
        /\ BlocksFor(tokens[r]) \in {BlockOf(tokens[r]), BlockOf(tokens[r]) + 1}
    BY <1>2, BlocksForNext
  <2>2. Len(table[r]) \in Nat
    BY <1>2
  <2> QED  BY <1>1, <1>5, <2>1, <2>2
<1> QED  BY <1>1, <1>2, <1>3, <1>4, <1>6 DEF GenerateToken, Prepared

(* Or it is taken from the pool. *)
LEMMA PreparedInNewBlock ==
  ASSUME IInv, NEW r \in Requests, NEW b \in Blocks, GenerateInNewBlock(r, b)
  PROVE  GenerateToken(r, Allocate(pool, b, r), Append(table[r], b))
<1> DEFINE p == Allocate(pool, b, r)
           t == Append(table[r], b)
<1>1. /\ Serve(r) /\ r \in active /\ StoreToken(r, p, t)
      /\ todo' = todo \ {r} /\ UNCHANGED <<waiting, swap_store>>
      /\ BlockOf(tokens[r]) = Len(table[r]) /\ b \in pool.free
  BY DEF GenerateInNewBlock, NeedsBlock, Least
<1>2. tokens[r] \in Nat /\ table[r] \in Seq(Blocks)
  BY DEF IInv, TypeOK
<1>3. MemoryOK(pool, table, Held)
  BY DEF IInv, Memory
<1>4. MemoryOK(p, [table EXCEPT ![r] = t], Held)
  <2> HIDE DEF Held
  <2> QED  BY <1>1, <1>3, MemoryAllocate
<1>5. t \in Seq(Blocks) /\ Len(t) = Len(table[r]) + 1
  BY <1>2
<1>6. BlockOf(tokens[r]) < Len(t)
  BY <1>1, <1>2, <1>5
<1> HIDE DEF p, t
<1>7. GenerateToken(r, p, t)
  BY <1>1, <1>4, <1>5, <1>6 DEF GenerateToken, Prepared
<1> QED  BY <1>7 DEF p, t

(* The three loops that preempt. *)
LEMMA Evictions ==
  ASSUME IInv, NEW r \in Requests, NEW v \in Requests,
         EvictForRestore(r, v) \/ EvictForGenerate(r, v)
           \/ (PreemptItself(r) /\ v = r)
  PROVE  Evict(v)
<1>1. phase = "generate" => restoring = None
  BY DEF IInv, Places
<1>2. CASE EvictForRestore(r, v)
  BY <1>2 DEF EvictForRestore, Victim, Evict
<1>3. CASE EvictForGenerate(r, v)
  BY <1>1, <1>3 DEF EvictForGenerate, Serve, Victim, Evict
<1>4. CASE PreemptItself(r) /\ v = r
  BY <1>1, <1>4 DEF PreemptItself, Serve, Evict
<1> QED  BY <1>2, <1>3, <1>4

(* The actions, those that differ only in who calls them taken together. *)
LEMMA StepCases ==
  ASSUME IInv, [Next]_vars
  PROVE  \/ BeginAdmit \/ BeginGenerate \/ BeginReadmit \/ EndStep \/ Return
         \/ UNCHANGED vars
         \/ \E r \in Requests : \/ Enqueue(r) \/ AdmitFresh(r)
                                \/ BeginRestore(r) \/ FinishRestore(r)
                                \/ SkipPreempted(r) \/ Evict(r)
         \/ \E r \in Requests, b \in Blocks : RestoreBlock(r, b)
         \/ \E r \in Requests : \E p, t : GenerateToken(r, p, t)
BY PreparedInBlock, PreparedInNewBlock, Evictions
DEF Next, Admit, Generate, Terminated

-----------------------------------------------------------------------------
(* What a preemption does. *)
LEMMA EvictEffect ==
  ASSUME IInv, NEW v \in Requests, Evict(v)
  PROVE  /\ v \in active /\ status[v] = "active"
         /\ v \notin Range(waiting) /\ v # restoring
         /\ table' = [table EXCEPT ![v] = <<>>]
         /\ active' = active \ {v}
         /\ status' = [status EXCEPT ![v] = "waiting"]
         /\ waiting' = Append(waiting, v)
         /\ MemoryOK(pool', table', Held')
         /\ \/ /\ tokens[v] < threshold
               /\ tokens' = [tokens EXCEPT ![v] = 0]
               /\ token_sequence' = [token_sequence EXCEPT ![v] = <<>>]
               /\ swap_store' = [swap_store EXCEPT ![v] = None]
            \/ /\ ~(tokens[v] < threshold)
               /\ swap_store' = [swap_store EXCEPT ![v] = token_sequence[v]]
               /\ UNCHANGED <<tokens, token_sequence>>
<1>1. /\ v \in active
      /\ pool' = Free(pool, Range(table[v]))
      /\ table' = [table EXCEPT ![v] = <<>>]
      /\ active' = active \ {v}
      /\ status' = [status EXCEPT ![v] = "waiting"]
      /\ waiting' = Append(waiting, v)
  BY DEF Evict, Preempt
<1>2. \/ /\ tokens[v] < threshold
         /\ tokens' = [tokens EXCEPT ![v] = 0]
         /\ token_sequence' = [token_sequence EXCEPT ![v] = <<>>]
         /\ swap_store' = [swap_store EXCEPT ![v] = None]
      \/ /\ ~(tokens[v] < threshold)
         /\ swap_store' = [swap_store EXCEPT ![v] = token_sequence[v]]
         /\ UNCHANGED <<tokens, token_sequence>>
  BY DEF Evict, Preempt, Short, Snapshot
<1>3. /\ status[v] = "active"
      /\ v \notin Range(waiting) /\ v # restoring
  BY <1>1 DEF IInv, Places
<1>4. \A r \in Requests \ {v} : tokens'[r] = tokens[r]
  BY <1>2 DEF IInv, TypeOK
<1>5. Held' = [Held EXCEPT ![v] = 0]
  BY <1>1, <1>4 DEF Held
<1>6. MemoryOK(pool', table', Held')
  <2>1. MemoryOK(pool, table, Held)
    BY DEF IInv, Memory
  <2> QED  BY <1>1, <1>5, <2>1, MemoryDrop
<1> QED  BY <1>1, <1>2, <1>3, <1>6

(* What the generation of a token does, and of the last token. *)
LEMMA GenerateEffect ==
  ASSUME IInv, NEW r \in Requests, NEW p, NEW t, GenerateToken(r, p, t)
  PROVE  /\ r \in active /\ status[r] = "active"
         /\ restoring = None /\ phase = "generate"
         /\ todo' = todo \ {r}
         /\ UNCHANGED <<workload, step, phase, attempts, restoring, waiting,
                        swap_store>>
         /\ tokens' = [tokens EXCEPT ![r] = tokens[r] + 1]
         /\ tokens[r] \in Nat /\ tokens' \in [Requests -> Nat]
         /\ token_sequence' = [token_sequence EXCEPT
                                 ![r] = Append(token_sequence[r], <<r, tokens[r]>>)]
         /\ MemoryOK(pool', table', Held')
         /\ BlocksFor(tokens[r] + 1) <= TotalBlocks
         /\ \/ /\ tokens[r] + 1 >= actual_length[r]
               /\ table' = [table EXCEPT ![r] = <<>>]
               /\ active' = active \ {r}
               /\ status' = [status EXCEPT ![r] = "completed"]
               /\ output' = [output EXCEPT ![r] = token_sequence'[r]]
            \/ /\ ~(tokens[r] + 1 >= actual_length[r])
               /\ table' = [table EXCEPT ![r] = t]
               /\ UNCHANGED <<active, status, output>>
<1> DEFINE w == Write(p, BlockAt(t, tokens[r]), OffsetOf(tokens[r]),
                      <<r, tokens[r]>>)
           u == [table EXCEPT ![r] = t]
           m == [Held EXCEPT ![r] = Held[r] + 1]
<1>1. /\ Serve(r) /\ r \in active /\ Prepared(r, p, t) /\ StoreToken(r, p, t)
      /\ todo' = todo \ {r} /\ UNCHANGED <<waiting, swap_store>>
  BY DEF GenerateToken
<1>2. /\ phase = "generate"
      /\ UNCHANGED <<workload, step, phase, attempts, restoring>>
  BY <1>1 DEF Serve
<1>3. /\ restoring = None /\ status[r] = "active"
  BY <1>1, <1>2 DEF IInv, Places
<1>4. /\ tokens[r] \in Nat /\ Held[r] = tokens[r]
      /\ tokens \in [Requests -> Nat] /\ table \in [Requests -> Seq(Blocks)]
  BY <1>1 DEF IInv, TypeOK, Held
<1>5. /\ tokens' = [tokens EXCEPT ![r] = tokens[r] + 1]
      /\ token_sequence' = [token_sequence EXCEPT
                              ![r] = Append(token_sequence[r], <<r, tokens[r]>>)]
  BY <1>1 DEF StoreToken
<1>6. \/ /\ tokens[r] + 1 >= actual_length[r]
         /\ pool' = Free(w, Range(t))
         /\ table' = [table EXCEPT ![r] = <<>>]
         /\ active' = active \ {r}
         /\ status' = [status EXCEPT ![r] = "completed"]
         /\ output' = [output EXCEPT ![r] = token_sequence'[r]]
      \/ /\ ~(tokens[r] + 1 >= actual_length[r])
         /\ pool' = w
         /\ table' = [table EXCEPT ![r] = t]
         /\ UNCHANGED <<active, status, output>>
  BY <1>1 DEF StoreToken, LastToken
<1>7. /\ MemoryOK(p, u, Held) /\ BlockOf(tokens[r]) < Len(t) /\ u[r] = t
  BY <1>1, <1>4 DEF Prepared
<1>8. MemoryOK(w, u, m)
  <2>1. BlockOf(Held[r]) < Len(u[r])
    BY <1>4, <1>7
  <2>2. MemoryOK(Write(p, BlockAt(u[r], Held[r]), OffsetOf(Held[r]),
                       <<r, Held[r]>>), u, m)
    BY <1>7, <2>1, MemoryStore
  <2> QED  BY <1>4, <1>7, <2>2
<1>9. tokens' \in [Requests -> Nat]
  BY <1>4, <1>5
<1>10. MemoryOK(pool', table', Held')
  <2>1. CASE UNCHANGED active
    <3>1. Held' = m
      BY <1>1, <1>4, <1>5, <2>1 DEF Held
    <3> QED  BY <1>1, <1>6, <1>8, <2>1, <3>1
  <2>2. CASE active' = active \ {r}
    <3>1. Held' = [m EXCEPT ![r] = 0]
      BY <1>1, <1>4, <1>5, <2>2 DEF Held
    <3>2. table' = [u EXCEPT ![r] = <<>>] /\ pool' = Free(w, Range(u[r]))
      BY <1>1, <1>4, <1>6, <1>7, <2>2
    <3> HIDE DEF w, u, m
    <3> QED  BY <1>8, <3>1, <3>2, MemoryDrop
  <2> QED  BY <1>6, <2>1, <2>2
<1>11. BlocksFor(tokens[r] + 1) <= TotalBlocks
  <2>1. t \in Seq(Blocks) /\ IsInjective(t)
    BY <1>7 DEF MemoryOK, BlocksAccounted
  <2>2. Len(t) <= TotalBlocks /\ Len(t) \in Nat
    BY <2>1, TableFits
  <2>3. BlocksFor(tokens[r] + 1) = BlockOf(tokens[r]) + 1 /\ BlockOf(tokens[r]) \in Nat
    BY <1>4, BlocksForNext
  <2> QED  BY <1>7, <2>2, <2>3, BlockPoolAssumption
<1> QED  BY <1>1, <1>2, <1>3, <1>4, <1>5, <1>6, <1>9, <1>10, <1>11

(* What an iteration of _admit takes from the queue. *)
LEMMA TakeEffect ==
  ASSUME IInv, NEW r \in Requests, TakeFirst(r)
  PROVE  /\ restoring = None /\ phase \in {"admit", "readmit"}
         /\ Cardinality(active) < ActiveLimit
         /\ r \in Range(waiting) /\ r \notin active /\ status[r] = "waiting"
         /\ table[r] = <<>>
         /\ waiting' \in Seq(Requests) /\ IsInjective(waiting')
         /\ Range(waiting') = Range(waiting) \ {r}
         /\ attempts' \in Nat
<1>1. /\ restoring = None /\ phase \in {"admit", "readmit"}
      /\ Cardinality(active) < ActiveLimit /\ attempts > 0
      /\ waiting # <<>> /\ r = Head(waiting) /\ waiting' = Tail(waiting)
      /\ attempts' = attempts - 1
  BY DEF TakeFirst, MayAdmit, SlotOpen
<1>2. waiting \in Seq(Requests) /\ IsInjective(waiting) /\ attempts \in Nat
  BY DEF IInv, TypeOK, Places
<1>3. /\ r \in Range(waiting) /\ waiting' \in Seq(Requests)
      /\ IsInjective(waiting') /\ Range(waiting') = Range(waiting) \ {r}
  BY <1>1, <1>2, QueueTail
<1>4. status[r] = "waiting"
  BY <1>3 DEF IInv, Places
<1>5. r \notin active
  BY <1>4 DEF IInv, Places
<1>6. table[r] = <<>>
  BY <1>1, <1>5, BlockPoolAssumption DEF IInv, Memory
<1>7. attempts' \in Nat
  BY <1>1, <1>2
<1> QED  BY <1>1, <1>3, <1>4, <1>5, <1>6, <1>7

(* What _restore finds in the swap store is the sequence of the request.    *)
LEMMA RestoreEffect ==
  ASSUME IInv, NEW r \in Requests, restoring = r
  PROVE  /\ Saved(r) = token_sequence[r] /\ Saved(r) = TokensOf(r, tokens[r])
         /\ token_sequence = [token_sequence EXCEPT ![r] = Saved(r)]
         /\ r \notin active /\ r \notin Range(waiting)
         /\ status[r] = "waiting" /\ Held[r] = 0 /\ r # None
         /\ phase \in {"admit", "readmit"}
<1>1. status[r] = "waiting" /\ r \notin Range(waiting)
  BY DEF IInv, Places
<1>2. r \notin active
  BY <1>1 DEF IInv, Places
<1>3. token_sequence[r] = TokensOf(r, tokens[r])
  BY DEF IInv, Sequences
<1>4. swap_store[r] = token_sequence[r]
  BY <1>1 DEF IInv, Sequences
<1>5. Saved(r) = token_sequence[r]
  BY <1>4 DEF Saved
<1>6. token_sequence = [token_sequence EXCEPT ![r] = Saved(r)]
  BY <1>5 DEF IInv, TypeOK
<1>7. r # None /\ phase \in {"admit", "readmit"}
  BY BlockPoolAssumption DEF IInv, Places
<1> QED  BY <1>1, <1>2, <1>3, <1>5, <1>6, <1>7 DEF Held

-----------------------------------------------------------------------------
(* Every action keeps the blocks accounted for and the tokens in them.      *)
LEMMA MemoryStep ==
  ASSUME IInv, [Next]_vars
  PROVE  Memory'
<1>1. /\ MemoryOK(pool, table, Held)
      /\ \A r \in Requests : table[r] # <<>> => r \in active \/ r = restoring
      /\ table \in [Requests -> Seq(Blocks)] /\ tokens \in [Requests -> Nat]
  BY DEF IInv, Memory, TypeOK
<1>2. ASSUME UNCHANGED <<memory, active, restoring>>  PROVE Memory'
  <2>1. Held' = Held
    BY <1>2 DEF memory, Held
  <2> QED  BY <1>1, <1>2, <2>1 DEF memory, Memory
<1>3. ASSUME NEW r \in Requests, AdmitFresh(r)  PROVE Memory'
  <2>1. /\ UNCHANGED <<memory, restoring>> /\ active' = active \cup {r}
        /\ tokens[r] = 0
    BY <1>3 DEF AdmitFresh
  <2>2. Held' = Held
    BY <2>1 DEF memory, Held
  <2> QED  BY <1>1, <2>1, <2>2 DEF memory, Memory
<1>4. ASSUME NEW r \in Requests, BeginRestore(r)  PROVE Memory'
  <2>1. /\ UNCHANGED <<memory, active>> /\ restoring = None /\ restoring' = r
    BY <1>4, TakeEffect DEF BeginRestore
  <2>2. Held' = Held
    BY <2>1 DEF memory, Held
  <2> QED  BY <1>1, <2>1, <2>2, BlockPoolAssumption DEF memory, Memory
<1>5. ASSUME NEW r \in Requests, FinishRestore(r)  PROVE Memory'
  <2>1. /\ restoring = r /\ Len(table[r]) = BlocksFor(tokens[r])
        /\ pool' = WriteAll(pool, table[r], Saved(r))
        /\ active' = active \cup {r} /\ UNCHANGED <<tokens, table>>
    BY <1>5 DEF FinishRestore, BlocksToRestore
  <2>2. Saved(r) = TokensOf(r, tokens[r]) /\ Held[r] = 0
    BY <2>1, RestoreEffect
  <2>3. tokens[r] \in Nat /\ BlocksFor(tokens[r]) <= Len(table[r])
    BY <1>1, <2>1, BlocksForNext
  <2>4. Held' = [Held EXCEPT ![r] = tokens[r]]
    BY <1>1, <2>1 DEF Held
  <2>5. MemoryOK(pool', table', Held')
    BY <1>1, <2>1, <2>2, <2>3, <2>4, MemoryRestore
  <2> QED  BY <1>1, <2>1, <2>5 DEF Memory
<1>6. ASSUME NEW r \in Requests, NEW b \in Blocks, RestoreBlock(r, b)
      PROVE  Memory'
  <2>1. /\ restoring = r /\ b \in pool.free
        /\ pool' = Allocate(pool, b, r)
        /\ table' = [table EXCEPT ![r] = Append(table[r], b)]
        /\ UNCHANGED <<restoring, active, tokens>>
    BY <1>6 DEF RestoreBlock, Least
  <2>2. Held' = Held
    BY <2>1 DEF Held
  <2>3. MemoryOK(pool', table', Held')
    BY <1>1, <2>1, <2>2, MemoryAllocate
  <2> QED  BY <1>1, <2>1, <2>3 DEF Memory
<1>7. ASSUME NEW v \in Requests, Evict(v)  PROVE Memory'
  <2>1. /\ active' = active \ {v} /\ restoring' = restoring
        /\ table' = [table EXCEPT ![v] = <<>>]
        /\ MemoryOK(pool', table', Held')
    BY <1>7, EvictEffect DEF Evict
  <2> QED  BY <1>1, <2>1 DEF Memory
<1>8. ASSUME NEW r \in Requests, NEW p, NEW t, GenerateToken(r, p, t)
      PROVE  Memory'
  <2>1. /\ r \in active /\ restoring' = restoring
        /\ \/ table' = [table EXCEPT ![r] = <<>>] /\ active' = active \ {r}
           \/ table' = [table EXCEPT ![r] = t] /\ active' = active
        /\ MemoryOK(pool', table', Held')
    BY <1>8, GenerateEffect
  <2> QED  BY <1>1, <2>1 DEF Memory
<1> QED
  BY <1>2, <1>3, <1>4, <1>5, <1>6, <1>7, <1>8, StepCases
  DEF vars, BeginAdmit, BeginGenerate, AdmitOver, BeginReadmit, EndStep,
      Return, Enqueue, SkipPreempted, Serve

LEMMA TypeStep ==
  ASSUME IInv, Memory', [Next]_vars
  PROVE  TypeOK'
<1>1. pool' \in Pool /\ table' \in [Requests -> Seq(Blocks)]
  BY DEF Memory, MemoryOK
<1>2. ASSUME NEW r \in Requests, Enqueue(r)  PROVE TypeOK'
  <2>1. waiting' \in Seq(Requests)
    BY <1>2, QueueAppend DEF Enqueue, IInv, TypeOK
  <2> QED
    BY <1>2, <2>1 DEF Enqueue, IInv, TypeOK, Statuses, workload, memory
<1>3. ASSUME BeginAdmit \/ BeginReadmit  PROVE TypeOK'
  <2>1. attempts' \in Nat
    BY <1>3 DEF BeginAdmit, BeginReadmit, IInv, TypeOK
  <2> QED
    BY <1>3, <2>1
    DEF BeginAdmit, BeginReadmit, IInv, TypeOK, Phases, workload, memory
<1>4. ASSUME NEW r \in Requests, AdmitFresh(r)  PROVE TypeOK'
  <2>1. waiting' \in Seq(Requests) /\ attempts' \in Nat
    BY <1>4, TakeEffect DEF AdmitFresh
  <2> QED
    BY <1>4, <2>1 DEF AdmitFresh, IInv, TypeOK, Statuses, workload, memory
<1>5. ASSUME NEW r \in Requests, BeginRestore(r)  PROVE TypeOK'
  <2>1. waiting' \in Seq(Requests) /\ attempts' \in Nat
    BY <1>5, TakeEffect DEF BeginRestore
  <2> QED
    BY <1>5, <2>1 DEF BeginRestore, IInv, TypeOK, workload, memory
<1>6. ASSUME NEW r \in Requests, NEW b \in Blocks, RestoreBlock(r, b)
      PROVE  TypeOK'
  BY <1>1, <1>6 DEF RestoreBlock, IInv, TypeOK, workload
<1>7. ASSUME NEW r \in Requests, FinishRestore(r)  PROVE TypeOK'
  <2>1. token_sequence' = token_sequence
    BY <1>7, RestoreEffect DEF FinishRestore
  <2> QED
    BY <1>1, <1>7, <2>1
    DEF FinishRestore, IInv, TypeOK, Statuses, workload
<1>8. ASSUME BeginGenerate \/ EndStep  PROVE TypeOK'
  <2>1. step' \in Nat /\ todo' \subseteq Requests
    BY <1>8 DEF BeginGenerate, EndStep, IInv, TypeOK
  <2> QED
    BY <1>8, <2>1
    DEF BeginGenerate, EndStep, AdmitOver, IInv, TypeOK, Phases, workload,
        memory
<1>9. ASSUME NEW v \in Requests, Evict(v)  PROVE TypeOK'
  <2>1. /\ waiting' = Append(waiting, v) /\ active' = active \ {v}
        /\ status' = [status EXCEPT ![v] = "waiting"]
        /\ todo' \subseteq todo
        /\ UNCHANGED <<workload, step, phase, attempts, restoring, output>>
    BY <1>9, EvictEffect DEF Evict
  <2>2. /\ tokens' \in [Requests -> Nat]
        /\ token_sequence' \in [Requests -> Seq(Token)]
        /\ swap_store' \in [Requests -> Seq(Token) \cup {None}]
    <3>1. /\ tokens \in [Requests -> Nat] /\ <<>> \in Seq(Token)
          /\ token_sequence \in [Requests -> Seq(Token)]
          /\ swap_store \in [Requests -> Seq(Token) \cup {None}]
      BY DEF IInv, TypeOK
    <3>2. \/ /\ tokens' = [tokens EXCEPT ![v] = 0]
             /\ token_sequence' = [token_sequence EXCEPT ![v] = <<>>]
             /\ swap_store' = [swap_store EXCEPT ![v] = None]
          \/ /\ swap_store' = [swap_store EXCEPT ![v] = token_sequence[v]]
             /\ UNCHANGED <<tokens, token_sequence>>
      BY <1>9, EvictEffect
    <3>3. tokens' \in [Requests -> Nat]
      BY <3>1, <3>2
    <3>4. token_sequence' \in [Requests -> Seq(Token)]
      <4> DEFINE e == <<>>
      <4>1. e \in Seq(Token)
        BY <3>1
      <4> HIDE DEF e
      <4>2. [token_sequence EXCEPT ![v] = e] \in [Requests -> Seq(Token)]
        BY <3>1, <4>1
      <4> QED  BY <3>1, <3>2, <4>2 DEF e
    <3>5. swap_store' \in [Requests -> Seq(Token) \cup {None}]
      <4>1. token_sequence[v] \in Seq(Token)
        BY <3>1
      <4> QED  BY <3>1, <3>2, <4>1
    <3> QED  BY <3>3, <3>4, <3>5
  <2>3. waiting' \in Seq(Requests)
    BY <2>1, QueueAppend DEF IInv, TypeOK
  <2> QED
    BY <1>1, <2>1, <2>2, <2>3 DEF IInv, TypeOK, Statuses, workload
<1>10. ASSUME NEW r \in Requests, SkipPreempted(r)  PROVE TypeOK'
  BY <1>10 DEF SkipPreempted, Serve, IInv, TypeOK, workload, memory
<1>11. ASSUME NEW r \in Requests, NEW p, NEW t, GenerateToken(r, p, t)
       PROVE  TypeOK'
  <2>1. /\ UNCHANGED <<workload, step, phase, attempts, restoring, waiting,
                       swap_store>>
        /\ todo' = todo \ {r} /\ tokens' \in [Requests -> Nat]
        /\ tokens[r] \in Nat
        /\ token_sequence' = [token_sequence EXCEPT
                                ![r] = Append(token_sequence[r], <<r, tokens[r]>>)]
    BY <1>11, GenerateEffect
  <2>2. \/ /\ active' = active \ {r}
           /\ status' = [status EXCEPT ![r] = "completed"]
           /\ output' = [output EXCEPT ![r] = token_sequence'[r]]
        \/ UNCHANGED <<active, status, output>>
    BY <1>11, GenerateEffect
  <2>3. token_sequence' \in [Requests -> Seq(Token)]
    <3>1. <<r, tokens[r]>> \in Token
      BY <2>1 DEF Token
    <3>2. token_sequence \in [Requests -> Seq(Token)]
      BY DEF IInv, TypeOK
    <3> QED  BY <2>1, <3>1, <3>2
  <2>4. output' \in [Requests -> Seq(Token) \cup {None}]
    <3>1. output \in [Requests -> Seq(Token) \cup {None}]
      BY DEF IInv, TypeOK
    <3>2. token_sequence'[r] \in Seq(Token)
      BY <2>3
    <3> QED  BY <2>2, <3>1, <3>2
  <2>5. status' \in [Requests -> Statuses] /\ active' \subseteq Requests
    BY <2>2 DEF IInv, TypeOK, Statuses
  <2> QED
    BY <1>1, <2>1, <2>3, <2>4, <2>5 DEF IInv, TypeOK, workload
<1>12. ASSUME Return  PROVE TypeOK'
  BY <1>12 DEF Return, IInv, TypeOK, Phases, workload, memory
<1>13. ASSUME UNCHANGED vars  PROVE TypeOK'
  BY <1>13 DEF vars, IInv, TypeOK, workload, memory
<1> QED
  BY <1>2, <1>3, <1>4, <1>5, <1>6, <1>7, <1>8, <1>9, <1>10, <1>11, <1>12,
     <1>13, StepCases

-----------------------------------------------------------------------------
(* Every action moves requests from one place to the next. *)
LEMMA PlacesStep ==
  ASSUME IInv, [Next]_vars
  PROVE  Places'
<1>1. /\ Places /\ step \in Nat
      /\ waiting \in Seq(Requests) /\ IsInjective(waiting)
      /\ arrival_time \in [Requests -> 0 .. MaxArrival]
      /\ status \in [Requests -> Statuses]
      /\ None \notin Requests
  BY BlockPoolAssumption DEF IInv, TypeOK, Places
<1>2. ASSUME UNCHANGED <<workload, step, phase, restoring, active, waiting,
                         status>>
      PROVE  Places'
  BY <1>1, <1>2 DEF Places, workload
<1>3. ASSUME NEW r \in Requests, Enqueue(r)  PROVE Places'
  <2>1. /\ UNCHANGED <<workload, step, phase, restoring, active>>
        /\ waiting' = Append(waiting, r) /\ status[r] = "new"
        /\ status' = [status EXCEPT ![r] = "waiting"] /\ phase = "arrive"
    BY <1>3 DEF Enqueue, Least, Arriving
  <2>2. r \notin Range(waiting) /\ r # restoring /\ r \notin active
    BY <1>1, <2>1 DEF Places
  <2>3. IsInjective(waiting') /\ Range(waiting') = Range(waiting) \cup {r}
    BY <1>1, <2>1, <2>2, QueueAppend
  <2> QED  BY <1>1, <2>1, <2>2, <2>3 DEF Places, workload
<1>4. ASSUME BeginAdmit  PROVE Places'
  <2>1. /\ UNCHANGED <<workload, step, restoring, active, waiting, status>>
        /\ phase = "arrive" /\ phase' = "admit" /\ Arriving = {}
    BY <1>4 DEF BeginAdmit
  <2> QED  BY <1>1, <2>1 DEF Places, workload, Arriving
<1>5. ASSUME NEW r \in Requests, AdmitFresh(r)  PROVE Places'
  <2>1. /\ UNCHANGED <<workload, step, phase, restoring>>
        /\ status' = [status EXCEPT ![r] = "active"]
        /\ active' = active \cup {r}
    BY <1>5 DEF AdmitFresh
  <2>2. /\ restoring = None /\ phase \in {"admit", "readmit"}
        /\ r \in Range(waiting) /\ r \notin active
        /\ IsInjective(waiting') /\ Range(waiting') = Range(waiting) \ {r}
    BY <1>5, TakeEffect DEF AdmitFresh
  <2> QED  BY <1>1, <2>1, <2>2 DEF Places, workload
<1>6. ASSUME NEW r \in Requests, BeginRestore(r)  PROVE Places'
  <2>1. /\ UNCHANGED <<workload, step, phase, active, status>>
        /\ restoring' = r
    BY <1>6 DEF BeginRestore
  <2>2. /\ restoring = None /\ phase \in {"admit", "readmit"}
        /\ r \in Range(waiting) /\ status[r] = "waiting"
        /\ IsInjective(waiting') /\ Range(waiting') = Range(waiting) \ {r}
    BY <1>6, TakeEffect DEF BeginRestore
  <2> QED  BY <1>1, <2>1, <2>2 DEF Places, workload
<1>7. ASSUME NEW r \in Requests, FinishRestore(r)  PROVE Places'
  <2>1. /\ UNCHANGED <<workload, step, phase, waiting>>
        /\ restoring = r /\ restoring' = None
        /\ status' = [status EXCEPT ![r] = "active"]
        /\ active' = active \cup {r}
    BY <1>7 DEF FinishRestore
  <2>2. r \notin Range(waiting) /\ phase \in {"admit", "readmit"}
    BY <2>1, RestoreEffect
  <2> QED  BY <1>1, <2>1, <2>2 DEF Places, workload
<1>8. ASSUME BeginGenerate \/ BeginReadmit  PROVE Places'
  <2>1. /\ UNCHANGED <<workload, step, restoring, active, waiting, status>>
        /\ phase \in {"admit", "generate"} /\ phase' \in {"generate", "readmit"}
        /\ restoring = None
    <3>1. phase = "generate" => restoring = None
      BY <1>1 DEF Places
    <3> QED  BY <1>8, <3>1 DEF BeginGenerate, AdmitOver, BeginReadmit
  <2> QED  BY <1>1, <2>1 DEF Places, workload
<1>9. ASSUME EndStep  PROVE Places'
  <2>1. /\ UNCHANGED <<workload, restoring, active, waiting, status>>
        /\ phase = "readmit" /\ phase' = "arrive" /\ restoring = None
        /\ step' = IF ArrivalsRemain THEN step + 1 ELSE step
    BY <1>9 DEF EndStep, AdmitOver
  <2>2. ASSUME NEW r \in Requests, status[r] = "new"
        PROVE  arrival_time[r] >= step'
    <3>1. arrival_time[r] \in Nat /\ arrival_time[r] > step
      BY <1>1, <2>1, <2>2 DEF Places
    <3> QED  BY <1>1, <2>1, <3>1
  <2>3. \A r \in Requests : arrival_time[r] \in Nat
    BY <1>1
  <2>4. step' \in Nat
    BY <1>1, <2>1
  <2> QED  BY <1>1, <2>1, <2>2, <2>3, <2>4 DEF Places, workload
<1>10. ASSUME NEW v \in Requests, Evict(v)  PROVE Places'
  <2>1. /\ UNCHANGED <<workload, step, phase, restoring>>
        /\ waiting' = Append(waiting, v) /\ active' = active \ {v}
        /\ status' = [status EXCEPT ![v] = "waiting"]
        /\ status[v] = "active" /\ v \notin Range(waiting) /\ v # restoring
    BY <1>10, EvictEffect DEF Evict
  <2>2. IsInjective(waiting') /\ Range(waiting') = Range(waiting) \cup {v}
    BY <1>1, <2>1, QueueAppend
  <2> QED  BY <1>1, <2>1, <2>2 DEF Places, workload
<1>11. ASSUME NEW r \in Requests, NEW p, NEW t, GenerateToken(r, p, t)
       PROVE  Places'
  <2>1. /\ UNCHANGED <<workload, step, phase, restoring, waiting>>
        /\ r \in active /\ status[r] = "active"
        /\ \/ /\ active' = active \ {r}
              /\ status' = [status EXCEPT ![r] = "completed"]
           \/ UNCHANGED <<active, status>>
    BY <1>11, GenerateEffect
  <2> QED  BY <1>1, <2>1 DEF Places, workload
<1>12. ASSUME Return  PROVE Places'
  <2>1. /\ UNCHANGED <<workload, step, restoring, active, waiting, status>>
        /\ phase = "arrive" /\ phase' = "done"
        /\ waiting = <<>> /\ active = {} /\ ~ArrivalsRemain
    BY <1>12 DEF Return
  <2>2. ASSUME NEW r \in Requests  PROVE status[r] = "completed"
    <3>1. restoring = None /\ r # restoring
      BY <1>1, <2>1 DEF Places
    <3>2. status[r] # "waiting" /\ status[r] # "active"
      BY <1>1, <2>1, <3>1 DEF Places, Range
    <3>3. arrival_time[r] \in Nat /\ arrival_time[r] < step
      BY <1>1, <2>1 DEF ArrivalsRemain
    <3>4. status[r] # "new"
      BY <1>1, <3>3 DEF Places
    <3> QED  BY <1>1, <3>2, <3>4 DEF Statuses
  <2> QED  BY <1>1, <2>1, <2>2 DEF Places, workload
<1> QED
  BY <1>2, <1>3, <1>4, <1>5, <1>6, <1>7, <1>8, <1>9, <1>10, <1>11, <1>12,
     StepCases
  DEF vars, SkipPreempted, Serve, RestoreBlock

(* Only an admission takes a place, and only an open one. *)
LEMMA LimitStep ==
  ASSUME IInv, [Next]_vars
  PROVE  WithinLimit'
<1> DEFINE held == active \cup ({restoring} \ {None})
<1>1. /\ IsFiniteSet(Requests) /\ None \notin Requests
      /\ Cardinality(held) <= ActiveLimit /\ ActiveLimit \in Nat
      /\ active \subseteq Requests /\ restoring \in Requests \cup {None}
  BY BlockPoolAssumption, PreemptionAssumption DEF IInv, TypeOK, WithinLimit
<1>2. IsFiniteSet(active) /\ IsFiniteSet(held)
  <2>1. held \in SUBSET Requests /\ active \in SUBSET Requests
    BY <1>1
  <2> HIDE DEF held
  <2> QED  BY <1>1, <2>1, FS_Subset
<1>3. ASSUME active' \cup ({restoring'} \ {None}) \subseteq held
      PROVE  WithinLimit'
  <2> DEFINE rest == active' \cup ({restoring'} \ {None})
  <2>1. rest \in SUBSET held
    BY <1>3
  <2> HIDE DEF held, rest
  <2>2. Cardinality(rest) <= Cardinality(held) /\ IsFiniteSet(rest)
    BY <1>2, <2>1, FS_Subset
  <2>3. Cardinality(rest) \in Nat /\ Cardinality(held) \in Nat
    BY <1>2, <2>2, FS_CardinalityType
  <2>4. Cardinality(rest) <= ActiveLimit
    BY <1>1, <2>2, <2>3
  <2> QED  BY <2>4 DEF WithinLimit, rest
<1>4. ASSUME NEW r \in Requests, TakeFirst(r),
             active' \cup ({restoring'} \ {None}) = active \cup {r}
      PROVE  WithinLimit'
  <2>1. Cardinality(active) < ActiveLimit /\ r \notin active
    BY <1>4, TakeEffect
  <2>2. Cardinality(active \cup {r}) = Cardinality(active) + 1
    BY <1>2, <2>1, FS_AddElement
  <2>3. Cardinality(active) \in Nat
    BY <1>2, FS_CardinalityType
  <2>4. Cardinality(active \cup {r}) <= ActiveLimit
    BY <1>1, <2>1, <2>2, <2>3
  <2> QED  BY <1>4, <2>4 DEF WithinLimit
<1>5. ASSUME NEW r \in Requests, AdmitFresh(r)  PROVE WithinLimit'
  <2>1. TakeFirst(r) /\ restoring' = None /\ active' = active \cup {r}
    BY <1>5, TakeEffect DEF AdmitFresh
  <2> QED  BY <1>4, <2>1
<1>6. ASSUME NEW r \in Requests, BeginRestore(r)  PROVE WithinLimit'
  <2>1. TakeFirst(r) /\ restoring' = r /\ active' = active
    BY <1>6 DEF BeginRestore
  <2>2. active' \cup ({restoring'} \ {None}) = active \cup {r}
    BY <1>1, <2>1
  <2> QED  BY <1>4, <2>1, <2>2
<1>7. ASSUME NEW r \in Requests, FinishRestore(r)  PROVE WithinLimit'
  BY <1>1, <1>3, <1>7 DEF FinishRestore
<1>8. ASSUME NEW v \in Requests, Evict(v)  PROVE WithinLimit'
  <2>1. active' = active \ {v} /\ restoring' = restoring
    BY <1>8, EvictEffect DEF Evict
  <2> QED  BY <1>3, <2>1
<1>9. ASSUME NEW r \in Requests, NEW p, NEW t, GenerateToken(r, p, t)
      PROVE  WithinLimit'
  <2>1. active' \subseteq active /\ restoring' = restoring
    BY <1>9, GenerateEffect
  <2> QED  BY <1>3, <2>1
<1>10. ASSUME UNCHANGED <<active, restoring>>  PROVE WithinLimit'
  BY <1>3, <1>10
<1> QED
  BY <1>5, <1>6, <1>7, <1>8, <1>9, <1>10, StepCases
  DEF vars, BeginAdmit, BeginGenerate, AdmitOver, BeginReadmit, EndStep,
      Return, Enqueue, SkipPreempted, Serve, RestoreBlock

-----------------------------------------------------------------------------
(* Preemption, restoration and generation keep the sequence of a request    *)
(* and all the copies of it in step with its count of tokens.               *)
LEMMA SequencesStep ==
  ASSUME IInv, [Next]_vars
  PROVE  Sequences'
<1>1. /\ Sequences
      /\ tokens \in [Requests -> Nat] /\ status \in [Requests -> Statuses]
      /\ token_sequence \in [Requests -> Seq(Token)]
      /\ swap_store \in [Requests -> Seq(Token) \cup {None}]
      /\ output \in [Requests -> Seq(Token) \cup {None}]
      /\ actual_length \in [Requests -> 1 .. MaxLength]
      /\ threshold \in Nat /\ None \notin Requests
  BY BlockPoolAssumption, PreemptionAssumption DEF IInv, TypeOK
<1>2. ASSUME UNCHANGED <<workload, restoring, status, memory, output>>
      PROVE  Sequences'
  BY <1>1, <1>2 DEF Sequences, workload, memory
<1>3. ASSUME UNCHANGED <<workload, restoring, status, tokens, token_sequence,
                         swap_store, output>>
      PROVE  Sequences'
  BY <1>1, <1>3 DEF Sequences, workload
<1>4. ASSUME NEW r \in Requests, Enqueue(r)  PROVE Sequences'
  <2>1. /\ UNCHANGED <<workload, restoring, memory, output>>
        /\ status[r] = "new" /\ status' = [status EXCEPT ![r] = "waiting"]
    BY <1>4 DEF Enqueue, Least, Arriving
  <2> QED  BY <1>1, <2>1 DEF Sequences, workload, memory
<1>5. ASSUME NEW r \in Requests, AdmitFresh(r)  PROVE Sequences'
  <2>1. /\ UNCHANGED <<workload, restoring, memory, output>>
        /\ status[r] = "waiting" /\ status' = [status EXCEPT ![r] = "active"]
    BY <1>5, TakeEffect DEF AdmitFresh
  <2> QED  BY <1>1, <2>1 DEF Sequences, workload, memory
<1>6. ASSUME NEW r \in Requests, BeginRestore(r)  PROVE Sequences'
  <2>1. /\ UNCHANGED <<workload, status, memory, output>>
        /\ restoring' = r /\ tokens[r] > 0
    BY <1>6 DEF BeginRestore
  <2> QED  BY <1>1, <2>1 DEF Sequences, workload, memory
<1>7. ASSUME NEW r \in Requests, FinishRestore(r)  PROVE Sequences'
  <2>1. /\ UNCHANGED <<workload, tokens, swap_store, output>>
        /\ restoring = r /\ restoring' = None
        /\ token_sequence' = token_sequence
        /\ status[r] = "waiting" /\ status' = [status EXCEPT ![r] = "active"]
    BY <1>7, RestoreEffect DEF FinishRestore
  <2> QED  BY <1>1, <2>1 DEF Sequences, workload
<1>8. ASSUME NEW v \in Requests, Evict(v)  PROVE Sequences'
  <2>1. /\ UNCHANGED <<workload, restoring, output>>
        /\ status' = [status EXCEPT ![v] = "waiting"]
        /\ status[v] = "active" /\ v # restoring
    BY <1>8, EvictEffect DEF Evict
  <2>2. /\ tokens[v] \in Nat /\ tokens[v] < actual_length[v]
        /\ actual_length[v] \in Nat
        /\ token_sequence[v] = TokensOf(v, tokens[v])
    BY <1>1, <2>1 DEF Sequences
  <2>3. \/ /\ tokens' = [tokens EXCEPT ![v] = 0]
           /\ token_sequence' = [token_sequence EXCEPT ![v] = <<>>]
           /\ swap_store' = [swap_store EXCEPT ![v] = None]
        \/ /\ ~(tokens[v] < threshold)
           /\ swap_store' = [swap_store EXCEPT ![v] = token_sequence[v]]
           /\ UNCHANGED <<tokens, token_sequence>>
    BY <1>8, EvictEffect
  <2>4. CASE /\ tokens' = [tokens EXCEPT ![v] = 0]
             /\ token_sequence' = [token_sequence EXCEPT ![v] = <<>>]
             /\ swap_store' = [swap_store EXCEPT ![v] = None]
    <3>1. /\ tokens'[v] = 0 /\ token_sequence'[v] = <<>>
          /\ swap_store'[v] = None /\ TokensOf(v, 0) = <<>>
          /\ status'[v] = "waiting" /\ 0 < actual_length[v]
      BY <1>1, <2>1, <2>2, <2>4, TokensOfNext
    <3>2. \A q \in Requests \ {v} :
            /\ tokens'[q] = tokens[q] /\ token_sequence'[q] = token_sequence[q]
            /\ swap_store'[q] = swap_store[q] /\ status'[q] = status[q]
      BY <1>1, <2>1, <2>4
    <3> QED  BY <1>1, <2>1, <3>1, <3>2 DEF Sequences, workload
  <2>5. CASE /\ ~(tokens[v] < threshold)
             /\ swap_store' = [swap_store EXCEPT ![v] = token_sequence[v]]
             /\ UNCHANGED <<tokens, token_sequence>>
    <3>1. /\ swap_store'[v] = token_sequence[v] /\ status'[v] = "waiting"
          /\ tokens[v] >= threshold
      BY <1>1, <2>1, <2>2, <2>5
    <3>2. \A q \in Requests \ {v} :
            swap_store'[q] = swap_store[q] /\ status'[q] = status[q]
      BY <1>1, <2>1, <2>5
    <3> QED  BY <1>1, <2>1, <2>2, <2>5, <3>1, <3>2 DEF Sequences, workload
  <2> QED  BY <2>3, <2>4, <2>5
<1>9. ASSUME NEW r \in Requests, NEW p, NEW t, GenerateToken(r, p, t)
      PROVE  Sequences'
  <2>1. /\ UNCHANGED <<workload, restoring, swap_store>>
        /\ status[r] = "active" /\ restoring = None
        /\ tokens' = [tokens EXCEPT ![r] = tokens[r] + 1]
        /\ token_sequence' = [token_sequence EXCEPT
                                ![r] = Append(token_sequence[r], <<r, tokens[r]>>)]
    BY <1>9, GenerateEffect
  <2>2. /\ tokens[r] \in Nat /\ tokens[r] < actual_length[r]
        /\ actual_length[r] \in Nat
        /\ token_sequence[r] = TokensOf(r, tokens[r])
        /\ swap_store[r] # None => tokens[r] >= threshold
    BY <1>1, <2>1 DEF Sequences
  <2>3. /\ tokens'[r] = tokens[r] + 1
        /\ token_sequence'[r] = TokensOf(r, tokens[r] + 1)
        /\ swap_store'[r] # None => tokens'[r] >= threshold
    <3>1. tokens'[r] = tokens[r] + 1 /\ swap_store' = swap_store
      BY <1>1, <2>1
    <3>2. token_sequence'[r] = Append(token_sequence[r], <<r, tokens[r]>>)
      BY <1>1, <2>1
    <3>3. TokensOf(r, tokens[r] + 1) =
            Append(TokensOf(r, tokens[r]), <<r, tokens[r]>>)
      BY <2>2, TokensOfNext
    <3> QED  BY <1>1, <2>2, <3>1, <3>2, <3>3
  <2>4. \A q \in Requests \ {r} :
          tokens'[q] = tokens[q] /\ token_sequence'[q] = token_sequence[q]
    BY <1>1, <2>1
  <2>5. /\ \/ /\ tokens[r] + 1 = actual_length[r]
              /\ status'[r] = "completed"
              /\ output'[r] = token_sequence'[r]
           \/ /\ tokens[r] + 1 < actual_length[r]
              /\ status'[r] = "active"
        /\ \A q \in Requests \ {r} :
             status'[q] = status[q] /\ output'[q] = output[q]
    <3>1. \/ /\ tokens[r] + 1 >= actual_length[r]
             /\ status' = [status EXCEPT ![r] = "completed"]
             /\ output' = [output EXCEPT ![r] = token_sequence'[r]]
          \/ /\ ~(tokens[r] + 1 >= actual_length[r])
             /\ UNCHANGED <<status, output>>
      BY <1>9, GenerateEffect
    <3> QED  BY <1>1, <2>1, <2>2, <3>1
  <2>6. ASSUME NEW q \in Requests
        PROVE  /\ token_sequence'[q] = TokensOf(q, tokens'[q])
               /\ status'[q] = "new" => tokens'[q] = 0
               /\ status'[q] # "completed" => tokens'[q] < actual_length[q]
               /\ status'[q] = "waiting" /\ tokens'[q] > 0 =>
                    swap_store'[q] = token_sequence'[q]
               /\ swap_store'[q] # None => tokens'[q] >= threshold
               /\ q = restoring' => tokens'[q] > 0
               /\ status'[q] = "completed" =>
                    output'[q] = TokensOf(q, actual_length[q])
    <3>1. CASE q = r
      <4>1. r # restoring'
        BY <1>1, <2>1
      <4> QED  BY <2>2, <2>3, <2>5, <3>1, <4>1
    <3>2. CASE q # r
      BY <1>1, <2>1, <2>4, <2>5, <3>2 DEF Sequences
    <3> QED  BY <3>1, <3>2
  <2> QED  BY <2>1, <2>6 DEF Sequences, workload
<1>10. ASSUME NEW r \in Requests, NEW b \in Blocks, RestoreBlock(r, b)
       PROVE  Sequences'
  BY <1>3, <1>10 DEF RestoreBlock
<1> QED
  BY <1>2, <1>4, <1>5, <1>6, <1>7, <1>8, <1>9, <1>10, StepCases
  DEF vars, BeginAdmit, BeginGenerate, AdmitOver, BeginReadmit, EndStep,
      Return, SkipPreempted, Serve

-----------------------------------------------------------------------------
(* A restoration that has taken no block yet can make room for all it needs.*)
NothingRestored ==
  /\ TypeOK
  /\ Memory
  /\ restoring \in Requests \ active
  /\ table[restoring] = <<>>
  /\ BlocksFor(tokens[restoring]) <= TotalBlocks

LEMMA RoomCanBeMade == NothingRestored => RestoreHasRoom
<1> SUFFICES ASSUME NothingRestored  PROVE RestoreHasRoom
  OBVIOUS
<1>1. /\ restoring \in Requests /\ restoring \notin active
      /\ table[restoring] = <<>> /\ tokens[restoring] \in Nat
      /\ BlocksFor(tokens[restoring]) <= TotalBlocks
      /\ pool \in Pool
  BY DEF NothingRestored, TypeOK
<1>2. BlocksToRestore(restoring) = BlocksFor(tokens[restoring])
      /\ BlocksFor(tokens[restoring]) \in Nat
  BY <1>1, BlocksForNext DEF BlocksToRestore
<1>3. BlocksToRestore(restoring) - Len(table[restoring]) =
        BlocksFor(tokens[restoring])
  BY <1>1, <1>2
<1>4. RoomMade(restoring) <=>
        Cardinality(pool.free) >= BlocksFor(tokens[restoring])
  BY <1>1, <1>2 DEF RoomMade
<1>5. ASSUME active = {}  PROVE RoomMade(restoring)
  <2>1. \A r \in Requests : table[r] = <<>>
    BY <1>1, <1>5 DEF NothingRestored, Memory
  <2>2. pool = NewPool
    BY <2>1, MemoryWhole DEF NothingRestored, Memory
  <2>3. pool.free = Blocks
    BY <2>2 DEF NewPool
  <2>4. Cardinality(pool.free) = TotalBlocks
    BY <2>3, BlocksFinite
  <2> QED  BY <1>1, <1>2, <1>4, <2>4, BlockPoolAssumption
<1> QED  BY <1>2, <1>3, <1>4, <1>5 DEF RestoreHasRoom

(* The room that _make_room has made lasts until the last block is taken.   *)
LEMMA RoomStep ==
  ASSUME IInv, TypeOK', Memory', [Next]_vars
  PROVE  Room'
<1>1. /\ RestoreHasRoom /\ \A r \in Requests : BlocksFor(tokens[r]) <= TotalBlocks
      /\ tokens \in [Requests -> Nat] /\ table \in [Requests -> Seq(Blocks)]
      /\ pool \in Pool /\ restoring \in Requests \cup {None}
      /\ None \notin Requests
  BY BlockPoolAssumption DEF IInv, TypeOK, Room
<1>2. NothingRestored' => RestoreHasRoom'
  BY RoomCanBeMade, PTL
<1>3. ASSUME UNCHANGED <<restoring, active, memory>>  PROVE Room'
  BY <1>1, <1>3
  DEF memory, Room, RestoreHasRoom, BlocksToRestore, RoomMade
<1>4. ASSUME restoring' = None, tokens' = tokens  PROVE Room'
  BY <1>1, <1>4 DEF Room, RestoreHasRoom
<1>5. ASSUME NEW r \in Requests, AdmitFresh(r) \/ FinishRestore(r)
      PROVE  Room'
  <2>1. restoring' = None /\ tokens' = tokens
    BY <1>5, TakeEffect DEF AdmitFresh, FinishRestore, memory
  <2> QED  BY <1>4, <2>1
<1>6. ASSUME NEW r \in Requests, BeginRestore(r)  PROVE Room'
  <2>1. /\ restoring' = r /\ UNCHANGED <<active, memory>>
        /\ r \notin active /\ table[r] = <<>>
    BY <1>6, TakeEffect DEF BeginRestore
  <2>2. NothingRestored'
    BY <1>1, <2>1 DEF memory, NothingRestored
  <2> QED  BY <1>1, <1>2, <2>1, <2>2 DEF memory, Room
<1>7. ASSUME NEW r \in Requests, NEW b \in Blocks, RestoreBlock(r, b)
      PROVE  Room'
  <2> DEFINE missing == BlocksToRestore(r) - Len(table[r])
  <2>1. /\ restoring = r /\ restoring' = r /\ UNCHANGED tokens
        /\ RoomMade(r) /\ Len(table[r]) < BlocksToRestore(r)
        /\ b \in pool.free
        /\ pool' = Allocate(pool, b, r)
        /\ table' = [table EXCEPT ![r] = Append(table[r], b)]
    BY <1>7 DEF RestoreBlock, Least
  <2>2. BlocksToRestore(r) \in Nat /\ BlocksToRestore(r)' = BlocksToRestore(r)
    BY <1>1, <2>1, BlocksForNext DEF BlocksToRestore
  <2>3. table[r] \in Seq(Blocks)
    BY <1>1
  <2>4. /\ Len(table[r]) \in Nat /\ Len(Append(table[r], b)) = Len(table[r]) + 1
        /\ Append(table[r], b) # <<>>
    BY <2>3
  <2>5. table'[r] = Append(table[r], b)
    BY <1>1, <2>1
  <2>6. Cardinality(pool.free) >= missing
    BY <1>1, <2>1 DEF RestoreHasRoom
  <2>7. pool.free \in SUBSET Blocks /\ pool'.free = pool.free \ {b}
    BY <1>1, <2>1 DEF Pool, Allocate
  <2>8. IsFiniteSet(pool.free)
    BY <2>7, BlocksFinite, FS_Subset
  <2>9. /\ Cardinality(pool.free) \in Nat
        /\ Cardinality(pool'.free) = Cardinality(pool.free) - 1
    <3>1. Cardinality(pool.free) \in Nat
      BY <2>8, FS_CardinalityType
    <3>2. Cardinality(pool.free \ {b}) = Cardinality(pool.free) - 1
      BY <2>1, <2>8, FS_RemoveElement
    <3> QED  BY <2>7, <3>1, <3>2
  <2>10. missing' = missing - 1 /\ missing' >= 0 /\ missing \in Int
    <3>1. missing' = BlocksToRestore(r) - Len(table'[r])
      BY <2>2
    <3> QED  BY <2>1, <2>2, <2>4, <2>5, <3>1
  <2>11. Cardinality(pool'.free) >= missing'
    <3> HIDE DEF missing
    <3> QED  BY <2>6, <2>9, <2>10
  <2>12. RoomMade(r)'
    BY <2>4, <2>5 DEF RoomMade
  <2> HIDE DEF missing
  <2>13. RestoreHasRoom'
    BY <2>1, <2>10, <2>11, <2>12 DEF RestoreHasRoom, missing
  <2> QED  BY <1>1, <2>1, <2>13 DEF Room
<1>8. ASSUME NEW v \in Requests, Evict(v)  PROVE Room'
  <2>1. /\ v \in active /\ v # restoring /\ restoring' = restoring
        /\ active' = active \ {v}
        /\ table' = [table EXCEPT ![v] = <<>>]
        /\ restoring # None => ~RoomMade(restoring)
    BY <1>8, EvictEffect DEF Evict
  <2>2. \A q \in Requests : tokens'[q] \in {0, tokens[q]}
    <3>1. tokens' = [tokens EXCEPT ![v] = 0] \/ tokens' = tokens
      BY <1>8, EvictEffect
    <3> QED  BY <1>1, <3>1
  <2>3. \A q \in Requests : BlocksFor(tokens'[q]) <= TotalBlocks
    <3>1. BlocksFor(0) = 0 /\ 0 <= TotalBlocks
      BY BlocksForNext, BlockPoolAssumption
    <3>2. ASSUME NEW q \in Requests  PROVE BlocksFor(tokens'[q]) <= TotalBlocks
      <4>1. CASE tokens'[q] = 0
        BY <3>1, <4>1
      <4>2. CASE tokens'[q] = tokens[q]
        BY <1>1, <4>2
      <4> QED  BY <2>2, <4>1, <4>2
    <3> QED  BY <3>2
  <2>4. CASE restoring = None
    BY <2>1, <2>3, <2>4 DEF Room, RestoreHasRoom
  <2>5. CASE restoring # None
    <3>1. restoring \in Requests /\ table[restoring] = <<>>
      BY <1>1, <2>1, <2>5 DEF RoomMade
    <3>2. restoring \notin active
      BY <3>1, RestoreEffect
    <3>3. table'[restoring'] = <<>> /\ restoring' \in Requests \ active'
      BY <1>1, <2>1, <3>1, <3>2
    <3>4. NothingRestored'
      BY <2>1, <2>3, <3>1, <3>3 DEF NothingRestored
    <3> QED  BY <1>2, <2>3, <3>4 DEF Room
  <2> QED  BY <2>4, <2>5
<1>9. ASSUME NEW r \in Requests, NEW p, NEW t, GenerateToken(r, p, t)
      PROVE  Room'
  <2>1. /\ restoring = None /\ restoring' = restoring
        /\ tokens' = [tokens EXCEPT ![r] = tokens[r] + 1]
        /\ BlocksFor(tokens[r] + 1) <= TotalBlocks
    BY <1>9, GenerateEffect
  <2>2. \A q \in Requests : BlocksFor(tokens'[q]) <= TotalBlocks
    BY <1>1, <2>1
  <2> QED  BY <2>1, <2>2 DEF Room, RestoreHasRoom
<1> QED
  BY <1>3, <1>5, <1>6, <1>7, <1>8, <1>9, StepCases
  DEF vars, BeginAdmit, BeginGenerate, AdmitOver, BeginReadmit, EndStep,
      Return, Enqueue, SkipPreempted, Serve

-----------------------------------------------------------------------------
LEMMA InitIInv == Init => IInv
<1> SUFFICES ASSUME Init  PROVE IInv
  OBVIOUS
<1>1. TypeOK
  <2>1. threshold \in Thresholds /\ attempts \in Nat /\ step \in Nat
    BY DEF Init
  <2>2. /\ waiting \in Seq(Requests)
        /\ token_sequence \in [Requests -> Seq(Token)]
        /\ table \in [Requests -> Seq(Blocks)]
    BY EmptyTable DEF Init
  <2>3. pool \in Pool
    BY NewPoolType DEF Init
  <2> QED  BY <2>1, <2>2, <2>3 DEF Init, TypeOK, Phases, Statuses
<1>2. Memory
  <2>1. Held = [r \in Requests |-> 0]
    BY DEF Init, Held
  <2> QED  BY <2>1, MemoryNew DEF Init, Memory
<1>3. Places
  <2>1. IsInjective(waiting) /\ Range(waiting) = {}
    BY EmptyTable DEF Init
  <2>2. \A r \in Requests : arrival_time[r] \in Nat /\ r # None
    BY PreemptionAssumption, BlockPoolAssumption DEF Init
  <2>3. \A r \in Requests : arrival_time[r] > 0 \/ arrival_time[r] = 0
    BY <2>2
  <2> QED  BY <2>1, <2>2, <2>3 DEF Init, Places
<1>4. WithinLimit
  <2>1. active \cup ({restoring} \ {None}) = {}
    BY DEF Init
  <2>2. Cardinality(active \cup ({restoring} \ {None})) = 0
    BY <2>1, FS_EmptySet
  <2> QED  BY <2>2, PreemptionAssumption DEF WithinLimit
<1>5. Sequences
  <2>1. \A r \in Requests : TokensOf(r, 0) = <<>> /\ r # None
    BY TokensOfNext, BlockPoolAssumption
  <2>2. \A r \in Requests : 0 < actual_length[r]
    BY PreemptionAssumption DEF Init
  <2> QED  BY <2>1, <2>2 DEF Init, Sequences
<1>6. Room
  <2>1. BlocksFor(0) = 0 /\ 0 <= TotalBlocks
    BY BlocksForNext, BlockPoolAssumption
  <2> QED  BY <2>1 DEF Init, Room, RestoreHasRoom
<1> QED  BY <1>1, <1>2, <1>3, <1>4, <1>5, <1>6 DEF IInv

LEMMA NextIInv == IInv /\ [Next]_vars => IInv'
<1> SUFFICES ASSUME IInv, [Next]_vars  PROVE IInv'
  OBVIOUS
<1>1. Memory' /\ Places' /\ WithinLimit' /\ Sequences'
  BY MemoryStep, PlacesStep, LimitStep, SequencesStep
<1>2. TypeOK'
  BY <1>1, TypeStep
<1>3. Room'
  BY <1>1, <1>2, RoomStep
<1> QED  BY <1>1, <1>2, <1>3 DEF IInv

LEMMA Invariance == Spec => []IInv
BY InitIInv, NextIInv, PTL DEF Spec

(* Through every preemption, restoration and completion a request is in one *)
(* place, its blocks are with it, and the engine keeps within its limit     *)
(* (scheduler.py PreemptionEngine).                                         *)
THEOREM RequestsInPlace == Spec => []OnePlace
<1>1. IInv => OnePlace
  BY DEF IInv, OnePlace, Memory, MemoryOK, Places, WithinLimit
<1> QED  BY <1>1, Invariance, PTL

(* A preempted request resumes where it was: its sequence is in its blocks  *)
(* while it is active and in the swap store while it waits, even if an      *)
(* older snapshot was stored there before.                                  *)
THEOREM SequencesSurvive == Spec => []SequencesIntact
<1>1. IInv => SequencesIntact
  <2> SUFFICES ASSUME IInv, NEW r \in Requests
               PROVE  /\ token_sequence[r] = TokensOf(r, tokens[r])
                      /\ r \in active =>
                           Visible(pool, table[r], tokens[r]) = token_sequence[r]
                      /\ status[r] = "waiting" /\ tokens[r] > 0 =>
                           swap_store[r] = token_sequence[r]
    BY DEF SequencesIntact
  <2>1. /\ token_sequence[r] = TokensOf(r, tokens[r])
        /\ status[r] = "waiting" /\ tokens[r] > 0 =>
             swap_store[r] = token_sequence[r]
    BY DEF IInv, Sequences
  <2>2. ASSUME r \in active
        PROVE  Visible(pool, table[r], tokens[r]) = TokensOf(r, tokens[r])
    <3>1. MemoryOK(pool, table, Held) /\ Held[r] = tokens[r]
      BY <2>2 DEF IInv, Memory, Held
    <3>2. Visible(pool, table[r], Held[r]) = TokensOf(r, Held[r])
      BY <3>1, MemoryReads
    <3> QED  BY <3>1, <3>2
  <2> QED  BY <2>1, <2>2
<1> QED  BY <1>1, Invariance, PTL

(* Each output is the one of an uninterrupted run, and when run() returns   *)
(* every request is completed and no block is orphaned.                     *)
THEOREM OutputsCorrect == Spec => []OutputsVerified
<1>1. IInv => OutputsVerified
  <2> SUFFICES ASSUME IInv  PROVE OutputsVerified
    OBVIOUS
  <2>1. \A r \in Requests :
          status[r] = "completed" => output[r] = TokensOf(r, actual_length[r])
    BY DEF IInv, Sequences
  <2>2. ASSUME phase = "done"
        PROVE  /\ \A r \in Requests : status[r] = "completed"
               /\ pool = NewPool
    <3>1. \A r \in Requests : status[r] = "completed"
      BY <2>2 DEF IInv, Places
    <3>2. \A r \in Requests : r \notin active /\ r # restoring
      BY <3>1 DEF IInv, Places
    <3>3. MemoryOK(pool, table, Held) /\ \A r \in Requests : table[r] = <<>>
      BY <3>2 DEF IInv, Memory
    <3> QED  BY <3>1, <3>3, MemoryWhole
  <2> QED  BY <2>1, <2>2 DEF OutputsVerified
<1> QED  BY <1>1, Invariance, PTL

(* _make_room never runs out of candidates before there is room for a       *)
(* restoration, and the room lasts until its last block: neither the        *)
(* give-up of _admit nor an OutOfMemoryError of _restore can happen.        *)
THEOREM RestoresSucceed == Spec => []RestoreHasRoom
<1>1. IInv => RestoreHasRoom
  BY DEF IInv, Room
<1> QED  BY <1>1, Invariance, PTL

(* A request at or above the threshold never loses a token. *)
THEOREM WorkKept == Spec => SwapKeepsWork
<1>1. ASSUME IInv, [Next]_vars, NEW r \in Requests, tokens[r] >= threshold
      PROVE  tokens'[r] >= tokens[r]
  <2>1. tokens \in [Requests -> Nat] /\ threshold \in Nat
    BY <1>1, PreemptionAssumption DEF IInv, TypeOK
  <2>2. ASSUME NEW v \in Requests, Evict(v)  PROVE tokens'[r] = tokens[r]
    <3>1. \/ tokens[v] < threshold /\ tokens' = [tokens EXCEPT ![v] = 0]
          \/ tokens' = tokens
      BY <1>1, <2>2, EvictEffect
    <3>2. tokens[v] < threshold => v # r
      BY <1>1, <2>1
    <3> QED  BY <2>1, <3>1, <3>2
  <2>3. ASSUME NEW q \in Requests, NEW p, NEW t, GenerateToken(q, p, t)
        PROVE  tokens'[r] >= tokens[r]
    <3>1. tokens' = [tokens EXCEPT ![q] = tokens[q] + 1]
      BY <1>1, <2>3, GenerateEffect
    <3> QED  BY <2>1, <3>1
  <2>4. ASSUME tokens' = tokens  PROVE tokens'[r] >= tokens[r]
    BY <2>1, <2>4
  <2>5. tokens[r] >= tokens[r]
    BY <2>1
  <2> QED
    BY <1>1, <2>2, <2>3, <2>4, <2>5, StepCases
    DEF vars, memory, BeginAdmit, BeginGenerate, AdmitOver, BeginReadmit,
        EndStep, Return, Enqueue, AdmitFresh, BeginRestore, FinishRestore,
        RestoreBlock, SkipPreempted, Serve
<1>2. IInv /\ [Next]_vars =>
        [\A r \in Requests : tokens[r] >= threshold => tokens'[r] >= tokens[r]]_vars
  BY <1>1
<1> QED  BY <1>2, Invariance, PTL DEF Spec, SwapKeepsWork

-----------------------------------------------------------------------------
(* Why the engine converges with a threshold of at most 1, if each request  *)
(* fits the pool alone: what is left to do, and that every action does some *)
(* of it.                                                                   *)
Count == Cardinality(Requests)

(* An iteration of _admit: it may evict every request and take every block. *)
TrySteps == Count + TotalBlocks + 2

AllTries == Count * TrySteps

RestoreSteps ==
  IF restoring = None THEN 0
  ELSE Cardinality(active) + (TotalBlocks - Len(table[restoring])) + 1

AdmitSteps == attempts * TrySteps + RestoreSteps

StepActions == 2 * AllTries + 3 * Count + 4

InStep ==
  CASE phase = "arrive"   -> 2 * AllTries + 2 * Count + 4 + Cardinality(Arriving)
    [] phase = "admit"    -> AdmitSteps + AllTries + 2 * Count + 3
    [] phase = "generate" -> Cardinality(todo) + Cardinality(active) + AllTries + 2
    [] phase = "readmit"  -> AdmitSteps + 1
    [] phase = "done"     -> 0

(* The tokens that have not been generated. *)
ToCome == [r \in Requests |-> actual_length[r] - tokens[r]]

TokensToCome == SumFunctionOnSet(ToCome, Requests)

(* After the last arrival every step generates a token; this one has. *)
Paid ==
  /\ ~ArrivalsRemain
  /\ \/ phase = "generate" /\ active \cap todo = {}
     \/ phase = "readmit"

StepsToCome ==
  (MaxArrival + 1 - step) + TokensToCome + (IF Paid THEN 1 ELSE 0)

Remaining == StepsToCome * StepActions + InStep

(* The first _admit of a step, as long as it runs, has somebody active or   *)
(* will have.                                                               *)
UnderWay ==
  /\ step <= MaxArrival + 1
  /\ \A r \in Requests : tokens[r] <= actual_length[r]
  /\ phase = "admit" /\ ~ArrivalsRemain =>
       \/ restoring # None
       \/ active # {}
       \/ waiting # <<>> /\ attempts > 0

(* A request that fits the pool never evicts itself: alone it would hold    *)
(* all blocks, which are enough for its last token.                         *)
LEMMA AllBlocksHeld ==
  ASSUME NEW t \in Seq(Blocks), Blocks \subseteq Range(t)
  PROVE  TotalBlocks <= Len(t)
<1>1. /\ DOMAIN t = 1 .. Len(t) /\ Len(t) \in Nat
      /\ \A b \in Blocks : \E i \in 1 .. Len(t) : t[i] = b
  BY DEF Range
<1> DEFINE f == [b \in Blocks |-> CHOOSE i \in 1 .. Len(t) : t[i] = b]
<1>2. \A b \in Blocks : f[b] \in 1 .. Len(t) /\ t[f[b]] = b
  BY <1>1
<1>3. f \in [Blocks -> 1 .. Len(t)]
  BY <1>2
<1>4. \A b, c \in Blocks : f[b] = f[c] => b = c
  BY <1>2
<1>5. IsFiniteSet(1 .. Len(t)) /\ Cardinality(1 .. Len(t)) = Len(t)
  <2>1. /\ IsFiniteSet(1 .. Len(t))
        /\ Cardinality(1 .. Len(t)) = IF 1 > Len(t) THEN 0 ELSE Len(t) - 1 + 1
    BY <1>1, FS_Interval
  <2>2. CASE Len(t) = 0
    BY <2>1, <2>2
  <2>3. CASE Len(t) > 0
    BY <1>1, <2>1, <2>3
  <2> QED  BY <1>1, <2>1, <2>2, <2>3
<1>6. IsFiniteSet(Blocks) /\ Cardinality(Blocks) = TotalBlocks
  BY BlocksFinite
<1> HIDE DEF f
<1>7. ASSUME Len(t) < TotalBlocks  PROVE FALSE
  <2>1. \E b, c \in Blocks : b # c /\ f[b] = f[c]
    BY <1>3, <1>5, <1>6, <1>7, FS_PigeonHole
  <2> QED  BY <1>4, <2>1
<1> QED  BY <1>1, <1>7, BlockPoolAssumption

LEMMA NeverItself ==
  ASSUME IInv, FitsAlone, NEW r \in Requests
  PROVE  ~PreemptItself(r)
<1> SUFFICES ASSUME PreemptItself(r)  PROVE FALSE
  OBVIOUS
<1>1. /\ phase = "generate" /\ active = {r} /\ pool.free = {}
      /\ BlockOf(tokens[r]) = Len(table[r])
  BY DEF PreemptItself, Serve, NeedsBlock
<1>2. /\ restoring = None /\ MemoryOK(pool, table, Held)
      /\ \A q \in Requests : table[q] # <<>> => q = r
      /\ table[r] \in Seq(Blocks) /\ pool \in Pool
      /\ table \in [Requests -> Seq(Blocks)]
  BY <1>1, BlockPoolAssumption DEF IInv, Memory, Places, TypeOK
<1>3. ASSUME NEW b \in Blocks  PROVE b \in Range(table[r])
  <2>1. pool.owner[b] # None
    BY <1>1, <1>2 DEF MemoryOK, BlocksAccounted
  <2>2. pool.owner[b] \in Requests
    BY <1>2, <2>1 DEF Pool
  <2>3. PICK q \in Requests : b \in Range(table[q])
    BY <1>2, <2>2 DEF MemoryOK, BlocksAccounted
  <2>4. table[q] # <<>>
    BY <2>3, EmptyTable
  <2> QED  BY <1>2, <2>3, <2>4
<1>4. TotalBlocks <= Len(table[r]) /\ Len(table[r]) \in Nat
  BY <1>2, <1>3, AllBlocksHeld
<1>5. /\ tokens[r] \in Nat /\ actual_length[r] \in Nat
      /\ tokens[r] + 1 \in 0 .. actual_length[r]
  <2>1. status[r] = "active"
    BY <1>1 DEF IInv, Places
  <2>2. tokens[r] < actual_length[r]
    BY <2>1 DEF IInv, Sequences
  <2>3. tokens[r] \in Nat /\ actual_length[r] \in 1 .. MaxLength
    BY DEF IInv, TypeOK
  <2> QED  BY <2>2, <2>3, PreemptionAssumption
<1>6. BlocksFor(tokens[r] + 1) <= BlocksFor(actual_length[r])
  BY <1>5, BlocksForMonotone
<1>7. BlocksFor(actual_length[r]) <= TotalBlocks
  BY DEF FitsAlone
<1>8. /\ BlocksFor(tokens[r] + 1) = BlockOf(tokens[r]) + 1
      /\ BlockOf(tokens[r]) \in Nat /\ BlocksFor(actual_length[r]) \in Nat
  BY <1>5, BlocksForNext
<1> QED  BY <1>1, <1>4, <1>6, <1>7, <1>8, BlockPoolAssumption

LEMMA QueueFits ==
  ASSUME NEW w \in Seq(Requests), IsInjective(w)
  PROVE  Len(w) \in Nat /\ Len(w) <= Count
<1>1. w \in [1 .. Len(w) -> Requests] /\ Len(w) \in Nat
  OBVIOUS
<1>2. IsFiniteSet(1 .. Len(w)) /\ Cardinality(1 .. Len(w)) = Len(w)
  <2>1. /\ IsFiniteSet(1 .. Len(w))
        /\ Cardinality(1 .. Len(w)) = IF 1 > Len(w) THEN 0 ELSE Len(w) - 1 + 1
    BY <1>1, FS_Interval
  <2>2. CASE Len(w) = 0
    BY <2>1, <2>2
  <2>3. CASE Len(w) > 0
    BY <1>1, <2>1, <2>3
  <2> QED  BY <1>1, <2>1, <2>2, <2>3
<1>3. IsFiniteSet(Requests) /\ Count \in Nat
  BY BlockPoolAssumption, FS_CardinalityType DEF Count
<1>4. ASSUME Count < Len(w)  PROVE FALSE
  <2>1. \E i, j \in 1 .. Len(w) : i # j /\ w[i] = w[j]
    BY <1>1, <1>2, <1>3, <1>4, FS_PigeonHole DEF Count
  <2> QED  BY <1>1, <2>1 DEF IsInjective
<1> QED  BY <1>1, <1>3, <1>4

LEMMA UnderWayStep ==
  ASSUME IInv, UnderWay, [Next]_vars
  PROVE  UnderWay'
<1>1. /\ step \in Nat /\ MaxArrival \in Nat /\ tokens \in [Requests -> Nat]
      /\ \A r \in Requests : /\ arrival_time[r] \in 0 .. MaxArrival
                             /\ actual_length[r] \in 1 .. MaxLength
      /\ None \notin Requests /\ ActiveLimit \in Nat \ {0}
      /\ waiting \in Seq(Requests)
  BY PreemptionAssumption, BlockPoolAssumption DEF IInv, TypeOK
<1>2. UNCHANGED workload
  BY StepCases
  DEF vars, BeginAdmit, BeginGenerate, AdmitOver, BeginReadmit, EndStep,
      Return, Enqueue, AdmitFresh, BeginRestore, FinishRestore, RestoreBlock,
      SkipPreempted, Serve, Evict, GenerateToken
<1>3. step' <= MaxArrival + 1
  <2>1. CASE EndStep
    BY <1>1, <2>1 DEF EndStep, ArrivalsRemain, UnderWay
  <2>2. CASE UNCHANGED step
    BY <2>2 DEF UnderWay
  <2> QED
    BY <2>1, <2>2, StepCases
    DEF vars, BeginAdmit, BeginGenerate, AdmitOver, BeginReadmit,
        Return, Enqueue, AdmitFresh, BeginRestore, FinishRestore, RestoreBlock,
        SkipPreempted, Serve, Evict, GenerateToken
<1>4. \A r \in Requests : tokens'[r] <= actual_length'[r]
  <2>1. CASE UNCHANGED tokens
    BY <1>2, <2>1 DEF UnderWay, workload
  <2>2. ASSUME NEW v \in Requests, Evict(v)
        PROVE  \A r \in Requests : tokens'[r] <= actual_length'[r]
    <3>1. tokens' = [tokens EXCEPT ![v] = 0] \/ tokens' = tokens
      BY <2>2, EvictEffect
    <3>2. \A r \in Requests : tokens'[r] \in {0, tokens[r]}
      BY <1>1, <3>1
    <3>3. actual_length' = actual_length
      BY <1>2 DEF workload
    <3>4. ASSUME NEW r \in Requests  PROVE tokens'[r] <= actual_length[r]
      <4>1. /\ tokens[r] <= actual_length[r] /\ 0 <= actual_length[r]
            /\ tokens'[r] \in {0, tokens[r]}
        BY <1>1, <3>2 DEF UnderWay
      <4> QED  BY <4>1
    <3> QED  BY <3>3, <3>4
  <2>3. ASSUME NEW q \in Requests, NEW p, NEW t, GenerateToken(q, p, t)
        PROVE  \A r \in Requests : tokens'[r] <= actual_length'[r]
    <3>1. tokens' = [tokens EXCEPT ![q] = tokens[q] + 1] /\ status[q] = "active"
      BY <2>3, GenerateEffect
    <3>2. tokens[q] < actual_length[q]
      BY <3>1 DEF IInv, Sequences
    <3>3. actual_length' = actual_length
      BY <1>2 DEF workload
    <3> QED  BY <1>1, <3>1, <3>2, <3>3 DEF UnderWay
  <2> QED
    BY <2>1, <2>2, <2>3, StepCases
    DEF vars, memory, BeginAdmit, BeginGenerate, AdmitOver, BeginReadmit,
        EndStep, Return, Enqueue, AdmitFresh, BeginRestore, FinishRestore,
        RestoreBlock, SkipPreempted, Serve
<1>5. ASSUME phase' = "admit", ~ArrivalsRemain'
      PROVE  restoring' # None \/ active' # {} \/ (waiting' # <<>> /\ attempts' > 0)
  <2>1. CASE BeginAdmit
    <3>1. /\ UNCHANGED <<step, active, waiting>> /\ attempts' = Len(waiting)
          /\ ArrivalsRemain \/ waiting # <<>> \/ active # {}
      BY <2>1 DEF BeginAdmit
    <3>2. ~ArrivalsRemain
      BY <1>2, <1>5, <3>1 DEF ArrivalsRemain, workload
    <3>3. waiting # <<>> => Len(waiting) > 0
      BY <1>1
    <3> QED  BY <3>1, <3>2, <3>3
  <2>2. CASE \E r \in Requests : AdmitFresh(r) \/ FinishRestore(r)
    BY <2>2 DEF AdmitFresh, FinishRestore
  <2>3. CASE \E r \in Requests : BeginRestore(r)
    BY <1>1, <2>3 DEF BeginRestore
  <2>4. CASE \/ \E r, v \in Requests : EvictForRestore(r, v)
             \/ \E r \in Requests, b \in Blocks : RestoreBlock(r, b)
    BY <1>1, <2>4 DEF EvictForRestore, RestoreBlock
  <2>5. CASE UNCHANGED vars
    BY <1>5, <2>5 DEF UnderWay, ArrivalsRemain, vars, workload
  <2>6. CASE phase' # "admit"
    BY <1>5, <2>6
  <2>7. CASE Generate \/ \E r \in Requests : Enqueue(r)
    <3>1. phase' # "admit"
      BY <2>7
      DEF Generate, SkipPreempted, GenerateInBlock, GenerateInNewBlock,
          PreemptItself, EvictForGenerate, Serve, Enqueue
    <3> QED  BY <1>5, <3>1
  <2> QED
    BY <2>1, <2>2, <2>3, <2>4, <2>5, <2>6, <2>7
    DEF Next, Admit, BeginGenerate, BeginReadmit, EndStep, Return, Terminated
<1> QED  BY <1>3, <1>4, <1>5 DEF UnderWay

LEMMA Counts ==
  /\ IsFiniteSet(Requests) /\ Count \in Nat
  /\ TotalBlocks \in Nat /\ TrySteps \in Nat /\ TrySteps = Count + TotalBlocks + 2
  /\ AllTries \in Nat /\ StepActions \in Nat
  /\ \A S \in SUBSET Requests :
       IsFiniteSet(S) /\ Cardinality(S) \in Nat /\ Cardinality(S) <= Count
<1>1. /\ IsFiniteSet(Requests) /\ Count \in Nat /\ TotalBlocks \in Nat
      /\ \A S \in SUBSET Requests :
           IsFiniteSet(S) /\ Cardinality(S) \in Nat /\ Cardinality(S) <= Count
  BY BlockPoolAssumption, FS_CardinalityType, FS_Subset DEF Count
<1>2. TrySteps \in Nat /\ TrySteps = Count + TotalBlocks + 2
  BY <1>1 DEF TrySteps
<1>3. AllTries \in Nat
  BY <1>1, <1>2, MulMonotone DEF AllTries
<1>4. StepActions \in Nat
  BY <1>1, <1>3 DEF StepActions
<1> QED  BY <1>1, <1>2, <1>3, <1>4

(* What is counted is finite. *)
LEMMA RestoreType ==
  ASSUME IInv
  PROVE  /\ RestoreSteps \in Nat
         /\ \A r \in Requests : Len(table[r]) \in Nat /\ Len(table[r]) <= TotalBlocks
<1>1. \A r \in Requests : table[r] \in Seq(Blocks) /\ IsInjective(table[r])
  BY DEF IInv, TypeOK, Memory, MemoryOK, BlocksAccounted
<1>2. \A r \in Requests : Len(table[r]) \in Nat /\ Len(table[r]) <= TotalBlocks
  BY <1>1, TableFits
<1>3. Cardinality(active) \in Nat /\ restoring \in Requests \cup {None}
  BY Counts DEF IInv, TypeOK
<1>4. CASE restoring = None
  BY <1>2, <1>4 DEF RestoreSteps
<1>5. CASE restoring \in Requests
  <2>1. /\ Len(table[restoring]) \in Nat /\ Len(table[restoring]) <= TotalBlocks
        /\ restoring # None
    BY <1>2, <1>5, BlockPoolAssumption
  <2>2. RestoreSteps =
          Cardinality(active) + (TotalBlocks - Len(table[restoring])) + 1
    BY <2>1 DEF RestoreSteps
  <2> QED  BY <1>2, <1>3, <2>1, <2>2, Counts
<1> QED  BY <1>3, <1>4, <1>5

LEMMA InStepType ==
  ASSUME IInv
  PROVE  /\ InStep \in Nat /\ RestoreSteps \in Nat
         /\ attempts \in Nat /\ attempts * TrySteps \in Nat
         /\ AdmitSteps \in Nat
<1>1. /\ attempts \in Nat /\ phase \in Phases
      /\ Cardinality(active) \in Nat /\ Cardinality(todo) \in Nat
  BY Counts DEF IInv, TypeOK
<1>2. Cardinality(Arriving) \in Nat
  <2>1. Arriving \in SUBSET Requests
    BY DEF Arriving
  <2> QED  BY <2>1, Counts
<1>3. attempts * TrySteps \in Nat /\ AdmitSteps \in Nat
  <2>1. attempts * TrySteps \in Nat
    BY <1>1, Counts, MulMonotone
  <2> QED  BY <2>1, RestoreType DEF AdmitSteps
<1>4. InStep \in Nat
  BY <1>1, <1>2, <1>3, Counts DEF InStep, Phases
<1> QED  BY <1>1, <1>3, <1>4, RestoreType

LEMMA InStepTypeNext ==
  IInv' => InStep' \in Nat /\ RestoreSteps' \in Nat /\ attempts' \in Nat
<1>1. IInv => InStep \in Nat /\ RestoreSteps \in Nat /\ attempts \in Nat
  BY InStepType
<1>2. (IInv => InStep \in Nat /\ RestoreSteps \in Nat /\ attempts \in Nat)'
  BY <1>1, PTL
<1> QED  BY <1>2

LEMMA StepsType ==
  ASSUME IInv, UnderWay
  PROVE  /\ ToCome \in [Requests -> Nat] /\ TokensToCome \in Nat
         /\ MaxArrival + 1 - step \in Nat /\ StepsToCome \in Nat
<1>1. /\ \A r \in Requests : /\ actual_length[r] \in Nat /\ tokens[r] \in Nat
                             /\ tokens[r] <= actual_length[r]
      /\ step \in Nat /\ MaxArrival \in Nat /\ step <= MaxArrival + 1
  BY PreemptionAssumption DEF IInv, TypeOK, UnderWay
<1>2. ToCome \in [Requests -> Nat]
  BY <1>1 DEF ToCome
<1>3. {} \in SUBSET Units(ToCome, Requests)
  OBVIOUS
<1>4. TokensToCome \in Nat
  <2>1. \A r \in Requests : ToCome[r] \in Nat
    BY <1>2
  <2> QED  BY <1>3, <2>1, BlockPoolAssumption, UnitsBelowSum DEF TokensToCome
<1>5. MaxArrival + 1 - step \in Nat
  BY <1>1
<1> QED  BY <1>2, <1>4, <1>5 DEF StepsToCome

LEMMA StepsTypeNext ==
  IInv' /\ UnderWay' => /\ ToCome' \in [Requests -> Nat] /\ TokensToCome' \in Nat
                        /\ StepsToCome' \in Nat
<1>1. IInv /\ UnderWay => /\ ToCome \in [Requests -> Nat] /\ TokensToCome \in Nat
                          /\ StepsToCome \in Nat
  BY StepsType
<1>2. (IInv /\ UnderWay => /\ ToCome \in [Requests -> Nat] /\ TokensToCome \in Nat
                           /\ StepsToCome \in Nat)'
  BY <1>1, PTL
<1> QED  BY <1>2

LEMMA RemainingType ==
  ASSUME IInv, UnderWay
  PROVE  Remaining \in Nat
<1>1. StepsToCome \in Nat /\ InStep \in Nat /\ StepActions \in Nat
  BY StepsType, InStepType, Counts
<1>2. StepsToCome * StepActions \in Nat
  BY <1>1, MulMonotone
<1> QED  BY <1>1, <1>2 DEF Remaining

(* Less of this step and no more steps, or fewer steps. *)
LEMMA LessRemains ==
  ASSUME IInv, UnderWay, IInv', UnderWay',
         \/ StepsToCome' <= StepsToCome /\ InStep' < InStep
         \/ StepsToCome' < StepsToCome /\ InStep' < StepActions + InStep
  PROVE  Remaining' < Remaining
<1>1. PICK s \in Nat : s = StepsToCome
  BY StepsType
<1>2. PICK t \in Nat : t = StepsToCome'
  BY StepsTypeNext
<1>3. PICK i \in Nat : i = InStep
  BY InStepType
<1>4. PICK j \in Nat : j = InStep'
  BY InStepTypeNext
<1>5. PICK k \in Nat : k = StepActions
  BY Counts
<1>6. StepActions' = k
  BY <1>5 DEF StepActions, AllTries, TrySteps, Count
<1>7. \/ t <= s /\ j < i
      \/ t < s /\ j < k + i
  BY <1>1, <1>2, <1>3, <1>4, <1>5
<1>8. t * k + j < s * k + i
  <2>1. t * k \in Nat /\ s * k \in Nat
    BY MulMonotone
  <2>2. CASE t <= s /\ j < i
    <3>1. t * k <= s * k
      BY <2>2, MulMonotone
    <3> QED  BY <2>1, <2>2, <3>1
  <2>3. CASE t < s /\ j < k + i
    <3>1. t + 1 \in Nat /\ t + 1 <= s
      BY <2>3
    <3>2. (t + 1) * k <= s * k /\ (t + 1) * k = t * k + k
      BY <3>1, MulMonotone
    <3> QED  BY <2>1, <2>3, <3>2
  <2> QED  BY <1>7, <2>2, <2>3
<1>9. Remaining = s * k + i /\ Remaining' = t * k + j
  BY <1>1, <1>2, <1>3, <1>4, <1>5, <1>6 DEF Remaining
<1> QED  BY <1>8, <1>9

LEMMA NoMoreSteps ==
  ASSUME IInv, UnderWay, UNCHANGED <<workload, step, tokens>>, Paid' => Paid
  PROVE  StepsToCome' <= StepsToCome
<1>1. UNCHANGED <<actual_length, arrival_time>>
  BY DEF workload
<1>2. TokensToCome' = TokensToCome
  BY <1>1 DEF TokensToCome, ToCome
<1>3. TokensToCome \in Nat /\ MaxArrival + 1 - step \in Nat
  BY StepsType
<1>4. StepsToCome' = (MaxArrival + 1 - step) + TokensToCome + (IF Paid' THEN 1 ELSE 0)
  BY <1>2 DEF StepsToCome
<1> QED  BY <1>3, <1>4 DEF StepsToCome

(* What the first and the second _admit of a step do. *)
LEMMA FewerTries ==
  ASSUME IInv, NEW r \in Requests, TakeFirst(r)
  PROVE  /\ attempts' * TrySteps = attempts * TrySteps - TrySteps
         /\ AdmitSteps = attempts * TrySteps
<1>1. attempts' = attempts - 1 /\ restoring = None
  BY TakeEffect DEF TakeFirst
<1>2. PICK k \in Nat : k = TrySteps
  BY Counts
<1>3. PICK a \in Nat : a = attempts
  BY InStepType
<1>4. (a - 1) * k = a * k - k /\ a * k \in Nat
  BY MulMonotone
<1>5. attempts' * TrySteps = attempts * TrySteps - TrySteps
  BY <1>1, <1>2, <1>3, <1>4
<1>6. RestoreSteps = 0
  BY <1>1 DEF RestoreSteps
<1> QED  BY <1>2, <1>3, <1>4, <1>5, <1>6 DEF AdmitSteps

LEMMA RestoreLess ==
  ASSUME IInv, IInv', RestoreSteps' < RestoreSteps, UNCHANGED attempts
  PROVE  AdmitSteps' < AdmitSteps
<1>1. PICK n \in Nat : n = attempts * TrySteps
  BY InStepType
<1>2. attempts' * TrySteps' = n
  BY <1>1 DEF TrySteps, Count
<1>3. RestoreSteps \in Nat /\ RestoreSteps' \in Nat
  BY InStepType, InStepTypeNext
<1>4. AdmitSteps = n + RestoreSteps /\ AdmitSteps' = n + RestoreSteps'
  BY <1>1, <1>2 DEF AdmitSteps
<1>5. PICK i \in Nat : i = RestoreSteps
  BY <1>3
<1>6. PICK j \in Nat : j = RestoreSteps'
  BY <1>3
<1>7. j < i
  BY <1>5, <1>6
<1>8. n + j < n + i
  BY <1>7
<1> QED  BY <1>4, <1>5, <1>6, <1>8

LEMMA AdmitShrinks ==
  ASSUME IInv, IInv', NEW r \in Requests, NEW v \in Requests, NEW b \in Blocks,
         AdmitFresh(r) \/ BeginRestore(r) \/ FinishRestore(r)
           \/ EvictForRestore(r, v) \/ RestoreBlock(r, b)
  PROVE  AdmitSteps' < AdmitSteps
<1>1. /\ active \in SUBSET Requests /\ active' \in SUBSET Requests
      /\ table \in [Requests -> Seq(Blocks)] /\ r # None
      /\ TrySteps' = TrySteps
  BY BlockPoolAssumption DEF IInv, TypeOK, TrySteps, Count
<1>2. /\ IsFiniteSet(active) /\ Cardinality(active) \in Nat
      /\ Cardinality(active') \in Nat /\ Cardinality(active) <= Count
  BY <1>1, Counts
<1>3. AdmitSteps \in Nat /\ RestoreSteps' \in Nat
  BY InStepType, InStepTypeNext
<1>4. CASE AdmitFresh(r)
  <2>1. TakeFirst(r) /\ restoring' = None
    BY <1>4, TakeEffect DEF AdmitFresh
  <2>2. RestoreSteps' = 0
    BY <2>1 DEF RestoreSteps
  <2>3. AdmitSteps' = attempts' * TrySteps
    BY <1>1, <1>3, <2>1, <2>2, FewerTries, Counts, InStepType DEF AdmitSteps
  <2> QED  BY <1>3, <2>1, <2>3, FewerTries, Counts
<1>5. CASE BeginRestore(r)
  <2>1. /\ TakeFirst(r) /\ restoring' = r /\ UNCHANGED <<active, table>>
    BY <1>5 DEF BeginRestore, memory
  <2>2. RestoreSteps' = Cardinality(active) + (TotalBlocks - Len(table[r])) + 1
    BY <1>1, <2>1 DEF RestoreSteps
  <2>3. RestoreSteps' < TrySteps
    BY <1>2, <2>2, RestoreType, Counts
  <2>4. AdmitSteps' = attempts' * TrySteps + RestoreSteps'
    BY <1>1 DEF AdmitSteps
  <2>5. PICK k \in Nat : k = TrySteps
    BY Counts
  <2>6. PICK j \in Nat : j = RestoreSteps'
    BY <1>3
  <2>7. PICK n \in Nat : n = attempts * TrySteps
    BY InStepType
  <2>8. AdmitSteps' = n - k + j /\ AdmitSteps = n /\ j < k
    BY <2>1, <2>3, <2>4, <2>5, <2>6, <2>7, FewerTries
  <2> QED  BY <2>8
<1>6. CASE FinishRestore(r)
  <2>1. restoring = r /\ restoring' = None /\ UNCHANGED attempts
    BY <1>6 DEF FinishRestore
  <2>2. RestoreSteps = Cardinality(active) + (TotalBlocks - Len(table[r])) + 1
    BY <1>1, <2>1 DEF RestoreSteps
  <2>3. RestoreSteps' = 0
    BY <2>1 DEF RestoreSteps
  <2>4. RestoreSteps' < RestoreSteps
    BY <1>2, <2>2, <2>3, RestoreType, Counts
  <2> QED  BY <2>1, <2>4, RestoreLess
<1>7. CASE EvictForRestore(r, v)
  <2>1. /\ restoring = r /\ restoring' = r /\ UNCHANGED attempts
        /\ v \in active /\ active' = active \ {v} /\ v # r
        /\ table' = [table EXCEPT ![v] = <<>>]
    BY <1>7, Evictions, EvictEffect DEF EvictForRestore
  <2>2. table'[r] = table[r]
    BY <1>1, <2>1
  <2>3. Cardinality(active') = Cardinality(active) - 1
    BY <1>2, <2>1, FS_RemoveElement
  <2>4. RestoreSteps = Cardinality(active) + (TotalBlocks - Len(table[r])) + 1
    BY <1>1, <2>1 DEF RestoreSteps
  <2>5. RestoreSteps' = Cardinality(active') + (TotalBlocks - Len(table[r])) + 1
    BY <1>1, <2>1, <2>2 DEF RestoreSteps
  <2>6. RestoreSteps' < RestoreSteps
    BY <1>2, <2>3, <2>4, <2>5, RestoreType, Counts
  <2> QED  BY <2>1, <2>6, RestoreLess
<1>8. CASE RestoreBlock(r, b)
  <2>1. /\ restoring = r /\ restoring' = r /\ UNCHANGED <<attempts, active>>
        /\ table' = [table EXCEPT ![r] = Append(table[r], b)]
    BY <1>8 DEF RestoreBlock
  <2>2. table'[r] = Append(table[r], b)
    BY <1>1, <2>1
  <2>3. Len(table'[r]) = Len(table[r]) + 1
    BY <1>1, <2>2
  <2>4. RestoreSteps = Cardinality(active) + (TotalBlocks - Len(table[r])) + 1
    BY <1>1, <2>1 DEF RestoreSteps
  <2>5. RestoreSteps' = Cardinality(active) + (TotalBlocks - Len(table'[r])) + 1
    BY <1>1, <2>1 DEF RestoreSteps
  <2>6. RestoreSteps' < RestoreSteps
    BY <1>2, <2>3, <2>4, <2>5, RestoreType, Counts
  <2> QED  BY <2>1, <2>6, RestoreLess
<1> QED  BY <1>4, <1>5, <1>6, <1>7, <1>8

(* With a threshold of at most 1, who is preempted loses nothing. *)
LEMMA NothingLost ==
  ASSUME IInv, threshold <= 1, NEW v \in Requests, Evict(v)
  PROVE  UNCHANGED tokens
<1>1. threshold \in Nat /\ tokens \in [Requests -> Nat]
  BY PreemptionAssumption DEF IInv, TypeOK
<1>2. CASE tokens[v] < threshold /\ tokens' = [tokens EXCEPT ![v] = 0]
  <2>1. tokens[v] = 0
    BY <1>1, <1>2
  <2> QED  BY <1>1, <1>2, <2>1
<1> QED  BY <1>2, EvictEffect

(* A generated token is one less to come. *)
LEMMA TokenCounts ==
  ASSUME IInv, UnderWay, IInv', UnderWay',
         NEW r \in Requests, NEW p, NEW t, GenerateToken(r, p, t)
  PROVE  TokensToCome' = TokensToCome - 1
<1>1. /\ tokens' = [tokens EXCEPT ![r] = tokens[r] + 1]
      /\ actual_length' = actual_length
      /\ tokens \in [Requests -> Nat]
      /\ \A q \in Requests : actual_length[q] \in Nat
  <2>1. UNCHANGED workload /\ tokens' = [tokens EXCEPT ![r] = tokens[r] + 1]
    BY GenerateEffect
  <2>2. tokens \in [Requests -> Nat] /\ actual_length \in [Requests -> 1..MaxLength]
    BY DEF IInv, TypeOK
  <2>3. \A q \in Requests : actual_length[q] \in Nat
    BY <2>2, PreemptionAssumption
  <2> QED  BY <2>1, <2>2, <2>3 DEF workload
<1>2. PICK f \in [Requests -> Nat] : f = ToCome'
  BY StepsTypeNext
<1>3. /\ f = [q \in Requests |-> actual_length[q] - tokens'[q]]
      /\ ToCome = [q \in Requests |-> actual_length[q] - tokens[q]]
  BY <1>1, <1>2 DEF ToCome
<1>4. f[r] = actual_length[r] - (tokens[r] + 1)
  BY <1>1, <1>3
<1>5. ToCome[r] = f[r] + 1
  BY <1>1, <1>3, <1>4
<1>6. \A q \in Requests \ {r} : ToCome[q] = f[q]
  BY <1>1, <1>3
<1>7. ToCome = [f EXCEPT ![r] = f[r] + 1]
  BY <1>3, <1>5, <1>6
<1>8. SumFunctionOnSet([f EXCEPT ![r] = f[r] + 1], Requests)
        = SumFunctionOnSet(f, Requests) + 1
  BY BlockPoolAssumption, SumIncrement
<1>9. TokensToCome = TokensToCome' + 1
  BY <1>2, <1>7, <1>8 DEF TokensToCome
<1> QED  BY <1>9, StepsTypeNext

(* The attempts of an admission are counted in the next state as well. *)
LEMMA AdmitTypeNext == IInv' => AdmitSteps' \in Nat
<1>1. IInv => AdmitSteps \in Nat
  BY InStepType
<1>2. (IInv => AdmitSteps \in Nat)'
  BY <1>1, PTL
<1> QED  BY <1>2

(* Every action does some of what is left. *)
LEMMA RemainingShrinks ==
  ASSUME IInv, UnderWay, [Next]_vars, FitsAlone, threshold <= 1
  PROVE  UNCHANGED vars \/ Remaining' < Remaining
<1>1. IInv' /\ UnderWay'
  BY NextIInv, UnderWayStep
<1>2. /\ active \in SUBSET Requests /\ active' \in SUBSET Requests
      /\ todo \in SUBSET Requests /\ todo' \in SUBSET Requests
      /\ Arriving \in SUBSET Requests /\ Arriving' \in SUBSET Requests
      /\ waiting \in Seq(Requests) /\ IsInjective(waiting)
      /\ restoring # None => phase \in {"admit", "readmit"}
  BY <1>1 DEF IInv, TypeOK, Arriving, Places
<1>3. \A S \in SUBSET Requests :
        IsFiniteSet(S) /\ Cardinality(S) \in Nat /\ Cardinality(S) <= Count
  BY Counts
<1>4. /\ AdmitSteps \in Nat /\ AdmitSteps' \in Nat
      /\ AllTries \in Nat /\ Count \in Nat /\ AllTries' = AllTries /\ Count' = Count
      /\ TrySteps' = TrySteps /\ StepActions \in Nat
      /\ StepActions = 2 * AllTries + 3 * Count + 4
  <2>1. AdmitSteps \in Nat
    BY InStepType
  <2>2. AdmitSteps' \in Nat
    BY <1>1, AdmitTypeNext
  <2> QED  BY <2>1, <2>2, Counts DEF AllTries, Count, TrySteps, StepActions
<1>5. ASSUME UNCHANGED <<workload, step, tokens>>, Paid' => Paid, InStep' < InStep
      PROVE  Remaining' < Remaining
  BY <1>1, <1>5, NoMoreSteps, LessRemains
<1>6. UNCHANGED <<arrival_time, step>> => (ArrivalsRemain' <=> ArrivalsRemain)
  BY DEF ArrivalsRemain
<1>7. ASSUME NEW r \in Requests, Enqueue(r)  PROVE Remaining' < Remaining
  <2>1. /\ phase = "arrive" /\ phase' = "arrive" /\ UNCHANGED <<workload, step, tokens>>
        /\ r \in Arriving /\ Arriving' = Arriving \ {r}
    BY <1>7 DEF Enqueue, Least, Arriving, memory, workload, IInv, TypeOK
  <2>2. Cardinality(Arriving') = Cardinality(Arriving) - 1
    BY <1>2, <1>3, <2>1, FS_RemoveElement
  <2>3. /\ InStep = 2 * AllTries + 2 * Count + 4 + Cardinality(Arriving)
        /\ InStep' = 2 * AllTries + 2 * Count + 4 + Cardinality(Arriving')
    BY <1>4, <2>1 DEF InStep
  <2>4. InStep' < InStep
    BY <1>2, <1>3, <1>4, <2>2, <2>3
  <2> QED  BY <1>5, <2>1, <2>4 DEF Paid
<1>8. CASE BeginAdmit
  <2>1. /\ phase = "arrive" /\ phase' = "admit" /\ UNCHANGED <<workload, step, tokens>>
        /\ attempts' = Len(waiting) /\ restoring' = None
    BY <1>2, <1>8 DEF BeginAdmit, memory
  <2>2. AdmitSteps' = Len(waiting) * TrySteps /\ Len(waiting) * TrySteps <= AllTries
    <3>1. RestoreSteps' = 0
      BY <2>1 DEF RestoreSteps
    <3>2. Len(waiting) \in Nat /\ Len(waiting) <= Count
      BY <1>2, QueueFits
    <3>3. Len(waiting) * TrySteps <= AllTries /\ Len(waiting) * TrySteps \in Nat
      BY <3>2, Counts, MulMonotone DEF AllTries
    <3> QED  BY <1>4, <2>1, <3>1, <3>3 DEF AdmitSteps
  <2>3. /\ InStep = 2 * AllTries + 2 * Count + 4 + Cardinality(Arriving)
        /\ InStep' = AdmitSteps' + AllTries + 2 * Count + 3
    BY <1>4, <2>1 DEF InStep
  <2>4. AdmitSteps' <= AllTries
    BY <2>2
  <2>5. InStep' < InStep
    BY <1>2, <1>3, <1>4, <2>3, <2>4
  <2> QED  BY <1>5, <2>1, <2>5 DEF Paid
<1>9. ASSUME NEW r \in Requests, NEW v \in Requests, NEW b \in Blocks,
             AdmitFresh(r) \/ BeginRestore(r) \/ FinishRestore(r)
               \/ EvictForRestore(r, v) \/ RestoreBlock(r, b)
      PROVE  Remaining' < Remaining
  <2>1. UNCHANGED tokens
    <3>1. CASE EvictForRestore(r, v)
      BY <3>1, Evictions, NothingLost
    <3> QED
      BY <1>9, <3>1
      DEF AdmitFresh, BeginRestore, FinishRestore, RestoreBlock, memory
  <2>2. phase \in {"admit", "readmit"} /\ phase' = phase /\ UNCHANGED <<workload, step>>
    BY <1>9, TakeEffect, RestoreEffect
    DEF AdmitFresh, BeginRestore, FinishRestore, EvictForRestore, RestoreBlock
  <2>3. AdmitSteps' < AdmitSteps
    BY <1>1, <1>9, AdmitShrinks
  <2>4. \/ /\ InStep = AdmitSteps + AllTries + 2 * Count + 3
           /\ InStep' = AdmitSteps' + AllTries + 2 * Count + 3
        \/ /\ InStep = AdmitSteps + 1
           /\ InStep' = AdmitSteps' + 1
    BY <1>4, <2>2 DEF InStep
  <2>5. InStep' < InStep
    BY <1>4, <2>3, <2>4
  <2>6. Paid' => Paid
    BY <1>6, <2>2 DEF Paid, workload
  <2> QED  BY <1>5, <2>1, <2>2, <2>5, <2>6
<1>10. CASE BeginGenerate
  <2>1. /\ phase = "admit" /\ phase' = "generate" /\ UNCHANGED <<workload, step, tokens>>
        /\ restoring = None /\ ~MayAdmit /\ todo' = active /\ active' = active
    BY <1>10 DEF BeginGenerate, AdmitOver, memory
  <2>2. ArrivalsRemain \/ active # {}
    <3> SUFFICES ASSUME ~ArrivalsRemain, active = {}  PROVE FALSE
      OBVIOUS
    <3>1. waiting # <<>> /\ attempts > 0
      BY <2>1 DEF UnderWay
    <3>2. SlotOpen
      BY FS_EmptySet, PreemptionAssumption DEF SlotOpen
    <3> QED  BY <2>1, <3>1, <3>2 DEF MayAdmit
  <2>3. ~Paid'
    BY <1>6, <2>1, <2>2 DEF Paid, workload
  <2>4. /\ InStep = AdmitSteps + AllTries + 2 * Count + 3
        /\ InStep' = Cardinality(active) + Cardinality(active) + AllTries + 2
    BY <1>4, <2>1 DEF InStep
  <2>5. InStep' < InStep
    BY <1>2, <1>3, <1>4, <2>4
  <2> QED  BY <1>5, <2>1, <2>3, <2>5
<1>11. ASSUME NEW r \in Requests, SkipPreempted(r)  PROVE Remaining' < Remaining
  <2>1. /\ phase = "generate" /\ phase' = "generate"
        /\ UNCHANGED <<workload, step, tokens, active>>
        /\ r \in todo /\ todo' = todo \ {r} /\ r \notin active
    BY <1>11 DEF SkipPreempted, Serve, Least, memory
  <2>2. Cardinality(todo') = Cardinality(todo) - 1
    BY <1>2, <1>3, <2>1, FS_RemoveElement
  <2>3. /\ InStep = Cardinality(todo) + Cardinality(active) + AllTries + 2
        /\ InStep' = Cardinality(todo') + Cardinality(active) + AllTries + 2
    BY <1>4, <2>1 DEF InStep
  <2>4. InStep' < InStep
    BY <1>2, <1>3, <1>4, <2>2, <2>3
  <2>5. Paid' => Paid
    BY <1>6, <2>1 DEF Paid, workload
  <2> QED  BY <1>5, <2>1, <2>4, <2>5
<1>12. ASSUME NEW r \in Requests, NEW v \in Requests, EvictForGenerate(r, v)
       PROVE  Remaining' < Remaining
  <2>1. /\ phase = "generate" /\ phase' = "generate"
        /\ UNCHANGED <<workload, step, todo>>
        /\ r \in todo /\ r \in active /\ v \in active /\ v # r
        /\ active' = active \ {v}
    BY <1>12, Evictions, EvictEffect
    DEF EvictForGenerate, Serve, Least, Victim
  <2>2. UNCHANGED tokens
    BY <1>12, Evictions, NothingLost
  <2>3. Cardinality(active') = Cardinality(active) - 1
    BY <1>2, <1>3, <2>1, FS_RemoveElement
  <2>4. /\ InStep = Cardinality(todo) + Cardinality(active) + AllTries + 2
        /\ InStep' = Cardinality(todo) + Cardinality(active') + AllTries + 2
    BY <1>4, <2>1 DEF InStep
  <2>5. InStep' < InStep
    BY <1>2, <1>3, <1>4, <2>3, <2>4
  <2>6. ~Paid'
    BY <2>1 DEF Paid
  <2> QED  BY <1>5, <2>1, <2>2, <2>5, <2>6
<1>13. ASSUME NEW r \in Requests, NEW p, NEW t, GenerateToken(r, p, t)
       PROVE  Remaining' < Remaining
  <2>1. /\ phase = "generate" /\ phase' = "generate" /\ UNCHANGED <<workload, step>>
        /\ r \in todo /\ todo' = todo \ {r} /\ r \in active
        /\ active' \in SUBSET active
    BY <1>13, GenerateEffect DEF GenerateToken, Serve, Least
  <2>2. Cardinality(todo') = Cardinality(todo) - 1
    BY <1>2, <1>3, <2>1, FS_RemoveElement
  <2>3. Cardinality(active') <= Cardinality(active)
    BY <1>2, <1>3, <2>1, FS_Subset
  <2>4. /\ InStep = Cardinality(todo) + Cardinality(active) + AllTries + 2
        /\ InStep' = Cardinality(todo') + Cardinality(active') + AllTries + 2
    BY <1>4, <2>1 DEF InStep
  <2>5. InStep' < InStep
    <3>1. PICK a \in Nat : a = Cardinality(active)
      BY <1>2, <1>3
    <3>2. PICK b \in Nat : b = Cardinality(active')
      BY <1>2, <1>3
    <3>3. PICK c \in Nat : c = Cardinality(todo)
      BY <1>2, <1>3
    <3>4. PICK d \in Nat : d = Cardinality(todo')
      BY <1>2, <1>3
    <3>5. PICK n \in Nat : n = AllTries
      BY <1>4
    <3>6. d + b + n + 2 < c + a + n + 2
      BY <2>2, <2>3, <3>1, <3>2, <3>3, <3>4
    <3> QED  BY <2>4, <3>1, <3>2, <3>3, <3>4, <3>5, <3>6
  <2>6. ~Paid
    BY <2>1 DEF Paid
  <2>7. StepsToCome' <= StepsToCome
    <3>1. PICK n \in Nat : n = TokensToCome'
      BY <1>1, StepsTypeNext
    <3>2. TokensToCome = n + 1
      BY <1>1, <1>13, <3>1, TokenCounts, StepsType
    <3>3. MaxArrival + 1 - step \in Nat
      BY StepsType
    <3>4. StepsToCome' = (MaxArrival + 1 - step) + n + (IF Paid' THEN 1 ELSE 0)
      BY <2>1, <3>1 DEF StepsToCome
    <3> QED  BY <2>6, <3>2, <3>3, <3>4 DEF StepsToCome
  <2> QED  BY <1>1, <2>5, <2>7, LessRemains
<1>14. CASE BeginReadmit
  <2>1. /\ phase = "generate" /\ phase' = "readmit" /\ UNCHANGED <<workload, step, tokens>>
        /\ todo = {} /\ attempts' = Len(waiting) /\ restoring' = None
    BY <1>2, <1>14 DEF BeginReadmit, memory
  <2>2. AdmitSteps' = Len(waiting) * TrySteps /\ Len(waiting) * TrySteps <= AllTries
    <3>1. RestoreSteps' = 0
      BY <2>1 DEF RestoreSteps
    <3>2. Len(waiting) \in Nat /\ Len(waiting) <= Count
      BY <1>2, QueueFits
    <3>3. Len(waiting) * TrySteps <= AllTries /\ Len(waiting) * TrySteps \in Nat
      BY <3>2, Counts, MulMonotone DEF AllTries
    <3> QED  BY <1>4, <2>1, <3>1, <3>3 DEF AdmitSteps
  <2>3. /\ InStep = Cardinality(todo) + Cardinality(active) + AllTries + 2
        /\ InStep' = AdmitSteps' + 1
    BY <1>4, <2>1 DEF InStep
  <2>4. AdmitSteps' <= AllTries
    BY <2>2
  <2>5. InStep' < InStep
    BY <1>2, <1>3, <1>4, <2>3, <2>4
  <2>6. Paid' => Paid
    BY <1>6, <2>1 DEF Paid, workload
  <2> QED  BY <1>5, <2>1, <2>5, <2>6
<1>15. CASE EndStep
  <2>1. /\ phase = "readmit" /\ phase' = "arrive" /\ UNCHANGED <<workload, tokens>>
        /\ step' = IF ArrivalsRemain THEN step + 1 ELSE step
    BY <1>15 DEF EndStep, AdmitOver, memory
  <2>2. /\ InStep = AdmitSteps + 1
        /\ InStep' = 2 * AllTries + 2 * Count + 4 + Cardinality(Arriving')
    BY <1>4, <2>1 DEF InStep
  <2>3. InStep' < StepActions + InStep
    BY <1>2, <1>3, <1>4, <2>2
  <2>4. StepsToCome' < StepsToCome
    <3>1. TokensToCome' = TokensToCome
      BY <2>1 DEF TokensToCome, ToCome, workload
    <3>2. PICK n \in Nat : n = TokensToCome
      BY StepsType
    <3>3. (~Paid') /\ (Paid <=> ~ArrivalsRemain)
      BY <2>1 DEF Paid
    <3>4. MaxArrival \in Nat /\ step \in Nat
      BY PreemptionAssumption DEF IInv, TypeOK
    <3>5. StepsToCome' = (MaxArrival + 1 - step') + n
      <4>1. step' \in Nat
        BY <2>1, <3>4
      <4>2. (IF Paid' THEN 1 ELSE 0) = 0
        BY <3>3
      <4>3. StepsToCome' = (MaxArrival + 1 - step') + TokensToCome' + (IF Paid' THEN 1 ELSE 0)
        BY DEF StepsToCome
      <4> QED  BY <3>1, <3>2, <3>4, <4>1, <4>2, <4>3
    <3>6. StepsToCome = (MaxArrival + 1 - step) + n + (IF ArrivalsRemain THEN 0 ELSE 1)
      BY <3>2, <3>3, <3>4 DEF StepsToCome
    <3> QED  BY <2>1, <3>4, <3>5, <3>6
  <2> QED  BY <1>1, <2>3, <2>4, LessRemains
<1>16. CASE Return
  <2>1. phase = "arrive" /\ phase' = "done" /\ UNCHANGED <<workload, step, tokens>>
    BY <1>16 DEF Return, memory
  <2>2. /\ InStep = 2 * AllTries + 2 * Count + 4 + Cardinality(Arriving)
        /\ InStep' = 0
    BY <1>4, <2>1 DEF InStep
  <2>3. InStep' < InStep
    BY <1>2, <1>3, <1>4, <2>2
  <2> QED  BY <1>5, <2>1, <2>3 DEF Paid
<1>17. ASSUME NEW r \in Requests,
              \/ GenerateInBlock(r)
              \/ \E b \in Blocks : GenerateInNewBlock(r, b)
       PROVE  Remaining' < Remaining
  BY <1>13, <1>17, PreparedInBlock, PreparedInNewBlock
<1>18. CASE Admit
  <2>1. 0 \in Blocks
    BY BlockPoolAssumption DEF Blocks
  <2> QED  BY <1>9, <1>18, <2>1 DEF Admit
<1>19. CASE Generate
  BY <1>11, <1>12, <1>17, <1>19, NeverItself DEF Generate
<1> QED
  BY <1>7, <1>8, <1>10, <1>14, <1>15, <1>16, <1>18, <1>19
  DEF Next, Terminated

LEMMA InitUnderWay == Init => UnderWay
BY PreemptionAssumption DEF Init, UnderWay

(* The safety half of Converges: a request that was preempted with its      *)
(* tokens has not lost what it did, so if every request fits the pool alone *)
(* and none is recomputed with tokens, each action of run() leaves less to  *)
(* do, however the requests evict each other.                               *)
THEOREM RunIsFinite ==
  Spec => /\ [](Remaining \in Nat)
          /\ [][FitsAlone /\ threshold <= 1 => Remaining' < Remaining]_vars
<1>1. IInv /\ UnderWay /\ [Next]_vars => UnderWay'
  BY UnderWayStep
<1>2. IInv /\ UnderWay => Remaining \in Nat
  BY RemainingType
<1>3. IInv /\ UnderWay /\ [Next]_vars
        => [FitsAlone /\ threshold <= 1 => Remaining' < Remaining]_vars
  BY RemainingShrinks
<1> QED  BY <1>1, <1>2, <1>3, InitUnderWay, Invariance, PTL DEF Spec


-----------------------------------------------------------------------------
(* The refinement mapping, as a function of what the engine records. *)
Mapped == [r \in Requests |-> TokensOf(r, Held[r])]
Swapped == [r \in Requests |->
              IF swap_store[r] = None THEN <<>> ELSE swap_store[r]]

(* An active request reads its tokens. *)
LEMMA ViewOfStore ==
  ASSUME IInv, NEW r \in Requests
  PROVE  (IF r \in active THEN Visible(pool, table[r], tokens[r]) ELSE <<>>)
           = TokensOf(r, Held[r])
<1>1. CASE r \in active
  <2>1. MemoryOK(pool, table, Held) /\ Held[r] = tokens[r]
    BY <1>1 DEF IInv, Memory, Held
  <2>2. Visible(pool, table[r], Held[r]) = TokensOf(r, Held[r])
    BY <2>1, MemoryReads
  <2> QED  BY <1>1, <2>1, <2>2
<1>2. CASE r \notin active
  <2>1. Held[r] = 0
    BY <1>2 DEF Held
  <2> QED  BY <1>2, <2>1, TokensOfNext
<1> QED  BY <1>1, <1>2

(* A preemption discards the tokens of its victim or swaps them out. *)
LEMMA MappedEvict ==
  ASSUME IInv, NEW v \in Requests, Evict(v)
  PROVE  /\ Mapped' = [Mapped EXCEPT ![v] = <<>>]
         /\ Swapped' = Swapped \/ Swapped' = [Swapped EXCEPT ![v] = Mapped[v]]
<1>1. /\ v \in active /\ active' = active \ {v}
      /\ \/ /\ tokens[v] < threshold
            /\ tokens' = [tokens EXCEPT ![v] = 0]
            /\ swap_store' = [swap_store EXCEPT ![v] = None]
         \/ /\ swap_store' = [swap_store EXCEPT ![v] = token_sequence[v]]
            /\ tokens' = tokens
  BY EvictEffect
<1>2. /\ tokens \in [Requests -> Nat] /\ threshold \in Nat
      /\ swap_store \in [Requests -> Seq(Token) \cup {None}]
      /\ token_sequence[v] \in Seq(Token)
      /\ None \notin Seq(Token)
  BY PreemptionAssumption DEF IInv, TypeOK
<1>3. /\ token_sequence[v] = TokensOf(v, tokens[v])
      /\ swap_store[v] # None => tokens[v] >= threshold
  BY DEF IInv, Sequences
<1>4. Held' = [Held EXCEPT ![v] = 0]
  BY <1>1, <1>2 DEF Held
<1>5. Mapped' = [Mapped EXCEPT ![v] = <<>>]
  <2>1. /\ Mapped'[v] = <<>>
        /\ \A q \in Requests \ {v} : Mapped'[q] = Mapped[q]
    BY <1>4, TokensOfNext DEF Mapped, Held
  <2> QED  BY <2>1 DEF Mapped
<1>6. CASE swap_store' = [swap_store EXCEPT ![v] = token_sequence[v]]
  <2>1. Mapped[v] = token_sequence[v]
    BY <1>1, <1>3 DEF Mapped, Held
  <2>2. token_sequence[v] # None
    BY <1>2
  <2>3. Swapped' = [Swapped EXCEPT ![v] = token_sequence[v]]
    BY <1>2, <1>6, <2>2 DEF Swapped
  <2> QED  BY <1>5, <2>1, <2>3
<1>7. CASE /\ tokens[v] < threshold
           /\ swap_store' = [swap_store EXCEPT ![v] = None]
  <2>1. swap_store[v] = None
    BY <1>2, <1>3, <1>7
  <2>2. swap_store' = swap_store
    BY <1>2, <1>7, <2>1
  <2>3. Swapped' = Swapped
    BY <2>2 DEF Swapped
  <2> QED  BY <1>5, <2>3
<1> QED  BY <1>1, <1>6, <1>7

(* The generation of a token extends its sequence, or completes it. *)
LEMMA MappedGenerate ==
  ASSUME IInv, NEW r \in Requests, NEW p, NEW t, GenerateToken(r, p, t)
  PROVE  /\ \/ Mapped' = [Mapped EXCEPT ![r] = Append(@, <<r, Len(@)>>)]
            \/ Mapped' = [Mapped EXCEPT ![r] = <<>>]
         /\ Swapped' = Swapped
<1>1. /\ r \in active /\ swap_store' = swap_store
      /\ tokens' = [tokens EXCEPT ![r] = tokens[r] + 1]
      /\ tokens[r] \in Nat /\ tokens \in [Requests -> Nat]
      /\ active' = active \ {r} \/ active' = active
  BY GenerateEffect DEF IInv, TypeOK
<1>2. \A q \in Requests \ {r} : Mapped'[q] = Mapped[q]
  BY <1>1 DEF Mapped, Held
<1>3. CASE active' = active
  <2>1. /\ Mapped[r] = TokensOf(r, tokens[r])
        /\ Mapped'[r] = TokensOf(r, tokens[r] + 1)
    BY <1>1, <1>3 DEF Mapped, Held
  <2>2. Mapped'[r] = Append(Mapped[r], <<r, Len(Mapped[r])>>)
    BY <1>1, <2>1, TokensOfNext
  <2>3. Mapped' = [Mapped EXCEPT ![r] = Append(@, <<r, Len(@)>>)]
    BY <1>2, <2>2 DEF Mapped
  <2> QED  BY <1>1, <2>3 DEF Swapped
<1>4. CASE active' = active \ {r}
  <2>1. Mapped'[r] = <<>>
    BY <1>4, TokensOfNext DEF Mapped, Held
  <2>2. Mapped' = [Mapped EXCEPT ![r] = <<>>]
    BY <1>2, <2>1 DEF Mapped
  <2> QED  BY <1>1, <2>2 DEF Swapped
<1> QED  BY <1>1, <1>3, <1>4

(* A restoration swaps the tokens of its request in. *)
LEMMA MappedRestore ==
  ASSUME IInv, NEW r \in Requests, FinishRestore(r)
  PROVE  /\ Mapped[r] = <<>>
         /\ Mapped' = [Mapped EXCEPT ![r] = Swapped[r]]
         /\ Swapped' = Swapped
<1>1. /\ restoring = r /\ active' = active \cup {r} /\ r \notin active
      /\ tokens' = tokens /\ swap_store' = swap_store
      /\ status[r] = "waiting"
  BY RestoreEffect DEF FinishRestore
<1>2. /\ tokens[r] > 0 /\ token_sequence[r] = TokensOf(r, tokens[r])
      /\ swap_store[r] = token_sequence[r]
  BY <1>1 DEF IInv, Sequences
<1>3. token_sequence[r] # None
  BY PreemptionAssumption DEF IInv, TypeOK
<1>4. Swapped[r] = TokensOf(r, tokens[r])
  BY <1>2, <1>3 DEF Swapped
<1>5. Mapped[r] = <<>>
  BY <1>1, TokensOfNext DEF Mapped, Held
<1>6. /\ Mapped'[r] = TokensOf(r, tokens[r])
      /\ \A q \in Requests \ {r} : Mapped'[q] = Mapped[q]
  BY <1>1 DEF Mapped, Held
<1>7. Mapped' = [Mapped EXCEPT ![r] = Swapped[r]]
  BY <1>4, <1>6 DEF Mapped
<1> QED  BY <1>1, <1>5, <1>7 DEF Swapped

(* Every step of the engine is one of the store, or invisible to it. *)
LEMMA MappedStep ==
  ASSUME IInv, [Next]_vars
  PROVE  \/ \E r \in Requests :
              /\ Mapped' = [Mapped EXCEPT ![r] = Append(@, <<r, Len(@)>>)]
              /\ Swapped' = Swapped
         \/ \E r \in Requests :
              /\ Mapped' = [Mapped EXCEPT ![r] = <<>>]
              /\ Swapped' = Swapped \/ Swapped' = [Swapped EXCEPT ![r] = Mapped[r]]
         \/ \E r \in Requests :
              /\ Mapped[r] = <<>>
              /\ Mapped' = [Mapped EXCEPT ![r] = Swapped[r]]
              /\ Swapped' = Swapped
         \/ Mapped' = Mapped /\ Swapped' = Swapped
<1>1. ASSUME UNCHANGED <<tokens, active, swap_store>>
      PROVE  Mapped' = Mapped /\ Swapped' = Swapped
  BY <1>1 DEF Mapped, Swapped, Held
<1>2. ASSUME NEW r \in Requests, AdmitFresh(r)
      PROVE  Mapped' = Mapped /\ Swapped' = Swapped
  <2>1. /\ tokens' = tokens /\ swap_store' = swap_store
        /\ active' = active \cup {r} /\ tokens[r] = 0
    BY <1>2 DEF AdmitFresh, memory
  <2>2. Held' = Held
    BY <2>1 DEF Held
  <2> QED  BY <2>1, <2>2 DEF Mapped, Swapped
<1>3. ASSUME \/ BeginAdmit \/ BeginGenerate \/ BeginReadmit \/ EndStep \/ Return
             \/ UNCHANGED vars
             \/ \E r \in Requests :
                  Enqueue(r) \/ BeginRestore(r) \/ SkipPreempted(r)
             \/ \E r \in Requests, b \in Blocks : RestoreBlock(r, b)
      PROVE  UNCHANGED <<tokens, active, swap_store>>
  BY <1>3
  DEF vars, memory, BeginAdmit, BeginGenerate, AdmitOver, BeginReadmit,
      EndStep, Return, Enqueue, BeginRestore, RestoreBlock, SkipPreempted
<1> QED
  BY <1>1, <1>2, <1>3, MappedEvict, MappedGenerate, MappedRestore, StepCases

(* Preemption is invisible to the requests: the engine implements the       *)
(* token store, in which a sequence that is swapped out comes back whole.   *)
THEOREM PreemptionInvisible == Spec => ImplementsTokenStore
<1> DEFINE kv == [r \in Requests |->
                    IF r \in active THEN Visible(pool, table[r], tokens[r])
                    ELSE <<>>]
           saved == Swapped
<1>1. Init => Store!Init
  <2> SUFFICES ASSUME Init  PROVE Store!Init
    OBVIOUS
  <2>1. kv = [r \in Requests |-> <<>>] /\ saved = [r \in Requests |-> <<>>]
    BY DEF Init, Swapped
  <2> QED  BY <2>1 DEF Store!Init, Swapped
<1>2. IInv => kv = Mapped
  BY ViewOfStore DEF Mapped
<1>3. IInv' => (kv = Mapped)'
  BY <1>2, PTL
<1>4. ASSUME IInv, IInv', [Next]_vars
      PROVE  [Store!Next]_<<kv, saved>>
  <2>1. kv = Mapped
    BY <1>2, <1>4
  <2>2. kv' = Mapped'
    BY <1>3, <1>4
  <2>3. \/ \E r \in Requests :
             /\ kv' = [kv EXCEPT ![r] = Append(@, <<r, Len(@)>>)]
             /\ saved' = saved
        \/ \E r \in Requests :
             /\ kv' = [kv EXCEPT ![r] = <<>>]
             /\ saved' = saved \/ saved' = [saved EXCEPT ![r] = kv[r]]
        \/ \E r \in Requests :
             /\ kv[r] = <<>>
             /\ kv' = [kv EXCEPT ![r] = saved[r]]
             /\ saved' = saved
        \/ kv' = kv /\ saved' = saved
    <3> HIDE DEF kv
    <3> QED  BY <1>4, <2>1, <2>2, MappedStep
  <2>4. ASSUME NEW r \in Requests,
               kv' = [kv EXCEPT ![r] = Append(@, <<r, Len(@)>>)], saved' = saved
        PROVE  Store!Next
    BY <2>4 DEF Store!Next, Store!Extend, Swapped
  <2>5. ASSUME NEW r \in Requests, kv' = [kv EXCEPT ![r] = <<>>], saved' = saved
        PROVE  Store!Next
    <3>1. kv' = [q \in Requests |-> IF q \in {r} THEN <<>> ELSE kv[q]]
      BY <2>5
    <3>2. {r} \in SUBSET Requests
      OBVIOUS
    <3> QED  BY <2>5, <3>1, <3>2 DEF Store!Next, Store!Discard, Swapped
  <2>6. ASSUME NEW r \in Requests, kv' = [kv EXCEPT ![r] = <<>>],
               saved' = [saved EXCEPT ![r] = kv[r]]
        PROVE  Store!Next
    BY <2>6 DEF Store!Next, Store!SwapOut, Swapped
  <2>7. ASSUME NEW r \in Requests, kv[r] = <<>>,
               kv' = [kv EXCEPT ![r] = saved[r]], saved' = saved
        PROVE  Store!Next
    BY <2>7 DEF Store!Next, Store!SwapIn, Swapped
  <2> HIDE DEF kv, saved
  <2> QED  BY <2>3, <2>4, <2>5, <2>6, <2>7
<1> QED
  BY <1>1, <1>4, Invariance, PTL
  DEF Spec, ImplementsTokenStore, Store!Spec, Swapped
=============================================================================
