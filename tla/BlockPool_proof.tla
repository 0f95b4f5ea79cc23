--------------------------- MODULE BlockPool_proof ---------------------------
(***************************************************************************)
(* What the operations of the pool preserve, for every pool and every      *)
(* block size: the lemmas that the proofs of the paged components cite.    *)
(***************************************************************************)
EXTENDS BlockPool, FiniteSetTheorems, TLAPS

(* The pool has as many blocks as it was created with. *)
LEMMA BlocksFinite == IsFiniteSet(Blocks) /\ Cardinality(Blocks) = TotalBlocks
<1>1. TotalBlocks \in Nat /\ TotalBlocks >= 1
  BY BlockPoolAssumption
<1>2. IsFiniteSet(0 .. TotalBlocks - 1)
      /\ Cardinality(0 .. TotalBlocks - 1) =
           IF 0 > TotalBlocks - 1 THEN 0 ELSE TotalBlocks - 1 - 0 + 1
  BY <1>1, FS_Interval
<1> QED  BY <1>1, <1>2 DEF Blocks

(* allocated_count lies between zero and the size of the pool. *)
LEMMA AllocatedCountType ==
  ASSUME NEW p \in Pool
  PROVE  AllocatedCount(p) \in 0 .. TotalBlocks
<1>1. p.free \subseteq Blocks
  BY DEF Pool
<1>2. Cardinality(p.free) \in Nat /\ Cardinality(p.free) <= TotalBlocks
  BY <1>1, BlocksFinite, FS_Subset, FS_CardinalityType
<1> QED  BY <1>2, BlockPoolAssumption DEF AllocatedCount

-----------------------------------------------------------------------------
(* Division: the place of a token is its quotient and remainder.           *)
LEMMA DivMod ==
  ASSUME NEW n \in Nat, NEW d \in Nat \ {0}
  PROVE  /\ n \div d \in Nat /\ n % d \in 0 .. d - 1
         /\ n = d * (n \div d) + (n % d)
OBVIOUS

(* Distinct multiples of d are at least d apart. *)
LEMMA MulGap ==
  ASSUME NEW d \in Nat \ {0}, NEW p \in Int, NEW q \in Int, q >= p + 1
  PROVE  d * q >= d * p + d
OBVIOUS

(* The multiple of d after d * p. *)
LEMMA MulNext ==
  ASSUME NEW d \in Nat \ {0}, NEW p \in Int
  PROVE  d * (p + 1) = d * p + d /\ d * p \in Int
OBVIOUS

LEMMA MulMonotone ==
  ASSUME NEW n \in Nat, NEW m \in Nat, NEW k \in Nat, n <= m
  PROVE  n * k <= m * k
<1> DEFINE d == m - n
<1>1. d \in Nat /\ m = n + d
  OBVIOUS
<1> HIDE DEF d
<1>2. (n + d) * k = n * k + d * k /\ d * k \in Nat /\ n * k \in Nat
  BY <1>1
<1> QED  BY <1>1, <1>2

(* Quotient and remainder are unique. *)
LEMMA DivUnique ==
  ASSUME NEW d \in Nat \ {0}, NEW p \in Int, NEW q \in Int,
         NEW r \in 0 .. d - 1, NEW s \in 0 .. d - 1,
         d * p + r = d * q + s
  PROVE  p = q /\ r = s
<1>1. d * p \in Int /\ d * q \in Int
  OBVIOUS
<1>2. ~(q >= p + 1)
  BY <1>1, MulGap
<1>3. ~(p >= q + 1)
  BY <1>1, MulGap
<1>4. p = q
  BY <1>2, <1>3
<1> QED  BY <1>1, <1>4

(* So any such decomposition is the one that Python computes. *)
LEMMA DivIs ==
  ASSUME NEW n \in Nat, NEW d \in Nat \ {0}, NEW p \in Int,
         NEW r \in 0 .. d - 1, n = d * p + r
  PROVE  n \div d = p /\ n % d = r
<1> DEFINE q == n \div d
           s == n % d
<1>1. q \in Int /\ s \in 0 .. d - 1 /\ n = d * q + s
  BY DivMod
<1> HIDE DEF q, s
<1>2. d * p + r = d * q + s
  BY <1>1
<1>3. q = p /\ s = r
  BY <1>1, <1>2, DivUnique
<1> QED  BY <1>3 DEF q, s

(* One block further: the quotient grows by one. *)
LEMMA DivNext ==
  ASSUME NEW n \in Nat, NEW d \in Nat \ {0}
  PROVE  (n + d) \div d = n \div d + 1
<1> DEFINE p == n \div d
           r == n % d
<1>1. p \in Nat /\ r \in 0 .. d - 1 /\ n = d * p + r
  BY DivMod
<1> HIDE DEF p, r
<1>2. d * (p + 1) = d * p + d /\ d * p \in Int
  BY <1>1, MulNext
<1>3. n + d = d * (p + 1) + r
  BY <1>1, <1>2
<1>4. n + d \in Nat /\ p + 1 \in Int
  BY <1>1
<1>5. (n + d) \div d = p + 1
  BY <1>1, <1>3, <1>4, DivIs
<1> QED  BY <1>5 DEF p

(* The quotient stays or grows by one from a number to the next, and it     *)
(* grows only onto a multiple.                                              *)
LEMMA DivStep ==
  ASSUME NEW n \in Nat, NEW d \in Nat \ {0}
  PROVE  (n + 1) \div d \in {n \div d, n \div d + 1}
<1> DEFINE p == n \div d
           r == n % d
<1>1. p \in Nat /\ r \in 0 .. d - 1 /\ n = d * p + r
  BY DivMod
<1> HIDE DEF p, r
<1>2. d * (p + 1) = d * p + d /\ d * p \in Int
  BY <1>1, MulNext
<1>3. n + 1 \in Nat /\ p + 1 \in Int
  BY <1>1
<1>4. CASE r = d - 1
  <2>1. n + 1 = d * (p + 1) + 0 /\ 0 \in 0 .. d - 1
    BY <1>1, <1>2, <1>4
  <2>2. (n + 1) \div d = p + 1
    BY <1>3, <2>1, DivIs
  <2> QED  BY <2>2 DEF p
<1>5. CASE r # d - 1
  <2>1. n + 1 = d * p + (r + 1) /\ r + 1 \in 0 .. d - 1
    BY <1>1, <1>2, <1>5
  <2>2. (n + 1) \div d = p
    BY <1>1, <1>3, <2>1, DivIs
  <2> QED  BY <2>2 DEF p
<1> QED  BY <1>4, <1>5

(* The blocks that n + 1 tokens need are those up to the block of token n,  *)
(* and n tokens need that block too unless token n is its first.            *)
LEMMA BlocksForNext ==
  ASSUME NEW n \in Nat
  PROVE  /\ BlockOf(n) \in Nat /\ OffsetOf(n) \in Offsets
         /\ BlocksFor(n) \in Nat /\ BlocksFor(0) = 0
         /\ BlocksFor(n + 1) = BlockOf(n) + 1
         /\ BlocksFor(n) \in {BlockOf(n), BlockOf(n) + 1}
         /\ n > 0 => BlocksFor(n) > 0
<1> DEFINE d == BlockSize
<1>0. d \in Nat \ {0}
  BY BlockPoolAssumption
<1>1. BlockOf(n) \in Nat /\ OffsetOf(n) \in Offsets
  BY <1>0, DivMod DEF BlockOf, OffsetOf, Offsets
<1>2. ASSUME NEW m \in Nat
      PROVE  BlocksFor(m + 1) = m \div d + 1 /\ m \div d \in Nat
  <2>1. m + 1 + d - 1 = m + d
    BY <1>0
  <2>2. (m + d) \div d = m \div d + 1 /\ m \div d \in Nat
    BY <1>0, DivNext, DivMod
  <2> QED  BY <2>1, <2>2 DEF BlocksFor
<1>3. BlocksFor(n + 1) = BlockOf(n) + 1
  BY <1>2 DEF BlockOf
<1>4. BlocksFor(0) = 0
  <2>1. 0 + d - 1 = d - 1 /\ d - 1 \in Nat /\ d - 1 \in 0 .. d - 1
    BY <1>0
  <2>2. d - 1 = d * 0 + (d - 1)
    BY <1>0
  <2>3. (d - 1) \div d = 0
    BY <1>0, <2>1, <2>2, DivIs
  <2> QED  BY <2>1, <2>3 DEF BlocksFor
<1>5. CASE n = 0
  <2>1. 0 = d * 0 + 0 /\ 0 \in 0 .. d - 1
    BY <1>0
  <2>2. 0 \div d = 0
    BY <1>0, <2>1, DivIs
  <2>3. BlockOf(n) = 0
    BY <1>5, <2>2 DEF BlockOf
  <2> QED  BY <1>1, <1>3, <1>4, <1>5, <2>3
<1>6. CASE n > 0
  <2> DEFINE m == n - 1
  <2>1. m \in Nat /\ m + 1 = n
    BY <1>6
  <2> HIDE DEF m
  <2>2. BlocksFor(n) = m \div d + 1 /\ m \div d \in Nat
    BY <1>2, <2>1
  <2>3. n \div d \in {m \div d, m \div d + 1}
    BY <1>0, <2>1, DivStep
  <2>4. BlocksFor(n) \in {BlockOf(n), BlockOf(n) + 1}
    BY <2>2, <2>3 DEF BlockOf
  <2> QED  BY <1>1, <1>3, <1>4, <2>2, <2>4
<1> QED  BY <1>5, <1>6

(* Every token lies in a block that its request needs. *)
LEMMA BlockOfBelow ==
  ASSUME NEW n \in Nat, NEW i \in 0 .. n - 1
  PROVE  /\ i \in Nat /\ BlockOf(i) \in Nat /\ OffsetOf(i) \in Offsets
         /\ BlockOf(i) < BlocksFor(n)
<1> DEFINE d == BlockSize
           m == n - 1
<1>0. d \in Nat \ {0} /\ m \in Nat /\ i \in Nat /\ i <= m
  BY BlockPoolAssumption
<1>1. BlocksFor(m + 1) = BlockOf(m) + 1 /\ BlockOf(m) \in Nat
  BY <1>0, BlocksForNext
<1>2. BlocksFor(n) = BlockOf(m) + 1
  <2>1. m + 1 = n
    BY <1>0
  <2> QED  BY <1>1, <2>1
<1>3. BlockOf(i) \in Nat /\ OffsetOf(i) \in Offsets
  BY <1>0, BlocksForNext
<1>4. /\ i = d * BlockOf(i) + (i % d) /\ i % d \in 0 .. d - 1
      /\ m = d * BlockOf(m) + (m % d) /\ m % d \in 0 .. d - 1
  BY <1>0, DivMod DEF BlockOf
<1>5. ~(BlockOf(i) >= BlockOf(m) + 1)
  <2> SUFFICES ASSUME BlockOf(i) >= BlockOf(m) + 1  PROVE FALSE
    OBVIOUS
  <2> DEFINE p == BlockOf(m)
             q == BlockOf(i)
  <2>1. p \in Int /\ q \in Int /\ q >= p + 1
    BY <1>1, <1>3
  <2>2. i = d * q + (i % d) /\ m = d * p + (m % d)
    BY <1>4
  <2> HIDE DEF p, q
  <2>3. d * q >= d * p + d
    BY <1>0, <2>1, MulGap
  <2>4. d * q \in Int /\ d * p \in Int
    BY <1>0, <2>1
  <2> QED  BY <1>0, <1>4, <2>2, <2>3, <2>4
<1> QED  BY <1>0, <1>1, <1>2, <1>3, <1>5

(* More tokens need no fewer blocks. *)
LEMMA BlocksForMonotone ==
  ASSUME NEW n \in Nat, NEW m \in 0 .. n
  PROVE  BlocksFor(m) \in Nat /\ BlocksFor(n) \in Nat /\ BlocksFor(m) <= BlocksFor(n)
<1>1. BlocksFor(m) \in Nat /\ BlocksFor(n) \in Nat
  BY BlocksForNext
<1>2. CASE m = 0
  BY <1>1, <1>2, BlocksForNext
<1>3. CASE m # 0
  <2> DEFINE i == m - 1
  <2>1. i \in Nat /\ i \in 0 .. n - 1 /\ i + 1 = m
    BY <1>3
  <2> HIDE DEF i
  <2>2. BlockOf(i) \in Nat /\ BlockOf(i) < BlocksFor(n)
    BY <2>1, BlockOfBelow
  <2>3. BlocksFor(m) = BlockOf(i) + 1
    BY <2>1, BlocksForNext
  <2> QED  BY <1>1, <2>2, <2>3
<1> QED  BY <1>1, <1>2, <1>3

(* Tokens that reach no further than a whole number of blocks need no more. *)
LEMMA BlocksForWhole ==
  ASSUME NEW n \in Nat, n % BlockSize = 0, NEW m \in 0 .. n
  PROVE  BlocksFor(m) * BlockSize <= n
<1> DEFINE d == BlockSize
           q == n \div d
<1>1. d \in Nat \ {0} /\ q \in Nat /\ n = d * q
  <2>1. d \in Nat \ {0} /\ n % d = 0
    BY BlockPoolAssumption
  <2> HIDE DEF d
  <2>2. n \div d \in Nat /\ n = d * (n \div d) + (n % d)
    BY <2>1, DivMod
  <2>3. d * (n \div d) \in Nat
    BY <2>1, <2>2
  <2> QED  BY <2>1, <2>2, <2>3
<1>2. BlocksFor(m) \in Nat /\ BlocksFor(n) \in Nat /\ BlocksFor(m) <= BlocksFor(n)
  BY BlocksForMonotone
<1> HIDE DEF q
<1>3. BlocksFor(n) = q
  <2>1. n + d - 1 \in Nat /\ d - 1 \in 0 .. d - 1 /\ n + d - 1 = d * q + (d - 1)
    BY <1>1
  <2> DEFINE k == n + d - 1
             r == d - 1
  <2>2. k \in Nat /\ r \in 0 .. d - 1 /\ k = d * q + r
    BY <2>1
  <2> HIDE DEF k, r
  <2>3. k \div d = q
    BY <1>1, <2>2, DivIs
  <2> QED  BY <2>3 DEF k, BlocksFor
<1>4. BlocksFor(m) * d <= q * d
  <2> DEFINE b == BlocksFor(m)
  <2>1. b \in Nat /\ b <= q
    BY <1>2, <1>3
  <2> HIDE DEF b
  <2> QED  BY <1>1, <2>1, MulMonotone DEF b
<1> QED  BY <1>1, <1>4

(* Blocks whose tokens are at most m are at most the blocks for m tokens. *)
LEMMA BelowBlocksFor ==
  ASSUME NEW n \in Nat, NEW m \in Nat, n * BlockSize <= m
  PROVE  n <= BlocksFor(m)
<1> DEFINE d == BlockSize
           q == BlocksFor(m)
           r == (m + d - 1) % d
<1>1. d \in Nat \ {0} /\ m + d - 1 \in Nat
  BY BlockPoolAssumption
<1>2. q \in Nat /\ r \in 0 .. d - 1 /\ m + d - 1 = d * q + r
  BY <1>1, DivMod DEF BlocksFor
<1> HIDE DEF q, r
<1>3. n * d = d * n /\ d * n \in Nat /\ d * q \in Nat
  BY <1>1, <1>2
<1>4. d * n <= d * q
  BY <1>1, <1>2, <1>3
<1>5. ~(n >= q + 1)
  <2>1. n >= q + 1 => d * n >= d * q + d
    BY <1>1, <1>2, MulGap
  <2> QED  BY <1>1, <1>3, <1>4, <2>1
<1> QED  BY <1>2, <1>5 DEF q

(* Two tokens of a request differ in their block or in their offset.        *)
LEMMA PlacesDiffer ==
  ASSUME NEW i \in Nat, NEW j \in Nat,
         BlockOf(i) = BlockOf(j), OffsetOf(i) = OffsetOf(j)
  PROVE  i = j
BY BlockPoolAssumption, DivMod DEF BlockOf, OffsetOf

-----------------------------------------------------------------------------
(* PhysicalBlockAllocator(n, block_size) creates a pool. *)
LEMMA NewPoolType == NewPool \in Pool
BY DEF NewPool, Pool, Blank

(* allocate turns a pool into a pool. *)
LEMMA AllocateType ==
  ASSUME NEW p \in Pool, NEW b \in Blocks, NEW r \in Requests
  PROVE  Allocate(p, b, r) \in Pool
BY DEF Allocate, Pool, Blank

(* free turns a pool into a pool. *)
LEMMA FreeType ==
  ASSUME NEW p \in Pool, NEW bs \in SUBSET Blocks
  PROVE  Free(p, bs) \in Pool
BY DEF Free, Pool, Blank

(* write turns a pool into a pool and touches only what is stored. *)
LEMMA WriteType ==
  ASSUME NEW p \in Pool, NEW b, NEW o, NEW v \in Token
  PROVE  /\ Write(p, b, o, v) \in Pool
         /\ Write(p, b, o, v).free = p.free
         /\ Write(p, b, o, v).owner = p.owner
<1>1. [p.data EXCEPT ![b][o] = v] \in [Blocks -> [Offsets -> Token \cup {None}]]
  BY DEF Pool
<1> QED  BY <1>1 DEF Write, Pool

-----------------------------------------------------------------------------
(* allocate_block: the table gains the block as its last entry. *)
LEMMA AppendRange ==
  ASSUME NEW t \in Seq(Blocks), NEW b \in Blocks
  PROVE  /\ Append(t, b) \in Seq(Blocks)
         /\ Range(Append(t, b)) = Range(t) \cup {b}
         /\ IsInjective(t) /\ b \notin Range(t) => IsInjective(Append(t, b))
<1>1. /\ Append(t, b) \in Seq(Blocks)
      /\ DOMAIN t = 1 .. Len(t) /\ Len(t) \in Nat
      /\ DOMAIN Append(t, b) = 1 .. Len(t) + 1
      /\ Append(t, b)[Len(t) + 1] = b
      /\ \A i \in 1 .. Len(t) : Append(t, b)[i] = t[i]
  OBVIOUS
<1>2. Range(Append(t, b)) = Range(t) \cup {b}
  BY <1>1 DEF Range
<1>3. ASSUME IsInjective(t), b \notin Range(t)
      PROVE  IsInjective(Append(t, b))
  BY <1>1, <1>3 DEF IsInjective, Range
<1> QED  BY <1>1, <1>2, <1>3

(* A new request has no block. *)
LEMMA EmptyTable == <<>> \in Seq(Blocks) /\ Range(<<>>) = {} /\ IsInjective(<<>>)
BY DEF Range, IsInjective

(* At the start nothing is owned. *)
LEMMA NewPoolAccounted ==
  BlocksAccounted(NewPool, [r \in Requests |-> <<>>])
BY EmptyTable, BlockPoolAssumption DEF BlocksAccounted, NewPool

(* A write changes no ownership. *)
LEMMA WriteAccounted ==
  ASSUME NEW p \in Pool, NEW t, NEW b, NEW o, NEW v \in Token,
         BlocksAccounted(p, t)
  PROVE  BlocksAccounted(Write(p, b, o, v), t)
BY WriteType DEF BlocksAccounted

(* A free block is in no page table; appended to one it has one owner. *)
LEMMA AllocateAccounted ==
  ASSUME NEW p \in Pool, NEW t \in [Requests -> Seq(Blocks)],
         NEW r \in Requests, NEW b \in p.free,
         BlocksAccounted(p, t)
  PROVE  BlocksAccounted(Allocate(p, b, r), [t EXCEPT ![r] = Append(t[r], b)])
<1> DEFINE q == Allocate(p, b, r)
           u == [t EXCEPT ![r] = Append(t[r], b)]
<1>1. b \in Blocks
  BY DEF Pool
<1>2. \A s \in Requests : b \notin Range(t[s])
  BY <1>1, BlockPoolAssumption DEF BlocksAccounted
<1>3. /\ q.free = p.free \ {b}
      /\ \A c \in Blocks : q.owner[c] = IF c = b THEN r ELSE p.owner[c]
  BY <1>1 DEF Allocate, Pool
<1>4. /\ Range(u[r]) = Range(t[r]) \cup {b}
      /\ IsInjective(u[r])
      /\ \A s \in Requests \ {r} : u[s] = t[s]
  BY <1>1, <1>2, AppendRange DEF BlocksAccounted
<1>5. \A s \in Requests : IsInjective(u[s])
  BY <1>4 DEF BlocksAccounted
<1>6. \A c \in Blocks, s \in Requests : q.owner[c] = s <=> c \in Range(u[s])
  BY <1>2, <1>3, <1>4 DEF BlocksAccounted
<1>7. \A c \in Blocks : c \in q.free <=> q.owner[c] = None
  BY <1>3, BlockPoolAssumption DEF BlocksAccounted
<1> QED  BY <1>5, <1>6, <1>7 DEF BlocksAccounted

(* The requests of R release all their blocks at once. *)
LEMMA FreeAccounted ==
  ASSUME NEW p \in Pool, NEW t \in [Requests -> Seq(Blocks)],
         NEW R \in SUBSET Requests,
         BlocksAccounted(p, t)
  PROVE  BlocksAccounted(Free(p, UNION {Range(t[r]) : r \in R}),
                         [r \in Requests |-> IF r \in R THEN <<>> ELSE t[r]])
<1> DEFINE bs == UNION {Range(t[r]) : r \in R}
           q == Free(p, bs)
           u == [r \in Requests |-> IF r \in R THEN <<>> ELSE t[r]]
<1>1. /\ q.free = p.free \cup bs
      /\ \A c \in Blocks : q.owner[c] = IF c \in bs THEN None ELSE p.owner[c]
  BY DEF Free
<1>2. \A c \in Blocks : c \in bs <=> \E r \in R : p.owner[c] = r
  BY DEF BlocksAccounted
<1> HIDE DEF bs
<1>3. \A s \in Requests : IsInjective(u[s])
  BY EmptyTable DEF BlocksAccounted
<1>4. ASSUME NEW c \in Blocks, NEW s \in Requests
      PROVE  q.owner[c] = s <=> c \in Range(u[s])
  <2>1. CASE s \in R
    BY <2>1, <1>1, <1>2, EmptyTable, BlockPoolAssumption DEF BlocksAccounted
  <2>2. CASE s \notin R
    BY <2>2, <1>1, <1>2, BlockPoolAssumption DEF BlocksAccounted
  <2> QED  BY <2>1, <2>2
<1>5. \A c \in Blocks : c \in q.free <=> q.owner[c] = None
  BY <1>1 DEF BlocksAccounted
<1> QED  BY <1>3, <1>4, <1>5 DEF BlocksAccounted, bs

-----------------------------------------------------------------------------
(* Sums over the requests.  Induction over a finite set is the choice of a     *)
(* smallest counterexample.                                                 *)

(* A sum as a count: f[x] units of each x. *)
Units(f, S) == {u \in S \X Nat : u[2] \in 1 .. f[u[1]]}

(* The units of one more element. *)
LEMMA UnitsStep ==
  ASSUME NEW f, NEW S, NEW x \in S, f[x] \in Nat,
         IsFiniteSet(Units(f, S \ {x}))
  PROVE  /\ IsFiniteSet(Units(f, S))
         /\ Cardinality(Units(f, S)) = f[x] + Cardinality(Units(f, S \ {x}))
<1> DEFINE rest == Units(f, S \ {x})
           own == {x} \X (1 .. f[x])
<1>1. Units(f, S) = rest \cup own /\ rest \cap own = {}
  BY DEF Units
<1>2. IsFiniteSet(own) /\ Cardinality(own) = f[x]
  <2>1. IsFiniteSet({x}) /\ Cardinality({x}) = 1
    BY FS_Singleton
  <2>2. IsFiniteSet(1 .. f[x]) /\ Cardinality(1 .. f[x]) = f[x]
    <3> DEFINE n == f[x]
    <3> HIDE DEF n
    <3>1. n \in Nat
      BY DEF n
    <3>2. /\ IsFiniteSet(1 .. n)
          /\ Cardinality(1 .. n) = IF 1 > n THEN 0 ELSE n - 1 + 1
      BY <3>1, FS_Interval
    <3>3. Cardinality(1 .. n) = n
      BY <3>1, <3>2
    <3> QED  BY <3>2, <3>3 DEF n
  <2>3. IsFiniteSet(own) /\ Cardinality(own) = 1 * f[x]
    BY <2>1, <2>2, FS_Product
  <2> QED  BY <2>3
<1>3. Cardinality(rest) \in Nat
  BY FS_CardinalityType
<1>4. /\ IsFiniteSet(rest \cup own)
      /\ Cardinality(rest \cup own) =
           Cardinality(rest) + Cardinality(own) - Cardinality(rest \cap own)
  <2> HIDE DEF own, rest
  <2> QED  BY <1>2, FS_Union DEF rest
<1>5. Cardinality({}) = 0
  BY FS_EmptySet
<1>6. /\ IsFiniteSet(Units(f, S))
      /\ Cardinality(Units(f, S)) = f[x] + Cardinality(rest)
  <2> HIDE DEF own, rest
  <2>1. Cardinality(rest \cap own) = 0
    BY <1>1, <1>5, Zenon
  <2>2. Cardinality(rest \cup own) = f[x] + Cardinality(rest)
    BY <1>2, <1>3, <1>4, <2>1
  <2> QED  BY <1>1, <1>4, <2>2, Zenon
<1> QED  BY <1>6

(* The units of a finite set are finite: of its subsets, a smallest whose   *)
(* units are not would lose them with one element less.                     *)
LEMMA UnitsFinite ==
  ASSUME NEW f, NEW S, IsFiniteSet(S), \A x \in S : f[x] \in Nat
  PROVE  IsFiniteSet(Units(f, S)) /\ Cardinality(Units(f, S)) \in Nat
<1> DEFINE Bad == {s \in SUBSET S : ~IsFiniteSet(Units(f, s))}
<1>1. ASSUME Bad # {}  PROVE FALSE
  <2>1. Bad \in SUBSET FiniteSubsetsOf(S)
    BY FS_Subset DEF FiniteSubsetsOf
  <2>2. PICK s \in Bad : \A t \in Bad : <<t, s>> \notin StrictSubsetOrdering(S)
    BY <1>1, <2>1, FS_StrictSubsetOrderingWellFounded, WFMin
  <2>3. CASE s = {}
    BY <2>2, <2>3, FS_EmptySet DEF Units
  <2>4. CASE s # {}
    <3>1. PICK x : x \in s
      BY <2>4
    <3>2. <<s \ {x}, s>> \in StrictSubsetOrdering(S) /\ s \ {x} \in SUBSET S
      BY <3>1 DEF StrictSubsetOrdering
    <3>3. s \ {x} \notin Bad
      BY <2>2, <3>2
    <3>4. IsFiniteSet(Units(f, s \ {x}))
      BY <3>2, <3>3
    <3>5. IsFiniteSet(Units(f, s))
      BY <3>1, <3>4, UnitsStep
    <3> QED  BY <3>5
  <2> QED  BY <2>3, <2>4
<1>2. IsFiniteSet(Units(f, S))
  BY <1>1
<1> QED  BY <1>2, FS_CardinalityType

(* The fold that sums f counts its units: the recursive function that it    *)
(* chooses exists, since counting is one, and no two differ at a smallest   *)
(* set.                                                                     *)
LEMMA SumIsCount ==
  ASSUME NEW f, NEW S, IsFiniteSet(S), \A x \in S : f[x] \in Nat
  PROVE  SumFunctionOnSet(f, S) = Cardinality(Units(f, S))
<1> DEFINE pick(s) == CHOOSE x \in s : TRUE
           Sums(g) == g = [s \in SUBSET S |->
                             IF s = {} THEN 0 ELSE f[pick(s)] + g[s \ {pick(s)}]]
           sum == CHOOSE g : Sums(g)
           count == [s \in SUBSET S |-> Cardinality(Units(f, s))]
<1>1. SumFunctionOnSet(f, S) = sum[S]
  BY DEF SumFunctionOnSet, FoldFunctionOnSet, MapThenFoldSet
<1>2. ASSUME NEW s \in SUBSET S, s # {}
      PROVE  /\ pick(s) \in s /\ s \ {pick(s)} \in SUBSET S
             /\ <<s \ {pick(s)}, s>> \in StrictSubsetOrdering(S)
             /\ count[s] = f[pick(s)] + count[s \ {pick(s)}]
  <2>1. pick(s) \in s
    BY <1>2
  <2>2. IsFiniteSet(s \ {pick(s)})
    BY FS_Subset
  <2>3. IsFiniteSet(Units(f, s \ {pick(s)}))
    BY <2>2, UnitsFinite
  <2>4. Cardinality(Units(f, s)) =
          f[pick(s)] + Cardinality(Units(f, s \ {pick(s)}))
    <3> HIDE DEF pick
    <3> QED  BY <2>1, <2>3, UnitsStep
  <2>5. <<s \ {pick(s)}, s>> \in StrictSubsetOrdering(S)
    <3> HIDE DEF pick
    <3> QED  BY <2>1 DEF StrictSubsetOrdering
  <2> HIDE DEF pick
  <2> QED  BY <2>1, <2>4, <2>5
<1>3. count[{}] = 0
  BY FS_EmptySet DEF Units
<1>4. Sums(count)
  <2> HIDE DEF pick
  <2>1. ASSUME NEW s \in SUBSET S
        PROVE  count[s] = IF s = {} THEN 0 ELSE f[pick(s)] + count[s \ {pick(s)}]
    BY <1>2, <1>3
  <2> QED  BY <2>1
<1>5. Sums(sum)
  <2> HIDE DEF Sums, count
  <2> QED  BY <1>4
<1> HIDE DEF count, sum, pick
<1>6. ASSUME NEW s \in SUBSET S
      PROVE  sum[s] = IF s = {} THEN 0 ELSE f[pick(s)] + sum[s \ {pick(s)}]
  BY <1>5
<1>7. sum[S] = count[S]
  <2> DEFINE Differ == {s \in SUBSET S : sum[s] # count[s]}
  <2>1. ASSUME Differ # {}  PROVE FALSE
    <3>1. Differ \in SUBSET FiniteSubsetsOf(S)
      BY FS_Subset DEF FiniteSubsetsOf
    <3>2. PICK s \in Differ :
            \A t \in Differ : <<t, s>> \notin StrictSubsetOrdering(S)
      BY <2>1, <3>1, FS_StrictSubsetOrderingWellFounded, WFMin
    <3>3. s # {}
      BY <1>3, <1>6, <3>2
    <3>4. sum[s \ {pick(s)}] = count[s \ {pick(s)}]
      BY <1>2, <3>2, <3>3
    <3> QED  BY <1>2, <1>6, <3>2, <3>3, <3>4
  <2> QED  BY <2>1
<1> QED  BY <1>1, <1>7 DEF count

(* A set of units is no larger than the sum. *)
LEMMA UnitsBelowSum ==
  ASSUME NEW f, NEW S, IsFiniteSet(S), \A x \in S : f[x] \in Nat,
         NEW M \in SUBSET Units(f, S)
  PROVE  /\ IsFiniteSet(M) /\ Cardinality(M) \in Nat
         /\ SumFunctionOnSet(f, S) \in Nat
         /\ Cardinality(M) <= SumFunctionOnSet(f, S)
<1>1. /\ IsFiniteSet(Units(f, S)) /\ Cardinality(Units(f, S)) \in Nat
      /\ SumFunctionOnSet(f, S) = Cardinality(Units(f, S))
  BY UnitsFinite, SumIsCount
<1>2. IsFiniteSet(M) /\ Cardinality(M) <= Cardinality(Units(f, S))
  BY <1>1, FS_Subset
<1> QED  BY <1>1, <1>2, FS_CardinalityType

(* More elements have no smaller a sum. *)
LEMMA SumSubset ==
  ASSUME NEW f, NEW S, IsFiniteSet(S), \A x \in S : f[x] \in Nat,
         NEW R \in SUBSET S
  PROVE  /\ SumFunctionOnSet(f, R) \in Nat /\ SumFunctionOnSet(f, S) \in Nat
         /\ SumFunctionOnSet(f, R) <= SumFunctionOnSet(f, S)
<1>1. IsFiniteSet(R)
  BY FS_Subset
<1>2. SumFunctionOnSet(f, R) = Cardinality(Units(f, R))
  BY <1>1, SumIsCount
<1>3. Units(f, R) \in SUBSET Units(f, S)
  BY DEF Units
<1>4. /\ Cardinality(Units(f, R)) \in Nat /\ SumFunctionOnSet(f, S) \in Nat
      /\ Cardinality(Units(f, R)) <= SumFunctionOnSet(f, S)
  <2> DEFINE M == Units(f, R)
  <2>1. M \in SUBSET Units(f, S)
    BY <1>3
  <2> HIDE DEF M
  <2>2. /\ Cardinality(M) \in Nat /\ SumFunctionOnSet(f, S) \in Nat
        /\ Cardinality(M) <= SumFunctionOnSet(f, S)
    BY <2>1, UnitsBelowSum
  <2> QED  BY <2>2 DEF M
<1> QED  BY <1>2, <1>4

(* If f is k times g or more everywhere, so are their sums: a smallest set  *)
(* for which they were not would do without any of its elements.            *)
LEMMA SumScaled ==
  ASSUME NEW f, NEW g, NEW S, IsFiniteSet(S), NEW k \in Nat,
         \A x \in S : f[x] \in Nat /\ g[x] \in Nat /\ g[x] * k <= f[x]
  PROVE  SumFunctionOnSet(g, S) * k <= SumFunctionOnSet(f, S)
<1> DEFINE F(s) == Cardinality(Units(f, s))
           G(s) == Cardinality(Units(g, s))
           Bad == {s \in SUBSET S : ~ (G(s) * k <= F(s))}
<1>1. ASSUME NEW s \in SUBSET S
      PROVE  /\ IsFiniteSet(s)
             /\ IsFiniteSet(Units(f, s)) /\ F(s) \in Nat
             /\ IsFiniteSet(Units(g, s)) /\ G(s) \in Nat
  <2>1. IsFiniteSet(s)
    BY FS_Subset
  <2> QED  BY <2>1, UnitsFinite
<1>2. ASSUME NEW s \in SUBSET S, NEW x \in s
      PROVE  F(s) = f[x] + F(s \ {x}) /\ G(s) = g[x] + G(s \ {x})
  <2>1. IsFiniteSet(Units(f, s \ {x})) /\ IsFiniteSet(Units(g, s \ {x}))
    BY <1>1
  <2>2. f[x] \in Nat /\ g[x] \in Nat
    OBVIOUS
  <2>3. F(s) = f[x] + F(s \ {x})
    BY <2>1, <2>2, UnitsStep
  <2>4. G(s) = g[x] + G(s \ {x})
    BY <2>1, <2>2, UnitsStep
  <2> QED  BY <2>3, <2>4
<1>3. G({}) * k <= F({})
  <2>1. F({}) = 0 /\ G({}) = 0
    BY FS_EmptySet DEF Units
  <2> HIDE DEF F, G
  <2> QED  BY <2>1
<1> HIDE DEF F, G
<1>4. ASSUME Bad # {}  PROVE FALSE
  <2>1. Bad \in SUBSET FiniteSubsetsOf(S)
    BY FS_Subset DEF FiniteSubsetsOf
  <2>2. PICK s \in Bad : \A t \in Bad : <<t, s>> \notin StrictSubsetOrdering(S)
    <3> HIDE DEF Bad
    <3> QED  BY <1>4, <2>1, FS_StrictSubsetOrderingWellFounded, WFMin
  <2>3. s \in SUBSET S /\ ~ (G(s) * k <= F(s))
    BY <2>2
  <2>4. s # {}
    BY <1>3, <2>3, Zenon
  <2>5. PICK x : x \in s
    BY <2>4
  <2> DEFINE t == s \ {x}
  <2>6. t \in SUBSET S /\ <<t, s>> \in StrictSubsetOrdering(S)
    BY <2>3, <2>5 DEF StrictSubsetOrdering
  <2>7. F(s) = f[x] + F(t) /\ G(s) = g[x] + G(t)
    BY <1>2, <2>3, <2>5
  <2> HIDE DEF t
  <2>8. G(t) * k <= F(t)
    BY <2>2, <2>6
  <2>9. F(t) \in Nat /\ G(t) \in Nat
    BY <1>1, <2>6
  <2>10. f[x] \in Nat /\ g[x] \in Nat /\ g[x] * k <= f[x]
    BY <2>3, <2>5
  <2>11. (g[x] + G(t)) * k = g[x] * k + G(t) * k
    BY <2>9, <2>10
  <2>12. g[x] * k \in Nat /\ G(t) * k \in Nat
    BY <2>9, <2>10
  <2>13. G(s) * k <= F(s)
    BY <2>7, <2>8, <2>9, <2>10, <2>11, <2>12
  <2> QED  BY <2>3, <2>13
<1>5. G(S) * k <= F(S)
  BY <1>4
<1>6. SumFunctionOnSet(f, S) = F(S) /\ SumFunctionOnSet(g, S) = G(S)
  BY SumIsCount DEF F, G
<1> QED  BY <1>5, <1>6

(* One more unit of one element. *)
LEMMA SumIncrement ==
  ASSUME NEW S, IsFiniteSet(S), NEW f \in [S -> Nat], NEW x \in S
  PROVE  SumFunctionOnSet([f EXCEPT ![x] = f[x] + 1], S)
           = SumFunctionOnSet(f, S) + 1
<1> DEFINE g == [f EXCEPT ![x] = f[x] + 1]
           u == <<x, f[x] + 1>>
<1>1. g \in [S -> Nat] /\ f[x] \in Nat
  OBVIOUS
<1>2. Units(g, S) = Units(f, S) \cup {u} /\ u \notin Units(f, S)
  BY <1>1 DEF Units
<1>3. /\ IsFiniteSet(Units(f, S)) /\ Cardinality(Units(f, S)) \in Nat
      /\ SumFunctionOnSet(f, S) = Cardinality(Units(f, S))
  BY UnitsFinite, SumIsCount
<1>4. SumFunctionOnSet(g, S) = Cardinality(Units(g, S))
  <2> HIDE DEF g
  <2> QED  BY <1>1, SumIsCount
<1> HIDE DEF g, u
<1>5. Cardinality(Units(f, S) \cup {u}) = Cardinality(Units(f, S)) + 1
  BY <1>2, <1>3, FS_AddElement
<1>6. SumFunctionOnSet(g, S) = SumFunctionOnSet(f, S) + 1
  BY <1>2, <1>3, <1>4, <1>5
<1> QED  BY <1>6 DEF g

-----------------------------------------------------------------------------
(* The entries of all tables: requests with their logical blocks. *)
Pages(t) == {u \in Requests \X Nat : u[2] \in 1 .. Len(t[u[1]])}

(* There is one for every block that is allocated. *)
LEMMA PagesCounted ==
  ASSUME NEW p \in Pool, NEW t \in [Requests -> Seq(Blocks)],
         BlocksAccounted(p, t)
  PROVE  /\ IsFiniteSet(Pages(t))
         /\ Cardinality(Pages(t)) = AllocatedCount(p)
<1> DEFINE taken == Blocks \ p.free
           f == [u \in Pages(t) |-> t[u[1]][u[2]]]
<1>1. /\ IsFiniteSet(taken) /\ p.free \subseteq Blocks
      /\ Cardinality(taken) = AllocatedCount(p)
  <2>1. p.free \subseteq Blocks /\ Blocks \cap p.free = p.free
    BY DEF Pool
  <2>2. /\ IsFiniteSet(taken)
        /\ Cardinality(taken) = Cardinality(Blocks) - Cardinality(p.free)
    BY <2>1, BlocksFinite, FS_Difference
  <2> QED  BY <2>1, <2>2, BlocksFinite DEF AllocatedCount
<1>2. ASSUME NEW r \in Requests, NEW k \in 1 .. Len(t[r])
      PROVE  t[r][k] \in taken /\ p.owner[t[r][k]] = r
  <2>1. t[r][k] \in Blocks /\ t[r][k] \in Range(t[r])
    BY DEF Range
  <2> QED  BY <2>1, BlockPoolAssumption DEF BlocksAccounted
<1>3. \A u \in Pages(t) : u[1] \in Requests /\ u[2] \in 1 .. Len(t[u[1]])
  BY DEF Pages
<1>4. f \in Injection(Pages(t), taken)
  <2>1. f \in [Pages(t) -> taken]
    BY <1>2, <1>3
  <2>2. ASSUME NEW u \in Pages(t), NEW v \in Pages(t), f[u] = f[v]
        PROVE  u = v
    <3>1. u[1] = v[1]
      BY <1>2, <1>3, <2>2
    <3>2. IsInjective(t[u[1]]) /\ t[u[1]] \in Seq(Blocks)
      BY <1>3 DEF BlocksAccounted
    <3>3. u[2] = v[2]
      BY <1>3, <2>2, <3>1, <3>2 DEF IsInjective
    <3> QED  BY <3>1, <3>3 DEF Pages
  <2> QED  BY <2>1, <2>2 DEF Injection, IsInjective
<1>5. f \in Surjection(Pages(t), taken)
  <2>1. ASSUME NEW b \in taken  PROVE \E u \in Pages(t) : f[u] = b
    <3>1. p.owner[b] \in Requests
      BY DEF BlocksAccounted, Pool
    <3>2. PICK k \in DOMAIN t[p.owner[b]] : t[p.owner[b]][k] = b
      BY <3>1 DEF BlocksAccounted, Range
    <3>3. t[p.owner[b]] \in Seq(Blocks)
      BY <3>1
    <3>4. <<p.owner[b], k>> \in Pages(t)
      BY <3>1, <3>2, <3>3 DEF Pages
    <3> QED  BY <3>2, <3>4
  <2>2. f \in [Pages(t) -> taken]
    BY <1>4 DEF Injection
  <2> QED  BY <2>1, <2>2 DEF Surjection
<1> HIDE DEF f, taken
<1>6. /\ IsFiniteSet(Pages(t))
      /\ Cardinality(Pages(t)) = Cardinality(taken)
  BY <1>1, <1>4, <1>5, FS_Injection
<1> QED  BY <1>1, <1>6

-----------------------------------------------------------------------------
(* A place of a page table lies in an allocated block of its request.       *)
LEMMA PlaceOwned ==
  ASSUME NEW p \in Pool, NEW t \in [Requests -> Seq(Blocks)],
         BlocksAccounted(p, t),
         NEW r \in Requests, NEW n \in Nat, BlockOf(n) < Len(t[r])
  PROVE  /\ BlockOf(n) + 1 \in DOMAIN t[r]
         /\ BlockAt(t[r], n) \in Blocks
         /\ BlockAt(t[r], n) \notin p.free
         /\ p.owner[BlockAt(t[r], n)] = r
<1>1. /\ t[r] \in Seq(Blocks)
      /\ DOMAIN t[r] = 1 .. Len(t[r]) /\ Len(t[r]) \in Nat
      /\ \A k \in DOMAIN t[r] : t[r][k] \in Blocks
  OBVIOUS
<1>2. BlockOf(n) \in Nat
  BY BlocksForNext
<1>3. BlockOf(n) + 1 \in DOMAIN t[r]
  BY <1>1, <1>2
<1>4. BlockAt(t[r], n) \in Range(t[r]) /\ BlockAt(t[r], n) \in Blocks
  BY <1>1, <1>3 DEF BlockAt, Range
<1>5. p.owner[BlockAt(t[r], n)] = r
  BY <1>4 DEF BlocksAccounted
<1>6. BlockAt(t[r], n) \notin p.free
  BY <1>4, <1>5, BlockPoolAssumption DEF BlocksAccounted
<1> QED  BY <1>3, <1>4, <1>5, <1>6

(* Two places in the same block are in the same logical block of the same   *)
(* request.                                                                 *)
LEMMA PlacesApart ==
  ASSUME NEW p \in Pool, NEW t \in [Requests -> Seq(Blocks)],
         BlocksAccounted(p, t),
         NEW r \in Requests, NEW n \in Nat, BlockOf(n) < Len(t[r]),
         NEW s \in Requests, NEW i \in Nat, BlockOf(i) < Len(t[s]),
         BlockAt(t[r], n) = BlockAt(t[s], i)
  PROVE  r = s /\ BlockOf(n) = BlockOf(i)
<1>1. r = s
  BY PlaceOwned
<1>2. BlockOf(n) + 1 \in DOMAIN t[r] /\ BlockOf(i) + 1 \in DOMAIN t[r]
  BY <1>1, PlaceOwned
<1>3. IsInjective(t[r]) /\ t[r][BlockOf(n) + 1] = t[r][BlockOf(i) + 1]
  BY <1>1 DEF BlocksAccounted, BlockAt
<1>4. BlockOf(n) + 1 = BlockOf(i) + 1
  BY <1>2, <1>3 DEF IsInjective
<1>5. BlockOf(n) \in Nat /\ BlockOf(i) \in Nat
  BY BlocksForNext
<1> QED  BY <1>1, <1>4, <1>5

(* A token that is written is read back at its own place, and every other   *)
(* place of every request reads what it read before.                        *)
LEMMA WriteReads ==
  ASSUME NEW p \in Pool, NEW t \in [Requests -> Seq(Blocks)],
         BlocksAccounted(p, t),
         NEW r \in Requests, NEW n \in Nat, BlockOf(n) < Len(t[r]),
         NEW v \in Token,
         NEW s \in Requests, NEW i \in Nat, BlockOf(i) < Len(t[s])
  PROVE  LET q == Write(p, BlockAt(t[r], n), OffsetOf(n), v)
         IN  /\ s = r /\ i = n => ReadToken(q, t[s], i) = v
             /\ ~(s = r /\ i = n) => ReadToken(q, t[s], i) = ReadToken(p, t[s], i)
<1> DEFINE b == BlockAt(t[r], n)
           c == BlockAt(t[s], i)
<1>1. /\ b \in Blocks /\ c \in Blocks
      /\ OffsetOf(n) \in Offsets /\ OffsetOf(i) \in Offsets
  BY PlaceOwned, BlocksForNext
<1>2. b = c /\ OffsetOf(n) = OffsetOf(i) => s = r /\ i = n
  BY PlacesApart, PlacesDiffer
<1> HIDE DEF b, c
<1>3. /\ p.data \in [Blocks -> [Offsets -> Token \cup {None}]]
      /\ Write(p, b, OffsetOf(n), v).data =
           [p.data EXCEPT ![b][OffsetOf(n)] = v]
  BY DEF Pool, Write
<1>4. [p.data EXCEPT ![b][OffsetOf(n)] = v][c][OffsetOf(i)] =
        IF b = c /\ OffsetOf(n) = OffsetOf(i)
        THEN v ELSE p.data[c][OffsetOf(i)]
  BY <1>1, <1>3
<1>5. s = r /\ i = n => b = c /\ OffsetOf(n) = OffsetOf(i)
  BY DEF b, c
<1> QED  BY <1>2, <1>3, <1>4, <1>5 DEF ReadToken, b, c

(* The block that a request is given holds nobody's tokens. *)
LEMMA AllocateReads ==
  ASSUME NEW p \in Pool, NEW t \in [Requests -> Seq(Blocks)],
         BlocksAccounted(p, t), NEW b \in p.free, NEW r \in Requests,
         NEW s \in Requests, NEW i \in Nat, BlockOf(i) < Len(t[s])
  PROVE  /\ ReadToken(Allocate(p, b, r), t[s], i) = ReadToken(p, t[s], i)
         /\ ReadToken(Allocate(p, b, r), Append(t[s], b), i) =
              ReadToken(p, t[s], i)
<1>1. BlockAt(t[s], i) \in Blocks /\ BlockAt(t[s], i) # b
  BY PlaceOwned
<1>2. BlockAt(Append(t[s], b), i) = BlockAt(t[s], i)
  <2>1. t[s] \in Seq(Blocks) /\ BlockOf(i) + 1 \in 1 .. Len(t[s])
    BY PlaceOwned
  <2> QED  BY <2>1 DEF BlockAt
<1>3. \A c \in Blocks : c # b => Allocate(p, b, r).data[c] = p.data[c]
  BY DEF Allocate, Pool
<1> QED  BY <1>1, <1>2, <1>3 DEF ReadToken

(* Releasing the blocks of some requests leaves the tokens of the others.   *)
LEMMA FreeReads ==
  ASSUME NEW p \in Pool, NEW t \in [Requests -> Seq(Blocks)],
         BlocksAccounted(p, t), NEW R \in SUBSET Requests,
         NEW s \in Requests \ R, NEW i \in Nat, BlockOf(i) < Len(t[s])
  PROVE  ReadToken(Free(p, UNION {Range(t[r]) : r \in R}), t[s], i) =
           ReadToken(p, t[s], i)
<1> DEFINE bs == UNION {Range(t[r]) : r \in R}
           c == BlockAt(t[s], i)
<1>1. c \in Blocks /\ p.owner[c] = s
  BY PlaceOwned
<1>2. c \notin bs
  BY <1>1 DEF BlocksAccounted
<1> HIDE DEF bs, c
<1>3. Free(p, bs).data[c] = p.data[c]
  BY <1>1, <1>2 DEF Free
<1> QED  BY <1>3 DEF ReadToken, bs, c

(* The tokens of a request, one at a time. *)
LEMMA TokensOfNext ==
  ASSUME NEW r, NEW n \in Nat
  PROVE  /\ TokensOf(r, 0) = <<>>
         /\ Len(TokensOf(r, n)) = n
         /\ TokensOf(r, n + 1) = Append(TokensOf(r, n), <<r, n>>)
<1> DEFINE S == {<<r, i>> : i \in Nat}
<1>1. /\ TokensOf(r, n) \in Seq(S) /\ Len(TokensOf(r, n)) = n
      /\ TokensOf(r, n + 1) \in Seq(S) /\ Len(TokensOf(r, n + 1)) = n + 1
  BY DEF TokensOf
<1>2. TokensOf(r, 0) = <<>>
  BY DEF TokensOf
<1>3. /\ Append(TokensOf(r, n), <<r, n>>) \in Seq(S)
      /\ Len(Append(TokensOf(r, n), <<r, n>>)) = n + 1
  BY <1>1
<1>4. ASSUME NEW i \in 1 .. n + 1
      PROVE  TokensOf(r, n + 1)[i] = Append(TokensOf(r, n), <<r, n>>)[i]
  BY <1>1 DEF TokensOf
<1>5. TokensOf(r, n + 1) = Append(TokensOf(r, n), <<r, n>>)
  BY <1>1, <1>3, <1>4
<1> QED  BY <1>1, <1>2, <1>5

-----------------------------------------------------------------------------
(* What every paged component keeps of pool p and page tables t, if memory  *)
(* holds n[r] tokens of request r: blocks are accounted for, free ones are  *)
(* blank, every table has room for its tokens, and they read as generated.  *)
MemoryOK(p, t, n) ==
  /\ p \in Pool
  /\ t \in [Requests -> Seq(Blocks)]
  /\ n \in [Requests -> Nat]
  /\ BlocksAccounted(p, t)
  /\ \A b \in p.free : p.data[b] = Blank
  /\ \A r \in Requests : BlocksFor(n[r]) <= Len(t[r])
  /\ \A r \in Requests : \A i \in 0 .. n[r] - 1 :
       ReadToken(p, t[r], i) = <<r, i>>

(* Every token in memory has its place in the table of its request. *)
LEMMA MemoryPlace ==
  ASSUME NEW p, NEW t, NEW n, MemoryOK(p, t, n),
         NEW r \in Requests, NEW i \in 0 .. n[r] - 1
  PROVE  /\ i \in Nat /\ BlockOf(i) < Len(t[r])
         /\ ReadToken(p, t[r], i) = <<r, i>>
<1>1. n[r] \in Nat /\ t[r] \in Seq(Blocks) /\ BlocksFor(n[r]) <= Len(t[r])
  BY DEF MemoryOK
<1>2. BlocksFor(n[r]) \in Nat
  BY <1>1, BlocksForNext
<1>3. i \in Nat /\ BlockOf(i) \in Nat /\ BlockOf(i) < BlocksFor(n[r])
  BY <1>1, BlockOfBelow
<1>4. ReadToken(p, t[r], i) = <<r, i>>
  BY DEF MemoryOK
<1> QED  BY <1>1, <1>2, <1>3, <1>4

(* A new pool holds nothing, and so does one whose tables are all empty.    *)
LEMMA MemoryNew ==
  MemoryOK(NewPool, [r \in Requests |-> <<>>], [r \in Requests |-> 0])
<1> DEFINE t == [r \in Requests |-> <<>>]
           n == [r \in Requests |-> 0]
<1>1. NewPool \in Pool /\ BlocksAccounted(NewPool, t)
  BY NewPoolType, NewPoolAccounted
<1>2. t \in [Requests -> Seq(Blocks)] /\ n \in [Requests -> Nat]
  BY EmptyTable
<1>3. \A b \in NewPool.free : NewPool.data[b] = Blank
  BY DEF NewPool
<1>4. \A r \in Requests : BlocksFor(n[r]) <= Len(t[r])
  BY BlocksForNext
<1> QED  BY <1>1, <1>2, <1>3, <1>4 DEF MemoryOK

LEMMA MemoryWhole ==
  ASSUME NEW p, NEW t, NEW n, MemoryOK(p, t, n),
         \A r \in Requests : t[r] = <<>>
  PROVE  p = NewPool
<1>1. p \in Pool /\ BlocksAccounted(p, t)
  BY DEF MemoryOK
<1>2. \A b \in Blocks : p.owner[b] = None
  BY <1>1, EmptyTable DEF BlocksAccounted, Pool
<1>3. p.free = Blocks
  BY <1>1, <1>2 DEF BlocksAccounted, Pool
<1>4. \A b \in Blocks : p.data[b] = Blank
  BY <1>3 DEF MemoryOK
<1>5. p.owner = [b \in Blocks |-> None] /\ p.data = [b \in Blocks |-> Blank]
  BY <1>1, <1>2, <1>4 DEF Pool
<1> QED  BY <1>1, <1>3, <1>5 DEF Pool, NewPool

(* A request is given a block that nobody uses. *)
LEMMA MemoryAllocate ==
  ASSUME NEW p, NEW t, NEW n, MemoryOK(p, t, n),
         NEW r \in Requests, NEW b \in p.free
  PROVE  MemoryOK(Allocate(p, b, r), [t EXCEPT ![r] = Append(t[r], b)], n)
<1> DEFINE q == Allocate(p, b, r)
           u == [t EXCEPT ![r] = Append(t[r], b)]
<1>1. /\ p \in Pool /\ b \in Blocks
      /\ t \in [Requests -> Seq(Blocks)] /\ n \in [Requests -> Nat]
      /\ BlocksAccounted(p, t)
  BY DEF MemoryOK, Pool
<1>2. q \in Pool /\ u \in [Requests -> Seq(Blocks)]
  BY <1>1, AllocateType, AppendRange
<1>3. BlocksAccounted(q, u)
  BY <1>1, AllocateAccounted
<1>4. \A c \in q.free : q.data[c] = Blank
  BY <1>1 DEF MemoryOK, Allocate, Pool
<1>5. \A s \in Requests : u[s] = IF s = r THEN Append(t[s], b) ELSE t[s]
  BY <1>1
<1>6. ASSUME NEW s \in Requests  PROVE BlocksFor(n[s]) <= Len(u[s])
  <2>1. /\ t[s] \in Seq(Blocks) /\ BlocksFor(n[s]) <= Len(t[s])
        /\ BlocksFor(n[s]) \in Nat
    BY <1>1, BlocksForNext DEF MemoryOK
  <2>2. Len(u[s]) \in {Len(t[s]), Len(t[s]) + 1}
    BY <1>1, <1>5, <2>1
  <2> QED  BY <2>1, <2>2
<1>7. ASSUME NEW s \in Requests, NEW i \in 0 .. n[s] - 1
      PROVE  ReadToken(q, u[s], i) = <<s, i>>
  <2>1. i \in Nat /\ BlockOf(i) < Len(t[s]) /\ ReadToken(p, t[s], i) = <<s, i>>
    BY MemoryPlace
  <2>2. /\ ReadToken(q, t[s], i) = ReadToken(p, t[s], i)
        /\ ReadToken(q, Append(t[s], b), i) = ReadToken(p, t[s], i)
    BY <1>1, <2>1, AllocateReads
  <2> HIDE DEF q, u
  <2> QED  BY <1>5, <2>1, <2>2
<1> HIDE DEF q, u
<1>8. MemoryOK(q, u, n)
  BY <1>1, <1>2, <1>3, <1>4, <1>6, <1>7 DEF MemoryOK
<1> QED  BY <1>8 DEF q, u

(* A request that has room for its next token stores it. *)
LEMMA MemoryStore ==
  ASSUME NEW p, NEW t, NEW n, MemoryOK(p, t, n),
         NEW r \in Requests, BlockOf(n[r]) < Len(t[r])
  PROVE  MemoryOK(Write(p, BlockAt(t[r], n[r]), OffsetOf(n[r]), <<r, n[r]>>),
                  t, [n EXCEPT ![r] = n[r] + 1])
<1> DEFINE v == <<r, n[r]>>
           b == BlockAt(t[r], n[r])
           o == OffsetOf(n[r])
           q == Write(p, b, o, v)
           m == [n EXCEPT ![r] = n[r] + 1]
<1>1. /\ p \in Pool /\ n[r] \in Nat /\ v \in Token
      /\ t \in [Requests -> Seq(Blocks)] /\ n \in [Requests -> Nat]
      /\ BlocksAccounted(p, t)
  BY DEF MemoryOK, Token
<1>2. /\ m \in [Requests -> Nat] /\ m[r] = n[r] + 1
      /\ \A s \in Requests \ {r} : m[s] = n[s]
  BY <1>1
<1>3. q \in Pool /\ q.free = p.free /\ BlocksAccounted(q, t)
  <2> HIDE DEF v, b, o
  <2> QED  BY <1>1, WriteType, WriteAccounted
<1>4. ASSUME NEW c \in q.free  PROVE q.data[c] = Blank
  <2>1. c \in p.free /\ c \in Blocks /\ p.data[c] = Blank
    BY <1>1, <1>3 DEF MemoryOK, Pool
  <2>2. b \notin p.free
    BY <1>1, PlaceOwned
  <2> HIDE DEF v, b, o
  <2> QED  BY <1>1, <2>1, <2>2 DEF Write, Pool
<1>5. ASSUME NEW s \in Requests  PROVE BlocksFor(m[s]) <= Len(t[s])
  <2>1. CASE s = r
    <3>1. BlocksFor(n[r] + 1) = BlockOf(n[r]) + 1 /\ BlockOf(n[r]) \in Nat
      BY <1>1, BlocksForNext
    <3>2. Len(t[r]) \in Nat
      BY <1>1
    <3>3. BlocksFor(m[r]) = BlockOf(n[r]) + 1
      BY <1>2, <3>1
    <3> HIDE DEF m
    <3> QED  BY <2>1, <3>1, <3>2, <3>3
  <2>2. CASE s # r
    BY <1>2, <2>2 DEF MemoryOK
  <2> QED  BY <2>1, <2>2
<1>6. ASSUME NEW s \in Requests, NEW i \in 0 .. m[s] - 1
      PROVE  ReadToken(q, t[s], i) = <<s, i>>
  <2>1. i \in Nat /\ n[s] \in Nat
    BY <1>1, <1>2
  <2>2. CASE s = r /\ i = n[r]
    <3>1. BlockOf(i) < Len(t[s])
      BY <2>2
    <3> HIDE DEF v
    <3>2. ReadToken(q, t[s], i) = v
      BY <1>1, <2>1, <2>2, <3>1, WriteReads
    <3> QED  BY <2>2, <3>2 DEF v
  <2>3. CASE ~(s = r /\ i = n[r])
    <3>1. i \in 0 .. n[s] - 1
      BY <1>1, <1>2, <2>1, <2>3
    <3>2. BlockOf(i) < Len(t[s]) /\ ReadToken(p, t[s], i) = <<s, i>>
      BY <3>1, MemoryPlace
    <3> HIDE DEF v
    <3>3. ReadToken(q, t[s], i) = ReadToken(p, t[s], i)
      BY <1>1, <2>1, <2>3, <3>2, WriteReads
    <3> QED  BY <3>2, <3>3
  <2> QED  BY <2>2, <2>3
<1> HIDE DEF q, m, v
<1>7. MemoryOK(q, t, m)
  BY <1>1, <1>2, <1>3, <1>4, <1>5, <1>6 DEF MemoryOK
<1> QED  BY <1>7 DEF q, m, v

(* The requests of R leave memory with all their tokens. *)
LEMMA MemoryRelease ==
  ASSUME NEW p, NEW t, NEW n, MemoryOK(p, t, n), NEW R \in SUBSET Requests
  PROVE  MemoryOK(Free(p, UNION {Range(t[r]) : r \in R}),
                  [r \in Requests |-> IF r \in R THEN <<>> ELSE t[r]],
                  [r \in Requests |-> IF r \in R THEN 0 ELSE n[r]])
<1> DEFINE bs == UNION {Range(t[r]) : r \in R}
           q == Free(p, bs)
           u == [r \in Requests |-> IF r \in R THEN <<>> ELSE t[r]]
           m == [r \in Requests |-> IF r \in R THEN 0 ELSE n[r]]
<1>1. /\ p \in Pool
      /\ t \in [Requests -> Seq(Blocks)] /\ n \in [Requests -> Nat]
      /\ BlocksAccounted(p, t)
  BY DEF MemoryOK
<1>2. u \in [Requests -> Seq(Blocks)] /\ m \in [Requests -> Nat]
  BY <1>1, EmptyTable
<1>3. bs \in SUBSET Blocks
  <2>1. \A r \in R : t[r] \in Seq(Blocks)
    BY <1>1
  <2> QED  BY <2>1 DEF Range
<1>4. q \in Pool /\ BlocksAccounted(q, u)
  BY <1>1, <1>3, FreeType, FreeAccounted
<1>5. \A c \in q.free : q.data[c] = Blank
  <2> HIDE DEF bs
  <2> QED  BY <1>1, <1>3 DEF MemoryOK, Free, Pool
<1>6. \A s \in Requests : BlocksFor(m[s]) <= Len(u[s])
  BY BlocksForNext DEF MemoryOK
<1>7. ASSUME NEW s \in Requests, NEW i \in 0 .. m[s] - 1
      PROVE  ReadToken(q, u[s], i) = <<s, i>>
  <2>1. s \notin R /\ u[s] = t[s] /\ m[s] = n[s]
    OBVIOUS
  <2>2. /\ i \in Nat /\ BlockOf(i) < Len(t[s])
        /\ ReadToken(p, t[s], i) = <<s, i>>
    BY <2>1, MemoryPlace
  <2>3. s \in Requests \ R
    BY <2>1
  <2>4. ReadToken(q, t[s], i) = ReadToken(p, t[s], i)
    <3> HIDE DEF u, m
    <3> QED  BY <1>1, <2>2, <2>3, FreeReads
  <2> HIDE DEF q, u
  <2> QED  BY <2>1, <2>2, <2>4
<1> HIDE DEF q, u, m
<1>8. MemoryOK(q, u, m)
  BY <1>1, <1>2, <1>4, <1>5, <1>6, <1>7 DEF MemoryOK
<1> QED  BY <1>8 DEF q, u, m

(* What a request reads through its table are its tokens. *)
LEMMA MemoryReads ==
  ASSUME NEW p, NEW t, NEW n, MemoryOK(p, t, n), NEW r \in Requests
  PROVE  Visible(p, t[r], n[r]) = TokensOf(r, n[r])
<1>1. n[r] \in Nat
  BY DEF MemoryOK
<1>2. CASE t[r] = <<>>
  <2>1. BlocksFor(n[r]) \in Nat /\ BlocksFor(n[r]) <= 0
    BY <1>1, <1>2, BlocksForNext DEF MemoryOK
  <2>2. n[r] = 0
    BY <1>1, <2>1, BlocksForNext
  <2> QED  BY <1>2, <2>2, TokensOfNext DEF Visible
<1>3. CASE t[r] # <<>>
  <2>1. ASSUME NEW i \in 1 .. n[r]
        PROVE  ReadToken(p, t[r], i - 1) = <<r, i - 1>>
    <3>1. i - 1 \in 0 .. n[r] - 1
      BY <1>1
    <3> QED  BY <3>1 DEF MemoryOK
  <2> QED  BY <1>3, <2>1 DEF Visible, TokensOf
<1> QED  BY <1>2, <1>3
=============================================================================
