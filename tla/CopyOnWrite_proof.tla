-------------------------- MODULE CopyOnWrite_proof --------------------------
(***************************************************************************)
(* Proofs about CopyOnWrite, for any number of completions, prompts and    *)
(* blocks: reference counts are exact, completions are isolated, those of  *)
(* one spawn share its prompt until they write, and only a spawn that      *)
(* fails loses blocks.                                                     *)
(***************************************************************************)
EXTENDS CopyOnWrite, FiniteSetTheorems, TLAPS

(* A call of spawn. *)
Begins ==
  \E n \in 0 .. MaxPrompt, count \in 1 .. MaxHandles :
    \E prompt \in [1 .. n -> Token] : BeginSpawn(prompt, count)

(* A block has a reference for every table that maps it. *)
Counted(b) ==
  /\ Holders(b) # {} => ref_count[b] = Cardinality(Holders(b))
  /\ b \in free <=> ref_count[b] = 0

Refs ==
  /\ \A h \in Handles : IsInjective(table[h])
  /\ \A b \in Blocks : Counted(b)

(* A table of L blocks is the one of n tokens: they fit, in no block less.  *)
Covers(L, n) == n <= BlockSize * L /\ BlockSize * L < n + BlockSize

Tables ==
  \A h \in Handles :
    /\ h \in Live => Covers(Len(table[h]), Len(tokens[h]))
    /\ h \notin Live => table[h] = <<>>

(* What is stored at the place of token i of a table. *)
Slot(d, t, i) == d[t[(i - 1) \div BlockSize + 1]][(i - 1) % BlockSize]

Reads(h) ==
  \A i \in 1 .. Len(tokens[h]) : Slot(data, table[h], i) = tokens[h][i]

(* What a spawn returned begins with its prompt. *)
Members ==
  \A s \in spawns :
    /\ s.members \subseteq 1 .. created
    /\ \A h \in s.members \cap Live : s.length <= Len(tokens[h])

(* A spawn under way: its blocks have the references of the completions to  *)
(* come, no reader yet, and the part of the prompt that was stored.         *)
Spawning ==
  ~Idle =>
    /\ created + spawning.count <= MaxHandles
    /\ Len(spawning.prompt) \in 0 .. MaxPrompt
    /\ BlockSize * Len(spawning.shared) < Len(spawning.prompt) + BlockSize
    /\ IsInjective(spawning.shared)
    /\ \A b \in Range(spawning.shared) :
         ref_count[b] = spawning.count /\ Holders(b) = {}
    /\ \A i \in 1 .. Len(spawning.prompt) :
         i <= BlockSize * Len(spawning.shared) =>
           Slot(data, spawning.shared, i) = spawning.prompt[i]

IInv ==
  /\ TypeOK
  /\ Refs
  /\ Tables
  /\ \A h \in Live : Reads(h)
  /\ Members
  /\ SharedUntilWritten
  /\ Spawning

-----------------------------------------------------------------------------
(* Division: token i of a table lies in block i div BlockSize.              *)
LEMMA DivMod ==
  ASSUME NEW n \in Nat, NEW d \in Nat \ {0}
  PROVE  /\ n \div d \in Nat /\ n % d \in 0 .. d - 1
         /\ n = d * (n \div d) + (n % d)
OBVIOUS

(* Multiples of the size of a block are as far apart as the block is long. *)
LEMMA Multiples ==
  ASSUME NEW d \in Nat \ {0}, NEW p \in Int, NEW q \in Int
  PROVE  /\ d * p \in Int /\ d * (p + 1) = d * p + d
         /\ q >= p + 1 => d * q >= d * p + d
         /\ q >= p => d * q >= d * p
OBVIOUS

(* A token is before the end of block L exactly if its block is. *)
LEMMA BlockBelow ==
  ASSUME NEW n \in Nat, NEW L \in Nat
  PROVE  /\ n \div BlockSize \in Nat /\ n % BlockSize \in Offsets
         /\ n = BlockSize * (n \div BlockSize) + (n % BlockSize)
         /\ n < BlockSize * L <=> n \div BlockSize < L
<1> DEFINE d == BlockSize
           q == n \div d
<1>1. d \in Nat \ {0}
  BY COWAssumption
<1>2. q \in Nat /\ n % d \in 0 .. d - 1 /\ n = d * q + (n % d)
  BY <1>1, DivMod
<1> HIDE DEF q
<1>3. d * q \in Int /\ d * L \in Int
  BY <1>1, <1>2, Multiples
<1>4. q < L => d * L >= d * q + d
  BY <1>1, <1>2, Multiples
<1>5. ~(q < L) => d * q >= d * L
  BY <1>1, <1>2, Multiples
<1>6. n < d * L <=> q < L
  BY <1>1, <1>2, <1>3, <1>4, <1>5
<1> QED  BY <1>2, <1>6 DEF q, Offsets

(* Two tokens of a table differ in their block or in their offset. *)
LEMMA PlacesDiffer ==
  ASSUME NEW m \in Nat, NEW n \in Nat,
         m \div BlockSize = n \div BlockSize, m % BlockSize = n % BlockSize
  PROVE  m = n
<1>1. BlockSize \in Nat \ {0}
  BY COWAssumption
<1>2. /\ m = BlockSize * (m \div BlockSize) + (m % BlockSize)
      /\ n = BlockSize * (n \div BlockSize) + (n % BlockSize)
  BY <1>1, DivMod
<1> QED  BY <1>2

(* Appending a block to a table. *)
LEMMA AppendRange ==
  ASSUME NEW t \in Seq(Blocks), NEW b \in Blocks
  PROVE  /\ Append(t, b) \in Seq(Blocks)
         /\ Len(Append(t, b)) = Len(t) + 1
         /\ Append(t, b)[Len(t) + 1] = b
         /\ \A i \in 1 .. Len(t) : Append(t, b)[i] = t[i]
         /\ Range(Append(t, b)) = Range(t) \cup {b}
         /\ IsInjective(t) /\ b \notin Range(t) => IsInjective(Append(t, b))
<1>1. /\ Append(t, b) \in Seq(Blocks)
      /\ DOMAIN t = 1 .. Len(t) /\ Len(t) \in Nat
      /\ DOMAIN Append(t, b) = 1 .. Len(t) + 1
      /\ Len(Append(t, b)) = Len(t) + 1
      /\ Append(t, b)[Len(t) + 1] = b
      /\ \A i \in 1 .. Len(t) : Append(t, b)[i] = t[i]
  OBVIOUS
<1>2. Range(Append(t, b)) = Range(t) \cup {b}
  BY <1>1 DEF Range
<1>3. ASSUME IsInjective(t), b \notin Range(t)
      PROVE  IsInjective(Append(t, b))
  BY <1>1, <1>3 DEF IsInjective, Range
<1> QED  BY <1>1, <1>2, <1>3

(* Replacing a block of a table by one that it does not map. *)
LEMMA ReplaceRange ==
  ASSUME NEW t \in Seq(Blocks), NEW b \in Blocks, NEW q \in 1 .. Len(t),
         IsInjective(t), b \notin Range(t)
  PROVE  LET u == [t EXCEPT ![q] = b]
         IN  /\ u \in Seq(Blocks) /\ Len(u) = Len(t)
             /\ u[q] = b /\ \A i \in 1 .. Len(t) : i # q => u[i] = t[i]
             /\ Range(u) = (Range(t) \ {t[q]}) \cup {b}
             /\ IsInjective(u)
<1> DEFINE u == [t EXCEPT ![q] = b]
<1>1. /\ u \in Seq(Blocks) /\ Len(u) = Len(t)
      /\ DOMAIN u = 1 .. Len(t) /\ DOMAIN t = 1 .. Len(t)
      /\ u[q] = b /\ \A i \in 1 .. Len(t) : i # q => u[i] = t[i]
  OBVIOUS
<1>2. \A i, j \in 1 .. Len(t) : t[i] = t[j] => i = j
  BY <1>1 DEF IsInjective
<1>3. \A i \in 1 .. Len(t) : t[i] \in Range(t)
  BY <1>1 DEF Range
<1> HIDE DEF u
<1>4. IsInjective(u)
  BY <1>1, <1>2, <1>3 DEF IsInjective
<1>5. ASSUME NEW x \in Range(u)  PROVE x \in (Range(t) \ {t[q]}) \cup {b}
  <2>1. PICK i \in 1 .. Len(t) : x = u[i]
    BY <1>1 DEF Range
  <2> QED  BY <1>1, <1>2, <1>3, <2>1
<1>6. ASSUME NEW x \in (Range(t) \ {t[q]}) \cup {b}  PROVE x \in Range(u)
  <2>1. CASE x = b
    BY <1>1, <2>1 DEF Range
  <2>2. CASE x \in Range(t) /\ x # t[q]
    <3>1. PICK i \in 1 .. Len(t) : x = t[i]
      BY <1>1, <2>2 DEF Range
    <3> QED  BY <1>1, <2>2, <3>1 DEF Range
  <2> QED  BY <2>1, <2>2
<1>7. Range(u) = (Range(t) \ {t[q]}) \cup {b}
  BY <1>5, <1>6
<1> QED  BY <1>1, <1>4, <1>7 DEF u

-----------------------------------------------------------------------------
(* A free block has no reader and no reference, nor a spawn waiting for it. *)
LEMMA FreeUnheld ==
  ASSUME IInv, NEW b \in free
  PROVE  /\ b \in Blocks /\ Holders(b) = {}
         /\ \A h \in Handles : b \notin Range(table[h])
         /\ ~Idle => b \notin Range(spawning.shared)
<1>1. b \in Blocks /\ ref_count[b] = 0 /\ Counted(b)
  BY DEF IInv, TypeOK, Refs, Counted
<1>2. Holders(b) = {}
  <2>1. IsFiniteSet(Holders(b))
    <3>1. IsFiniteSet(Handles)
      BY COWAssumption, FS_Interval DEF Handles
    <3> QED  BY <3>1, FS_Subset DEF Holders
  <2>2. Cardinality(Holders(b)) = 0 => Holders(b) = {}
    BY <2>1, FS_EmptySet
  <2> QED  BY <1>1, <2>2 DEF Counted
<1>3. \A h \in Handles : b \notin Range(table[h])
  BY <1>2 DEF Holders
<1>4. ASSUME ~Idle  PROVE b \notin Range(spawning.shared)
  <2>1. spawning.count \in Nat \ {0}
    BY <1>4 DEF IInv, TypeOK, Idle, Handles
  <2> QED  BY <1>1, <1>4, <2>1 DEF IInv, Spawning
<1> QED  BY <1>1, <1>2, <1>3, <1>4

(* A block that h reads: h is its only reader if it has one reference, and  *)
(* without h it has one reader less.                                        *)
LEMMA HeldCounted ==
  ASSUME IInv, NEW h \in Handles, NEW b \in Range(table[h])
  PROVE  /\ b \in Blocks /\ b \notin free /\ h \in Holders(b)
         /\ ref_count[b] = Cardinality(Holders(b))
         /\ ref_count[b] \in 1 .. MaxHandles
         /\ Cardinality(Holders(b) \ {h}) = ref_count[b] - 1
         /\ ref_count[b] <= 1 =>
              \A g \in Handles \ {h} : b \notin Range(table[g])
         /\ ref_count[b] > 1 => Holders(b) \ {h} # {}
<1> DEFINE S == Holders(b)
<1>1. b \in Blocks /\ h \in S
  BY DEF IInv, TypeOK, Holders, Range
<1>2. IsFiniteSet(S)
  <2>1. IsFiniteSet(Handles)
    BY COWAssumption, FS_Interval DEF Handles
  <2> QED  BY <2>1, FS_Subset DEF Holders
<1>3. /\ ref_count[b] = Cardinality(S) /\ ref_count[b] \in 0 .. MaxHandles
      /\ b \in free <=> ref_count[b] = 0
  BY <1>1 DEF IInv, TypeOK, Refs, Counted
<1>4. /\ IsFiniteSet(S \ {h})
      /\ Cardinality(S \ {h}) = Cardinality(S) - 1
      /\ Cardinality(S \ {h}) \in Nat /\ Cardinality(S) \in Nat
  <2> HIDE DEF S
  <2>1. /\ IsFiniteSet(S \ {h})
        /\ Cardinality(S \ {h}) = IF h \in S THEN Cardinality(S) - 1 ELSE Cardinality(S)
    BY <1>2, FS_RemoveElement
  <2> QED  BY <1>1, <1>2, <2>1, FS_CardinalityType
<1>5. Cardinality(S \ {h}) = 0 <=> S \ {h} = {}
  BY <1>4, FS_EmptySet
<1>6. ref_count[b] \in 1 .. MaxHandles
  BY <1>3, <1>4, COWAssumption
<1>7. ASSUME ref_count[b] <= 1
      PROVE  \A g \in Handles \ {h} : b \notin Range(table[g])
  <2>1. S \ {h} = {}
    BY <1>3, <1>4, <1>5, <1>7
  <2> QED  BY <2>1 DEF Holders
<1>8. ref_count[b] > 1 => Holders(b) \ {h} # {}
  BY <1>3, <1>4, <1>5
<1> QED  BY <1>1, <1>3, <1>4, <1>6, <1>7, <1>8

-----------------------------------------------------------------------------
(* What write_token does, whether in place, in a new block or in a copy: h  *)
(* has one token more, reads the others as before, nobody else sees it, and *)
(* the block of the token is mapped by h alone.                             *)
TokenWritten(h, text) ==
  /\ Idle /\ h \in Live /\ UNCHANGED <<spawning, created, cancelled, spawns>>
  /\ tokens' = [tokens EXCEPT ![h] = Append(tokens[h], text)]
  /\ \A g \in Handles \ {h} :
       /\ table'[g] = table[g]
       /\ \A b \in Range(table[g]) : data'[b] = data[b]
  /\ table'[h] \in Seq(Blocks)
  /\ Covers(Len(table'[h]), Len(tokens[h]) + 1)
  /\ \A k \in 1 .. Len(table'[h]) :
       k # LogicalBlock(h) + 1 => k \in 1 .. Len(table[h])
                                    /\ table'[h][k] = table[h][k]
  /\ \A i \in 1 .. Len(tokens[h]) :
       Slot(data', table'[h], i) = Slot(data, table[h], i)
  /\ Slot(data', table'[h], Len(tokens[h]) + 1) = text
  /\ \A g \in Handles \ {h} :
       table'[h][LogicalBlock(h) + 1] \notin Range(table[g])

(* The place of every token of a live completion is in its table, and the   *)
(* place of the next one is in the table or right behind it.                *)
LEMMA PlaceInTable ==
  ASSUME IInv, NEW h \in Live
  PROVE  /\ h \in Handles /\ table[h] \in Seq(Blocks) /\ Len(table[h]) \in Nat
         /\ tokens[h] \in Seq(Token) /\ Len(tokens[h]) \in Nat
         /\ LogicalBlock(h) \in Nat /\ Offset(h) \in Offsets
         /\ Covers(Len(table[h]), Len(tokens[h]))
         /\ \A i \in 1 .. Len(tokens[h]) :
              /\ (i - 1) \div BlockSize + 1 \in 1 .. Len(table[h])
              /\ (i - 1) % BlockSize \in Offsets
              /\ \/ (i - 1) \div BlockSize + 1 # LogicalBlock(h) + 1
                 \/ (i - 1) % BlockSize # Offset(h)
         /\ LogicalBlock(h) + 1 \in DOMAIN table[h] =>
              Covers(Len(table[h]), Len(tokens[h]) + 1)
         /\ LogicalBlock(h) + 1 \notin DOMAIN table[h] =>
              /\ LogicalBlock(h) = Len(table[h])
              /\ Covers(Len(table[h]) + 1, Len(tokens[h]) + 1)
<1> DEFINE L == Len(table[h])
           n == Len(tokens[h])
           q == n \div BlockSize
<1>1. /\ h \in Handles /\ table[h] \in Seq(Blocks) /\ L \in Nat
      /\ tokens[h] \in Seq(Token) /\ n \in Nat
      /\ DOMAIN table[h] = 1 .. L
  BY COWAssumption DEF IInv, TypeOK, Live, Handles
<1>2. n <= BlockSize * L /\ BlockSize * L < n + BlockSize
  BY <1>1 DEF IInv, Tables, Covers
<1>3. /\ q \in Nat /\ n % BlockSize \in Offsets
      /\ n < BlockSize * L <=> q < L
  BY <1>1, BlockBelow
<1>4. BlockSize * L \in Int /\ BlockSize * (L + 1) = BlockSize * L + BlockSize
      /\ BlockSize \in Nat \ {0}
  BY <1>1, COWAssumption, Multiples
<1>5. ASSUME NEW i \in 1 .. n
      PROVE  /\ (i - 1) \div BlockSize + 1 \in 1 .. L
             /\ (i - 1) % BlockSize \in Offsets
             /\ \/ (i - 1) \div BlockSize + 1 # q + 1
                \/ (i - 1) % BlockSize # n % BlockSize
  <2>1. i - 1 \in Nat /\ i - 1 < BlockSize * L /\ i - 1 # n
    BY <1>1, <1>2, <1>4
  <2>2. /\ (i - 1) \div BlockSize \in Nat /\ (i - 1) % BlockSize \in Offsets
        /\ (i - 1) \div BlockSize < L
    BY <1>1, <2>1, BlockBelow
  <2>3. (i - 1) \div BlockSize # q \/ (i - 1) % BlockSize # n % BlockSize
    BY <1>1, <2>1, PlacesDiffer
  <2> HIDE DEF q
  <2> QED  BY <1>1, <1>3, <2>2, <2>3
<1> HIDE DEF L, n, q
<1>6. ASSUME q + 1 \in 1 .. L  PROVE Covers(L, n + 1)
  <2>1. n < BlockSize * L
    BY <1>1, <1>3, <1>6
  <2> QED  BY <1>1, <1>2, <1>4, <2>1 DEF Covers
<1>7. ASSUME q + 1 \notin 1 .. L
      PROVE  q = L /\ Covers(L + 1, n + 1)
  <2>1. n = BlockSize * L
    BY <1>1, <1>2, <1>3, <1>4, <1>7
  <2>2. n < BlockSize * (L + 1)
    BY <1>4, <2>1
  <2>3. q < L + 1
    <3>1. n < BlockSize * (L + 1) <=> n \div BlockSize < L + 1
      <4>1. L + 1 \in Nat
        BY <1>1
      <4> QED  BY <1>1, <4>1, BlockBelow
    <3> QED  BY <2>2, <3>1 DEF q
  <2> QED  BY <1>1, <1>3, <1>4, <1>7, <2>1, <2>3 DEF Covers
<1> QED
  BY <1>1, <1>2, <1>3, <1>5, <1>6, <1>7 DEF Covers, LogicalBlock, Offset, L, n, q

(* In data d and table t, the next token of h is at its place, in a block   *)
(* that holds the place of no other token, or that holds what it held, or   *)
(* what the block that it replaces holds.                                   *)
Placed(h, d, t, text) ==
  LET q == LogicalBlock(h) + 1
  IN  /\ d[t[q]][Offset(h)] = text
      /\ \A b \in Blocks : b # t[q] => d[b] = data[b]
      /\ \A k \in 1 .. Len(table[h]) :
           k # q => t[k] = table[h][k] /\ table[h][k] # t[q]
      /\ q \in 1 .. Len(table[h]) =>
           \A p \in Offsets : p # Offset(h) => d[t[q]][p] = data[table[h][q]][p]

LEMMA TokenPlaced ==
  ASSUME IInv, NEW h \in Live, NEW d, NEW t, NEW text,
         Placed(h, d, t, text)
  PROVE  /\ \A i \in 1 .. Len(tokens[h]) :
              Slot(d, t, i) = Slot(data, table[h], i)
         /\ Slot(d, t, Len(tokens[h]) + 1) = text
<1> DEFINE n == Len(tokens[h])
           q == LogicalBlock(h) + 1
           o == Offset(h)
           B == t[q]
<1>0. /\ d[B][o] = text
      /\ \A b \in Blocks : b # B => d[b] = data[b]
      /\ \A k \in 1 .. Len(table[h]) :
           k # q => t[k] = table[h][k] /\ table[h][k] # B
      /\ q \in 1 .. Len(table[h]) =>
           \A p \in Offsets : p # o => d[B][p] = data[table[h][q]][p]
  BY DEF Placed
<1>1. /\ table[h] \in Seq(Blocks) /\ DOMAIN table[h] = 1 .. Len(table[h])
      /\ n \in Nat
  BY PlaceInTable
<1>2. ASSUME NEW i \in 1 .. n
      PROVE  Slot(d, t, i) = Slot(data, table[h], i)
  <2> DEFINE k == (i - 1) \div BlockSize + 1
             p == (i - 1) % BlockSize
  <2>1. k \in 1 .. Len(table[h]) /\ p \in Offsets /\ (k # q \/ p # o)
    BY PlaceInTable
  <2> HIDE DEF k, p, q, o, B
  <2>2. CASE k # q
    <3>1. t[k] = table[h][k] /\ table[h][k] # B /\ table[h][k] \in Blocks
      BY <1>0, <1>1, <2>1, <2>2
    <3>2. d[t[k]][p] = data[table[h][k]][p]
      BY <1>0, <3>1
    <3> QED  BY <3>2 DEF Slot, k, p
  <2>3. CASE k = q
    <3>1. t[k] = B /\ p # o /\ q \in 1 .. Len(table[h])
      BY <2>1, <2>3 DEF B
    <3>2. d[t[k]][p] = data[table[h][k]][p]
      BY <1>0, <2>1, <2>3, <3>1
    <3> QED  BY <3>2 DEF Slot, k, p
  <2> QED  BY <2>2, <2>3
<1>3. Slot(d, t, n + 1) = text
  <2>1. (n + 1) - 1 = n
    BY <1>1
  <2>2. Slot(d, t, n + 1) = d[t[n \div BlockSize + 1]][n % BlockSize]
    BY <2>1 DEF Slot
  <2> QED  BY <1>0, <2>2 DEF LogicalBlock, Offset
<1> QED  BY <1>2, <1>3

LEMMA InPlaceWritten ==
  ASSUME IInv, NEW h \in Handles, NEW text \in Token,
         WriteInPlace(h, text)
  PROVE  TokenWritten(h, text)
<1> DEFINE n == Len(tokens[h])
           t == table[h]
           q == LogicalBlock(h) + 1
           B == t[q]
<1>1. /\ Idle /\ h \in Live /\ ~Shared(h) /\ q \in DOMAIN t
      /\ data' = [data EXCEPT ![B][Offset(h)] = text]
      /\ tokens' = [tokens EXCEPT ![h] = Append(tokens[h], text)]
      /\ UNCHANGED <<spawning, created, cancelled, table, spawns>>
  BY DEF WriteInPlace, MayWrite, AppendToken
<1>2. /\ t \in Seq(Blocks) /\ DOMAIN t = 1 .. Len(t) /\ Offset(h) \in Offsets
      /\ Covers(Len(t), n + 1)
  BY <1>1, PlaceInTable
<1>3. /\ B \in Range(t)
      /\ \A i, j \in 1 .. Len(t) : t[i] = t[j] => i = j
  BY <1>1, <1>2 DEF Range, IInv, Refs, IsInjective
<1>4. B \in Blocks /\ \A g \in Handles \ {h} : B \notin Range(table[g])
  <2>1. /\ B \in Blocks /\ ref_count[B] \in 1 .. MaxHandles
        /\ ref_count[B] <= 1 => \A g \in Handles \ {h} : B \notin Range(table[g])
    BY <1>3, HeldCounted
  <2>2. ~(ref_count[B] > 1)
    BY <1>1 DEF Shared
  <2> QED  BY <2>1, <2>2, COWAssumption
<1>5. data \in [Blocks -> [Offsets -> Token \cup {None}]]
  BY DEF IInv, TypeOK
<1> HIDE DEF B
<1>6. /\ \A b \in Blocks : b # B => data'[b] = data[b]
      /\ \A p \in Offsets : p # Offset(h) => data'[B][p] = data[B][p]
      /\ data'[B][Offset(h)] = text
  BY <1>1, <1>2, <1>4, <1>5
<1>7. ASSUME NEW g \in Handles \ {h}
      PROVE  table'[g] = table[g] /\ \A b \in Range(table[g]) : data'[b] = data[b]
  <2>1. Range(table[g]) \subseteq Blocks
    BY DEF IInv, TypeOK, Range
  <2> QED  BY <1>1, <1>4, <1>6, <2>1
<1>8. \A k \in 1 .. Len(t) : k # q => t[k] # B
  BY <1>1, <1>2, <1>3 DEF B
<1>9. Placed(h, data', t, text)
  BY <1>6, <1>8 DEF Placed, B
<1>10. /\ \A i \in 1 .. n : Slot(data', t, i) = Slot(data, t, i)
       /\ Slot(data', t, n + 1) = text
  BY <1>1, <1>9, TokenPlaced
<1> QED  BY <1>1, <1>2, <1>4, <1>7, <1>10 DEF TokenWritten, B

LEMMA InNewBlockWritten ==
  ASSUME IInv, NEW h \in Handles, NEW b \in Blocks, NEW text \in Token,
         WriteInNewBlock(h, b, text)
  PROVE  TokenWritten(h, text) /\ table'[h] = Append(table[h], b)
<1> DEFINE n == Len(tokens[h])
           t == table[h]
           q == LogicalBlock(h) + 1
           u == Append(t, b)
<1>1. /\ Idle /\ h \in Live /\ q \notin DOMAIN t /\ b \in free
      /\ data' = [data EXCEPT ![b] = [Blank EXCEPT ![Offset(h)] = text]]
      /\ tokens' = [tokens EXCEPT ![h] = Append(tokens[h], text)]
      /\ table' = [table EXCEPT ![h] = u]
      /\ UNCHANGED <<spawning, created, cancelled, spawns>>
  BY DEF WriteInNewBlock, MayWrite, AppendToken
<1>2. /\ t \in Seq(Blocks) /\ DOMAIN t = 1 .. Len(t) /\ Offset(h) \in Offsets
      /\ q = Len(t) + 1 /\ Covers(Len(t) + 1, n + 1) /\ Len(t) \in Nat
  BY <1>1, PlaceInTable
<1>3. \A g \in Handles : b \notin Range(table[g])
  BY <1>1, FreeUnheld
<1>4. /\ data \in [Blocks -> [Offsets -> Token \cup {None}]]
      /\ table \in [Handles -> Seq(Blocks)]
  BY DEF IInv, TypeOK
<1>5. /\ \A c \in Blocks : c # b => data'[c] = data[c]
      /\ data'[b][Offset(h)] = text
  BY <1>1, <1>2, <1>4 DEF Blank
<1>6. /\ u \in Seq(Blocks) /\ Len(u) = Len(t) + 1 /\ u[q] = b
      /\ \A k \in 1 .. Len(t) : u[k] = t[k] /\ t[k] # b
  <2>1. \A k \in 1 .. Len(t) : t[k] \in Range(t)
    BY <1>2 DEF Range
  <2> QED  BY <1>2, <1>3, <2>1, AppendRange
<1>7. ASSUME NEW g \in Handles \ {h}
      PROVE  table'[g] = table[g] /\ \A c \in Range(table[g]) : data'[c] = data[c]
  <2>1. Range(table[g]) \subseteq Blocks
    BY DEF IInv, TypeOK, Range
  <2> QED  BY <1>1, <1>3, <1>4, <1>5, <2>1
<1>8. table'[h] = u
  BY <1>1, <1>4
<1> HIDE DEF u
<1>9. /\ \A i \in 1 .. n : Slot(data', u, i) = Slot(data, t, i)
      /\ Slot(data', u, n + 1) = text
  <2>1. Placed(h, data', u, text)
    BY <1>2, <1>5, <1>6 DEF Placed
  <2> QED  BY <1>1, <2>1, TokenPlaced
<1>10. \A k \in 1 .. Len(u) : k # q => k \in 1 .. Len(t) /\ u[k] = t[k]
  BY <1>2, <1>6
<1>11. Covers(Len(u), n + 1)
  BY <1>2, <1>6
<1> QED
  <2>1. TokenWritten(h, text)
    BY <1>1, <1>3, <1>6, <1>7, <1>8, <1>9, <1>10, <1>11 DEF TokenWritten
  <2> QED  BY <1>8, <2>1 DEF u

LEMMA InCopyWritten ==
  ASSUME IInv, NEW h \in Handles, NEW b \in Blocks, NEW text \in Token,
         WriteInCopy(h, b, text)
  PROVE  /\ TokenWritten(h, text) /\ LogicalBlock(h) + 1 \in 1 .. Len(table[h])
         /\ table'[h] = [table[h] EXCEPT ![LogicalBlock(h) + 1] = b]
<1> DEFINE n == Len(tokens[h])
           t == table[h]
           q == LogicalBlock(h) + 1
           u == [t EXCEPT ![q] = b]
<1>1. /\ Idle /\ h \in Live /\ q \in DOMAIN t /\ b \in free
      /\ data' = [data EXCEPT ![b] =
                    [data[t[q]] EXCEPT ![Offset(h)] = text]]
      /\ tokens' = [tokens EXCEPT ![h] = Append(tokens[h], text)]
      /\ table' = [table EXCEPT ![h][q] = b]
      /\ UNCHANGED <<spawning, created, cancelled, spawns>>
  BY DEF WriteInCopy, MayWrite, AppendToken, Shared
<1>2. /\ t \in Seq(Blocks) /\ DOMAIN t = 1 .. Len(t) /\ Offset(h) \in Offsets
      /\ Covers(Len(t), n + 1)
  BY <1>1, PlaceInTable
<1>3. \A g \in Handles : b \notin Range(table[g])
  BY <1>1, FreeUnheld
<1>4. /\ data \in [Blocks -> [Offsets -> Token \cup {None}]]
      /\ table \in [Handles -> Seq(Blocks)] /\ IsInjective(t)
      /\ t[q] \in Blocks
  BY <1>1, <1>2 DEF IInv, TypeOK, Refs
<1>5. /\ \A c \in Blocks : c # b => data'[c] = data[c]
      /\ \A p \in Offsets : p # Offset(h) => data'[b][p] = data[t[q]][p]
      /\ data'[b][Offset(h)] = text
  <2> HIDE DEF q
  <2> QED  BY <1>1, <1>2, <1>4
<1>6. /\ u \in Seq(Blocks) /\ Len(u) = Len(t) /\ u[q] = b
      /\ \A k \in 1 .. Len(t) : k # q => u[k] = t[k] /\ t[k] # b
  <2>1. \A k \in 1 .. Len(t) : t[k] \in Range(t)
    BY <1>2 DEF Range
  <2> HIDE DEF q
  <2> QED  BY <1>1, <1>2, <1>3, <1>4, <2>1, ReplaceRange
<1>7. ASSUME NEW g \in Handles \ {h}
      PROVE  table'[g] = table[g] /\ \A c \in Range(table[g]) : data'[c] = data[c]
  <2>1. Range(table[g]) \subseteq Blocks
    BY DEF IInv, TypeOK, Range
  <2> QED  BY <1>1, <1>3, <1>4, <1>5, <2>1
<1>8. table'[h] = u
  BY <1>1, <1>4
<1> HIDE DEF u
<1>9. /\ \A i \in 1 .. n : Slot(data', u, i) = Slot(data, t, i)
      /\ Slot(data', u, n + 1) = text
  <2>1. Placed(h, data', u, text)
    BY <1>2, <1>5, <1>6 DEF Placed
  <2> QED  BY <1>1, <2>1, TokenPlaced
<1>10. TokenWritten(h, text)
  BY <1>1, <1>2, <1>3, <1>6, <1>7, <1>8, <1>9 DEF TokenWritten
<1> QED  BY <1>1, <1>2, <1>8, <1>10 DEF u

-----------------------------------------------------------------------------
(* What the other operations do: a step of a spawn changes nothing that a   *)
(* completion reads,                                                        *)
Unnoticed ==
  /\ UNCHANGED <<created, table, tokens, cancelled, spawns>>
  /\ \A g \in Handles : \A b \in Range(table[g]) : data'[b] = data[b]

(* cancel takes the table of h and nothing that another completion reads,   *)
Dropped(h) ==
  /\ h \in Live
  /\ table' = [table EXCEPT ![h] = <<>>]
  /\ cancelled' = cancelled \cup {h}
  /\ UNCHANGED <<spawning, created, tokens, spawns>>
  /\ \A g \in Handles \ {h} : \A b \in Range(table[g]) : data'[b] = data[b]

(* and the end of a spawn gives its completions the prompt and its blocks.  *)
Joined(count, prompt, shared) ==
  LET new == created + 1 .. created + count
  IN  /\ created + count <= MaxHandles /\ created' = created + count
      /\ Covers(Len(shared), Len(prompt))
      /\ Len(prompt) \in 0 .. MaxPrompt
      /\ \A i \in 1 .. Len(prompt) : Slot(data, shared, i) = prompt[i]
      /\ \A h \in Handles : Range(shared) \cap Range(table[h]) = {}
      /\ table' = [h \in Handles |-> IF h \in new THEN shared ELSE table[h]]
      /\ tokens' = [h \in Handles |-> IF h \in new THEN prompt ELSE tokens[h]]
      /\ spawns' = spawns \cup {[members |-> new, length |-> Len(prompt)]}
      /\ UNCHANGED <<data, cancelled>>

LEMMA SpawnUnnoticed ==
  ASSUME IInv, \/ Begins
               \/ \E b \in Blocks : SpawnBlock(b)
               \/ SpawnFails
               \/ \E h \in Handles : WriteFails(h)
               \/ UNCHANGED vars
  PROVE  Unnoticed
<1>1. ASSUME NEW b \in Blocks, SpawnBlock(b)
      PROVE  Unnoticed
  <2>1. /\ b \in free /\ data' = [data EXCEPT ![b] = Chunk]
        /\ UNCHANGED <<created, table, tokens, cancelled, spawns>>
    BY <1>1 DEF SpawnBlock
  <2>2. \A g \in Handles : b \notin Range(table[g])
    BY <2>1, FreeUnheld
  <2>3. /\ \A g \in Handles : Range(table[g]) \subseteq Blocks
        /\ data \in [Blocks -> [Offsets -> Token \cup {None}]]
    BY DEF IInv, TypeOK, Range
  <2> QED  BY <2>1, <2>2, <2>3 DEF Unnoticed
<1>2. Begins => Unnoticed
  BY DEF Begins, BeginSpawn, allocator, Unnoticed
<1>3. SpawnFails \/ UNCHANGED vars => Unnoticed
  BY DEF SpawnFails, vars, allocator, Unnoticed
<1> QED  BY <1>1, <1>2, <1>3 DEF WriteFails

LEMMA CancelDrops ==
  ASSUME IInv, NEW h \in Handles, Cancel(h)
  PROVE  Dropped(h)
<1>1. /\ h \in Live
      /\ data' = [b \in Blocks |->
                    IF b \in {c \in Range(table[h]) : ref_count[c] = 1}
                    THEN Blank ELSE data[b]]
      /\ table' = [table EXCEPT ![h] = <<>>]
      /\ cancelled' = cancelled \cup {h}
      /\ UNCHANGED <<spawning, created, tokens, spawns>>
  BY DEF Cancel
<1>2. ASSUME NEW g \in Handles \ {h}, NEW b \in Range(table[g])
      PROVE  data'[b] = data[b]
  <2>1. b \in Blocks
    BY DEF IInv, TypeOK, Range
  <2>2. ~(b \in Range(table[h]) /\ ref_count[b] = 1)
    <3> SUFFICES ASSUME b \in Range(table[h]), ref_count[b] = 1
                 PROVE  FALSE
      OBVIOUS
    <3>1. ref_count[b] <= 1 => b \notin Range(table[g])
      BY HeldCounted
    <3> QED  BY <3>1
  <2> QED  BY <1>1, <2>1, <2>2
<1> QED  BY <1>1, <1>2 DEF Dropped

LEMMA SpawnJoins ==
  ASSUME IInv, EndSpawn
  PROVE  Joined(spawning.count, spawning.prompt, spawning.shared)
<1> DEFINE L == Len(spawning.shared)
           n == Len(spawning.prompt)
<1>1. /\ ~Idle /\ ~(L * BlockSize < n)
      /\ created' = created + spawning.count
      /\ table' = [h \in Handles |->
                     IF h \in created + 1 .. created + spawning.count
                     THEN spawning.shared ELSE table[h]]
      /\ tokens' = [h \in Handles |->
                      IF h \in created + 1 .. created + spawning.count
                      THEN spawning.prompt ELSE tokens[h]]
      /\ spawns' = spawns \cup {[members |-> created + 1 .. created + spawning.count,
                                 length |-> Len(spawning.prompt)]}
      /\ UNCHANGED <<data, cancelled>>
  BY DEF EndSpawn, MoreChunks, ChunkStart, allocator
<1>2. /\ spawning.count \in Handles /\ spawning.prompt \in Seq(Token)
      /\ spawning.shared \in Seq(Blocks) /\ BlockSize \in Nat
  BY <1>1, COWAssumption DEF IInv, TypeOK, Idle
<1>3. /\ created + spawning.count <= MaxHandles
      /\ n \in 0 .. MaxPrompt
      /\ BlockSize * L < n + BlockSize
      /\ \A i \in 1 .. n :
           i <= BlockSize * L => Slot(data, spawning.shared, i) = spawning.prompt[i]
  BY <1>1 DEF IInv, Spawning
<1>4. n \in Nat /\ L \in Nat
  BY <1>2
<1>5. BlockSize * L \in Int /\ BlockSize * L = L * BlockSize
  BY <1>2, <1>4
<1> HIDE DEF L, n
<1>6. n <= BlockSize * L
  BY <1>1, <1>4, <1>5
<1>7. \A i \in 1 .. n : i <= BlockSize * L
  BY <1>4, <1>5, <1>6
<1>8. Covers(L, n)
  BY <1>3, <1>6 DEF Covers
<1>9. \A h \in Handles : Range(spawning.shared) \cap Range(table[h]) = {}
  <2>1. \A b \in Range(spawning.shared) : Holders(b) = {}
    BY <1>1 DEF IInv, Spawning
  <2> QED  BY <2>1 DEF Holders
<1>10. \A i \in 1 .. n : Slot(data, spawning.shared, i) = spawning.prompt[i]
  BY <1>3, <1>7
<1> QED
  <2> USE DEF L, n
  <2> QED  BY <1>1, <1>3, <1>8, <1>9, <1>10, Zenon DEF Joined

(* Every step as completions see it. *)
LEMMA StepCases ==
  ASSUME IInv, [Next]_vars
  PROVE  \/ Unnoticed
         \/ \E h \in Handles : Dropped(h) \/ \E text \in Token : TokenWritten(h, text)
         \/ /\ ~Idle
            /\ Joined(spawning.count, spawning.prompt, spawning.shared)
<1>1. EndSpawn => ~Idle
  BY DEF EndSpawn
<1> QED
  BY <1>1, SpawnUnnoticed, CancelDrops, SpawnJoins, InPlaceWritten,
     InNewBlockWritten, InCopyWritten DEF Next, Begins

-----------------------------------------------------------------------------
(* A completion reads the same while its table and its blocks are the same. *)
LEMMA SlotKept ==
  ASSUME IInv, NEW h \in Live, NEW d, \A b \in Range(table[h]) : d[b] = data[b]
  PROVE  \A i \in 1 .. Len(tokens[h]) :
           Slot(d, table[h], i) = Slot(data, table[h], i)
<1> TAKE i \in 1 .. Len(tokens[h])
<1> DEFINE k == (i - 1) \div BlockSize + 1
<1>1. k \in 1 .. Len(table[h]) /\ table[h] \in Seq(Blocks)
  BY PlaceInTable
<1> HIDE DEF k
<1>2. table[h][k] \in Range(table[h])
  BY <1>1 DEF Range
<1> QED  BY <1>2 DEF Slot, k

LEMMA ReadsStep ==
  ASSUME IInv, [Next]_vars
  PROVE  (\A h \in Live : Reads(h))'
<1>1. /\ tokens \in [Handles -> Seq(Token)] /\ table \in [Handles -> Seq(Blocks)]
      /\ created \in Nat /\ Live \subseteq Handles
  BY COWAssumption DEF IInv, TypeOK, Live, Handles
<1>2. \A h \in Live : \A i \in 1 .. Len(tokens[h]) :
        Slot(data, table[h], i) = tokens[h][i]
  BY DEF IInv, Reads
<1>3. ASSUME NEW h \in Live, table'[h] = table[h], tokens'[h] = tokens[h],
             \A b \in Range(table[h]) : data'[b] = data[b]
      PROVE  Reads(h)'
  <2>1. \A i \in 1 .. Len(tokens[h]) :
          Slot(data', table[h], i) = Slot(data, table[h], i)
    BY <1>3, SlotKept
  <2>2. \A i \in 1 .. Len(tokens'[h]) : Slot(data', table'[h], i) = tokens'[h][i]
    BY <1>2, <1>3, <2>1
  <2> QED  BY <2>2 DEF Reads, Slot
<1>4. ASSUME Unnoticed  PROVE (\A h \in Live : Reads(h))'
  <2>1. Live' = Live
    BY <1>4 DEF Unnoticed, Live
  <2> QED  BY <1>1, <1>3, <1>4, <2>1 DEF Unnoticed
<1>5. ASSUME NEW g \in Handles, Dropped(g)  PROVE (\A h \in Live : Reads(h))'
  <2>1. Live' = Live \ {g}
    BY <1>5 DEF Dropped, Live
  <2>2. \A h \in Live \ {g} : table'[h] = table[h] /\ tokens'[h] = tokens[h]
    BY <1>1, <1>5 DEF Dropped
  <2> QED  BY <1>1, <1>3, <1>5, <2>1, <2>2 DEF Dropped
<1>6. ASSUME NEW g \in Handles, NEW text \in Token, TokenWritten(g, text)
      PROVE  (\A h \in Live : Reads(h))'
  <2>1. Live' = Live /\ g \in Live
    BY <1>6 DEF TokenWritten, Live
  <2>2. \A h \in Live \ {g} : Reads(h)'
    BY <1>1, <1>3, <1>6 DEF TokenWritten
  <2> DEFINE n == Len(tokens[g])
  <2>3. /\ n \in Nat /\ Len(tokens'[g]) = n + 1
        /\ tokens'[g][n + 1] = text
        /\ \A i \in 1 .. n : tokens'[g][i] = tokens[g][i]
    <3>1. tokens'[g] = Append(tokens[g], text) /\ tokens[g] \in Seq(Token)
      BY <1>1, <1>6 DEF TokenWritten
    <3> QED  BY <3>1
  <2>4. /\ \A i \in 1 .. n : Slot(data', table'[g], i) = Slot(data, table[g], i)
        /\ Slot(data', table'[g], n + 1) = text
    BY <1>6 DEF TokenWritten
  <2> HIDE DEF n
  <2>5. \A i \in 1 .. n : Slot(data', table'[g], i) = tokens'[g][i]
    BY <1>2, <2>1, <2>3, <2>4 DEF n
  <2>6. \A i \in 1 .. n + 1 : Slot(data', table'[g], i) = tokens'[g][i]
    BY <2>3, <2>4, <2>5
  <2>7. Reads(g)'
    BY <2>3, <2>6 DEF Reads, Slot
  <2> QED  BY <2>1, <2>2, <2>7
<1>7. ASSUME NEW count, NEW prompt, NEW shared, Joined(count, prompt, shared),
             count \in Handles
      PROVE  (\A h \in Live : Reads(h))'
  <2> DEFINE new == created + 1 .. created + count
  <2>1. /\ data' = data
        /\ \A h \in Handles \ new : table'[h] = table[h] /\ tokens'[h] = tokens[h]
        /\ \A h \in Handles \cap new : table'[h] = shared /\ tokens'[h] = prompt
    BY <1>7 DEF Joined
  <2>2. Live' \subseteq Live \cup new /\ Live' \subseteq Handles
    BY <1>1, <1>7, COWAssumption DEF Joined, Live, Handles
  <2>3. Live \cap new = {}
    BY <1>1, <1>7, COWAssumption DEF Live, Handles
  <2>4. ASSUME NEW h \in Handles \cap new  PROVE Reads(h)'
    <3>1. \A i \in 1 .. Len(prompt) : Slot(data, shared, i) = prompt[i]
      BY <1>7 DEF Joined
    <3>2. \A i \in 1 .. Len(tokens'[h]) : Slot(data', table'[h], i) = tokens'[h][i]
      BY <2>1, <3>1
    <3> QED  BY <3>2 DEF Reads, Slot
  <2> HIDE DEF new
  <2>5. ASSUME NEW h \in Live'  PROVE Reads(h)'
    <3>1. CASE h \in new
      BY <2>2, <2>4, <3>1
    <3>2. CASE h \notin new
      BY <1>1, <1>3, <2>1, <2>2, <3>2
    <3> QED  BY <3>1, <3>2
  <2> QED  BY <2>5
<1>8. ~Idle => spawning.count \in Handles
  BY DEF IInv, TypeOK, Idle
<1> QED  BY <1>4, <1>5, <1>6, <1>7, <1>8, StepCases

LEMMA TablesStep ==
  ASSUME IInv, [Next]_vars
  PROVE  Tables'
<1>1. /\ tokens \in [Handles -> Seq(Token)] /\ table \in [Handles -> Seq(Blocks)]
      /\ created \in Nat /\ Live \subseteq Handles
  BY COWAssumption DEF IInv, TypeOK, Live, Handles
<1>2. \A h \in Handles :
        /\ h \in Live => Covers(Len(table[h]), Len(tokens[h]))
        /\ h \notin Live => table[h] = <<>>
  BY DEF IInv, Tables
<1>3. ASSUME Unnoticed  PROVE Tables'
  <2>1. Live' = Live /\ UNCHANGED <<table, tokens>>
    BY <1>3 DEF Unnoticed, Live
  <2> QED  BY <1>2, <2>1 DEF Tables, Covers
<1>4. ASSUME NEW g \in Handles, Dropped(g)  PROVE Tables'
  <2>1. /\ Live' = Live \ {g} /\ tokens' = tokens
        /\ table'[g] = <<>> /\ \A h \in Handles \ {g} : table'[h] = table[h]
    BY <1>1, <1>4 DEF Dropped, Live
  <2> QED  BY <1>2, <2>1 DEF Tables, Covers
<1>5. ASSUME NEW g \in Handles, NEW text \in Token, TokenWritten(g, text)  PROVE Tables'
  <2>1. /\ Live' = Live /\ g \in Live
        /\ \A h \in Handles \ {g} : table'[h] = table[h] /\ tokens'[h] = tokens[h]
    BY <1>1, <1>5 DEF TokenWritten, Live
  <2>2. Len(tokens'[g]) = Len(tokens[g]) + 1
    <3>1. /\ tokens'[g] = Append(tokens[g], text)
          /\ tokens[g] \in Seq(Token)
      BY <1>1, <1>5 DEF TokenWritten
    <3> QED  BY <3>1
  <2>3. Covers(Len(table'[g]), Len(tokens'[g]))
    BY <1>5, <2>2 DEF TokenWritten
  <2> QED  BY <1>2, <2>1, <2>3 DEF Tables, Covers
<1>6. ASSUME NEW count, NEW prompt, NEW shared, Joined(count, prompt, shared),
             count \in Handles
      PROVE  Tables'
  <2> DEFINE new == created + 1 .. created + count
  <2>1. /\ \A h \in Handles \ new : table'[h] = table[h] /\ tokens'[h] = tokens[h]
        /\ \A h \in Handles \cap new : table'[h] = shared /\ tokens'[h] = prompt
        /\ Covers(Len(shared), Len(prompt))
    BY <1>6 DEF Joined
  <2>2. Live' \subseteq Live \cup new /\ Live \subseteq Live' /\ new \subseteq Live'
    <3>1. /\ created' = created + count /\ cancelled' = cancelled
          /\ cancelled \subseteq 1 .. created /\ count \in Nat
      BY <1>6, COWAssumption DEF Joined, Handles, IInv, TypeOK
    <3> QED  BY <1>1, <3>1 DEF Live
  <2> HIDE DEF new
  <2> QED  BY <1>2, <2>1, <2>2 DEF Tables, Covers
<1>7. ~Idle => spawning.count \in Handles
  BY DEF IInv, TypeOK, Idle
<1> QED  BY <1>3, <1>4, <1>5, <1>6, <1>7, StepCases

LEMMA MembersStep ==
  ASSUME IInv, [Next]_vars
  PROVE  Members'
<1>1. /\ tokens \in [Handles -> Seq(Token)] /\ table \in [Handles -> Seq(Blocks)]
      /\ created \in Nat /\ Live \subseteq Handles
      /\ cancelled \subseteq 1 .. created
  BY COWAssumption DEF IInv, TypeOK, Live, Handles
<1>2. \A s \in spawns :
        /\ s.members \subseteq 1 .. created
        /\ \A h \in s.members \cap Live : s.length <= Len(tokens[h])
  BY DEF IInv, Members
<1>3. ASSUME Unnoticed  PROVE Members'
  <2>1. Live' = Live /\ UNCHANGED <<created, tokens, spawns>>
    BY <1>3 DEF Unnoticed, Live
  <2> QED  BY <1>2, <2>1 DEF Members
<1>4. ASSUME NEW g \in Handles, Dropped(g)  PROVE Members'
  <2>1. Live' = Live \ {g} /\ UNCHANGED <<created, tokens, spawns>>
    BY <1>4 DEF Dropped, Live
  <2> QED  BY <1>2, <2>1 DEF Members
<1>5. ASSUME NEW g \in Handles, NEW text \in Token, TokenWritten(g, text)
      PROVE  Members'
  <2>1. /\ Live' = Live /\ UNCHANGED <<created, spawns>>
        /\ \A h \in Handles \ {g} : tokens'[h] = tokens[h]
    BY <1>1, <1>5 DEF TokenWritten, Live
  <2>2. Len(tokens[g]) \in Nat /\ Len(tokens'[g]) = Len(tokens[g]) + 1
    <3>1. tokens'[g] = Append(tokens[g], text) /\ tokens[g] \in Seq(Token)
      BY <1>1, <1>5 DEF TokenWritten
    <3> QED  BY <3>1
  <2>3. ASSUME NEW s \in spawns, NEW h \in s.members \cap Live
        PROVE  s.length <= Len(tokens'[h])
    <3>1. s.length <= Len(tokens[h]) /\ s.length \in Int
      BY <1>2 DEF IInv, TypeOK
    <3> QED  BY <1>1, <2>1, <2>2, <3>1
  <2> QED  BY <1>2, <2>1, <2>3 DEF Members
<1>6. ASSUME NEW count, NEW prompt, NEW shared, Joined(count, prompt, shared),
             count \in Handles
      PROVE  Members'
  <2> DEFINE new == created + 1 .. created + count
  <2>1. /\ \A h \in Handles \ new : tokens'[h] = tokens[h]
        /\ \A h \in Handles \cap new : tokens'[h] = prompt
        /\ created' = created + count /\ cancelled' = cancelled
        /\ spawns' = spawns \cup {[members |-> new, length |-> Len(prompt)]}
        /\ Len(prompt) \in 0 .. MaxPrompt /\ created + count <= MaxHandles
    BY <1>6 DEF Joined
  <2>2. /\ count \in Nat
        /\ new \subseteq 1 .. created' /\ 1 .. created \subseteq 1 .. created'
        /\ new \subseteq Handles /\ (1 .. created) \cap new = {}
        /\ (1 .. created) \cap Live' \subseteq Live
    BY <1>1, <1>6, <2>1, COWAssumption DEF Handles, Live
  <2> HIDE DEF new
  <2>3. ASSUME NEW s \in spawns
        PROVE  /\ s.members \subseteq 1 .. created'
               /\ \A h \in s.members \cap Live' : s.length <= Len(tokens'[h])
    <3>1. s.members \subseteq 1 .. created
      BY <1>2
    <3>2. \A h \in s.members \cap Live' : h \in Live /\ tokens'[h] = tokens[h]
      BY <1>1, <2>1, <2>2, <3>1
    <3> QED  BY <1>2, <2>2, <3>1, <3>2
  <2>4. \A h \in new : Len(prompt) <= Len(tokens'[h])
    BY <2>1, <2>2
  <2>5. ASSUME NEW s \in spawns'
        PROVE  /\ s.members \subseteq 1 .. created'
               /\ \A h \in s.members \cap Live' : s.length <= Len(tokens'[h])
    <3>1. CASE s \in spawns
      BY <2>3, <3>1
    <3>2. CASE s = [members |-> new, length |-> Len(prompt)]
      <4>1. s.members = new /\ s.length = Len(prompt)
        BY <3>2
      <4> QED  BY <4>1, <2>2, <2>4
    <3> QED  BY <2>1, <3>1, <3>2
  <2> QED  BY <2>5 DEF Members
<1>7. ~Idle => spawning.count \in Handles
  BY DEF IInv, TypeOK, Idle
<1> QED  BY <1>3, <1>4, <1>5, <1>6, <1>7, StepCases

-----------------------------------------------------------------------------
(* g and h share what two completions of a prompt of n tokens should share. *)
Alike(g, h, n) ==
  \A k \in DOMAIN table[g] \cap DOMAIN table[h] :
    table[g][k] = table[h][k] <=>
      \/ k * BlockSize <= n
      \/ Len(tokens[g]) = n /\ Len(tokens[h]) = n

(* All blocks of a table but the one of the next token are full, and that   *)
(* one is not.                                                              *)
LEMMA OthersFull ==
  ASSUME IInv, NEW h \in Live
  PROVE  /\ \A k \in 1 .. Len(table[h]) :
              k # LogicalBlock(h) + 1 => k * BlockSize <= Len(tokens[h])
         /\ ~((LogicalBlock(h) + 1) * BlockSize <= Len(tokens[h]))
<1> DEFINE m == Len(tokens[h])
           L == Len(table[h])
           q == m \div BlockSize
<1>1. m \in Nat /\ L \in Nat /\ BlockSize \in Nat \ {0}
  BY PlaceInTable, COWAssumption
<1>2. BlockSize * L < m + BlockSize
  BY PlaceInTable DEF Covers
<1>3. /\ q \in Nat /\ m % BlockSize \in 0 .. BlockSize - 1
      /\ m = BlockSize * q + (m % BlockSize)
  BY <1>1, BlockBelow DEF Offsets
<1> HIDE DEF m, L, q
<1>4. PICK o \in 0 .. BlockSize - 1 : m = BlockSize * q + o
  BY <1>3
<1>5. /\ BlockSize * q \in Int /\ BlockSize * (q + 1) \in Int
      /\ BlockSize * (q + 1) = BlockSize * q + BlockSize
      /\ BlockSize * ((q + 1) + 1) = BlockSize * (q + 1) + BlockSize
  BY <1>1, <1>3, Multiples
<1>6. L <= q + 1
  <2> SUFFICES ASSUME L >= (q + 1) + 1  PROVE FALSE
    BY <1>1, <1>3
  <2>1. BlockSize * L >= BlockSize * (q + 1) + BlockSize
    BY <1>1, <1>3, Multiples
  <2>2. BlockSize * L \in Int
    BY <1>1, Multiples
  <2> QED  BY <1>1, <1>2, <1>4, <1>5, <2>1, <2>2
<1>7. ASSUME NEW k \in 1 .. L, k # q + 1  PROVE k * BlockSize <= m
  <2>1. k \in Int /\ q >= k
    BY <1>1, <1>3, <1>6, <1>7
  <2>2. BlockSize * q >= BlockSize * k /\ BlockSize * k \in Int
    BY <1>1, <1>3, <2>1, Multiples
  <2>3. k * BlockSize = BlockSize * k
    BY <1>1, <2>1
  <2> QED  BY <1>1, <1>4, <1>5, <2>2, <2>3
<1>8. ~((q + 1) * BlockSize <= m)
  <2>1. (q + 1) * BlockSize = BlockSize * (q + 1)
    BY <1>1, <1>3
  <2> QED  BY <1>1, <1>4, <1>5, <2>1
<1> QED  BY <1>7, <1>8 DEF LogicalBlock, m, L, q

(* Who writes has the block of the token alone; the others are full, and    *)
(* stay shared if they are the prompt's.                                    *)
LEMMA WriterAlike ==
  ASSUME IInv, NEW x \in Handles, NEW text \in Token, TokenWritten(x, text),
         NEW y \in Live, y # x, NEW n \in Nat, n <= Len(tokens[x]),
         Alike(x, y, n)
  PROVE  Alike(x, y, n)'
<1> DEFINE m == Len(tokens[x])
           q == LogicalBlock(x) + 1
<1>1. /\ x \in Live /\ y \in Handles
      /\ table'[y] = table[y] /\ tokens'[y] = tokens[y]
      /\ \A k \in 1 .. Len(table'[x]) :
           k # q => k \in 1 .. Len(table[x]) /\ table'[x][k] = table[x][k]
      /\ table'[x][q] \notin Range(table[y])
  <2>1. y \in Handles
    BY PlaceInTable
  <2>2. tokens' = [tokens EXCEPT ![x] = Append(tokens[x], text)]
    BY DEF TokenWritten
  <2> QED  BY <2>1, <2>2 DEF TokenWritten, IInv, TypeOK
<1>2. m \in Nat /\ Len(tokens'[x]) = m + 1
  <2>1. tokens'[x] = Append(tokens[x], text) /\ tokens[x] \in Seq(Token)
    BY DEF TokenWritten, IInv, TypeOK
  <2> QED  BY <2>1
<1>3. DOMAIN table[x] = 1 .. Len(table[x]) /\ DOMAIN table'[x] = 1 .. Len(table'[x])
  <2>1. table[x] \in Seq(Blocks) /\ table'[x] \in Seq(Blocks)
    BY <1>1, PlaceInTable DEF TokenWritten
  <2> QED  BY <2>1
<1>4. /\ \A k \in 1 .. Len(table[x]) : k # q => k * BlockSize <= m
      /\ ~(q * BlockSize <= m)
  BY <1>1, OthersFull
<1>5. q * BlockSize \in Int
  BY <1>1, PlaceInTable, COWAssumption
<1> HIDE DEF m, q
<1>6. ASSUME NEW k \in DOMAIN table'[x] \cap DOMAIN table'[y]
      PROVE  table'[x][k] = table'[y][k] <=>
               \/ k * BlockSize <= n
               \/ Len(tokens'[x]) = n /\ Len(tokens'[y]) = n
  <2>1. Len(tokens'[x]) # n
    BY <1>2 DEF m
  <2>2. CASE k = q
    <3>1. table'[x][k] # table'[y][k]
      BY <1>1, <1>6, <2>2 DEF Range
    <3>2. ~(k * BlockSize <= n)
      BY <1>2, <1>4, <1>5, <2>2 DEF m
    <3> QED  BY <2>1, <3>1, <3>2
  <2>3. CASE k # q
    <3>1. k \in 1 .. Len(table[x]) /\ table'[x][k] = table[x][k]
      BY <1>1, <1>3, <1>6, <2>3
    <3>2. k * BlockSize <= m
      BY <1>4, <2>3, <3>1
    <3>3. table[x][k] = table[y][k] <=>
            \/ k * BlockSize <= n
            \/ m = n /\ Len(tokens[y]) = n
      BY <1>1, <1>3, <1>6, <3>1 DEF Alike, m
    <3>4. table[x][k] = table[y][k] <=> k * BlockSize <= n
      BY <3>2, <3>3
    <3> QED  BY <1>1, <2>1, <3>1, <3>4
  <2> QED  BY <2>2, <2>3
<1> QED  BY <1>6 DEF Alike

LEMMA SharedStep ==
  ASSUME IInv, [Next]_vars
  PROVE  PromptShared'
<1>1. /\ tokens \in [Handles -> Seq(Token)] /\ table \in [Handles -> Seq(Blocks)]
      /\ created \in Nat /\ Live \subseteq Handles
      /\ \A s \in spawns : s.length \in Nat
  BY COWAssumption DEF IInv, TypeOK, Live, Handles
<1>2. \A s \in spawns : \A g, h \in s.members \cap Live :
        g # h => Alike(g, h, s.length)
  BY DEF IInv, SharedUntilWritten, PromptShared, Alike
<1>3. ASSUME NEW s \in spawns,
             NEW g \in s.members \cap Live, NEW h \in s.members \cap Live, g # h,
             table'[g] = table[g], tokens'[g] = tokens[g],
             table'[h] = table[h], tokens'[h] = tokens[h]
      PROVE  Alike(g, h, s.length)'
  <2>1. Alike(g, h, s.length)
    BY <1>2, <1>3
  <2> QED  BY <1>3, <2>1 DEF Alike
<1>4. ASSUME \A s \in spawns' : \A g, h \in s.members \cap Live' : g # h =>
               \A k \in DOMAIN table'[g] \cap DOMAIN table'[h] :
                 table'[g][k] = table'[h][k] <=>
                   \/ k * BlockSize <= s.length
                   \/ Len(tokens'[g]) = s.length /\ Len(tokens'[h]) = s.length
      PROVE  PromptShared'
  BY <1>4 DEF PromptShared
<1>5. ASSUME Unnoticed  PROVE PromptShared'
  <2>1. Live' = Live /\ UNCHANGED <<table, tokens, spawns>>
    BY <1>5 DEF Unnoticed, Live
  <2> QED  BY <1>2, <1>4, <2>1 DEF Alike
<1>6. ASSUME NEW x \in Handles, Dropped(x)  PROVE PromptShared'
  <2>1. /\ Live' = Live \ {x} /\ tokens' = tokens /\ spawns' = spawns
        /\ \A h \in Live \ {x} : table'[h] = table[h]
    BY <1>1, <1>6 DEF Dropped, Live
  <2> QED  BY <1>2, <1>4, <2>1 DEF Alike
<1>7. ASSUME NEW x \in Handles, NEW text \in Token, TokenWritten(x, text)
      PROVE  PromptShared'
  <2>1. /\ Live' = Live /\ x \in Live /\ spawns' = spawns
        /\ \A h \in Live \ {x} : table'[h] = table[h] /\ tokens'[h] = tokens[h]
    BY <1>1, <1>7 DEF TokenWritten, Live
  <2>2. ASSUME NEW s \in spawns, x \in s.members, NEW h \in s.members \cap Live,
               h # x
        PROVE  /\ \A k \in DOMAIN table'[x] \cap DOMAIN table'[h] :
                    table'[x][k] = table'[h][k] <=>
                      \/ k * BlockSize <= s.length
                      \/ Len(tokens'[x]) = s.length /\ Len(tokens'[h]) = s.length
    <3>1. s.length \in Nat /\ s.length <= Len(tokens[x])
      BY <1>1, <2>1, <2>2 DEF IInv, Members
    <3>2. Alike(x, h, s.length)
      BY <1>2, <2>1, <2>2
    <3>3. PICK n \in Nat : n = s.length
      BY <3>1
    <3>4. Alike(x, h, n)'
      BY <1>7, <2>2, <3>1, <3>2, <3>3, WriterAlike
    <3> QED  BY <3>3, <3>4 DEF Alike
  <2>3. ASSUME NEW s \in spawns, NEW g \in s.members \cap Live,
               NEW h \in s.members \cap Live, g # h
        PROVE  \A k \in DOMAIN table'[g] \cap DOMAIN table'[h] :
                 table'[g][k] = table'[h][k] <=>
                   \/ k * BlockSize <= s.length
                   \/ Len(tokens'[g]) = s.length /\ Len(tokens'[h]) = s.length
    <3>1. CASE g = x
      BY <2>2, <2>3, <3>1
    <3>2. CASE h = x
      BY <2>2, <2>3, <3>2
    <3>3. CASE g # x /\ h # x
      BY <1>2, <2>1, <2>3, <3>3 DEF Alike
    <3> QED  BY <3>1, <3>2, <3>3
  <2> QED  BY <1>4, <2>1, <2>3
<1>8. ASSUME NEW count, NEW prompt, NEW shared, Joined(count, prompt, shared),
             count \in Handles
      PROVE  PromptShared'
  <2> DEFINE new == created + 1 .. created + count
  <2>1. /\ \A h \in Handles \ new : table'[h] = table[h] /\ tokens'[h] = tokens[h]
        /\ \A h \in Handles \cap new : table'[h] = shared /\ tokens'[h] = prompt
        /\ spawns' = spawns \cup {[members |-> new, length |-> Len(prompt)]}
    BY <1>8 DEF Joined
  <2>2. /\ new \subseteq Handles /\ (1 .. created) \cap new = {}
        /\ (1 .. created) \cap Live' \subseteq Live
    BY <1>1, <1>8, COWAssumption DEF Joined, Handles, Live
  <2> HIDE DEF new
  <2>3. ASSUME NEW s \in spawns, NEW g \in s.members \cap Live',
               NEW h \in s.members \cap Live', g # h
        PROVE  \A k \in DOMAIN table'[g] \cap DOMAIN table'[h] :
                 table'[g][k] = table'[h][k] <=>
                   \/ k * BlockSize <= s.length
                   \/ Len(tokens'[g]) = s.length /\ Len(tokens'[h]) = s.length
    <3>1. s.members \subseteq 1 .. created
      BY DEF IInv, Members
    <3>2. /\ g \in Live /\ h \in Live
          /\ table'[g] = table[g] /\ tokens'[g] = tokens[g]
          /\ table'[h] = table[h] /\ tokens'[h] = tokens[h]
      BY <1>1, <2>1, <2>2, <3>1
    <3>3. Alike(g, h, s.length)
      BY <1>2, <2>3, <3>2
    <3> QED  BY <3>2, <3>3 DEF Alike
  <2>4. ASSUME NEW g \in new, NEW h \in new
        PROVE  /\ table'[g] = table'[h]
               /\ Len(tokens'[g]) = Len(prompt) /\ Len(tokens'[h]) = Len(prompt)
    BY <2>1, <2>2
  <2> QED  BY <1>4, <2>1, <2>3, <2>4
<1>9. ~Idle => spawning.count \in Handles
  BY DEF IInv, TypeOK, Idle
<1> QED  BY <1>5, <1>6, <1>7, <1>8, <1>9, StepCases

(* No step brings a block into the tables of two spawns: one that is new in *)
(* a table was free before, or held by no table.                            *)
Strangers(g, h) == g # h /\ \A s \in spawns : ~({g, h} \subseteq s.members)

LEMMA ApartStep ==
  ASSUME IInv, [Next]_vars
  PROVE  StrangersApart'
<1>1. /\ table \in [Handles -> Seq(Blocks)]
      /\ created \in Nat /\ Live \subseteq Handles
  BY COWAssumption DEF IInv, TypeOK, Live, Handles
<1>2. \A g, h \in Live :
        Strangers(g, h) => Range(table[g]) \cap Range(table[h]) = {}
  BY DEF IInv, SharedUntilWritten, StrangersApart, Strangers
<1>3. ASSUME \A g, h \in Live' :
               Strangers(g, h)' => Range(table'[g]) \cap Range(table'[h]) = {}
      PROVE  StrangersApart'
  BY <1>3 DEF StrangersApart, Strangers
<1>4. spawns' = spawns => \A g, h : Strangers(g, h)' <=> Strangers(g, h)
  BY DEF Strangers
<1>5. ASSUME Unnoticed  PROVE StrangersApart'
  <2>1. Live' = Live /\ UNCHANGED <<table, spawns>>
    BY <1>5 DEF Unnoticed, Live
  <2> QED  BY <1>2, <1>3, <1>4, <2>1
<1>6. ASSUME NEW x \in Handles, Dropped(x)  PROVE StrangersApart'
  <2>1. /\ Live' = Live \ {x} /\ spawns' = spawns
        /\ \A h \in Live \ {x} : table'[h] = table[h]
    BY <1>1, <1>6 DEF Dropped, Live
  <2> QED  BY <1>2, <1>3, <1>4, <2>1
<1>7. ASSUME NEW x \in Handles, NEW text \in Token, TokenWritten(x, text)
      PROVE  StrangersApart'
  <2>1. /\ Live' = Live /\ x \in Live /\ spawns' = spawns
        /\ \A h \in Live \ {x} : table'[h] = table[h]
    BY <1>1, <1>7 DEF TokenWritten, Live
  <2>2. ASSUME NEW h \in Live \ {x}
        PROVE  Range(table'[x]) \cap Range(table[h])
                 \subseteq Range(table[x]) \cap Range(table[h])
    <3>1. table'[x] \in Seq(Blocks) /\ table[x] \in Seq(Blocks)
      BY <1>1, <1>7 DEF TokenWritten
    <3>2. /\ DOMAIN table'[x] = 1 .. Len(table'[x])
          /\ DOMAIN table[x] = 1 .. Len(table[x])
      BY <3>1
    <3>3. /\ \A k \in 1 .. Len(table'[x]) :
               k # LogicalBlock(x) + 1 => k \in 1 .. Len(table[x])
                                            /\ table'[x][k] = table[x][k]
          /\ table'[x][LogicalBlock(x) + 1] \notin Range(table[h])
      BY <1>1, <1>7, <2>2 DEF TokenWritten
    <3> QED  BY <3>2, <3>3 DEF Range
  <2>3. ASSUME NEW g \in Live, NEW h \in Live, Strangers(g, h)
        PROVE  Range(table'[g]) \cap Range(table'[h]) = {}
    <3>1. Range(table[g]) \cap Range(table[h]) = {} /\ g # h
      BY <1>2, <2>3 DEF Strangers
    <3> QED  BY <2>1, <2>2, <2>3, <3>1
  <2> QED  BY <1>3, <1>4, <2>1, <2>3
<1>8. ASSUME NEW count, NEW prompt, NEW shared, Joined(count, prompt, shared),
             count \in Handles
      PROVE  StrangersApart'
  <2> DEFINE new == created + 1 .. created + count
  <2>1. /\ \A h \in Handles \ new : table'[h] = table[h]
        /\ \A h \in Handles \cap new : table'[h] = shared
        /\ \A h \in Handles : Range(shared) \cap Range(table[h]) = {}
        /\ [members |-> new, length |-> Len(prompt)] \in spawns'
        /\ spawns \subseteq spawns'
    BY <1>8 DEF Joined
  <2>2. new \subseteq Handles /\ Live' \subseteq Live \cup new
    BY <1>1, <1>8, COWAssumption DEF Joined, Handles, Live
  <2> HIDE DEF new
  <2>3. ASSUME NEW g \in Live', NEW h \in Live', Strangers(g, h)'
        PROVE  Range(table'[g]) \cap Range(table'[h]) = {}
    <3>1. g # h /\ \A s \in spawns' : ~({g, h} \subseteq s.members)
      BY <2>3 DEF Strangers
    <3>2. ~({g, h} \subseteq new)
      <4> DEFINE s == [members |-> new, length |-> Len(prompt)]
      <4>1. s \in spawns' /\ s.members = new
        BY <2>1
      <4> HIDE DEF s
      <4> QED  BY <3>1, <4>1
    <3>3. CASE g \notin new /\ h \notin new
      <4>1. Strangers(g, h)
        BY <2>1, <3>1 DEF Strangers
      <4> QED  BY <1>1, <1>2, <2>1, <2>2, <3>3, <4>1
    <3>4. CASE g \in new /\ h \notin new
      BY <1>1, <2>1, <2>2, <3>4
    <3>5. CASE g \notin new /\ h \in new
      BY <1>1, <2>1, <2>2, <3>5
    <3> QED  BY <3>2, <3>3, <3>4, <3>5
  <2> QED  BY <1>3, <2>3
<1>9. ~Idle => spawning.count \in Handles
  BY DEF IInv, TypeOK, Idle
<1> QED  BY <1>5, <1>6, <1>7, <1>8, <1>9, StepCases

-----------------------------------------------------------------------------
(* The readers of a block after the table of h became u. *)
LEMMA HoldersUpdate ==
  ASSUME IInv, NEW h \in Handles, NEW u, table' = [table EXCEPT ![h] = u],
         NEW c \in Blocks
  PROVE  /\ c \in Range(u) => Holders(c)' = Holders(c) \cup {h}
         /\ c \notin Range(u) => Holders(c)' = Holders(c) \ {h}
         /\ (c \in Range(u) <=> c \in Range(table[h])) => Holders(c)' = Holders(c)
<1>1. table \in [Handles -> Seq(Blocks)]
  BY DEF IInv, TypeOK
<1>2. table'[h] = u /\ \A g \in Handles \ {h} : table'[g] = table[g]
  BY <1>1
<1> QED  BY <1>2 DEF Holders

LEMMA InjectiveUpdate ==
  ASSUME IInv, NEW h \in Handles, NEW u, table' = [table EXCEPT ![h] = u],
         IsInjective(u)
  PROVE  \A g \in Handles : IsInjective(table'[g])
<1>1. table \in [Handles -> Seq(Blocks)] /\ \A g \in Handles : IsInjective(table[g])
  BY DEF IInv, TypeOK, Refs
<1>2. table'[h] = u /\ \A g \in Handles \ {h} : table'[g] = table[g]
  BY <1>1
<1> QED  BY <1>1, <1>2

LEMMA CountedKept ==
  ASSUME IInv, NEW c \in Blocks, Holders(c)' = Holders(c),
         ref_count'[c] = ref_count[c], c \in free' <=> c \in free
  PROVE  Counted(c)'
BY DEF IInv, Refs, Counted

LEMMA RefsUnmapped ==
  ASSUME IInv, \/ Begins
               \/ SpawnFails \/ UNCHANGED vars
               \/ \E h \in Handles, text \in Token : WriteInPlace(h, text)
               \/ \E h \in Handles : WriteFails(h)
  PROVE  Refs'
<1>1. UNCHANGED <<free, ref_count, table>>
  BY DEF Begins, BeginSpawn, SpawnFails, WriteInPlace, WriteFails, vars, allocator
<1>2. \A c \in Blocks : Holders(c)' = Holders(c)
  BY <1>1 DEF Holders
<1>3. \A c \in Blocks : Counted(c)'
  BY <1>1, <1>2, CountedKept
<1> QED  BY <1>1, <1>3 DEF Refs, IInv

LEMMA RefsSpawnBlock ==
  ASSUME IInv, NEW b \in Blocks, SpawnBlock(b)
  PROVE  Refs'
<1>1. /\ b \in free /\ ~Idle /\ free' = free \ {b} /\ table' = table
      /\ ref_count' = [ref_count EXCEPT ![b] = spawning.count]
  BY DEF SpawnBlock, MoreChunks
<1>2. /\ ref_count \in [Blocks -> 0 .. MaxHandles]
      /\ spawning.count \in Nat \ {0}
  BY <1>1 DEF IInv, TypeOK, Idle, Handles
<1>3. \A c \in Blocks : Holders(c)' = Holders(c)
  BY <1>1 DEF Holders
<1>4. Counted(b)'
  <2>1. Holders(b) = {}
    BY <1>1, FreeUnheld
  <2>2. ref_count'[b] # 0 /\ b \notin free'
    BY <1>1, <1>2
  <2>3. Holders(b)' = {}
    BY <1>3, <2>1
  <2> QED  BY <2>2, <2>3 DEF Counted
<1>5. \A c \in Blocks \ {b} : Counted(c)'
  <2>1. \A c \in Blocks \ {b} :
          ref_count'[c] = ref_count[c] /\ (c \in free' <=> c \in free)
    BY <1>1, <1>2
  <2> QED  BY <1>3, <2>1, CountedKept
<1> QED  BY <1>1, <1>4, <1>5 DEF Refs, IInv

LEMMA RefsEndSpawn ==
  ASSUME IInv, EndSpawn
  PROVE  Refs'
<1> DEFINE new == created + 1 .. created + spawning.count
           shared == spawning.shared
<1>1. /\ ~Idle /\ free' = free /\ ref_count' = ref_count
      /\ table' = [h \in Handles |-> IF h \in new THEN shared ELSE table[h]]
  BY DEF EndSpawn, allocator
<1>2. /\ spawning.count \in Nat \ {0} /\ created \in Nat
      /\ created + spawning.count <= MaxHandles
      /\ IsInjective(shared)
      /\ \A b \in Range(shared) :
           ref_count[b] = spawning.count /\ Holders(b) = {}
  BY <1>1, COWAssumption DEF IInv, TypeOK, Idle, Handles, Spawning
<1>3. new \subseteq Handles /\ \A h \in new : h \notin Live
  BY <1>2, COWAssumption DEF Handles, Live
<1>4. \A h \in new : Range(table[h]) = {}
  <2>1. \A h \in new : table[h] = <<>>
    BY <1>3 DEF IInv, Tables
  <2> QED  BY <2>1 DEF Range
<1>5. Cardinality(new) = spawning.count
  <2> DEFINE a == created + 1
             z == created + spawning.count
  <2>1. a \in Int /\ z \in Int /\ ~(a > z) /\ z - a + 1 = spawning.count
    BY <1>2
  <2> HIDE DEF a, z
  <2>2. Cardinality(a .. z) = IF a > z THEN 0 ELSE z - a + 1
    BY <2>1, FS_Interval
  <2>3. Cardinality(a .. z) = spawning.count
    BY <2>1, <2>2
  <2> QED  BY <2>3 DEF a, z
<1> HIDE DEF new, shared
<1>6. ASSUME NEW c \in Range(shared)  PROVE Counted(c)'
  <2>1. Holders(c)' = Holders(c) \cup new
    BY <1>1, <1>3, <1>6 DEF Holders
  <2>2. Holders(c)' = new /\ ref_count'[c] = spawning.count
    BY <1>1, <1>2, <1>6, <2>1
  <2>3. c \in Blocks
    BY <1>1, <1>6 DEF IInv, TypeOK, Idle, Range, shared
  <2>4. c \in free <=> ref_count[c] = 0
    BY <2>3 DEF IInv, Refs, Counted
  <2> QED  BY <1>1, <1>2, <1>5, <2>2, <2>4 DEF Counted
<1>7. ASSUME NEW c \in Blocks \ Range(shared)  PROVE Counted(c)'
  <2>1. Holders(c)' = Holders(c)
    BY <1>1, <1>3, <1>4 DEF Holders
  <2> QED  BY <1>1, <2>1, CountedKept
<1>8. \A h \in Handles : IsInjective(table'[h])
  BY <1>1, <1>2 DEF IInv, Refs
<1> QED  BY <1>6, <1>7, <1>8 DEF Refs

LEMMA RefsNewBlock ==
  ASSUME IInv, NEW h \in Handles, NEW b \in Blocks, NEW text \in Token,
         WriteInNewBlock(h, b, text)
  PROVE  Refs'
<1> DEFINE u == Append(table[h], b)
<1>1. /\ b \in free /\ free' = free \ {b} /\ table' = [table EXCEPT ![h] = u]
      /\ ref_count' = [ref_count EXCEPT ![b] = 1]
  BY DEF WriteInNewBlock
<1>2. /\ ref_count \in [Blocks -> 0 .. MaxHandles]
      /\ table[h] \in Seq(Blocks) /\ IsInjective(table[h])
  BY DEF IInv, TypeOK, Refs
<1>3. Holders(b) = {} /\ b \notin Range(table[h])
  BY <1>1, FreeUnheld
<1>4. Range(u) = Range(table[h]) \cup {b} /\ IsInjective(u)
  BY <1>2, <1>3, AppendRange
<1> HIDE DEF u
<1>5. Counted(b)'
  <2>1. Holders(b)' = {h}
    BY <1>1, <1>3, <1>4, HoldersUpdate
  <2>2. ref_count'[b] = 1 /\ b \notin free'
    BY <1>1, <1>2
  <2>3. Cardinality({h}) = 1
    BY FS_Singleton
  <2> QED  BY <2>1, <2>2, <2>3 DEF Counted
<1>6. ASSUME NEW c \in Blocks \ {b}  PROVE Counted(c)'
  <2>1. Holders(c)' = Holders(c)
    BY <1>1, <1>4, HoldersUpdate
  <2>2. ref_count'[c] = ref_count[c] /\ (c \in free' <=> c \in free)
    BY <1>1, <1>2
  <2> QED  BY <2>1, <2>2, CountedKept
<1>7. \A g \in Handles : IsInjective(table'[g])
  BY <1>1, <1>4, InjectiveUpdate
<1> QED  BY <1>5, <1>6, <1>7 DEF Refs

LEMMA RefsCopy ==
  ASSUME IInv, NEW h \in Handles, NEW b \in Blocks, NEW text \in Token,
         WriteInCopy(h, b, text)
  PROVE  /\ Refs'
         /\ \A c \in Blocks : Holders(c) # {} => Holders(c)' # {}
         /\ Holders(b)' # {}
<1> DEFINE q == LogicalBlock(h) + 1
           u == [table[h] EXCEPT ![q] = b]
<1>1. /\ b \in free /\ free' = free \ {b} /\ q \in DOMAIN table[h]
      /\ table' = [table EXCEPT ![h][q] = b]
      /\ ref_count' = [ref_count EXCEPT ![b] = 1, ![table[h][q]] = @ - 1]
      /\ ref_count[table[h][q]] > 1
  BY DEF WriteInCopy, Shared
<1>2. /\ ref_count \in [Blocks -> 0 .. MaxHandles]
      /\ table[h] \in Seq(Blocks) /\ IsInjective(table[h])
      /\ table \in [Handles -> Seq(Blocks)]
  BY DEF IInv, TypeOK, Refs
<1>3. Holders(b) = {} /\ b \notin Range(table[h])
  BY <1>1, FreeUnheld
<1>4. PICK left \in Blocks : left = table[h][q]
  BY <1>1, <1>2
<1>5. q \in 1 .. Len(table[h]) /\ left \in Range(table[h])
  BY <1>1, <1>2, <1>4 DEF Range
<1>6. /\ left \notin free
      /\ Cardinality(Holders(left) \ {h}) = ref_count[left] - 1
      /\ Holders(left) \ {h} # {} /\ ref_count[left] \in 2 .. MaxHandles
  <2>1. /\ left \notin free
        /\ Cardinality(Holders(left) \ {h}) = ref_count[left] - 1
        /\ ref_count[left] > 1 => Holders(left) \ {h} # {}
        /\ ref_count[left] \in 1 .. MaxHandles
    BY <1>5, HeldCounted
  <2>2. ref_count[left] > 1
    BY <1>1, <1>4
  <2> QED  BY <2>1, <2>2, COWAssumption
<1>7. table' = [table EXCEPT ![h] = u]
  BY <1>1
<1>8. Range(u) = (Range(table[h]) \ {left}) \cup {b} /\ IsInjective(u)
  <2> HIDE DEF q
  <2> QED  BY <1>2, <1>3, <1>4, <1>5, ReplaceRange
<1>9. /\ ref_count'[b] = 1 /\ ref_count'[left] = ref_count[left] - 1
      /\ \A c \in Blocks \ {b, left} : ref_count'[c] = ref_count[c]
      /\ b \notin free' /\ left \notin free' /\ left # b
      /\ \A c \in Blocks \ {b} : c \in free' <=> c \in free
  <2>1. left # b
    BY <1>1, <1>6
  <2>2. ref_count' = [ref_count EXCEPT ![b] = 1, ![left] = @ - 1]
    BY <1>1, <1>4
  <2>3. /\ b \notin free' /\ left \notin free'
        /\ \A c \in Blocks \ {b} : c \in free' <=> c \in free
    BY <1>1, <1>6
  <2> HIDE DEF q, u
  <2> QED  BY <1>2, <2>1, <2>2, <2>3
<1>10. /\ b \in Range(u) /\ left \notin Range(u)
       /\ \A c \in Blocks \ {b, left} : c \in Range(u) <=> c \in Range(table[h])
  <2> HIDE DEF u
  <2> QED  BY <1>8, <1>9
<1>11. \A g \in Handles : IsInjective(table'[g])
  <2> HIDE DEF u
  <2> QED  BY <1>7, <1>8, InjectiveUpdate
<1> HIDE DEF u, q
<1>12. Counted(b)' /\ Holders(b)' # {}
  <2>1. Holders(b)' = {h}
    BY <1>3, <1>7, <1>10, HoldersUpdate
  <2>2. Cardinality({h}) = 1
    BY FS_Singleton
  <2> QED  BY <1>9, <2>1, <2>2 DEF Counted
<1>13. Counted(left)' /\ Holders(left)' # {}
  <2>1. Holders(left)' = Holders(left) \ {h}
    BY <1>7, <1>10, HoldersUpdate
  <2>2. ref_count'[left] # 0
    BY <1>6, <1>9
  <2> QED  BY <1>6, <1>9, <2>1, <2>2 DEF Counted
<1>14. ASSUME NEW c \in Blocks \ {b, left}
       PROVE  Counted(c)' /\ Holders(c)' = Holders(c)
  <2>1. Holders(c)' = Holders(c)
    BY <1>7, <1>10, HoldersUpdate
  <2>2. ref_count'[c] = ref_count[c] /\ (c \in free' <=> c \in free)
    BY <1>9
  <2> QED  BY <2>1, <2>2, CountedKept
<1>15. Refs'
  <2>1. ASSUME NEW c \in Blocks  PROVE Counted(c)'
    BY <1>12, <1>13, <1>14
  <2> QED  BY <1>11, <2>1 DEF Refs
<1>16. ASSUME NEW c \in Blocks, Holders(c) # {}  PROVE Holders(c)' # {}
  <2>1. CASE c = b
    BY <1>12, <2>1
  <2>2. CASE c = left
    BY <1>13, <2>2
  <2>3. CASE c # b /\ c # left
    BY <1>14, <1>16, <2>3
  <2> QED  BY <2>1, <2>2, <2>3
<1> QED  BY <1>12, <1>15, <1>16

LEMMA RefsCancel ==
  ASSUME IInv, NEW h \in Handles, Cancel(h)
  PROVE  /\ Refs'
         /\ \A c \in Blocks \ free : Holders(c) # {} =>
              c \in free' \/ Holders(c)' # {}
<1> DEFINE held == Range(table[h])
           freed == {b \in held : ref_count[b] = 1}
<1>1. /\ ref_count' = [b \in Blocks |->
                         IF b \in held THEN ref_count[b] - 1 ELSE ref_count[b]]
      /\ free' = free \cup freed
      /\ table' = [table EXCEPT ![h] = <<>>]
  BY DEF Cancel
<1>2. Range(<<>>) = {} /\ IsInjective(<<>>)
  BY DEF Range, IsInjective
<1> HIDE DEF held
<1>3. ASSUME NEW c \in held
      PROVE  Counted(c)' /\ (c \in free' \/ Holders(c)' # {})
  <2>1. /\ c \in Blocks /\ c \notin free /\ ref_count[c] \in 1 .. MaxHandles
        /\ Cardinality(Holders(c) \ {h}) = ref_count[c] - 1
        /\ ref_count[c] > 1 => Holders(c) \ {h} # {}
    BY <1>3, HeldCounted DEF held
  <2>2. Holders(c)' = Holders(c) \ {h}
    BY <1>1, <1>2, <2>1, HoldersUpdate
  <2>3. ref_count'[c] = ref_count[c] - 1
    BY <1>1, <1>3, <2>1
  <2>4. c \in free' <=> ref_count[c] = 1
    BY <1>1, <1>3, <2>1
  <2>5. ref_count[c] = 1 \/ ref_count[c] > 1
    BY <2>1, COWAssumption
  <2> QED  BY <2>1, <2>2, <2>3, <2>4, <2>5 DEF Counted
<1>4. ASSUME NEW c \in Blocks \ held
      PROVE  Counted(c)' /\ Holders(c)' = Holders(c)
  <2>1. Holders(c)' = Holders(c)
    BY <1>1, <1>2, HoldersUpdate DEF held
  <2>2. ref_count'[c] = ref_count[c] /\ (c \in free' <=> c \in free)
    BY <1>1
  <2> QED  BY <2>1, <2>2, CountedKept
<1>5. \A g \in Handles : IsInjective(table'[g])
  BY <1>1, <1>2, InjectiveUpdate
<1>6. Refs'
  BY <1>3, <1>4, <1>5 DEF Refs
<1> QED  BY <1>3, <1>4, <1>6

(* Every action keeps the reference counts exact. *)
LEMMA RefsStep ==
  ASSUME IInv, [Next]_vars
  PROVE  Refs'
BY RefsUnmapped, RefsSpawnBlock, RefsEndSpawn, RefsNewBlock, RefsCopy, RefsCancel
DEF Next, Begins

-----------------------------------------------------------------------------
(* A chunk of a prompt is the content of a block. *)
LEMMA ChunkType ==
  ASSUME IInv, ~Idle
  PROVE  Chunk \in [Offsets -> Token \cup {None}]
<1>1. /\ spawning.prompt \in Seq(Token)
      /\ \A i \in DOMAIN spawning.prompt : spawning.prompt[i] \in Token
  BY DEF IInv, TypeOK, Idle
<1> QED  BY <1>1 DEF Chunk

LEMMA TypeSpawn ==
  ASSUME IInv, \/ Begins
               \/ \E b \in Blocks : SpawnBlock(b)
               \/ SpawnFails \/ EndSpawn \/ UNCHANGED vars
  PROVE  TypeOK'
<1>1. TypeOK /\ MaxHandles \in Nat /\ created \in Nat
  BY COWAssumption DEF IInv, TypeOK
<1>2. ASSUME NEW n \in 0 .. MaxPrompt, NEW count \in 1 .. MaxHandles,
             NEW prompt \in [1 .. n -> Token], BeginSpawn(prompt, count)
      PROVE  TypeOK'
  <2> DEFINE none == <<>>
  <2>1. /\ created + count <= MaxHandles
        /\ spawning' = [prompt |-> prompt, count |-> count, shared |-> none]
        /\ UNCHANGED <<allocator, created, table, tokens, cancelled, spawns>>
    BY <1>2 DEF BeginSpawn
  <2>2. n \in Nat /\ count \in Handles
    BY COWAssumption DEF Handles
  <2>4. prompt \in Seq(Token)
    BY <2>2
  <2>5. none \in Seq(Blocks)
    OBVIOUS
  <2> HIDE DEF none
  <2>6. spawning' \in [prompt : Seq(Token), count : Handles, shared : Seq(Blocks)]
    BY <2>1, <2>2, <2>4, <2>5
  <2> QED  BY <1>1, <2>1, <2>6 DEF TypeOK, allocator
<1>3. ASSUME NEW b \in Blocks, SpawnBlock(b)
      PROVE  TypeOK'
  <2>1. /\ ~Idle /\ free' = free \ {b}
        /\ ref_count' = [ref_count EXCEPT ![b] = spawning.count]
        /\ data' = [data EXCEPT ![b] = Chunk]
        /\ spawning' = [spawning EXCEPT !.shared = Append(@, b)]
        /\ UNCHANGED <<created, table, tokens, cancelled, spawns>>
    BY <1>3 DEF SpawnBlock, MoreChunks
  <2>2. spawning \in [prompt : Seq(Token), count : Handles, shared : Seq(Blocks)]
    BY <1>1, <2>1 DEF TypeOK, Idle
  <2>3. spawning' \in [prompt : Seq(Token), count : Handles, shared : Seq(Blocks)]
    <3>1. Append(spawning.shared, b) \in Seq(Blocks)
      BY <2>2
    <3> QED  BY <2>1, <2>2, <3>1
  <2>4. ref_count' \in [Blocks -> 0 .. MaxHandles]
    <3>1. spawning.count \in 0 .. MaxHandles
      BY <1>1, <2>2 DEF Handles
    <3> QED  BY <1>1, <2>1, <3>1 DEF TypeOK
  <2>5. data' \in [Blocks -> [Offsets -> Token \cup {None}]]
    <3>1. Chunk \in [Offsets -> Token \cup {None}]
      BY <2>1, ChunkType
    <3> QED  BY <1>1, <2>1, <3>1 DEF TypeOK
  <2> QED  BY <1>1, <2>1, <2>3, <2>4, <2>5 DEF TypeOK
<1>4. ASSUME SpawnFails \/ UNCHANGED vars  PROVE TypeOK'
  BY <1>1, <1>4 DEF SpawnFails, TypeOK, allocator, vars
<1>5. ASSUME EndSpawn  PROVE TypeOK'
  <2> DEFINE new == created + 1 .. created + spawning.count
  <2>1. /\ ~Idle /\ spawning' = None /\ created' = created + spawning.count
        /\ table' = [h \in Handles |->
                       IF h \in new THEN spawning.shared ELSE table[h]]
        /\ tokens' = [h \in Handles |->
                        IF h \in new THEN spawning.prompt ELSE tokens[h]]
        /\ spawns' = spawns \cup {[members |-> new, length |-> Len(spawning.prompt)]}
        /\ UNCHANGED <<allocator, cancelled>>
    BY <1>5 DEF EndSpawn
  <2>2. spawning \in [prompt : Seq(Token), count : Handles, shared : Seq(Blocks)]
    BY <1>1, <2>1 DEF TypeOK, Idle
  <2>3. created + spawning.count <= MaxHandles
        /\ Len(spawning.prompt) \in 0 .. MaxPrompt
    BY <2>1 DEF IInv, Spawning
  <2>6. new \subseteq Handles
    BY <1>1, <2>2, <2>3 DEF Handles
  <2> HIDE DEF new
  <2>7. spawns' \subseteq [members : SUBSET Handles, length : 0 .. MaxPrompt]
    BY <1>1, <2>1, <2>3, <2>6 DEF TypeOK
  <2>4. table' \in [Handles -> Seq(Blocks)] /\ tokens' \in [Handles -> Seq(Token)]
    BY <1>1, <2>1, <2>2 DEF TypeOK
  <2>5. created' \in 0 .. MaxHandles /\ cancelled' \subseteq 1 .. created'
    BY <1>1, <2>1, <2>2, <2>3 DEF TypeOK, Handles
  <2> QED  BY <1>1, <2>1, <2>4, <2>5, <2>7 DEF TypeOK, allocator
<1> QED  BY <1>2, <1>3, <1>4, <1>5 DEF Begins

LEMMA TypeWrite ==
  ASSUME IInv, NEW h \in Handles,
         \/ Cancel(h)
         \/ \E text \in Token :
              \/ WriteInPlace(h, text)
              \/ \E b \in Blocks : \/ WriteInNewBlock(h, b, text)
                                  \/ WriteInCopy(h, b, text)
  PROVE  TypeOK'
<1> DEFINE n == Len(tokens[h])
           o == Offset(h)
           q == LogicalBlock(h) + 1
           Cell == Token \cup {None}
<1>1. /\ free \subseteq Blocks /\ data \in [Blocks -> [Offsets -> Cell]]
      /\ ref_count \in [Blocks -> 0 .. MaxHandles] /\ MaxHandles \in Nat \ {0}
      /\ table \in [Handles -> Seq(Blocks)]
      /\ tokens \in [Handles -> Seq(Token)]
      /\ cancelled \subseteq 1 .. created
      /\ spawning \in {None} \cup
           [prompt : Seq(Token), count : Handles, shared : Seq(Blocks)]
      /\ created \in 0 .. MaxHandles
      /\ spawns \subseteq [members : SUBSET Handles, length : 0 .. MaxPrompt]
  BY COWAssumption DEF IInv, TypeOK
<1>2. ASSUME NEW text \in Token, AppendToken(h, text), h \in Live
      PROVE  /\ tokens' \in [Handles -> Seq(Token)] /\ text \in Cell
             /\ o \in Offsets
  <2>1. tokens' = [tokens EXCEPT ![h] = Append(tokens[h], text)]
    BY <1>2 DEF AppendToken
  <2>2. n \in Nat /\ o \in Offsets
    BY <1>2, PlaceInTable
  <2>4. Append(tokens[h], text) \in Seq(Token)
    BY <1>1
  <2> QED  BY <1>1, <2>1, <2>2, <2>4
<1>3. ASSUME NEW text \in Token, WriteInPlace(h, text)  PROVE TypeOK'
  <2>1. /\ h \in Live /\ AppendToken(h, text) /\ q \in DOMAIN table[h]
        /\ data' = [data EXCEPT ![table[h][q]][o] = text]
        /\ UNCHANGED <<free, ref_count, spawning, created, table, cancelled, spawns>>
    BY <1>3 DEF WriteInPlace, MayWrite
  <2>2. data' \in [Blocks -> [Offsets -> Cell]]
    <3>1. table[h][q] \in Blocks
      BY <1>1, <2>1
    <3>2. text \in Cell /\ o \in Offsets
      BY <1>2, <2>1
    <3> HIDE DEF o, q, n, Cell
    <3>3. [data[table[h][q]] EXCEPT ![o] = text] \in [Offsets -> Cell]
      BY <1>1, <3>1, <3>2
    <3>4. data' = [data EXCEPT ![table[h][q]] =
                     [data[table[h][q]] EXCEPT ![o] = text]]
      BY <2>1
    <3> QED  BY <1>1, <3>1, <3>3, <3>4
  <2> QED  BY <1>1, <1>2, <2>1, <2>2 DEF TypeOK
<1>4. ASSUME NEW text \in Token, NEW b \in Blocks, WriteInNewBlock(h, b, text)
       PROVE TypeOK'
  <2>1. /\ h \in Live /\ AppendToken(h, text) /\ free' = free \ {b}
        /\ ref_count' = [ref_count EXCEPT ![b] = 1]
        /\ data' = [data EXCEPT ![b] = [Blank EXCEPT ![o] = text]]
        /\ table' = [table EXCEPT ![h] = Append(table[h], b)]
        /\ UNCHANGED <<spawning, created, cancelled, spawns>>
    BY <1>4 DEF WriteInNewBlock, MayWrite
  <2>2. data' \in [Blocks -> [Offsets -> Cell]]
    <3>1. text \in Cell /\ o \in Offsets
      BY <1>2, <2>1
    <3>2. Blank \in [Offsets -> Cell]
      BY DEF Blank
    <3> HIDE DEF o, n, Cell
    <3>3. [Blank EXCEPT ![o] = text] \in [Offsets -> Cell]
      BY <3>1, <3>2
    <3> QED  BY <1>1, <2>1, <3>3
  <2>3. ref_count' \in [Blocks -> 0 .. MaxHandles]
    BY <1>1, <2>1
  <2>4. table' \in [Handles -> Seq(Blocks)]
    <3>1. Append(table[h], b) \in Seq(Blocks)
      BY <1>1
    <3> QED  BY <1>1, <2>1, <3>1
  <2> QED  BY <1>1, <1>2, <2>1, <2>2, <2>3, <2>4 DEF TypeOK
<1>5. ASSUME NEW text \in Token, NEW b \in Blocks, WriteInCopy(h, b, text)
       PROVE TypeOK'
  <2> DEFINE source == table[h][q]
  <2>1. /\ h \in Live /\ AppendToken(h, text) /\ b \in free /\ free' = free \ {b}
        /\ q \in DOMAIN table[h] /\ ref_count[source] > 1
        /\ ref_count' = [ref_count EXCEPT ![b] = 1, ![source] = @ - 1]
        /\ data' = [data EXCEPT ![b] = [data[source] EXCEPT ![o] = text]]
        /\ table' = [table EXCEPT ![h][q] = b]
        /\ UNCHANGED <<spawning, created, cancelled, spawns>>
    BY <1>5 DEF WriteInCopy, MayWrite, Shared
  <2>2. source \in Blocks
    BY <1>1, <2>1
  <2> HIDE DEF source
  <2>3. data' \in [Blocks -> [Offsets -> Cell]]
    <3>1. text \in Cell /\ o \in Offsets
      BY <1>2, <2>1
    <3> HIDE DEF o, n, Cell
    <3>2. [data[source] EXCEPT ![o] = text] \in [Offsets -> Cell]
      BY <1>1, <2>2, <3>1
    <3> QED  BY <1>1, <2>1, <3>2
  <2>4. ref_count' \in [Blocks -> 0 .. MaxHandles]
    <3>1. source # b
      <4>1. source \in Range(table[h])
        BY <1>1, <2>1 DEF source, Range
      <4> QED  BY <2>1, <4>1, FreeUnheld
    <3>2. /\ ref_count'[b] = 1 /\ ref_count'[source] = ref_count[source] - 1
          /\ \A c \in Blocks \ {b, source} : ref_count'[c] = ref_count[c]
      BY <1>1, <2>1, <2>2, <3>1
    <3>3. ref_count[source] - 1 \in 0 .. MaxHandles
      BY <1>1, <2>1, <2>2
    <3>4. ASSUME NEW c \in Blocks  PROVE ref_count'[c] \in 0 .. MaxHandles
      <4>1. ref_count[c] \in 0 .. MaxHandles /\ 1 \in 0 .. MaxHandles
        BY <1>1
      <4> QED  BY <3>2, <3>3, <4>1
    <3>5. ref_count' = [c \in Blocks |-> ref_count'[c]]
      BY <1>1, <2>1
    <3> QED  BY <3>4, <3>5
  <2>5. table' \in [Handles -> Seq(Blocks)]
    <3>1. q \in 1 .. Len(table[h]) /\ table[h] \in Seq(Blocks)
      BY <1>1, <2>1
    <3>2. table' = [table EXCEPT ![h] = [table[h] EXCEPT ![q] = b]]
      BY <2>1
    <3> HIDE DEF q
    <3>3. [table[h] EXCEPT ![q] = b] \in Seq(Blocks)
      BY <3>1
    <3> QED  BY <1>1, <3>2, <3>3
  <2> QED  BY <1>1, <1>2, <2>1, <2>3, <2>4, <2>5 DEF TypeOK
<1>6. ASSUME Cancel(h)  PROVE TypeOK'
  <2> DEFINE held == Range(table[h])
             freed == {b \in held : ref_count[b] = 1}
             none == <<>>
  <2>1. /\ h \in Live
        /\ ref_count' = [b \in Blocks |->
                           IF b \in held THEN ref_count[b] - 1 ELSE ref_count[b]]
        /\ data' = [b \in Blocks |-> IF b \in freed THEN Blank ELSE data[b]]
        /\ free' = free \cup freed
        /\ table' = [table EXCEPT ![h] = none]
        /\ cancelled' = cancelled \cup {h}
        /\ UNCHANGED <<spawning, created, tokens, spawns>>
    BY <1>6 DEF Cancel
  <2>2. \A b \in held : b \in Blocks /\ ref_count[b] \in 1 .. MaxHandles
    BY HeldCounted
  <2>3. none \in Seq(Blocks) /\ Blank \in [Offsets -> Cell] /\ freed \subseteq Blocks
    BY <2>2 DEF Blank
  <2> HIDE DEF held, freed, none, Cell
  <2>4. ref_count' \in [Blocks -> 0 .. MaxHandles]
    BY <1>1, <2>1, <2>2
  <2>5. data' \in [Blocks -> [Offsets -> Cell]]
    BY <1>1, <2>1, <2>3
  <2>6. table' \in [Handles -> Seq(Blocks)] /\ free' \subseteq Blocks
    BY <1>1, <2>1, <2>3
  <2>7. cancelled' \subseteq 1 .. created'
    BY <1>1, <2>1 DEF Live
  <2> QED  BY <1>1, <2>1, <2>4, <2>5, <2>6, <2>7 DEF TypeOK, Cell
<1> QED  BY <1>3, <1>4, <1>5, <1>6

LEMMA TypeStep ==
  ASSUME IInv, [Next]_vars
  PROVE  TypeOK'
<1>1. ASSUME NEW h \in Handles, WriteFails(h)  PROVE UNCHANGED vars
  BY <1>1 DEF WriteFails
<1> QED  BY <1>1, TypeSpawn, TypeWrite DEF Next, Begins

-----------------------------------------------------------------------------
(* The first loop of spawn stores the prompt chunk by chunk. *)
LEMMA SpawningBlock ==
  ASSUME IInv, NEW b \in Blocks, SpawnBlock(b)
  PROVE  Spawning'
<1> DEFINE t == spawning.shared
           prompt == spawning.prompt
           L == Len(t)
           n == Len(prompt)
           u == Append(t, b)
<1>1. /\ ~Idle /\ b \in free /\ L * BlockSize < n
      /\ ref_count' = [ref_count EXCEPT ![b] = spawning.count]
      /\ data' = [data EXCEPT ![b] = Chunk]
      /\ spawning' = [spawning EXCEPT !.shared = Append(@, b)]
      /\ UNCHANGED <<created, table>>
  BY DEF SpawnBlock, MoreChunks, ChunkStart
<1>2. /\ spawning \in [prompt : Seq(Token), count : Handles, shared : Seq(Blocks)]
      /\ ref_count \in [Blocks -> 0 .. MaxHandles]
      /\ data \in [Blocks -> [Offsets -> Token \cup {None}]]
      /\ BlockSize \in Nat \ {0}
  BY <1>1, COWAssumption DEF IInv, TypeOK, Idle
<1>3. /\ created + spawning.count <= MaxHandles
      /\ n \in 0 .. MaxPrompt
      /\ IsInjective(t)
      /\ \A c \in Range(t) : ref_count[c] = spawning.count /\ Holders(c) = {}
      /\ \A i \in 1 .. n : i <= BlockSize * L => Slot(data, t, i) = prompt[i]
  BY <1>1 DEF IInv, Spawning
<1>4. /\ spawning'.shared = u /\ spawning'.prompt = prompt
      /\ spawning'.count = spawning.count
  BY <1>1, <1>2
<1>5. /\ t \in Seq(Blocks) /\ L \in Nat /\ n \in Nat
      /\ prompt \in Seq(Token) /\ DOMAIN prompt = 1 .. n
      /\ Range(t) \subseteq Blocks /\ \A k \in 1 .. L : t[k] \in Range(t)
  BY <1>2 DEF Range
<1>6. b \notin Range(t) /\ Holders(b) = {}
  BY <1>1, FreeUnheld
<1>7. /\ Len(u) = L + 1 /\ u[L + 1] = b /\ \A k \in 1 .. L : u[k] = t[k]
      /\ Range(u) = Range(t) \cup {b} /\ IsInjective(u)
  BY <1>3, <1>5, <1>6, AppendRange
<1>8. /\ BlockSize * (L + 1) = BlockSize * L + BlockSize
      /\ BlockSize * L \in Int /\ BlockSize * L = L * BlockSize
  BY <1>2, <1>5, Multiples
<1>9. /\ data'[b] = Chunk /\ ref_count'[b] = spawning.count
      /\ \A c \in Blocks \ {b} : data'[c] = data[c] /\ ref_count'[c] = ref_count[c]
  BY <1>1, <1>2
<1>10. \A o \in Offsets : L * BlockSize + o + 1 \in 1 .. n =>
         Chunk[o] = prompt[L * BlockSize + o + 1]
  BY <1>5 DEF Chunk, ChunkStart
<1> HIDE DEF t, prompt, L, n, u
<1>11. ASSUME NEW c \in Range(u)
       PROVE  ref_count'[c] = spawning.count /\ Holders(c)' = {}
  <2>1. Holders(c)' = Holders(c)
    BY <1>1 DEF Holders
  <2> QED  BY <1>3, <1>5, <1>6, <1>7, <1>9, <1>11, <2>1
<1>12. ASSUME NEW i \in 1 .. n, i <= BlockSize * (L + 1)
       PROVE  Slot(data', u, i) = prompt[i]
  <2> DEFINE k == (i - 1) \div BlockSize
             p == (i - 1) % BlockSize
  <2>1. i - 1 \in Nat /\ i - 1 < BlockSize * (L + 1) /\ L + 1 \in Nat
    BY <1>2, <1>5, <1>8, <1>12
  <2>2. /\ k \in Nat /\ p \in Offsets /\ i - 1 = BlockSize * k + p
        /\ k < L + 1
    BY <2>1, BlockBelow
  <2>3. i - 1 < BlockSize * L <=> k < L
    BY <1>5, <2>1, BlockBelow
  <2> HIDE DEF k, p
  <2>4. CASE k < L
    <3>1. Slot(data, t, i) = prompt[i]
      BY <1>3, <1>5, <1>8, <2>3, <2>4
    <3>2. k + 1 \in 1 .. L
      BY <1>5, <2>2, <2>4
    <3>3. u[k + 1] = t[k + 1] /\ t[k + 1] \in Blocks \ {b}
      BY <1>5, <1>6, <1>7, <3>2
    <3>4. data'[u[k + 1]] = data[t[k + 1]]
      BY <1>9, <3>3
    <3> QED  BY <3>1, <3>4 DEF Slot, k, p
  <2>5. CASE k = L
    <3>1. data'[u[k + 1]] = Chunk
      BY <1>7, <1>9, <2>5
    <3>2. L * BlockSize + p + 1 = i
      <4>1. p \in Int
        BY <2>2, COWAssumption DEF Offsets
      <4> QED  BY <1>8, <2>2, <2>5, <4>1
    <3>3. Chunk[p] = prompt[i]
      BY <1>10, <2>2, <3>2
    <3> QED  BY <3>1, <3>3 DEF Slot, k, p
  <2> QED  BY <1>5, <2>2, <2>4, <2>5
<1>13. BlockSize * Len(u) < n + BlockSize
  BY <1>1, <1>2, <1>5, <1>7, <1>8 DEF L, n
<1>14. created' + spawning'.count <= MaxHandles /\ created' = created
  BY <1>1, <1>3, <1>4
<1> QED
  <2>2. \A i \in 1 .. n : i <= BlockSize * Len(u) => Slot(data', u, i) = prompt[i]
    BY <1>7, <1>12
  <2> QED
    BY <1>3, <1>4, <1>7, <1>11, <1>13, <1>14, <2>2 DEF Spawning, Slot, n

LEMMA SpawningStep ==
  ASSUME IInv, [Next]_vars
  PROVE  Spawning'
<1>1. ASSUME Idle'  PROVE Spawning'
  BY <1>1 DEF Spawning
<1>2. ASSUME NEW n \in 0 .. MaxPrompt, NEW count \in 1 .. MaxHandles,
             NEW prompt \in [1 .. n -> Token], BeginSpawn(prompt, count)
      PROVE  Spawning'
  <2> DEFINE none == <<>>
  <2>1. /\ created + count <= MaxHandles /\ created' = created
        /\ spawning' = [prompt |-> prompt, count |-> count, shared |-> none]
    BY <1>2 DEF BeginSpawn
  <2>2. /\ spawning'.prompt = prompt /\ spawning'.count = count
        /\ spawning'.shared = none
    BY <2>1
  <2>3. Len(prompt) = n /\ n \in Nat /\ Len(prompt) \in 0 .. MaxPrompt
    BY COWAssumption
  <2>4. Len(none) = 0 /\ Range(none) = {} /\ IsInjective(none)
    BY DEF Range, IsInjective
  <2>5. BlockSize * 0 = 0 /\ BlockSize \in Nat \ {0}
    BY COWAssumption
  <2> HIDE DEF none
  <2>6. BlockSize * Len(none) < Len(prompt) + BlockSize
    BY <2>3, <2>4, <2>5
  <2>7. \A i \in 1 .. Len(prompt) : ~(i <= BlockSize * Len(none))
    BY <2>3, <2>4, <2>5
  <2> QED  BY <2>1, <2>2, <2>3, <2>4, <2>6, <2>7 DEF Spawning
<1>3. ASSUME NEW b \in Blocks, SpawnBlock(b)  PROVE Spawning'
  BY <1>3, SpawningBlock
<1>4. ASSUME UNCHANGED vars \/ \E h \in Handles : WriteFails(h)
      PROVE  Spawning'
  BY <1>4 DEF WriteFails, IInv, Spawning, vars, allocator, Idle, Holders, Slot
<1> QED
  BY <1>1, <1>2, <1>3, <1>4
  DEF Next, Idle, SpawnFails, EndSpawn, WriteInPlace, Cancel, WriteInNewBlock,
      WriteInCopy, MayWrite

-----------------------------------------------------------------------------
LEMMA InitIInv == Init => IInv
<1> SUFFICES ASSUME Init  PROVE IInv
  OBVIOUS
<1> DEFINE none == <<>>
<1>1. /\ free = Blocks /\ data = [b \in Blocks |-> Blank]
      /\ ref_count = [b \in Blocks |-> 0] /\ spawning = None /\ created = 0
      /\ table = [h \in Handles |-> none] /\ tokens = [h \in Handles |-> none]
      /\ cancelled = {} /\ spawns = {}
  BY DEF Init
<1>2. /\ none \in Seq(Blocks) /\ none \in Seq(Token) /\ Len(none) = 0
      /\ Range(none) = {} /\ IsInjective(none)
  BY DEF Range, IsInjective
<1> HIDE DEF none
<1>3. TypeOK
  <2>1. data \in [Blocks -> [Offsets -> Token \cup {None}]]
    BY <1>1 DEF Blank
  <2>2. ref_count \in [Blocks -> 0 .. MaxHandles] /\ created \in 0 .. MaxHandles
    BY <1>1, COWAssumption
  <2> QED  BY <1>1, <1>2, <2>1, <2>2 DEF TypeOK
<1>4. Live = {}
  BY <1>1 DEF Live
<1>5. Refs
  <2>1. \A b \in Blocks : Holders(b) = {}
    BY <1>1, <1>2 DEF Holders
  <2> QED  BY <1>1, <1>2, <2>1 DEF Refs, Counted
<1>6. Tables
  <2>1. \A h \in Handles : table[h] = <<>>
    BY <1>1 DEF none
  <2> QED  BY <1>4, <2>1 DEF Tables
<1>7. Members /\ SharedUntilWritten /\ Spawning /\ \A h \in Live : Reads(h)
  BY <1>1, <1>4 DEF Members, SharedUntilWritten, PromptShared, StrangersApart,
                   Spawning, Idle
<1> QED  BY <1>3, <1>5, <1>6, <1>7 DEF IInv

LEMMA NextIInv == IInv /\ [Next]_vars => IInv'
<1> SUFFICES ASSUME IInv, [Next]_vars  PROVE IInv'
  OBVIOUS
<1>1. TypeOK' /\ Refs' /\ Tables' /\ Members'
  BY TypeStep, RefsStep, TablesStep, MembersStep
<1>2. (\A h \in Live : Reads(h))' /\ SharedUntilWritten' /\ Spawning'
  BY ReadsStep, SharedStep, ApartStep, SpawningStep DEF SharedUntilWritten
<1> QED  BY <1>1, <1>2 DEF IInv

LEMMA Invariance == Spec => []IInv
<1>1. Init => IInv
  BY InitIInv
<1>2. IInv /\ [Next]_vars => IInv'
  BY NextIInv
<1> QED  BY <1>1, <1>2, PTL DEF Spec

(* The count of every mapped block is the number of tables that map it, and *)
(* a block is free exactly when its count is zero: decref never frees a     *)
(* block that is read, and clone and incref never miss a reader.            *)
THEOREM ReferencesCounted == Spec => []RefCountExact
<1>1. IInv => RefCountExact
  BY DEF IInv, RefCountExact, Refs, Counted
<1> QED  BY <1>1, Invariance, PTL

(* assert_isolation never fails: whatever a completion writes, copies or    *)
(* cancels, every other one reads exactly its own tokens.                   *)
THEOREM CompletionsIsolated == Spec => []Isolation
<1>1. IInv => Isolation
  <2> SUFFICES ASSUME IInv, NEW h \in Live  PROVE VisibleTokens(h) = tokens[h]
    BY DEF Isolation
  <2>1. tokens[h] \in Seq(Token) /\ DOMAIN tokens[h] = 1 .. Len(tokens[h])
    BY PlaceInTable
  <2>2. tokens[h] = [i \in 1 .. Len(tokens[h]) |-> tokens[h][i]]
    BY <2>1
  <2>3. \A i \in 1 .. Len(tokens[h]) : Slot(data, table[h], i) = tokens[h][i]
    BY DEF IInv, Reads
  <2>4. VisibleTokens(h) = [i \in 1 .. Len(tokens[h]) |-> Slot(data, table[h], i)]
    BY DEF VisibleTokens, Slot
  <2> QED  BY <2>2, <2>3, <2>4
<1> QED  BY <1>1, Invariance, PTL

(* The completions of one spawn keep the full blocks of its prompt in       *)
(* common for good, and its last block until one of them writes to it; they *)
(* have no other block in common.                                           *)
THEOREM CopiedOnlyToWrite == Spec => []SharedUntilWritten
<1>1. IInv => SharedUntilWritten
  BY DEF IInv
<1> QED  BY <1>1, Invariance, PTL

(* Writes, copies, cancellations and complete spawns lose no block. *)
THEOREM BlocksLostOnlyBySpawn == Spec => OrphansOnlyBySpawn
<1>1. ASSUME IInv, [Next]_vars
      PROVE  Orphans' \subseteq Orphans \/ (~Idle /\ Idle' /\ created' = created)
  <2>1. Orphans = {b \in Blocks \ free : Holders(b) = {}} \
                    (IF Idle THEN {} ELSE Range(spawning.shared))
    BY DEF Orphans
  <2>2. Orphans' = {b \in Blocks \ free' : Holders(b)' = {}} \
                     (IF Idle' THEN {} ELSE Range(spawning'.shared))
    BY DEF Orphans
  <2>3. ASSUME NEW n \in 0 .. MaxPrompt, NEW count \in 1 .. MaxHandles,
               NEW prompt \in [1 .. n -> Token], BeginSpawn(prompt, count)
        PROVE  Orphans' \subseteq Orphans
    <3>1. Idle /\ free' = free /\ table' = table
      BY <2>3 DEF BeginSpawn, allocator
    <3>2. \A b \in Blocks : Holders(b)' = Holders(b)
      BY <3>1 DEF Holders
    <3> QED  BY <2>1, <2>2, <3>1, <3>2
  <2>4. ASSUME NEW b \in Blocks, SpawnBlock(b)
        PROVE  Orphans' \subseteq Orphans \/ (~Idle /\ Idle' /\ created' = created)
    <3>1. /\ ~Idle /\ free' = free \ {b} /\ table' = table /\ created' = created
          /\ spawning' = [spawning EXCEPT !.shared = Append(@, b)]
      BY <2>4 DEF SpawnBlock, MoreChunks
    <3>2. \A c \in Blocks : Holders(c)' = Holders(c)
      BY <3>1 DEF Holders
    <3>3. spawning'.shared = Append(spawning.shared, b)
          /\ spawning.shared \in Seq(Blocks)
      BY <1>1, <3>1 DEF IInv, TypeOK, Idle
    <3>4. Range(spawning'.shared) = Range(spawning.shared) \cup {b}
      BY <3>3, AppendRange
    <3> QED  BY <2>1, <2>2, <3>1, <3>2, <3>4
  <2>5. ASSUME SpawnFails  PROVE ~Idle /\ (Idle') /\ created' = created
    BY <2>5 DEF SpawnFails, MoreChunks, Idle
  <2>11. ASSUME EndSpawn  PROVE Orphans' \subseteq Orphans
    <3> DEFINE new == created + 1 .. created + spawning.count
    <3>1. /\ ~Idle /\ Idle' /\ free' = free
          /\ table' = [h \in Handles |->
                         IF h \in new THEN spawning.shared ELSE table[h]]
      BY <2>11 DEF EndSpawn, allocator, Idle
    <3>2. /\ created + 1 \in new /\ new \subseteq Handles
          /\ \A h \in new : table[h] = <<>>
      <4>1. /\ created \in Nat /\ spawning.count \in Nat \ {0}
            /\ created + spawning.count <= MaxHandles
        BY <1>1, <3>1, COWAssumption DEF IInv, TypeOK, Idle, Handles, Spawning
      <4>2. new \subseteq Handles /\ \A h \in new : h \notin Live
        BY <4>1, COWAssumption DEF Handles, Live
      <4> QED  BY <1>1, <4>1, <4>2 DEF IInv, Tables
    <3> HIDE DEF new
    <3>3. ASSUME NEW c \in Range(spawning.shared)  PROVE Holders(c)' # {}
      <4>1. created + 1 \in Holders(c)'
        BY <3>1, <3>2, <3>3 DEF Holders
      <4> QED  BY <4>1
    <3>4. ASSUME NEW c \in Blocks, Holders(c) # {}  PROVE Holders(c)' # {}
      <4>1. PICK h \in Handles : c \in Range(table[h])
        BY <3>4 DEF Holders
      <4>2. h \notin new
        BY <3>2, <4>1 DEF Range
      <4>3. h \in Holders(c)'
        BY <3>1, <4>1, <4>2 DEF Holders
      <4> QED  BY <4>3
    <3> QED  BY <2>1, <2>2, <3>1, <3>3, <3>4
  <2>6. ASSUME UNCHANGED <<free, table, spawning>>
        PROVE  Orphans' \subseteq Orphans
    <3>1. \A b \in Blocks : Holders(b)' = Holders(b)
      BY <2>6 DEF Holders
    <3> QED  BY <2>1, <2>2, <2>6, <3>1 DEF Idle
  <2>7. ASSUME Idle, Idle', free' \subseteq free,
               \A b \in Blocks \ free : Holders(b) # {} => Holders(b)' # {},
               \A b \in free \ free' : Holders(b)' # {}
        PROVE  Orphans' \subseteq Orphans
    BY <2>1, <2>2, <2>7
  <2>8. ASSUME NEW h \in Handles, NEW b \in Blocks, NEW text \in Token,
               WriteInNewBlock(h, b, text)
        PROVE  Orphans' \subseteq Orphans
    <3>1. /\ Idle /\ Idle' /\ free' = free \ {b}
          /\ table' = [table EXCEPT ![h] = Append(table[h], b)]
      BY <2>8 DEF WriteInNewBlock, MayWrite, Idle
    <3>2. table[h] \in Seq(Blocks)
      BY <1>1 DEF IInv, TypeOK
    <3>3. Range(Append(table[h], b)) = Range(table[h]) \cup {b}
      BY <3>2, AppendRange
    <3>4. Holders(b)' # {}
      BY <1>1, <3>1, <3>3, HoldersUpdate
    <3>5. ASSUME NEW c \in Blocks \ {b}  PROVE Holders(c)' = Holders(c)
      BY <1>1, <3>1, <3>3, HoldersUpdate
    <3> QED  BY <2>7, <3>1, <3>4, <3>5
  <2>9. ASSUME NEW h \in Handles, NEW b \in Blocks, NEW text \in Token,
               WriteInCopy(h, b, text)
        PROVE  Orphans' \subseteq Orphans
    <3>1. Idle /\ Idle' /\ free' = free \ {b}
      BY <2>9 DEF WriteInCopy, MayWrite, Idle
    <3>2. /\ \A c \in Blocks : Holders(c) # {} => Holders(c)' # {}
          /\ Holders(b)' # {}
      BY <1>1, <2>9, RefsCopy
    <3> QED  BY <2>7, <3>1, <3>2
  <2>10. ASSUME NEW h \in Handles, Cancel(h)
         PROVE  Orphans' \subseteq Orphans
    <3>1. Idle /\ Idle' /\ free \subseteq free'
      BY <2>10 DEF Cancel, Idle
    <3>2. \A c \in Blocks \ free : Holders(c) # {} =>
            c \in free' \/ Holders(c)' # {}
      BY <1>1, <2>10, RefsCancel
    <3> QED  BY <2>1, <2>2, <3>1, <3>2
  <2> QED
    BY <1>1, <2>3, <2>4, <2>5, <2>6, <2>8, <2>9, <2>10, <2>11
    DEF Next, WriteInPlace, WriteFails, vars, allocator
<1>2. IInv /\ [Next]_vars =>
        [Orphans' \subseteq Orphans \/ (~Idle /\ Idle' /\ created' = created)]_vars
  BY <1>1
<1> QED  BY <1>2, Invariance, PTL DEF Spec, OrphansOnlyBySpawn
=============================================================================
