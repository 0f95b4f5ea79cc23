-------------------- MODULE PhysicalBlockAllocator_proof --------------------
(***************************************************************************)
(* Proofs about PhysicalBlockAllocator, for any number of callers, blocks  *)
(* and slots: the pool survives whatever ids its callers pass, and callers *)
(* that respect the lifetime of their blocks are isolated and never see a  *)
(* spurious exception.                                                     *)
(***************************************************************************)
EXTENDS PhysicalBlockAllocator, BlockPool_proof

(* The pool's records and what careful callers know of their blocks agree. *)
LiveIsOwned ==
  ~careless => \A r \in Requests, b \in Blocks :
    /\ b \in live[r] <=> pool.owner[b] = r
    /\ b \in live[r] => pool.data[b] = expected[r][b]

PInv == TypeOK /\ FreeIsUnowned /\ LiveIsOwned /\ NoFalseAlarm

-----------------------------------------------------------------------------
(* The ids that careful callers pass are those of their live blocks. *)
LEMMA CarefulIds ==
  ASSUME PInv, ~careless, NEW r \in Requests, NEW b \in Ids(r)
  PROVE  b \in live[r] /\ b \in Blocks /\ pool.owner[b] = r /\ b \notin pool.free
<1>1. b \in live[r]
  BY DEF Ids
<1>2. b \in Blocks
  BY <1>1 DEF PInv, TypeOK
<1>3. pool.owner[b] = r
  BY <1>1, <1>2 DEF PInv, LiveIsOwned
<1>4. b \notin pool.free
  BY <1>2, <1>3, BlockPoolAssumption DEF PInv, FreeIsUnowned
<1> QED  BY <1>1, <1>2, <1>3, <1>4

(* Only blocks and offsets that exist are written. *)
LEMMA CheckPasses ==
  ASSUME NEW b, NEW o, CheckError(b, o) = "ok"
  PROVE  b \in Blocks /\ o \in Offsets /\ b \notin pool.free
BY DEF CheckError

(* What one call can do. *)
LEMMA CallCases ==
  ASSUME [Next]_vars
  PROVE  \/ \E r \in Requests : AllocateFails(r)
         \/ \E r \in Requests, b \in Blocks : AllocateCall(r, b)
         \/ \E r \in Requests : \E b \in Ids(r) : FreeCall(r, b)
         \/ \E r \in Requests : \E b \in Ids(r) : FreeFails(r, b)
         \/ \E r \in Requests : \E b \in Ids(r), o \in Offsets, v \in Values(r) :
              WriteCall(r, b, o, v)
         \/ \E r \in Requests : \E b \in Ids(r), o \in Offsets \cup {BlockSize} :
              AccessCall(r, b, o)
         \/ UNCHANGED vars
BY DEF Next

-----------------------------------------------------------------------------
(* Every call keeps the types. *)
LEMMA TypeStep ==
  ASSUME TypeOK, [Next]_vars
  PROVE  TypeOK'
<1>1. ASSUME NEW r \in Requests, AllocateFails(r)
      PROVE  TypeOK'
  BY <1>1 DEF TypeOK, AllocateFails, Results
<1>2. ASSUME NEW r \in Requests, NEW b \in Blocks, AllocateCall(r, b)
      PROVE  TypeOK'
  <2>1. pool' \in Pool
    BY <1>2, AllocateType DEF TypeOK, AllocateCall
  <2>2. expected' \in [Requests -> [Blocks -> [Offsets -> Token \cup {None}]]]
    BY <1>2 DEF TypeOK, AllocateCall, Blank
  <2> QED  BY <1>2, <2>1, <2>2 DEF TypeOK, AllocateCall, Results
<1>3. ASSUME NEW r \in Requests, NEW b \in Ids(r), FreeCall(r, b)
      PROVE  TypeOK'
  <2>1. b \in Blocks
    BY <1>3 DEF FreeCall
  <2>2. pool' \in Pool
    BY <1>3, <2>1, FreeType DEF TypeOK, FreeCall
  <2> QED  BY <1>3, <2>1, <2>2 DEF TypeOK, FreeCall, Called, Results
<1>4. ASSUME NEW r \in Requests, NEW b \in Ids(r), FreeFails(r, b)
      PROVE  TypeOK'
  BY <1>4 DEF TypeOK, FreeFails, Called, Results
<1>5. ASSUME NEW r \in Requests, NEW b \in Ids(r), NEW o \in Offsets,
             NEW v \in Values(r), WriteCall(r, b, o, v)
      PROVE  TypeOK'
  <2>1. v \in Token
    BY DEF Values, Token
  <2>2. pool' \in Pool
    BY <1>5, <2>1, WriteType DEF TypeOK, WriteCall
  <2>3. expected' \in [Requests -> [Blocks -> [Offsets -> Token \cup {None}]]]
    <3>1. expected' = [expected EXCEPT ![r][b][o] = v]
      BY <1>5 DEF WriteCall
    <3>2. /\ b \in Blocks
          /\ expected[r] \in [Blocks -> [Offsets -> Token \cup {None}]]
      BY <1>5, CheckPasses DEF TypeOK, WriteCall
    <3>3. [expected[r][b] EXCEPT ![o] = v] \in [Offsets -> Token \cup {None}]
      BY <2>1, <3>2
    <3>4. [expected[r] EXCEPT ![b] = [expected[r][b] EXCEPT ![o] = v]]
            \in [Blocks -> [Offsets -> Token \cup {None}]]
      BY <3>2, <3>3
    <3> QED  BY <3>1, <3>4 DEF TypeOK
  <2> QED  BY <1>5, <2>2, <2>3 DEF TypeOK, WriteCall, Called, Results
<1>6. ASSUME NEW r \in Requests, NEW b \in Ids(r),
             NEW o \in Offsets \cup {BlockSize}, AccessCall(r, b, o)
      PROVE  TypeOK'
  <2>1. CheckError(b, o) \in Results
    BY DEF CheckError, Results
  <2>2. last' \in [op : {"none", "allocate", "free", "read", "write"},
                  stale : BOOLEAN, result : Results]
    <3>1. CASE Called("read", r, b, CheckError(b, o))
      BY <2>1, <3>1 DEF Called
    <3>2. CASE Called("write", r, b, CheckError(b, o))
      BY <2>1, <3>2 DEF Called
    <3> QED  BY <1>6, <3>1, <3>2 DEF AccessCall
  <2> QED  BY <1>6, <2>2 DEF TypeOK, AccessCall
<1>7. CASE UNCHANGED vars
  BY <1>7 DEF TypeOK, vars
<1> QED  BY <1>1, <1>2, <1>3, <1>4, <1>5, <1>6, <1>7, CallCases

-----------------------------------------------------------------------------
(* Whatever ids are passed, the free set and the owners stay complementary  *)
(* and free blocks blank.                                                   *)
LEMMA ConsistentStep ==
  ASSUME TypeOK, FreeIsUnowned, [Next]_vars
  PROVE  FreeIsUnowned'
<1>1. pool \in Pool
  BY DEF TypeOK
<1>2. ASSUME NEW r \in Requests, NEW b \in Blocks, AllocateCall(r, b)
      PROVE  FreeIsUnowned'
  <2>1. /\ pool'.free = pool.free \ {b}
        /\ \A c \in Blocks :
             /\ pool'.owner[c] = IF c = b THEN r ELSE pool.owner[c]
             /\ pool'.data[c] = IF c = b THEN Blank ELSE pool.data[c]
    BY <1>1, <1>2 DEF AllocateCall, Allocate, Pool
  <2> QED  BY <2>1, BlockPoolAssumption DEF FreeIsUnowned, Blank, Offsets
<1>3. ASSUME NEW r \in Requests, NEW b \in Ids(r), FreeCall(r, b)
      PROVE  FreeIsUnowned'
  BY <1>3 DEF FreeCall, Free, FreeIsUnowned, Blank, Offsets
<1>4. ASSUME NEW r \in Requests, NEW b \in Ids(r), NEW o \in Offsets,
             NEW v \in Values(r), WriteCall(r, b, o, v)
      PROVE  FreeIsUnowned'
  <2>1. b \in Blocks /\ b \notin pool.free
    BY <1>4, CheckPasses DEF WriteCall
  <2>2. /\ pool'.free = pool.free /\ pool'.owner = pool.owner
        /\ \A c \in Blocks \ {b} : pool'.data[c] = pool.data[c]
    BY <1>1, <1>4 DEF WriteCall, Write, Pool
  <2> QED  BY <2>1, <2>2 DEF FreeIsUnowned, Blank, Offsets
<1>5. CASE pool' = pool
  BY <1>5 DEF FreeIsUnowned, Blank, Offsets
<1> QED  BY <1>2, <1>3, <1>4, <1>5, CallCases
         DEF AllocateFails, FreeFails, AccessCall, vars

(* A caller that is careful owns exactly the blocks it thinks it owns, and  *)
(* finds in them what it wrote.                                             *)
LEMMA OwnedStep ==
  ASSUME PInv, [Next]_vars
  PROVE  LiveIsOwned'
<1>1. TypeOK /\ FreeIsUnowned /\ LiveIsOwned /\ pool \in Pool
  BY DEF PInv, TypeOK
<1> SUFFICES ASSUME ~careless', NEW q \in Requests, NEW c \in Blocks
             PROVE  /\ c \in live'[q] <=> pool'.owner[c] = q
                    /\ c \in live'[q] => pool'.data[c] = expected'[q][c]
  BY DEF LiveIsOwned
<1>2. ~careless
  BY CallCases DEF AllocateFails, AllocateCall, FreeCall, FreeFails, WriteCall,
                   AccessCall, vars
<1>3. /\ c \in live[q] <=> pool.owner[c] = q
      /\ c \in live[q] => pool.data[c] = expected[q][c]
  BY <1>1, <1>2 DEF LiveIsOwned
<1>4. ASSUME NEW r \in Requests, NEW b \in Blocks, AllocateCall(r, b)
      PROVE  /\ c \in live'[q] <=> pool'.owner[c] = q
             /\ c \in live'[q] => pool'.data[c] = expected'[q][c]
  <2>1. /\ pool'.owner[c] = IF c = b THEN r ELSE pool.owner[c]
        /\ pool'.data[c] = IF c = b THEN Blank ELSE pool.data[c]
    BY <1>1, <1>4 DEF AllocateCall, Allocate, Pool
  <2>2. /\ live'[q] = IF q = r THEN live[q] \cup {b} ELSE live[q]
        /\ expected'[q][c] = IF q = r /\ c = b THEN Blank ELSE expected[q][c]
    BY <1>1, <1>4 DEF AllocateCall, TypeOK
  <2>3. pool.owner[b] = None
    BY <1>1, <1>4 DEF AllocateCall, Least, FreeIsUnowned
  <2> QED  BY <1>3, <2>1, <2>2, <2>3, BlockPoolAssumption
<1>5. ASSUME NEW r \in Requests, NEW b \in Ids(r), FreeCall(r, b)
      PROVE  /\ c \in live'[q] <=> pool'.owner[c] = q
             /\ c \in live'[q] => pool'.data[c] = expected'[q][c]
  <2>1. b \in Blocks /\ pool.owner[b] = r
    BY <1>2, <1>5, CarefulIds
  <2>2. /\ pool'.owner[c] = IF c = b THEN None ELSE pool.owner[c]
        /\ pool'.data[c] = IF c = b THEN Blank ELSE pool.data[c]
    BY <1>5 DEF FreeCall, Free
  <2>3. /\ live'[q] = IF q = r THEN live[q] \ {b} ELSE live[q]
        /\ expected' = expected
    BY <1>1, <1>5 DEF FreeCall, TypeOK
  <2> QED  BY <1>3, <2>1, <2>2, <2>3, BlockPoolAssumption
<1>6. ASSUME NEW r \in Requests, NEW b \in Ids(r), NEW o \in Offsets,
             NEW v \in Values(r), WriteCall(r, b, o, v)
      PROVE  /\ c \in live'[q] <=> pool'.owner[c] = q
             /\ c \in live'[q] => pool'.data[c] = expected'[q][c]
  <2>1. b \in live[r] /\ b \in Blocks /\ pool.owner[b] = r
    BY <1>2, CarefulIds
  <2>2. /\ pool'.owner = pool.owner /\ live' = live
        /\ pool'.data = [pool.data EXCEPT ![b][o] = v]
        /\ expected' = [expected EXCEPT ![r][b][o] = v]
    BY <1>1, <1>6 DEF WriteCall, Write, Pool
  <2>3. /\ pool.data \in [Blocks -> [Offsets -> Token \cup {None}]]
        /\ expected \in [Requests -> [Blocks -> [Offsets -> Token \cup {None}]]]
    BY <1>1 DEF Pool, TypeOK
  <2>4. CASE c = b /\ q = r
    <3>1. pool'.data[c] = [pool.data[b] EXCEPT ![o] = v]
      BY <2>2, <2>3, <2>4
    <3>2. expected'[q][c] = [expected[r][b] EXCEPT ![o] = v]
      BY <2>1, <2>2, <2>3, <2>4
    <3> QED  BY <1>3, <2>1, <2>2, <2>4, <3>1, <3>2
  <2>5. CASE c = b /\ q # r
    BY <1>3, <2>1, <2>2, <2>5
  <2>6. CASE c # b
    <3>1. pool'.data[c] = pool.data[c]
      BY <2>2, <2>3, <2>6
    <3>2. expected'[q][c] = expected[q][c]
      BY <2>2, <2>3, <2>6
    <3> QED  BY <1>3, <2>2, <3>1, <3>2
  <2> QED  BY <2>4, <2>5, <2>6
<1>7. CASE pool' = pool /\ live' = live /\ expected' = expected
  BY <1>3, <1>7
<1> QED  BY <1>4, <1>5, <1>6, <1>7, CallCases
         DEF AllocateFails, FreeFails, AccessCall, vars

(* A careful caller only sees an offset out of its block refused, or an     *)
(* allocation when no block is left.                                        *)
LEMMA AlarmStep ==
  ASSUME PInv, [Next]_vars
  PROVE  NoFalseAlarm'
<1>1. TypeOK /\ FreeIsUnowned /\ LiveIsOwned /\ NoFalseAlarm /\ pool \in Pool
  BY DEF PInv, TypeOK
<1> SUFFICES ASSUME ~careless'
             PROVE  /\ last'.result \in {"ok", "OutOfMemoryError", "IndexError"}
                    /\ last'.result = "OutOfMemoryError" =>
                         UNION {live'[r] : r \in Requests} = Blocks
  BY DEF NoFalseAlarm
<1>2. ~careless
  BY CallCases DEF AllocateFails, AllocateCall, FreeCall, FreeFails, WriteCall,
                   AccessCall, vars
<1>3. ASSUME NEW r \in Requests, AllocateFails(r)
      PROVE  last'.result = "OutOfMemoryError" /\ UNION {live'[q] : q \in Requests} = Blocks
  <2>1. \A b \in Blocks : pool.owner[b] \in Requests
    BY <1>1, <1>3 DEF AllocateFails, FreeIsUnowned, Pool
  <2>2. \A b \in Blocks : b \in live[pool.owner[b]]
    BY <1>1, <1>2, <2>1 DEF LiveIsOwned
  <2>3. \A q \in Requests : live[q] \subseteq Blocks
    BY <1>1 DEF TypeOK
  <2> QED  BY <1>3, <2>1, <2>2, <2>3 DEF AllocateFails
<1>4. ASSUME NEW r \in Requests, NEW b \in Ids(r), FreeFails(r, b)
      PROVE  FALSE
  BY <1>2, <1>4, CarefulIds DEF FreeFails
<1>5. ASSUME NEW r \in Requests, NEW b \in Ids(r),
             NEW o \in Offsets \cup {BlockSize}, AccessCall(r, b, o)
      PROVE  last'.result \in {"ok", "IndexError"}
  <2>1. CheckError(b, o) \in {"ok", "IndexError"}
    BY <1>2, CarefulIds DEF CheckError
  <2> QED  BY <1>5, <2>1 DEF AccessCall, Called
<1>6. ASSUME NEW r \in Requests, NEW b \in Blocks, AllocateCall(r, b)
      PROVE  last'.result = "ok"
  BY <1>6 DEF AllocateCall
<1>7. ASSUME NEW r \in Requests, NEW b \in Ids(r), FreeCall(r, b)
      PROVE  last'.result = "ok"
  BY <1>7 DEF FreeCall, Called
<1>8. ASSUME NEW r \in Requests, NEW b \in Ids(r), NEW o \in Offsets,
             NEW v \in Values(r), WriteCall(r, b, o, v)
      PROVE  last'.result = "ok"
  BY <1>8 DEF WriteCall, Called
<1>9. CASE UNCHANGED vars
  BY <1>1, <1>2, <1>9 DEF vars, NoFalseAlarm
<1> QED  BY <1>3, <1>4, <1>5, <1>6, <1>7, <1>8, <1>9, CallCases

-----------------------------------------------------------------------------
(* The inductive invariant holds of every sequence of calls. *)
THEOREM PoolInvariance == Spec => []PInv
<1>1. Init => PInv
  <2> SUFFICES ASSUME Init  PROVE PInv
    OBVIOUS
  <2>1. TypeOK
    BY NewPoolType DEF Init, TypeOK, Blank, Results
  <2>2. FreeIsUnowned
    BY DEF Init, FreeIsUnowned, NewPool
  <2>3. LiveIsOwned
    BY BlockPoolAssumption DEF Init, LiveIsOwned, NewPool
  <2>4. NoFalseAlarm
    BY DEF Init, NoFalseAlarm
  <2> QED  BY <2>1, <2>2, <2>3, <2>4 DEF PInv
<1>2. PInv /\ [Next]_vars => PInv'
  <2> SUFFICES ASSUME PInv, [Next]_vars  PROVE PInv'
    OBVIOUS
  <2>1. TypeOK' /\ FreeIsUnowned'
    BY TypeStep, ConsistentStep DEF PInv
  <2> QED  BY <2>1, OwnedStep, AlarmStep DEF PInv
<1> QED  BY <1>1, <1>2, PTL DEF Spec

(* assert_consistent holds after every call, careless ones included, and no *)
(* token survives the lifetime of its block.                                *)
THEOREM AlwaysConsistent == Spec => []PoolConsistent
<1>1. PInv => PoolConsistent
  BY DEF PInv, PoolConsistent
<1> QED  BY <1>1, PoolInvariance, PTL

(* Callers that use their blocks only while they own them share no block    *)
(* and read exactly what they wrote.                                        *)
THEOREM CarefulIsPrivate == Spec => []LiveBlocksPrivate
<1>1. PInv => LiveBlocksPrivate
  <2> SUFFICES ASSUME PInv, ~careless, NEW r \in Requests, NEW b \in live[r]
               PROVE  /\ pool.owner[b] = r
                      /\ \A q \in Requests \ {r} : b \notin live[q]
                      /\ pool.data[b] = expected[r][b]
    BY DEF LiveBlocksPrivate
  <2>1. b \in Blocks
    BY DEF PInv, TypeOK
  <2> QED  BY <2>1 DEF PInv, LiveIsOwned
<1> QED  BY <1>1, PoolInvariance, PTL

(* They get no DoubleFreeError or UseAfterFreeError, and OutOfMemoryError   *)
(* only when every block is live.                                           *)
THEOREM CarefulIsNotRefused == Spec => []NoFalseAlarm
<1>1. PInv => NoFalseAlarm
  BY DEF PInv
<1> QED  BY <1>1, PoolInvariance, PTL
=============================================================================
