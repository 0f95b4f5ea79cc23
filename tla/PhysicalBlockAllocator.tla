----------------------- MODULE PhysicalBlockAllocator -----------------------
(***************************************************************************)
(* PhysicalBlockAllocator of paged_allocator.py under direct callers, as   *)
(* the failure injections of correctness.py use it: a caller keeps the     *)
(* block ids it was given, also after it freed them, and may use them      *)
(* again.  Careful callers use a block only between its allocation to them *)
(* and the free they call; careless ones use stale and invalid ids too.    *)
(***************************************************************************)
EXTENDS BlockPool

VARIABLES
  careless,  (* whether the callers use ids whose lifetime has ended       *)
  pool,      (* free_blocks, data and owner                                *)
  live,      (* live[r]: blocks allocated to r that r has not freed since  *)
  stale,     (* stale[r]: ids r still keeps of blocks that it freed        *)
  expected,  (* expected[r][b][o]: what r last wrote to its live block b   *)
  last       (* the last call: operation, whether its id was stale, result *)

vars == <<careless, pool, live, stale, expected, last>>

Results == {"ok", "OutOfMemoryError", "DoubleFreeError", "UseAfterFreeError",
            "IndexError"}

(* Two values per caller tell its successive writes apart. *)
Values(r) == {<<r, 0>>, <<r, 1>>}

(* The ids a call of r may name; TotalBlocks is one past the last block. *)
Ids(r) == live[r] \cup (IF careless THEN stale[r] \cup {TotalBlocks} ELSE {})

Called(op, r, b, result) ==
  last' = [op |-> op, stale |-> b \in stale[r], result |-> result]

Init ==
  /\ careless \in BOOLEAN
  /\ pool = NewPool
  /\ live = [r \in Requests |-> {}]
  /\ stale = [r \in Requests |-> {}]
  /\ expected = [r \in Requests |-> [b \in Blocks |-> Blank]]
  /\ last = [op |-> "none", stale |-> FALSE, result |-> "ok"]

AllocateCall(r, b) ==
  /\ Least(b, pool.free)
  /\ pool' = Allocate(pool, b, r)
  /\ live' = [live EXCEPT ![r] = @ \cup {b}]
  /\ stale' = [stale EXCEPT ![r] = @ \ {b}]
  /\ expected' = [expected EXCEPT ![r][b] = Blank]
  /\ last' = [op |-> "allocate", stale |-> FALSE, result |-> "ok"]
  /\ UNCHANGED careless

AllocateFails(r) ==
  /\ pool.free = {}
  /\ last' = [op |-> "allocate", stale |-> FALSE, result |-> "OutOfMemoryError"]
  /\ UNCHANGED <<careless, pool, live, stale, expected>>

(* free succeeds for any block that is not free: it never asks who owns it. *)
FreeCall(r, b) ==
  /\ b \in Ids(r) \cap Blocks
  /\ b \notin pool.free
  /\ pool' = Free(pool, {b})
  /\ live' = [live EXCEPT ![r] = @ \ {b}]
  /\ stale' = [stale EXCEPT ![r] = @ \cup {b}]
  /\ Called("free", r, b, "ok")
  /\ UNCHANGED <<careless, expected>>

FreeFails(r, b) ==
  /\ b \in Ids(r)
  /\ b \notin Blocks \/ b \in pool.free
  /\ Called("free", r, b, "DoubleFreeError")
  /\ UNCHANGED <<careless, pool, live, stale, expected>>

(* _check: the exception an access to slot o of block b raises, if any. *)
CheckError(b, o) ==
  IF b \in pool.free THEN "UseAfterFreeError"
  ELSE IF b \notin Blocks \/ o \notin Offsets THEN "IndexError"
  ELSE "ok"

WriteCall(r, b, o, v) ==
  /\ b \in Ids(r)
  /\ CheckError(b, o) = "ok"
  /\ pool' = Write(pool, b, o, v)
  /\ expected' = [expected EXCEPT ![r][b][o] = v]
  /\ Called("write", r, b, "ok")
  /\ UNCHANGED <<careless, live, stale>>

(* A read, or a write that is refused, changes nothing but the answer. *)
AccessCall(r, b, o) ==
  /\ b \in Ids(r)
  /\ \/ Called("read", r, b, CheckError(b, o))
     \/ /\ CheckError(b, o) # "ok"
        /\ Called("write", r, b, CheckError(b, o))
  /\ UNCHANGED <<careless, pool, live, stale, expected>>

Next ==
  \E r \in Requests :
    \/ AllocateFails(r)
    \/ \E b \in Blocks : AllocateCall(r, b)
    \/ \E b \in Ids(r) :
         \/ FreeCall(r, b)
         \/ FreeFails(r, b)
         \/ \E o \in Offsets, v \in Values(r) : WriteCall(r, b, o, v)
         \/ \E o \in Offsets \cup {BlockSize} : AccessCall(r, b, o)

Spec == Init /\ [][Next]_vars

-----------------------------------------------------------------------------
TypeOK ==
  /\ careless \in BOOLEAN
  /\ pool \in Pool
  /\ live \in [Requests -> SUBSET Blocks]
  /\ stale \in [Requests -> SUBSET Blocks]
  /\ expected \in [Requests -> [Blocks -> [Offsets -> Token \cup {None}]]]
  /\ last \in [op : {"none", "allocate", "free", "read", "write"},
               stale : BOOLEAN, result : Results]

(* assert_consistent, and free blocks that are blank. *)
FreeIsUnowned ==
  \A b \in Blocks :
    /\ b \in pool.free <=> pool.owner[b] = None
    /\ b \in pool.free => pool.data[b] = Blank

(* Whatever its callers do, the pool stays well-formed and consistent, and *)
(* a free block carries no trace of the tokens of a past owner.            *)
PoolConsistent == TypeOK /\ FreeIsUnowned

(* Careful callers share nothing: a live block has one caller, which reads *)
(* from it exactly what it wrote since it was allocated.                   *)
LiveBlocksPrivate ==
  ~careless => \A r \in Requests : \A b \in live[r] :
    /\ pool.owner[b] = r
    /\ \A q \in Requests \ {r} : b \notin live[q]
    /\ pool.data[b] = expected[r][b]

(* Careful callers get no false alarm: the only exceptions they ever see   *)
(* are an offset out of the block and an allocation with every block live. *)
NoFalseAlarm ==
  ~careless =>
    /\ last.result \in {"ok", "OutOfMemoryError", "IndexError"}
    /\ last.result = "OutOfMemoryError" =>
         UNION {live[r] : r \in Requests} = Blocks

(* "detect attempts to free it more than once", "Raised when code accesses *)
(* a block after its lifetime has ended": a free, read or write through an *)
(* id that its caller already freed raises an error.                       *)
StaleUseDetected ==
  last.op \in {"free", "read", "write"} /\ last.stale =>
    last.result \in {"DoubleFreeError", "UseAfterFreeError"}
=============================================================================
