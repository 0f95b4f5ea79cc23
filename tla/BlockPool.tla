----------------------------- MODULE BlockPool ------------------------------
(***************************************************************************)
(* The data of paged_allocator.py that every paged component shares: the   *)
(* pool of PhysicalBlockAllocator as a record (which blocks are free, what *)
(* each block stores, who owns it), a page table as the sequence of the    *)
(* physical blocks of logical blocks 0, 1, 2, ..., and the arithmetic that *)
(* places token i.  Each operator returns the pool after one call; the     *)
(* exceptions of those calls are the guards of the actions that use them.  *)
(***************************************************************************)
EXTENDS Integers, Sequences, FiniteSets, Functions

CONSTANTS
  Requests,     (* the request ids; the program serves them in id order     *)
  TotalBlocks,  (* number of physical blocks of the pool                    *)
  BlockSize,    (* number of token slots of a block                         *)
  None          (* Python's None: an empty slot, a block without owner      *)

ASSUME BlockPoolAssumption ==
  /\ Requests \subseteq Nat
  /\ IsFiniteSet(Requests)
  /\ TotalBlocks \in Nat \ {0}
  /\ BlockSize \in Nat \ {0}
  /\ \E k \in 0 .. BlockSize : BlockSize = 2^k
  /\ None \notin Requests
  /\ None \notin Requests \X Nat

Blocks  == 0 .. TotalBlocks - 1
Offsets == 0 .. BlockSize - 1

(* The i-th token of request r.  The content that the code formats from    *)
(* the request id and the index determines both, so the pair stands for it.*)
Token == Requests \X Nat

(* The first n tokens of request r, in order. *)
TokensOf(r, n) == [i \in 1 .. n |-> <<r, i - 1>>]

Blank == [o \in Offsets |-> None]

Pool == [free  : SUBSET Blocks,
         data  : [Blocks -> [Offsets -> Token \cup {None}]],
         owner : [Blocks -> Requests \cup {None}]]

(* Mutation: the free set starts with one block too many. *)
NewPoolOverfull == [free  |-> 0 .. TotalBlocks,
                    data  |-> [b \in Blocks |-> Blank],
                    owner |-> [b \in Blocks |-> None]]

NewPool == [free  |-> Blocks,
            data  |-> [b \in Blocks |-> Blank],
            owner |-> [b \in Blocks |-> None]]

(* b is the least member of S: min(self.free_blocks), sorted(self.active). *)
Least(b, S) == b \in S /\ \A c \in S : b <= c

-----------------------------------------------------------------------------
(* Mutations: an allocated block stays in the free set; a freed one does    *)
(* not return to it, or keeps its tokens; a write always lands in slot 0.   *)
AllocateKeepsFree(p, b, r) ==
  [p EXCEPT !.data[b] = Blank, !.owner[b] = r]
FreeForgetsBlock(p, bs) ==
  [p EXCEPT !.owner = [b \in Blocks |-> IF b \in bs THEN None ELSE @[b]]]
FreeKeepsData(p, bs) ==
  [free  |-> p.free \cup bs,
   data  |-> p.data,
   owner |-> [b \in Blocks |-> IF b \in bs THEN None ELSE p.owner[b]]]
WriteFirstSlot(p, b, o, v) == [p EXCEPT !.data[b][0] = v]

(* allocate: block b, the least free one, becomes r's and is blanked. *)
Allocate(p, b, r) ==
  [p EXCEPT !.free = @ \ {b}, !.data[b] = Blank, !.owner[b] = r]

(* free, called for every block of bs: back to the pool, blanked, unowned. *)
Free(p, bs) ==
  [free  |-> p.free \cup bs,
   data  |-> [b \in Blocks |-> IF b \in bs THEN Blank ELSE p.data[b]],
   owner |-> [b \in Blocks |-> IF b \in bs THEN None ELSE p.owner[b]]]

(* write: value v into slot o of block b. *)
Write(p, b, o, v) == [p EXCEPT !.data[b][o] = v]

AllocatedCount(p) == TotalBlocks - Cardinality(p.free)

-----------------------------------------------------------------------------
(* Token i lives in logical block i // block_size at i % block_size. *)
BlockOf(i)  == i \div BlockSize
OffsetOf(i) == i % BlockSize

(* ceil(n / block_size) *)
BlocksFor(n) == (n + BlockSize - 1) \div BlockSize

(* Mutation: a block is taken one token before it is needed. *)
NeedsBlockEarly(t, n) == BlockOf(n + 1) = Len(t)

(* The next token of a request that generated n needs a block its table   *)
(* does not map yet: logical == len(table.entries).                       *)
NeedsBlock(t, n) == BlockOf(n) = Len(t)

(* The physical block that table t maps token i to. *)
BlockAt(t, i) == t[BlockOf(i) + 1]

(* The exception that reading token i through table t raises, if any. *)
AccessError(p, t, i) ==
  IF BlockOf(i) + 1 \notin DOMAIN t THEN "BoundaryMissError"
  ELSE IF BlockAt(t, i) \in p.free THEN "UseAfterFreeError"
  ELSE "none"

(* The value that reading token i through table t returns. *)
ReadToken(p, t, i) == p.data[BlockAt(t, i)][OffsetOf(i)]

(* What a request that generated n tokens can read through its table. *)
Visible(p, t, n) ==
  IF t = <<>> THEN <<>> ELSE [i \in 1 .. n |-> ReadToken(p, t, i - 1)]

(* Tables give every block of the pool at most one place of one request's  *)
(* table, record exactly that request as its owner, and leave every other  *)
(* block free: assert_consistent and assert_no_shared_blocks.              *)
BlocksAccounted(p, tables) ==
  /\ \A r \in Requests : IsInjective(tables[r])
  /\ \A b \in Blocks, r \in Requests :
        p.owner[b] = r <=> b \in Range(tables[r])
  /\ \A b \in Blocks : b \in p.free <=> p.owner[b] = None
=============================================================================
