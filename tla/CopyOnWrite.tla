---------------------------- MODULE CopyOnWrite -----------------------------
(***************************************************************************)
(* CopyOnWriteManager of bonus.py over RefCountedAllocator: completions    *)
(* that share the blocks of their prompt, each with a page table and a     *)
(* list of tokens of its own, and that copy a shared block before they     *)
(* write to it.  A completion is known here by the number of its creation: *)
(* the caller keeps the object.  The registry self.completions, in which a *)
(* later spawn overwrites the entries of an earlier one, only chooses the  *)
(* completions that assert_isolation looks at; Isolation looks at all.     *)
(*                                                                         *)
(* The blocks of a prompt are allocated one by one: spawn may fail halfway.*)
(* Calls on a cancelled completion change nothing and are left out.        *)
(***************************************************************************)
EXTENDS Integers, Sequences, FiniteSets, Functions

CONSTANTS
  TotalBlocks,  (* number of physical blocks of the pool                    *)
  BlockSize,    (* number of token slots of a block                         *)
  MaxHandles,   (* bound on the completions created                         *)
  MaxPrompt,    (* bound on the length of a prompt                          *)
  MaxTokens,    (* bound on the tokens of a completion                      *)
  Token,        (* the texts of a token: equal texts are one token          *)
  None          (* Python's None: an empty slot, no entry                   *)

ASSUME COWAssumption ==
  /\ TotalBlocks \in Nat \ {0}
  /\ BlockSize \in Nat \ {0}
  /\ MaxHandles \in Nat \ {0}
  /\ MaxPrompt \in Nat /\ MaxTokens \in Nat
  /\ None \notin Token

Blocks  == 0 .. TotalBlocks - 1
Offsets == 0 .. BlockSize - 1
Handles == 1 .. MaxHandles

Blank == [o \in Offsets |-> None]

VARIABLES
  free,       (* allocator.free_blocks                                      *)
  data,       (* allocator.data                                             *)
  ref_count,  (* allocator.ref_count                                        *)
  spawning,   (* the spawn that is allocating its prompt, or None           *)
  created,    (* number of Completion objects created so far                *)
  table,      (* completion.page_table, by logical block                    *)
  tokens,     (* completion.tokens                                          *)
  cancelled,  (* the completions that were cancelled                        *)
  spawns      (* what the calls of spawn returned, with the length of their *)
              (* prompts: a history, which no action reads                  *)

allocator == <<free, data, ref_count>>
vars == <<allocator, spawning, created, table, tokens, cancelled, spawns>>

Init ==
  /\ free = Blocks
  /\ data = [b \in Blocks |-> Blank]
  /\ ref_count = [b \in Blocks |-> 0]
  /\ spawning = None
  /\ created = 0
  /\ table = [h \in Handles |-> <<>>]
  /\ tokens = [h \in Handles |-> <<>>]
  /\ cancelled = {}
  /\ spawns = {}

Live == (1 .. created) \ cancelled
Idle == spawning = None

-----------------------------------------------------------------------------
BeginSpawn(prompt, count) ==
  /\ Idle
  /\ created + count <= MaxHandles
  /\ spawning' = [prompt |-> prompt, count |-> count, shared |-> <<>>]
  /\ UNCHANGED <<allocator, created, table, tokens, cancelled, spawns>>

(* The next chunk of the prompt, as the content of a block. *)
ChunkStart == Len(spawning.shared) * BlockSize
MoreChunks == ~Idle /\ ChunkStart < Len(spawning.prompt)
Chunk == [o \in Offsets |->
            IF ChunkStart + o + 1 \in DOMAIN spawning.prompt
            THEN spawning.prompt[ChunkStart + o + 1] ELSE None]

(* Mutation: the prompt keeps a reference of its own. *)
SpawnBlockExtraReference(b) ==
  /\ MoreChunks
  /\ b \in free /\ \A c \in free : b <= c
  /\ free' = free \ {b}
  /\ ref_count' = [ref_count EXCEPT ![b] = spawning.count + 1]
  /\ data' = [data EXCEPT ![b] = Chunk]
  /\ spawning' = [spawning EXCEPT !.shared = Append(@, b)]
  /\ UNCHANGED <<created, table, tokens, cancelled, spawns>>

(* An iteration of the first loop of spawn: the least free block gets the  *)
(* next chunk and as many references as there will be completions.         *)
SpawnBlock(b) ==
  /\ MoreChunks
  /\ b \in free /\ \A c \in free : b <= c
  /\ free' = free \ {b}
  /\ ref_count' = [ref_count EXCEPT ![b] = spawning.count]
  /\ data' = [data EXCEPT ![b] = Chunk]
  /\ spawning' = [spawning EXCEPT !.shared = Append(@, b)]
  /\ UNCHANGED <<created, table, tokens, cancelled, spawns>>

(* OutOfMemoryError leaves spawn before any completion exists. *)
SpawnFails ==
  /\ MoreChunks
  /\ free = {}
  /\ spawning' = None
  /\ UNCHANGED <<allocator, created, table, tokens, cancelled, spawns>>

(* The second loop of spawn: completions 0 .. count - 1 share the blocks. *)
EndSpawn ==
  /\ ~Idle /\ ~MoreChunks
  /\ LET new == created + 1 .. created + spawning.count
     IN  /\ table' = [h \in Handles |->
                        IF h \in new THEN spawning.shared ELSE table[h]]
         /\ tokens' = [h \in Handles |->
                         IF h \in new THEN spawning.prompt ELSE tokens[h]]
         /\ spawns' = spawns \cup
                        {[members |-> new, length |-> Len(spawning.prompt)]}
  /\ created' = created + spawning.count
  /\ spawning' = None
  /\ UNCHANGED <<allocator, cancelled>>

-----------------------------------------------------------------------------
(* Mutation: the block of the last token, not of the next one. *)
LogicalBlockOfLast(h) == (Len(tokens[h]) - 1) \div BlockSize

LogicalBlock(h) == Len(tokens[h]) \div BlockSize
Offset(h) == Len(tokens[h]) % BlockSize

MayWrite(h) ==
  /\ Idle
  /\ h \in Live
  /\ Len(tokens[h]) < MaxTokens

AppendToken(h, t) == tokens' = [tokens EXCEPT ![h] = Append(@, t)]

(* write_token into the first slot of a new block. *)
WriteInNewBlock(h, b, t) ==
  /\ MayWrite(h)
  /\ LogicalBlock(h) + 1 \notin DOMAIN table[h]
  /\ b \in free /\ \A c \in free : b <= c
  /\ free' = free \ {b}
  /\ ref_count' = [ref_count EXCEPT ![b] = 1]
  /\ data' = [data EXCEPT ![b] = [Blank EXCEPT ![Offset(h)] = t]]
  /\ table' = [table EXCEPT ![h] = Append(@, b)]
  /\ AppendToken(h, t)
  /\ UNCHANGED <<spawning, created, cancelled, spawns>>

(* Mutation: two references do not make a block shared. *)
SharedByMany(h) ==
  /\ LogicalBlock(h) + 1 \in DOMAIN table[h]
  /\ ref_count[table[h][LogicalBlock(h) + 1]] > 2

(* The block that h writes to next has other readers. *)
Shared(h) ==
  /\ LogicalBlock(h) + 1 \in DOMAIN table[h]
  /\ ref_count[table[h][LogicalBlock(h) + 1]] > 1

(* write_token into a private block. *)
WriteInPlace(h, t) ==
  /\ MayWrite(h)
  /\ LogicalBlock(h) + 1 \in DOMAIN table[h]
  /\ ~Shared(h)
  /\ data' = [data EXCEPT ![table[h][LogicalBlock(h) + 1]][Offset(h)] = t]
  /\ AppendToken(h, t)
  /\ UNCHANGED <<free, ref_count, spawning, created, table, cancelled, spawns>>

(* Mutation: the copied block keeps the reference of h. *)
CopyKeepsReference(h, b, t) ==
  /\ MayWrite(h)
  /\ Shared(h)
  /\ b \in free /\ \A c \in free : b <= c
  /\ LET old == table[h][LogicalBlock(h) + 1]
     IN  /\ free' = free \ {b}
         /\ ref_count' = [ref_count EXCEPT ![b] = 1]
         /\ data' = [data EXCEPT ![b] =
                       [data[old] EXCEPT ![Offset(h)] = t]]
  /\ table' = [table EXCEPT ![h][LogicalBlock(h) + 1] = b]
  /\ AppendToken(h, t)
  /\ UNCHANGED <<spawning, created, cancelled, spawns>>

(* write_token into a copy of a shared block: clone, then decref, which     *)
(* leaves the old block at least one reference.                             *)
WriteInCopy(h, b, t) ==
  /\ MayWrite(h)
  /\ Shared(h)
  /\ b \in free /\ \A c \in free : b <= c
  /\ LET old == table[h][LogicalBlock(h) + 1]
     IN  /\ free' = free \ {b}
         /\ ref_count' = [ref_count EXCEPT ![b] = 1, ![old] = @ - 1]
         /\ data' = [data EXCEPT ![b] =
                       [data[old] EXCEPT ![Offset(h)] = t]]
  /\ table' = [table EXCEPT ![h][LogicalBlock(h) + 1] = b]
  /\ AppendToken(h, t)
  /\ UNCHANGED <<spawning, created, cancelled, spawns>>

NeedsBlock(h) == LogicalBlock(h) + 1 \notin DOMAIN table[h] \/ Shared(h)

(* Mutation: decref before clone. *)
FailsAfterDecref(h) ==
  /\ MayWrite(h)
  /\ NeedsBlock(h)
  /\ free = {}
  /\ ref_count' = IF Shared(h)
                  THEN [ref_count EXCEPT ![table[h][LogicalBlock(h) + 1]] = @ - 1]
                  ELSE ref_count
  /\ UNCHANGED <<free, data, spawning, created, table, tokens, cancelled, spawns>>

(* OutOfMemoryError leaves write_token before anything has changed: clone   *)
(* allocates first, and the shared block keeps its reference.               *)
WriteFails(h) ==
  /\ MayWrite(h)
  /\ NeedsBlock(h)
  /\ free = {}
  /\ UNCHANGED vars

(* cancel: decref on every block of h, which frees those without readers.   *)
Cancel(h) ==
  /\ Idle
  /\ h \in Live
  /\ LET held == Range(table[h])
         freed == {b \in held : ref_count[b] = 1}
     IN  /\ ref_count' = [b \in Blocks |->
                            IF b \in held THEN ref_count[b] - 1 ELSE ref_count[b]]
         /\ data' = [b \in Blocks |-> IF b \in freed THEN Blank ELSE data[b]]
         /\ free' = free \cup freed
  /\ table' = [table EXCEPT ![h] = <<>>]
  /\ cancelled' = cancelled \cup {h}
  /\ UNCHANGED <<spawning, created, tokens, spawns>>

Next ==
  \/ \E n \in 0 .. MaxPrompt, count \in 1 .. MaxHandles :
       \E prompt \in [1 .. n -> Token] : BeginSpawn(prompt, count)
  \/ \E b \in Blocks : SpawnBlock(b)
  \/ SpawnFails
  \/ EndSpawn
  \/ \E h \in Handles : WriteFails(h) \/ Cancel(h)
  \/ \E h \in Handles, t \in Token :
       \/ WriteInPlace(h, t)
       \/ \E b \in Blocks : WriteInNewBlock(h, b, t) \/ WriteInCopy(h, b, t)

Spec == Init /\ [][Next]_vars

-----------------------------------------------------------------------------
TypeOK ==
  /\ free \subseteq Blocks
  /\ data \in [Blocks -> [Offsets -> Token \cup {None}]]
  /\ ref_count \in [Blocks -> 0 .. MaxHandles]
  /\ spawning \in {None} \cup
       [prompt : Seq(Token), count : Handles, shared : Seq(Blocks)]
  /\ created \in 0 .. MaxHandles
  /\ table \in [Handles -> Seq(Blocks)]
  /\ tokens \in [Handles -> Seq(Token)]
  /\ cancelled \subseteq 1 .. created
  /\ spawns \subseteq [members : SUBSET Handles, length : 0 .. MaxPrompt]

Holders(b) == {h \in Handles : b \in Range(table[h])}

(* A held block has exactly as many references as page tables that map it,  *)
(* each once, and a block is free only when it has none: so decref frees a  *)
(* block with its last reader and never one that is still read.             *)
RefCountExact ==
  /\ TypeOK
  /\ \A h \in Handles : IsInjective(table[h])
  /\ \A b \in Blocks :
       /\ Holders(b) # {} => ref_count[b] = Cardinality(Holders(b))
       /\ b \in free <=> ref_count[b] = 0

(* visible_tokens: what h reads through its page table. *)
VisibleTokens(h) ==
  [i \in 1 .. Len(tokens[h]) |->
     data[table[h][(i - 1) \div BlockSize + 1]][(i - 1) % BlockSize]]

(* assert_isolation, for every completion that is not cancelled, those      *)
(* whose registry entry a later spawn replaced included: it reads exactly   *)
(* its own tokens, whatever its siblings write, copy or cancel.             *)
Isolation == \A h \in Live : VisibleTokens(h) = tokens[h]

(* Two completions of one spawn have a full block of its prompt in common   *)
(* for good, its last block until one of them writes to it, and no other.   *)
PromptShared ==
  \A s \in spawns : \A g, h \in s.members \cap Live : g # h =>
    \A k \in DOMAIN table[g] \cap DOMAIN table[h] :
      table[g][k] = table[h][k] <=>
        \/ k * BlockSize <= s.length
        \/ Len(tokens[g]) = s.length /\ Len(tokens[h]) = s.length

(* Completions of different spawns have no block in common. *)
StrangersApart ==
  \A g, h \in Live :
    g # h /\ (\A s \in spawns : ~({g, h} \subseteq s.members)) =>
      Range(table[g]) \cap Range(table[h]) = {}

(* "share prompt blocks and create private copies only before               *)
(* modification": what completions have in common is the prompt of their    *)
(* spawn, as far as neither of them has written to it.  Two spawns of the   *)
(* same prompt store it twice: no block is looked up by its content.        *)
SharedUntilWritten == PromptShared /\ StrangersApart

(* Writes, copies, cancellations and complete spawns lose no block: only a  *)
(* spawn that fails leaves allocated blocks without a reader.               *)
Orphans ==
  {b \in Blocks \ free : Holders(b) = {}} \
    (IF Idle THEN {} ELSE Range(spawning.shared))

OrphansOnlyBySpawn ==
  [][Orphans' \subseteq Orphans \/ (~Idle /\ Idle' /\ created' = created)]_vars

(* The pool is whole again once every completion is cancelled, as the demo  *)
(* asserts after its cancellations.                                         *)
AllFreeAfterCancel == Idle /\ Live = {} => free = Blocks
=============================================================================
