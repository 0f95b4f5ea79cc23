# TLA+ models of the paged KV-cache simulator

The repository simulates the memory management of an inference server: a pool of
fixed-size blocks holds the tokens of requests, each of which reaches its tokens
through a page table. Three schedulers and a page table with copy on write are built on
such a pool, and a deadlock manager stands beside them. This directory holds their TLA+
models, the TLC configurations that check them, and proofs that TLAPS
checks.

    tlc -workers 2 -config PagedSafety.cfg MCPagedAllocator.tla
    tlapm PagedAllocator_proof.tla

## 1. Inventory

| Component (source) | State | Operations | Module |
|---|---|---|---|
| `PhysicalBlockAllocator`, `PageTable` (`paged_allocator.py` 14-97) | free set, token slots and owner of each block; page table of a request | `allocate`, `free`, `read`, `write`, `_check`, `assert_consistent`; `add`, `get` | `BlockPool` (data), `PhysicalBlockAllocator` (direct callers) |
| `PagedAllocator` (`paged_allocator.py` 100-242) | active requests, page tables, pool, peak | `generate_one_token`, `access_token`, `release_request`, `run` | `PagedAllocator` |
| `PreemptionEngine` (`scheduler.py` 55-205) | queue, active set, swap store, page tables, pool, hashes | `_preempt`, `_make_room`, `_restore`, `_admit`, `_generate`, `run` | `PreemptionEngine` |
| `SLAScheduler` (`scheduler.py` 220-336) | heap, active set, missed set, page tables, pool | `_queue`, `_admit`, `_generate`, `_check_deadlines`, `_finish`, `run` | `SLAScheduler` |
| `RefCountedAllocator`, `CopyOnWriteManager` (`bonus.py` 9-132) | reference counts, free set, slots; tables and tokens of the completions | `spawn`, `write_token`, `cancel`, `assert_isolation` | `CopyOnWrite` |
| `WaitForGraph`, `DeadlockManager` (`deadlock.py`) | adjacency sets, registered requests | `add_request`, `add_wait`, `remove_request`, `find_cycle`, `recover` | `DeadlockManager` |
| `NaiveContiguousAllocator` (`naive_allocator.py`) | flat memory, active requests, fragmentation samples, peak | `_find_first_fit`, `_reserve`, `_release`, `_try_allocate`, `run` | `NaiveAllocator` |
| Comparison of the two allocators (`main.py`) | one workload, two copies of it | both simulations, one after the other | `HeadToHead` |
| Workloads (`workload.py`) | lists of requests | random sampling, `clone_workload`, `group_by_arrival` | initial states and arrivals of the models |
| `CorrectnessHarness` (`correctness.py`) | none of its own | failure injections, `check_active_requests` | careless callers of `PhysicalBlockAllocator`; what it checks of requests is in the invariants of the schedulers |
| CLI, reports, stress drivers (`main.py`, demos) | none | printing | not modelled: pure I/O |

The components interact by calls in one thread, never by messages: a simulation
owns its pool, and requests are records that the simulation and the page-table
wrapper mutate. What is hard about them is not thread interleaving but

- **iteration over state that the iteration changes**: the generation loop of the
  preemption engine walks a snapshot of the active ids while serving one id evicts
  others, before or after their turn;
- **deferred effects**: release at the end of a step, after others have allocated;
- **failure halfway**: an allocation that fails in the middle of a restore, of a
  spawn or of a generation loop;
- **stale identifiers**: a block id that its holder freed, and that the pool gave to
  someone else;
- **limits**: an empty pool, the admission limit, budgets and deadlines hit exactly,
  the first and the last token of a block;
- **search order**: a depth-first search over dictionaries and sets whose order is the
  callers' or the interpreter's;
- **progress**: requests that evict each other, or that hold blocks while they wait
  for more.

Correctness of each component: tokens read back as written and by their own request
only (all); no block leaked or counted twice (all); rejections only when memory is
really exhausted and one token per step (paged allocator); the first gap that is long enough
and reservations that neither overlap nor leak (contiguous allocator); no
rejection with pages where there is none without (comparison); resumption exactly where a
request was stopped, and convergence (preemption); budgets, deadlines and ranks
respected, and termination (SLA); exact reference counts and copies only when needed
(copy on write); an exact and linear search, and evictions only from a cycle (deadlock).

Part of the top-level `README.md` of the repository describes a prefix cache, a
distributed page table and node failures. No such code exists, so nothing here models
it. What `bonus.py` does with equal prompts instead is part of `SharedUntilWritten`:
completions of different calls of `spawn` never have a block in common.

## 2. Modules

    BlockPool                 the pool as a record, page tables as sequences, address arithmetic
      PhysicalBlockAllocator  the pool under direct callers, careful and careless
      PagedAllocator          ---- implements ---> TokenStore
      PreemptionEngine        ---- implements ---> TokenStore
      SLAScheduler            ---- implements ---> TokenStore
      BlockPool_proof         lemmas about the operators of BlockPool
        PagedAllocator_proof          blocks, rejections, refinement, end of the run
        PhysicalBlockAllocator_proof  proofs for any callers of the pool
        SLAScheduler_proof            budgets, deadlines, ranks, stalls, refinement
        PreemptionEngine_proof        eviction, restoration, refinement, end of the run
    TokenStore                abstract specification: private token sequences, no blocks
    NaiveAllocator            contiguous reservations, first fit
      HeadToHead              both allocators on one workload: composes NaiveAllocator
                              and an INSTANCE of PagedAllocator
        HeadToHead_proof      reservations, scan, schedule, samples; the comparison, with
                              an INSTANCE of PagedAllocator_proof for its paged half
    CopyOnWrite               reference counts and copies (a pool of its own, as in bonus.py)
      CopyOnWrite_proof       counts, isolation, sharing
    DeadlockManager           wait-for graph, depth-first search and recovery
      DeadlockManager_proof   proof that the search is exact and linear
    MC*                       the instances for TLC

**BlockPool.** A `Pool` record has the three fields of `PhysicalBlockAllocator`:
`free`, `data` and `owner`; Python's absent owner and empty slot are `None`.
`Allocate`, `Free`, `Write` return the pool after the call; the exceptions are guards
of the actions that use them. Since `min(free_blocks)` is taken, allocation is
deterministic and `Least` states it. A page table is the sequence of the physical
blocks of logical blocks 0, 1, 2, ...: `PageTable.add` refuses to remap and every
caller adds the next logical block, so the dictionary never has a gap, and
`BoundaryMissError` is an index outside the sequence (in `TokensReadable` and
`NoIdleBlocks`). A token is the pair of request and index from which the code formats
its text.

**PhysicalBlockAllocator.** `live[r]` are the ids that a caller was given and did not
free, `stale[r]` those it freed and still remembers. With `careless` false a caller
uses live ids only; with `careless` true it also uses stale ids and the invalid id one
past the last block, as the injections of `correctness.py` do. `last` records the
answer of the last call.

**PagedAllocator.** One action per arm of the loop of `run()`: `Arrive` (the arrivals
of the step), `GenerateInBlock`, `GenerateInNewBlock`, `Reject` (one request of the
generation loop), `EndStep` (all releases and `step += 1`), `Return`. The page table
entry, the stored token, the counter, the peak and the completion test of one
iteration are one action, since nothing runs between them.

**PreemptionEngine.** The loops of `_admit`, `_make_room`, `_restore` and of the
generation are unrolled, one action per iteration; `phase`, `attempts`, `restoring`
and `todo` are the program counter. Both calls of `_admit` in a step are modelled, and
so is the snapshot of ids over which generation iterates. Completion inside the loop
frees the blocks at once, as the code does, and so makes room for the next id.
`token_sequence` is kept beside the blocks because the code keeps both, restores one
from the other and hashes it. `output` is what `completed_hashes` hashed.

**SLAScheduler.** The heap is a set with the order of its keys. Admission,
`_check_deadlines`, generation, the second admission and the second check are the
phases of a step. `done` holds the ends of the step with their reason, as in the code:
they take effect after the loop.

**CopyOnWrite.** `spawn` is unrolled into one action per allocated block, because it
can fail halfway. The three branches of `write_token` are three actions, and
`WriteFails` is its `OutOfMemoryError`, in either of the branches that allocate. Tokens
are the plain texts of the code: siblings may write equal ones and two calls of `spawn`
may pass equal prompts. Registry keys
only select which completions `assert_isolation` looks at; the model keeps every
completion under its own number and states isolation for all of them. The variable
`spawns` is a history that no action reads: which completions came from one call, and
how long its prompt was.

**DeadlockManager.** The recursive `dfs` of `find_cycle` is unrolled into one action per
iteration: `VisitRoot` (outer loop), `Descend` (white neighbour), `SkipFinished` (black),
`Leave` (return of the empty list), and `BackEdge` (grey), on which the search ends.
`stack` is Python's call stack, `left[n]` what the loop of `dfs(n)` has not looked at. The
order of nodes and neighbours is left open. `CycleTo` walks along `parent` and reverses,
as the code does. `phase` tells the two searches of `recover` apart: the first one ends in
`EvictVictim` or, if a request of the cycle was never registered, in `LookupFails`
(Python's `KeyError`), the second in `StillDeadlocked` or `NoCycleLeft`. The public
operations of the graph, which callers reach through `manager.graph`, are actions too.

**NaiveAllocator.** The loop of `run()`: `BeginStep` takes the arrivals of the step,
`Try` sets one of them waiting, `ScanFree` and `ScanTaken` are one iteration of
`_find_first_fit` each, `Reserve` and `Reject` its two ends, `GenerateAndRelease` the
rest of the step. The scan is unrolled because counting the current run is where
first fit can go wrong; the rest of a step is one action because its iterations touch
only their own request, and the releases wait for the end of the loop in the code too.
`Gap(s)` is the run of free slots around `s`, stated without a scan, so that the counting
of `_find_first_fit` and the gaps that the metric measures are compared with each other.

**HeadToHead.** `main.py` runs both simulations on clones of one workload, with the same
memory in tokens. The module runs the contiguous allocator to its end and then the paged
one (`paged_` variables), which starts from the same arrivals and lengths, and compares
what is left of both.

**TokenStore.** What paged memory promises: each request has a private sequence that
only its own generation extends and that leaves memory as a whole. The three
schedulers are refined to it by reading each request's tokens *through its page
table*, so a block mapped twice, a wrong offset, a stale block or a lost token is a
step the store cannot take.

### What is abstracted

- Text of tokens, hashes (compared as the sequences they are computed from), printing,
  memory maps, metrics and averages, and the counters of the reports.
- `finished_at` and `preemption_mode` of the schedulers, `token_sequence` of the paged
  allocator and of the SLA scheduler: written there and never read by the modelled code.
- The `status` of an evicted request and the edge count of a report in `deadlock.py`,
  which nothing reads; of `held_blocks`, everything but its size. Python's recursion limit.
- `swap_store` keeps the entries of completed requests in the code too; the model does
  not remove them either.
- `PreemptionEngine.step` stands still after the last arrival, since nothing reads it
  then; its `max_steps` is replaced by the liveness property, which says the same of
  every bound. `SLAScheduler` keeps `MaxSteps`: giving up is the behaviour studied.
- Branches that cannot be taken have no action, and a property says why: the give-up
  of `_restore` (`RestoreHasRoom`), the gap in `generate_one_token` (`NoIdleBlocks`),
  a completed request at the head of a queue (`OnePlace`).
- Of the contiguous allocator: the letters of the memory map, the internal fragmentation
  (a ratio of two sums), and the averages of the samples, which are kept as a set per
  step, each as the pair of counts it is the quotient of.
- Requests that arrive in the same step do so in id order: every workload of the
  repository lists them that way.

## 3. Runs

| Run | Instance | Shows |
|---|---|---|
| `PagedSafety` | 3 requests of 1-5 tokens, arrivals 0-2, 3 blocks of 2 | blocks private and accounted for, tokens readable exactly until release, one token per step, rejections justified, nothing leaked at the return, refinement of the store, `run()` returns |
| `PoolSafety` | 2 callers, 2 blocks of 1, stale and invalid ids | pool consistent whatever its callers do; careful callers are private and see no false alarm |
| `PoolStaleUse` (violation) | the same | stale ids are undetected after a reallocation |
| `PreemptionSafety` | 4 requests of 1-5 tokens, arrivals 0-1, 2 blocks of 2, limit 3, thresholds 1 and 2 | every safety property of eviction and restoration; convergence when every request keeps its tokens |
| `PreemptionLivelock` (violation) | 3 requests of 1-4 tokens, threshold 3, limit 2 | recomputation can go on for ever |
| `SLASafety` | 3 requests of 3 tokens, budgets none/2/3, 2 priorities, 2 deadlines, arrivals 0-1, 2 blocks of 2, limit 2 | budgets, deadlines and ranks exact, blocks private, giving up only in a deadlock, termination of workloads that fit |
| `SLAStall` (violation) | the same without late arrivals | hold and wait ends in a deadlock |
| `COWSafety` | 3 completions, prompts up to 3, 4 tokens of two texts, 4 blocks of 2 | counts exact, completions isolated, prompts shared within a spawn until written to and nothing else shared, no block lost but by a failed spawn |
| `DeadlockSafety` | every graph of waits among 3 requests, each unregistered or with 0-1 blocks and tokens | the search is exact and linear in every order, its cycle real, the victim on it, the answer true |
| `HeadToHead` | 3 requests of 1-4 tokens, arrivals 0-2, 6 slots or 3 blocks of 2 | reservations exact, first fit exact, samples all or nothing, one token per step; when reservations are whole blocks and the contiguous allocator rejects none, paging rejects none and its peak is no higher; whoever completes in both completes in the same step; both return |
| `NaiveSampling` (violation) | the contiguous allocator on the same instance | an attempt that is admitted leaves no fragmentation sample |
| `COWSpawnLeak` (violation) | 3 blocks of 2 | a failed spawn leaks its blocks |

**Why the bounds are enough.** Two slots per block distinguish the first and the last
token of a block; five tokens span three blocks, so that both boundaries are crossed.
Three requests on three blocks are the smallest instance in which one request is
rejected in the middle of a loop, a later one of the same step fits in its last block,
and a third arrives while rejected blocks are about to return. The assertion of
`PreemptionEngine.run` that the pool is oversubscribed at least three times is part of
its `Init`; with two blocks it takes requests that need three to four between them, and
the limit of three lets one request evict both others in one turn. The nine
tokens that a workload of `SLASafety` asks for take at most eleven steps when every step
after the last arrival generates one (`EnoughSteps`), so with `MaxSteps = 11` giving up is
a deadlock and not impatience, which `GivesUpOnlyInDeadlock` checks at this very bound.
Six slots hold a reservation of two in the middle of
two gaps of two, which together but not alone are long enough for the next; a gap of
exactly the length that is asked for, at each end of the memory; and a memory filled to
the last slot. Arrivals in three steps let a release come before, with and after the
attempt it makes room for. Three
nodes with waits for themselves give cycles of every length up to three, two disjoint or
overlapping cycles, a cycle behind finished nodes and one entered from outside; ties of
the victim's key are broken at each of its three places. Every
workload within the bounds is an initial state: the frozen variables `arrival_time`,
`actual_length`, `threshold`, `careless`, ... are chosen by `Init`. Requests are not
symmetric, because the code serves them in id order. Only `COWSafety` uses symmetry, of
the two texts of a token, which the code stores and compares and nothing else. Two texts
are enough to tell a slot that was overwritten from one that was not. Its view leaves
out the tokens of cancelled completions, which no action reads, and no property but for
their types.

**Fairness.** `FairSpec` is `Spec` with weak fairness of `Next`: the simulations are
single loops that nothing suspends and that never wait, so whenever a step is possible
the thread takes it. No action is given fairness of its own, so liveness never rests on
a choice the code might not make. `PhysicalBlockAllocator`, `CopyOnWrite` and
`DeadlockManager` are libraries: their callers may stop, so they have no fairness and no
liveness property. That a search returns follows from `LinearSearch`, since every step
uses up work, and from the check for deadlocks, since a search never stands still.
`COWSafety` and `COWSpawnLeak` do not check deadlock, since once every completion is
cancelled and none can be spawned no call is left; every other model ends in
`Terminated` or never ends.

## 4. What the runs found

- **Stale ids** (`PoolStaleUse`). `free` and `_check` look at the free set, not at the
  owner. Once a freed block is reallocated, a second `free` by its former owner releases
  the new owner's block and its accesses reach the new owner's tokens, while the
  docstrings promise detection. Under the discipline all schedulers follow
  (`LiveBlocksPrivate`) it does not happen.
- **Livelock of recomputation** (`PreemptionLivelock`). With a threshold above the block
  size, a request restored from swap evicts a short one, which is admitted again with no
  tokens in the next step, has the lower id and evicts it in turn. With threshold 1 (`Converges`) all requests complete.
- **Hold and wait** (`SLAStall`). Active requests that together hold the whole pool and
  each need one more block wait for ever; `run()` gives up. Where `max_steps` leaves one
  step per token, it never gives up for any other reason (`GivesUpOnlyInDeadlock`), and
  never at all if one block is left when
  every request has all it wants but one (`Terminates`).
- **Leak of a failed spawn** (`COWSpawnLeak`). Blocks taken before `OutOfMemoryError`
  keep their references and no completion owns them. `OrphansOnlyBySpawn` shows this is
  the only way to lose a block: neither a spawn that returns, nor a write, copied or
  failed, nor a cancellation does.
- **No prefix cache** (`COWSafety`). The top-level `README.md` lists "Prefix caching by
  block-content hash" (line 34, and line 50 for `bonus.py`). `spawn` allocates every block
  of its prompt and looks nothing up by content. `SharedUntilWritten` states what the code
  does: completions of one call share the blocks of its prompt, those of two calls with
  the same prompt have no block in common.
- **Samples of rejections only** (`NaiveSampling`). The top-level `README.md` says that
  external fragmentation is measured when an allocation is attempted (lines 97 and 103);
  the code keeps the measure of a failed attempt only. And a failed attempt never
  measures anything between the extremes: if no gap is long enough, all free memory is
  unusable (`SamplesAllOrNothing`). So the metric counts steps with rejections into a
  memory that is not full, and says nothing of how much was wasted.
- **Paging is not always better.** `PagedNeverWorse` holds when reservations are whole
  blocks. Without that condition it need not: two requests of three tokens fill a memory of six
  slots, and take four blocks of two where there are three.

## 5. Proofs

Each proof module proves its theorems for every value of the constants that the named
assumption of the model's module allows; its header says what that covers. Most have
the same shape. `IInv` (`DInv` in the deadlock manager) is a conjunction of named parts;
each part has a lemma that a step preserves it (`...Step`), which has a step per action or
per effect (`StepCases` brings actions with the same effect into one form); `InitIInv` and
`NextIInv` collect the parts, `Invariance` is the temporal step, and each theorem is
read off `IInv`. TLC checked the parts that are not properties of a run on the run's
instance before they were proved.

What the three schedulers share is in `BlockPool_proof`. `MemoryOK(p, t, n)` says of a
pool, the tables and a number of tokens per request that blocks are accounted for, free
ones blank, each table is long enough for its tokens, and each token is at its place.
It holds at the start (`MemoryNew`), is preserved by taking a block, storing a token and
releasing whole tables (`MemoryAllocate`, `MemoryStore`, `MemoryRelease`), makes every
request read its own tokens (`MemoryReads`), and leaves the pool as it was created when no
table is left (`MemoryWhole`). A scheduler only has to say what `n` is.

**Sums.** Several properties compare sums over requests, which the models write as folds
(`SumFunction`). Their values are known from counting: `Units(f, S)` has `f[x]` pairs for
each `x` in `S`, and `SumIsCount` says that the sum is its cardinality. Induction over a
finite set is not available as a rule, so its step is a lemma (`UnitsStep`) and the
induction the choice of a smallest counterexample. `UnitsFinite` does so for the units;
`SumIsCount` for the recursive function that the fold chooses, which exists because
counting is one. From this follow `UnitsBelowSum`, `SumSubset`, `SumScaled`,
`SumIncrement`, and `PagesCounted`: the allocated blocks of a pool are as many as the
entries of the page tables.

### The paged allocator

`PagedAllocator_proof` proves, for every finite set of requests, every workload, every
pool and every block size, nine theorems of `PagedAllocator`; seven state invariants of
the run `PagedSafety`, its refinement property, and that its run is finite.

| Theorem | Property |
|---|---|
| `TypeCorrect` | `TypeOK` |
| `NoBlockShared` | `NoSharedBlocks` |
| `BlocksMatchTokens` | `NoIdleBlocks` |
| `TokensAlwaysReadable` | `TokensReadable` |
| `NeverStalls` | `OnePerStep` |
| `NothingLeaks` | `NoLeakAtReturn` |
| `RejectionsJustified` | `RejectedOnlyIfFull` |
| `PagingInvisible` | `ImplementsTokenStore` |
| `RunIsFinite` | `Remaining` is a natural number, less after every action |

*Assumptions.* `BlockPoolAssumption` and `PagedAssumption` only: request ids are a
finite set of naturals, the pool and the blocks are not empty, `None` is no request and
no token. The block size being a power of two, which the constructor enforces, is
assumed and never used.

*Argument.* `TypeOK` is inductive by itself (`InitType`, `NextType`). The others need
the invariant `IInv`, whose parts depend on one another:

- `NoSharedBlocks` is preserved because a free block is in no table and a release
  returns whole tables (`AllocateAccounted`, `FreeAccounted`).
- `NoIdleBlocks` makes `logical == len(entries)` the right test for a new block, by the
  arithmetic of `BlocksForNext`; it needs `Untouched`, that a request has no tokens and
  no blocks before its arrival.
- `TokensStored` says that the token generated is the token stored. It needs both of
  the above: two places of the pool are the same only for the same request
  (`PlacesApart`) and the same token (`PlacesDiffer`), so a write changes the token it
  is meant for and no other (`WriteReads`).
- `OnlyActiveHold`, `FreeIsBlank` and `Lifecycle` say what is left of a request that has
  ended: nothing in its table, nothing in its blocks, and a final status.
- `Progress` counts the tokens of a request also in the middle of the generation loop.

`Generate` puts both ways to find room for a token in one form (`StepCases`), so each
part has one step for generation. `PagingInvisible` computes what requests read from
`IInv` (`ViewOfStore`) and maps every step to one of the store or a stutter
(`MappedStep`). TLC checked `IInv` on the instance of `PagedSafety` before it was
proved.

- *Rejections.* `Justified` adds that no request has more tokens than it wants and that
  the use of the pool never exceeds the recorded peak. Each active request then holds at
  most the blocks of its demand, and the blocks held are counted by `DemandHeld`. The
  request that is rejected holds fewer than it demands and the pool is full, so the
  demands of the active requests exceed the pool (`DemandExceeds`), and those of the whole
  workload do (`WorkloadExceeds`). The peak is that of a full pool from then on.
- *The end of the run.* `LastStep` is the last arrival plus the greatest length. A step is
  begun only while a request wants a token or is still to arrive (`InTime`), so
  `step < LastStep` during generation, and `Remaining` counts the steps to `LastStep` and
  the requests that this one has not served. This is the safety half of `Terminates`; the
  other half, that the loop takes a step whenever it can, is fairness and stays with TLC.
- *An allowance.* For the comparison below: if `f[r]` tokens are set aside for each
  request, as much as its blocks hold, and at no time more than `m` for the requests that
  want a token then, and `m` fits in the pool (`Afforded`), nobody is ever rejected and
  the peak is at most `m` tokens (`WithinStep`).

### The pool

`PhysicalBlockAllocator_proof` proves three invariants of `PoolSafety` for any number of
callers, blocks and slots, under `BlockPoolAssumption` alone.

| Theorem | Property |
|---|---|
| `AlwaysConsistent` | `PoolConsistent` |
| `CarefulIsPrivate` | `LiveBlocksPrivate` |
| `CarefulIsNotRefused` | `NoFalseAlarm` |

`PoolConsistent` is inductive with the types, also under careless callers. The other two
need `LiveIsOwned`: for careful callers the live ids of a request are exactly the blocks
that the pool records as its own, with the tokens it wrote. Two requests cannot both be
the owner of a block, which is `LiveBlocksPrivate`; and a live block is not free, so
`_check` and `free` accept it.

### The deadlock manager

`DeadlockManager_proof` proves four properties of `DeadlockSafety`, and one more,
for every set of request ids and every bound, finite or not, under `DeadlockAssumption`
(ids are natural numbers, `None` is neither an id nor an answer).

| Theorem | Property |
|---|---|
| `TypeCorrect` | `TypeOK` |
| `SearchIsPath` | `SearchPath`, of the proof module |
| `AnswersAreTrue` | `AnswerHonest` |
| `OnlyCycleEvicted` | `EvictsFromCycle` |
| `SearchIsLinear` | `LinearSearch` |

The invariant is `DInv`. A deadlock is a set of nodes each of which waits for one of the
set (`Deadlock`). That the search misses none is `FinishedAcyclic`, that there is no
deadlock among black nodes. `Leave` preserves it: a deadlock among the old black nodes
and the new one would contain the new one, which does not wait for itself; the old ones
wait only for black nodes (`Explored`), so without the new one they would be a deadlock
already. That it invents none is `SearchPath`: `CycleFound` shows that the cycle collected
along `parent` is the part of the call stack above the node that closes it. What the walk
along `parent` computes is shown without an induction rule: two functions that follow
`parent` from the same node cannot differ at a least place (`CallersAreStack`,
`LeastNat`). `VictimExists` shows that the key of the victim has one least request.

That the search is linear is about the cardinality of three sets: the waits that were not
looked at, the white nodes and the grey ones. The public operations are finitely many, so
the graph stays finite though the set of ids may not be (`GraphFinite`). Each action of
the search removes a wait (`WaitUsed`), turns a node from white to grey or from grey to
black, or does two of these (`WorkShrinks`).

### The contiguous allocator and the comparison

`HeadToHead_proof` proves five invariants of the run `HeadToHead` and that both of its
simulations end, for every finite set of requests, every workload and every size of the
memory. The first four are theorems of `NaiveAllocator` and need `NaiveAssumption` alone.

| Theorem | Property |
|---|---|
| `ReservationsHold` | `ReservationsExact` |
| `FirstFitCorrect` | `FirstFitExact` |
| `GeneratesOnTime` | `OnePerStep` |
| `SamplesExtreme` | `SamplesAllOrNothing` |
| `PagingNeverCostsMore` | `PagedNeverWorse` |
| `RunIsFinite` | `Remaining` of the contiguous allocator, less after every action |
| `ComparisonIsFinite` | `Remaining` of both allocators together, less after every action |

The invariant `IInv` has three parts beside the properties. `Lifecycle` ties `status` to
the place in the loop; it tells `_reserve` that the request holds nothing yet.
`Progress` counts tokens in every phase. `ScanInv` is the loop invariant of first fit:
the run counted is free, begins behind a taken slot or at slot 0, and no run before it
is long enough. `ScanStep` preserves it, because a fit ending at the current slot would
reach back over that taken slot; `FitStep` reads `FirstFitExact` off it. `AllUnusable`
is the reason for `SamplesExtreme`: if no `n` slots in a row are free, the gap of a free
slot lies between the least slot from which all is free and the least one that is not
(`LeastNat`, twice), and the interval between them is shorter than `n`.

*The comparison* also needs `HeadToHeadAssumption`: the block size is a power of two and
at most the memory, without which the constructor of the paged allocator raises
`ValueError`, and `None` is no token. The lemmas about the paged half are those of
`PagedAllocator_proof`, instantiated with the `paged_` variables (`P`). `HeadInv` holds
both invariants. While the contiguous allocator runs, it collects what the paged one will
rely on:

- `Peaked`: what the active requests reserve is at most the recorded peak, and that at
  most the memory (`ReservedFits`: reservations are disjoint intervals of slots).
- `Recorded`: if none was ever rejected, the requests that want a token in a step are all
  active once its arrivals have been served (`AliveActive`), so what they reserve together
  is at most the peak, in every step that is over.

When the contiguous allocator has returned without a rejection and reservations are whole
blocks, the peak is an allowance for the workload (`NaiveAffords`): the blocks of a request
hold no more tokens than it reserved. From there on `WithinStep` of the paged allocator
gives no rejection and a peak of blocks that holds at most the contiguous peak in tokens;
`BelowBlocksFor` rounds. That common requests complete in the same step is `OnePerStep` of
both.

*The end of the run.* `InTime` is as for the paged allocator. `Remaining` counts the steps
to `LastStep`, the attempts that this step has still to make, each of which may scan the
whole memory, and the slots that the scan under way has not looked at. In
`ComparisonIsFinite` either simulation leaves the other's part alone.

### The SLA scheduler

`SLAScheduler_proof` proves six properties of `SLASafety` for every finite set of
requests, every workload, pool, limit and number of steps. The assumptions are
`BlockPoolAssumption` and `SLAAssumption`; the latter says that `None` is no number, so
that "no budget" and "not started" are not mistaken for one.

| Theorem | Property |
|---|---|
| `RequestsInPlace` | `OnePlace` |
| `StopsAtBudget` | `BudgetExact` |
| `DeadlinesRecorded` | `MissedIffLate` |
| `PriorityRespected` | `NoPriorityInversion` |
| `StallsOnlyInDeadlock` | `GivesUpOnlyInDeadlock` |
| `SchedulingInvisible` | `ImplementsTokenStore` |

Why `IInv` needs more than the properties:

- `Lifecycle` ties `status`, the three sets and the records of a request together; in
  particular, a request that is still new has not been reached by the arrivals loop
  (`Unseen`), so the one that is taken last is never late for the heap.
- `Loop` and `Budget`: an end is decided in the generation loop and takes effect at
  the end of the step. Between the two a request is active and in `done`, with the tokens
  its reason says, and it is not served again. Every other active request has a token to
  generate. So the tests with `>=` (`scheduler.py` 308-311) are met with equality, as the
  assertion of a budget stop (321) says.
- `Waited` is why sampling the heap is enough. A waiting request that can still start in
  this step was seen by the last `_check_deadlines` or arrived after it. The only time at
  which neither holds no slot is free, so it cannot start before the next sample.
- `NoPriorityInversion` is inductive with `Lifecycle`: the request that leaves the heap
  outranks those that stay (`RankAsymmetric`), and those that arrive later have a
  later arrival.
- `GivesUpOnlyInDeadlock` is about workloads for which `max_steps` leaves a step for every
  token after the last arrival (`EnoughSteps`); with less, `run()` also gives up on
  schedules that would converge. It says that the active requests hold the whole pool
  *between them*: one of them may hold no block at all and wait for its first. `SInv`
  makes it inductive. Either the active requests wait for each other already, from where
  nothing can change (`DeadlockStays`), or at most as many steps are over as the tokens
  generated account for (`Advancing`), since a step in which somebody is active and nobody
  is served is the first of a deadlock (`AllStalled`). After that many steps every request
  has its tokens (`NobodyLeft`).

### The preemption engine

`PreemptionEngine_proof` proves six properties of `PreemptionSafety`, and the safety half
of a seventh (`Converges`), for every finite set of requests, every workload, pool,
threshold and limit. The assumptions are
`BlockPoolAssumption` and `PreemptionAssumption`; the latter says that `None`, the
absent entry of the swap store, is no sequence of tokens.

| Theorem | Property |
|---|---|
| `RequestsInPlace` | `OnePlace` |
| `SequencesSurvive` | `SequencesIntact` |
| `OutputsCorrect` | `OutputsVerified` |
| `RestoresSucceed` | `RestoreHasRoom` |
| `WorkKept` | `SwapKeepsWork` |
| `PreemptionInvisible` | `ImplementsTokenStore` |
| `RunIsFinite` | `Remaining` is a natural number, less after every action if each request fits the pool and the threshold is at most 1 |

- `Memory` counts the tokens of active requests only: a request under restoration holds
  blocks, but no token of it can be read yet. `MemoryRestore` is the step in which the
  last block is written and all its tokens appear at once.
- `Sequences` says where the sequence of a request is. A snapshot in the swap store may
  be older than the sequence, and is then of a request that is active; one that is queued
  again with tokens has been saved anew, and one that is queued without tokens never
  had a snapshot, because an entry means that the threshold was reached and tokens are
  never taken from there on (`tokens[r] >= threshold`).
- `Room` is an invariant across the steps of `_make_room` and `_restore`. Before a block
  is taken there is room or somebody to evict: with nobody active every table is empty
  and the pool is whole (`RoomCanBeMade`), and it is large enough for the request, since
  that had all its tokens in the pool once. That a request never has more tokens than the
  pool has places is part of `Room` and comes from `TableFits`: an injective table is no
  longer than the pool. From the first block on, each step takes one free block and needs
  one less.
- The refinement maps an eviction at or above the threshold to `SwapOut`, one below to
  `Discard`, the last block of a restoration to `SwapIn`, and the blocks before it to a
  stutter.
- `RunIsFinite` rests on three facts. With a threshold of at most 1 an evicted request
  keeps its tokens or has none (`NothingLost`). A request that fits the pool never evicts
  itself, since alone it would hold every block (`NeverItself`). After the last arrival the
  first `_admit` of a step ends with somebody active (`UnderWay`). So every step after
  the last arrival generates a token, however the requests evict each other. `Remaining`
  is the number of steps to come (arrivals to come, tokens to come, and one more while the
  token of this step has been generated, `Paid`) times a bound on the actions of a step
  (`StepActions`), plus what is left of the loops of this one (`InStep`).
  Above a threshold of 1 the first fact fails, and `PreemptionLivelock` shows that the
  theorem does too.

### Copy on write

`CopyOnWrite_proof` proves four properties of `COWSafety` for any number of completions,
prompts, tokens and blocks, under `COWAssumption` alone.

| Theorem | Property |
|---|---|
| `ReferencesCounted` | `RefCountExact` |
| `CompletionsIsolated` | `Isolation` |
| `CopiedOnlyToWrite` | `SharedUntilWritten` |
| `BlocksLostOnlyBySpawn` | `OrphansOnlyBySpawn` |

- `Refs` counts references. One step changes one entry of one table, so each of its
  lemmas (`RefsNewBlock`, `RefsCopy`, `RefsCancel`, ...) adds or removes one element of
  the set of holders of one or two blocks. It needs `Spawning`: the blocks of a spawn
  under way have the references of `count` completions and no reader, until `RefsEndSpawn`
  gives them all their readers in one step.
- Isolation is `Reads`. The three branches of `write_token` have one effect
  (`TokenWritten`): the writer has one more token at its place, nobody else's table
  changes, and the block written to is mapped by the writer alone, because it is new, a
  copy, or has a count of one, which by `Refs` is the number of its holders.
- `SharedUntilWritten` is preserved by a write because of where the write goes. All
  blocks of a table but the one of the next token are full (`OthersFull`), so the write
  leaves alone every full block of a prompt; and when it is done the writer alone has the
  block it wrote to (`WriterAlike`), which is what the property asks of the last block of
  a prompt once one of the siblings is longer than the prompt. `Members` says that the
  completions of a spawn exist and never get shorter than its prompt. Completions of
  different spawns stay apart (`ApartStep`), since a block that is new in a table was free
  before, or belonged to a spawn under way, which no table maps.
- `BlocksLostOnlyBySpawn` needs `Spawning` and `Tables`: at the end of a spawn every block
  it took gets a reader, the first of the new completions, since there is at least one.

### What is only model-checked

- Every invariant and every action property of the passing runs is proved. What is left of
  their properties is liveness: `Terminates` (of the paged allocator and of the SLA
  scheduler), `BothReturn` and `Converges`. They rest on fairness, whose proofs need
  `ENABLED`, which the provers cannot handle. For `PagedAllocator`, `PreemptionEngine` and
  `HeadToHead` the part that concerns the algorithm is proved (`RunIsFinite` of each,
  `ComparisonIsFinite`): no sequence of steps goes on for ever. TLC adds that none stops early. For the SLA scheduler, `MaxSteps`
  bounds the run by itself, and `StallsOnlyInDeadlock` says when it is reached.
- The violations are TLC's: a proof of their negation would need a state, which the
  counterexample shows.

## 6. Plan

1. Every component with a state is modelled, and every safety property that a run checks
   is a theorem.
2. `OnePlace` of the two schedulers, `PoolConsistent`, `RefCountExact` and
   `ReservationsExact` contain the types of their modules, so type correctness has no
   theorem of its own there.

**Not modelled.** Random sampling of workloads: a model takes every workload within its
bounds instead. Averages and ratios of metrics, the command line and the demos, which
compute nothing that the simulations read. Python's recursion limit, which a chain of
about a thousand waits would meet in `find_cycle` (`deadlock.py` 64).
