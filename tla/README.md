# TLA+ models of SplitOrderLists

This directory holds TLA+ models of `src/hazard_pointer.hpp`. That header has two parts:
- a hazard-pointer memory reclamation library (Michael's scheme);
- a lock-free split-ordered hash list built on it (Shalev and Shavit).

Each module is translated from the C++ source. Every modelled definition has a `map` entry in `PROJECT.json` that names the lines it models. To run a check:
- parse a module with `tlasany M.tla`;
- check a run with `tlc -workers 2 -config X.cfg M`.

## 1. The system

### Components and their state

| Component | Code (hazard_pointer.hpp) | Shared state | Per-thread state |
|---|---|---|---|
| `hazp_chunk` | 93-265 | `bitmap` (32 blocks), `haz_ptrs[]` slots, `next` chunk | – |
| `hazard_pointer_domain` | 283-484 | `pools_head` (chunk list, append only), `delete_head` (retired-node stack) | – |
| `hazard_pointers_snapshot` | 490-557 | – | sorted copy of every slot, `begin`/`end` |
| `hazard_pointer_context` / `hazard_pointer` | 559-754 | the reserved block of S slots | `deleted[R]`, `del_index` |
| key encoding, `solist_bucket`/`solist_node` | 794-862 | nodes: `key`, `next` (a mark_ptr: pointer and mark bit), `hashv` | – |
| `solist` | 875-956 | `buckets[]`, `size`, `n_items`, `max_bucket_length` | – |
| `solist_accessor` | 968-1331 | – | `prev`, `cur`, `next`, `steps` |
| `mark_ptr` (external header) | not in repo | – | – |

### How the components interact

A client thread owns a `hazard_pointer_context`. The context is built by the following steps:
1. `domain.reserve(S)` calls `pools_reserve`.
2. `pools_reserve` reads `pools_head` once and calls `hazp_chunk::reserve_impl` on that chunk until it succeeds.
3. `reserve_impl` reads the bitmap into `expected` and makes a CAS that sets the lowest clear bit. A lost CAS refreshes `expected` and retries.

The client protects a node in three steps:
1. It loads the node.
2. It stores the node into its slot with `store`.
3. It re-reads the shared pointer.

The client retires a node with `delete_item`. When `deleted[]` is full, `reclaim` runs:
1. It takes a snapshot, which copies every chunk's slots, sorts them and bisects past the nulls.
2. It frees every retired node that the snapshot does not hold.
3. If none was freed, it hands the whole buffer to the domain (escalation).
4. Otherwise it compacts the buffer.

`collect` swaps out the domain's list, frees what is unprotected and pushes back the rest. The context destructor releases the block, enqueues the buffer, collects and then destroys its handles. The domain destructor collects and frees everything left.

The split-ordered list keeps every item in one sorted linked list, ordered by bit-reversed hash:
- A bucket `i` points to a dummy node with key `rev(i)`.
- Data nodes have key `rev(h) | 1`.

The accessor's operations work as follows:
- `find_node` lazily calls `initialise_bucket`. That call uses `get_parent`, then makes a CAS to link a dummy, then publishes it in `buckets[]`. Then `find_node` walks to the key.
- `insert_node` makes a CAS on `cur->next`. It then runs the expansion check, which either expands the table (`expand`) or initialises a split bucket.
- `delete_node` marks `cur->next`, then makes a CAS on `prev->next` to unlink, then frees the node.

The accessor does not yet use hazard pointers: `hazp_init` is a TODO and `delete cur` is immediate.

### What is hard here

These behaviours are hard to test, and the model checker explores them. Each is listed with its line in `hazards` of `PROJECT.json`:
- the order in which a reader's store and a reclaimer's snapshot happen;
- two threads racing on one chunk's bitmap CAS;
- a destructor that runs while another thread reserves the same block;
- escalation of a full buffer, and its interaction with `collect`;
- the boundary cases of compaction and bisection;
- two threads initialising the same bucket;
- an insert racing a mark or an unlink;
- freeing a node that another traversal still holds;
- the index arithmetic of split and expand;
- the key collision in the top hash bit. `solist_node` builds its key through `sol_bucket_key`, whose assert at line 813 rejects such hashes, so the runs keep hashes below 2^(HashBits-1).

## 2. Modules

| Module | Models | Kind |
|---|---|---|
| `HazardAlgorithms` | compaction in `reclaim` (714-733); snapshot bisection, masking and search (519-556) | pure operators (RECURSIVE) |
| `MC_HazardAlgorithms` | checks those operators against set and membership definitions for every input up to size 4 | reference check |
| `HazardPointers` | chunks, domain, contexts, snapshot, reclaim, collect, both destructors, and client readers and writers | state machine, 2 threads |
| `MC_HazardPointers` | model values and block-size choices for the cfgs | MC |
| `SolistSet` | the list's contract: a set of hashes with atomic insert, delete and find (spec sections 6 and 8) | abstract spec |
| `Solist` | key encoding, `solist` and `solist_accessor`: every step of find, insert (with split and expand), initialise_bucket, delete and find_item_node | state machine, refines `SolistSet` |
| `MC_Solist` | thread model values and operation kinds; `SoloSpec` (fairness for one thread) | MC |

### HazardPointers

The per-thread state is a set of functions of the thread: a program counter `pc`, the reserved `block`, the `deleted[]` buffer, the snapshot in progress, and `rsv`, which holds `pools_reserve`'s chunk and `reserve_impl`'s `expected`. Each action is one step of a function body:
- `ReserveEmpty`, `ReserveHead` (the head chunk and the bitmap read), `ReserveCas` (the successful CAS), `ReserveCasFail` (a lost CAS writes the current bitmap back to `expected`), `ReserveSpin` (`reserve_impl` returns nullptr and is called again) and `PoolsNew`;
- `StartRead`, `Store`, `Validate`, `EndRead`;
- `DeleteItem`;
- `SnapBegin`, `SnapCopy` (one slot per step) and `ReclaimFree`;
- `CollectSwap`, `CollectFree`, `CollectPush`;
- `DtorRelease`, `DtorEnqueue`, `DtorClear`;
- `DomainDestroy`.

Each step performs exactly the shared accesses the code performs at that point.

Nodes are model values, and a freed node is never reused. The model counts the deletes of each node in `freeCnt`; `NoUseAfterFree` and `NoDoubleFree` read that count.

The client actions are written from the spec's usage scenario, because the repository has no hazard-pointer client other than the (TODO) accessor. They are the load, protect, re-validate and use of a shared pointer, and its replacement and retirement. They are marked `spec_modelled` in the map.

### Solist

The state is:
- `mem`, the node heap (hash, key, next, mark);
- `alloc`, `freed`, `size`, `nItems`;
- `tables`, every bucket array allocated, and `buckets`, the index of the current one (`Bkt == tables[buckets]`);
- `destroyed`, set once `~solist` has run;
- a per-thread frame `th[t]` with pc, the accessor's `prev`/`cur`/`next`/`steps`, the locals of `expand`, and the call and return labels of `find_node` and `initialise_bucket`.

The model follows the code closely:
- Every CAS follows the `mark_ptr` contract of spec section 6. `CAS(exp, new)` requires the word to be unmarked, as in the operator `Unmarked`. `CAS(exp, exp, true)` sets the mark.
- Keys are computed from `HashBits`-bit hashes by `RevBits`.
- `expand` takes one step per shared access: the allocation of the new array (`ExpAlloc`), the copy of one element (`ExpCopy`, which re-reads `size` as the loop does), the swap of `buckets` (`ExpSwap`) and the store of `size` (`ExpSize`). Other threads interleave with every one of them. Old arrays stay in `tables`; the model does not free them. Growth is bounded by `MaxSize`.
- `~solist` is the action `Destroy`. It runs once every thread has made all its calls, and frees the nodes reachable from `buckets[0]`.
- Allocation is bounded by `MaxNodes`, and operations per thread by `MaxOps`.
- The end of `initialise_bucket` takes one step per shared access: the re-read of `buckets[slot]` (line 1097, `IbPubCheck` or `IbDiscard`), the load of `cur->next` (line 1099, `IbPubRead`), and the store into the slot with the delete of a losing dummy (`IbPublishNew`, `IbPublishOther`).
- `freed` is a set of node ids, so a second delete of a node already freed does not show in it. The dummy freed at line 1119 while still linked is freed again by `~solist`; `NoLeak` does not see that double free, and `NoLinkedFreed` (in `sol_init_race`'s scenario) is what catches the linked free itself.
- A null dereference the code would do stops the thread. The model has no step for it, so it shows up as no further progress, not as a state.

The refinement mapping to `SolistSet` works as follows:
- `set` is the hashes of the linked data nodes, marked or not. A marked node stays in the set until its unlink CAS, which is where delete takes effect.
- An operation is applied (`lin`) at its linearisation step:
  - for insert, the successful link CAS;
  - for delete, the successful unlink CAS;
  - for a failing operation and for find, the step where `find_node` returns.

`ImplementsSet == Abstract!Spec` is checked as a PROPERTY.

### Linearizability with two threads

`ImplementsSet` fixes one linearisation step per call. That works for one thread, but not for calls that only observe the set. Examples are a find, an insert that finds its hash, and a delete that does not. Such a call reads nodes over several steps, so no single step of its own is the right one. `Solist` therefore also checks linearizability per hash:
- A set of hashes is a product of independent boolean objects, one per hash. Linearizability is local, so a history is linearizable exactly when it is so per hash.
- A call that changes the set takes effect at its CAS. `AtomicUpdate` checks this: the linked data nodes change only in a step where one thread's insert link CAS or delete unlink CAS succeeds. That step adds or removes exactly the thread's own hash, which was absent or present before.
- An observing call may take effect at any state between its invocation and its return. Two history fields of the frame, `sin` and `sout`, record whether the call's hash was in the set, and whether it was out of it, in some state since the call began. They are set by `Begin` and updated in every frame by the insert and unlink CASes (`SetSeen`); `AtomicUpdate` shows that these are the only steps that change the set. Like `lin` and `res`, they are not in the code. `Witnessed` checks that the result matches one of those states.

`Linearizable` is the conjunction of the two. It holds in `sol_conc`, which mixes inserts, deletes and finds, and in `sol_grow`, which mixes inserts and expansion. The mutant `DelMarkBlind` shows what it catches. That mutant sets the mark by a store instead of the CAS at line 1300. An insert linked behind `cur` after `find_node` is then dropped by the unlink.

## 3. Runs

| Run | cfg | Bounds | Result | Shows |
|---|---|---|---|---|
| hp_algorithms | MC_HazardAlgorithms | R=4, up to 4 slots, words 0..5 (odd = marked) | pass | Compaction keeps every survivor, in front. Bisection and search find every protected pointer. |
| hp_safety | MC_HazardPointers | 2 threads, S=1, R=1 for t1 and R=2 for t2, 2 ops each, 1 block per chunk | pass | No use after free, no double free, nothing leaked at teardown. Two threads racing on the bitmap CAS never hold the same block (`BlocksExclusive`). This holds through escalation, partial reclaim with compaction, a non-empty buffer at the destructor, and a thread that spins in `pools_reserve` on a full pool. |
| hp_ctx_clobber | ..._clobber | 2 lifetimes per thread | **violation** | The destructor nulls slots after the release (line 667), which allows a use after free |
| hp_reserve_mixed | ..._mixed | S=1 and S=2 | **violation** | `pools_reserve` never advances (line 324), so reserve spins forever |
| sol_seq | MC_Solist_seq | 1 thread, hashes {0,3,4,8,12}, 5 ops, size 4→8 | pass | The list is sorted, buckets are well formed, the count is right, and it implements the set. Split and expand both fire; expand never loses a published bucket (`NoLostBucket`), and `~solist` leaves nothing unfreed (`NoLeak`). |
| sol_conc | MC_Solist_conc | 2 threads, hashes {1,3}, 2 ops each | pass | Concurrent bucket initialisation, insert, mark and unlink keep the list sorted and the count right, and leak no node (`NoLeak`). Every call is linearizable (`Linearizable`). |
| sol_grow | MC_Solist_grow | 2 threads, 2 inserts each of hashes {1,5}, size 2→4, max_bucket_length 1 | pass | Overlapping expands, and the early return of an expand that another thread finished, keep the list sorted and the buckets well formed. Concurrent inserts stay linearizable across the expansion (`Linearizable`). |
| sol_lockfree | MC_Solist_lockfree | t1 inserts 3, t2 deletes 1, same bucket; only t1 fair | **violation** | A deleter that stops after its mark (line 1300) makes t1's insert retry forever: `find_node` walks past marked nodes (line 1142) and never helps unlink, so the list is not lock-free (`SoloProgress`) |
| sol_init_race | MC_Solist_initrace | 2 finds of hash 1 | **violation** | A linked, published dummy is deleted (line 1119) |
| sol_init_assert | MC_Solist_initassert | insert into 0 and find of 1 | **violation** | A stale `next` is published in `buckets[1]` (line 1111) |
| sol_uaf | MC_Solist_uaf | 2 threads, delete and find | **violation** | `delete cur` frees a node that another traversal then reads (line 1309) |
| sol_expand | MC_Solist_expand | 2 threads, inserts and finds of {0,1,2}, size 2→4 | **violation** | `expand` copies `buckets[]` while another thread publishes a dummy in a slot already copied; the swap (line 953) drops it (`NoLostBucket`) |

Every property of a passing run has a mutant in `PROJECT.json`: a plausible bug in the mapped code that makes the run fail. Every violation is a finding in `PROJECT.json`.

The split branch of `insert_node` has one more defect that the model reaches but no run keeps: `slot + nbuckets/2` (line 1280) is out of range for a slot in the upper half of the table. One thread inserting 3, 7 and 11 into a 4-bucket list with `max_bucket_length` 2 calls `initialise_bucket` with `slot = size`, failing the assert at line 1072. The model keeps the assert as the guard `slot < size` of the first step of `initialise_bucket`, so a thread past the range stops there. No run checks it: the hashes of the passing runs stay in the lower half, where a range invariant would hold trivially. It is recorded as the hazard at line 1280.

### Why the bounds are enough

- **Hazard pointers.** `R` is a template parameter of the context, so the model gives each thread its own (`R <- MixedBufferSize`): t1's buffer of 1 makes every retire reclaim and escalate, t2's buffer of 2 reaches partial frees and compaction. One block per chunk makes the pool fill after one reservation. Two threads that both find the pool empty each push a chunk. A thread that finds it non-empty but full spins in `pools_reserve` until the holder releases, as the code does (line 324); that spin is shown to be a livelock by `hp_reserve_mixed`. Two threads and four nodes allow one reader and one retirer per node, including a node that a reader protects while the other thread retires and reclaims it. Larger S or R adds slots but no new orderings of the store against the snapshot.
- **Hazard algorithms.** They are checked exhaustively up to size 4, which covers the empty, full, single and alternating patterns.
- **Solist, one thread.** Five operations over hashes that fall in buckets 0 and 4 force a bucket over `max_bucket_length` = 2. This reaches both a split and an expansion from 4 to 8 buckets.
- **Solist, two threads.** The concurrent run uses two hashes of the same bucket. This is the smallest case in which two initialisations, or an insert and a delete, contend on one `next` field.
- **Concurrent expansion.** In `sol_grow` each thread's second insert into bucket 1 reaches the threshold, so the two expands overlap in every order, or one returns early. Hashes 1 and 5 keep `slot + nbuckets` inside the table; hash 3 would send the early return out of range (hazard at line 1257). The state constraint `WithinBounds` cuts behaviours where a thread that passed the size check late would double the table past `MaxSize`, or where the heap of `MaxNodes` nodes is used up. It is a bound on the model, not on the code.
- **Expansion.** `sol_expand` starts with 2 buckets and `max_bucket_length` 1, so the second insert expands while the other thread initialises bucket 1; this is the smallest instance in which a publication can fall between the copy and the swap.
- **Violation runs.** Each uses the smallest configuration TLC found for its trace.

### Fairness

Every thread is an OS thread that the scheduler eventually runs, so each thread's step is weakly fair (`WF_vars(ThreadStep(t))`, `WF_vars(Step(t))`). The domain destructor runs once the threads are done, and it is weakly fair as well. No strong fairness is assumed. `Destroy` needs no fairness: it is the only step left once the threads are done, and `Finished` stutters after it. The liveness properties are `ReserveCompletes` and `SoloProgress`, both in runs that expect a violation. `ReserveCompletes` fails in `hp_reserve_mixed` under this fairness, so there the spin is a real livelock and not a scheduling artefact. No passing run states that every call returns: with one thread no CAS fails, so the retry loops are never entered and the property says nothing, and with two threads TLC's liveness check exceeds the time budget at the smallest racing instance.

`sol_lockfree` uses `SoloSpec`, which gives weak fairness to t1 only. A preempted thread may never run again, and lock-freedom promises that the others still finish. `SoloProgress` asks that each of t1's calls returns under this fairness. It is violated, which shows that the list is at most obstruction-free.

## 4. Not modelled, and the plan

The following are not modelled:
- Properties the project no longer states. A range invariant for `initialise_bucket`'s assert held only because the chosen hashes never reach an upper-half split; "every call returns" held with one thread only because no CAS can fail; "every reserve completes" in `hp_safety` held only because each client releases its block, while the code's full-pool spin (line 324) is the subject of `hp_reserve_mixed`; `NoLeak` in `sol_grow` held only inside `WithinBounds` and repeated `sol_seq` and `sol_conc`.
- `store(index, T**)` and `at()`. No code of the repository calls them; the stores the model needs are those of `store(index, T*)`.
- The copy constructor and assignment of the accessor.
- `speculative_expand`, which is dead code because its call at line 1221 is commented out.
- The `dump_*` helpers, which are I/O.
- `mark_ptr` and `reverse_hasht_bits`, which are not in the repository. They are modelled from the spec.

Planned next:
1. **Hazard pointers in the accessor.** Compose `HazardPointers` with `Solist` so that `delete_node` retires through a context, as the spec describes. Then check `NoUseAfterFree` against the `sol_uaf` scenario.
2. **Freed bucket arrays.** Split the load of the `buckets` pointer from the element access and free the old array at the swap (line 953). This is a use after free of the array. Showing it needs a run that expects a violation of its own, and the project already has twelve runs, each asking a different question. For now the hazard is listed without a property.
