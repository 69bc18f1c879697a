---------------------------- MODULE HazardPointers ----------------------------
(***************************************************************************)
(* The hazard-pointer domain, its chunk pool, the per-thread contexts and  *)
(* the snapshot scan of src/hazard_pointer.hpp, with threads running the   *)
(* usage protocol the contexts exist for.                                  *)
(*                                                                         *)
(* Every thread owns at most one hazard_pointer_context at a time.  While  *)
(* it holds one it either reads the shared pointer (load, publish it in    *)
(* hazard slot 0, re-validate, use, clear) or replaces it (exchange in a   *)
(* fresh node and retire the old one with delete_item).  A context is     *)
(* destroyed by its thread, and the domain is destroyed once every thread  *)
(* is done.  Each step of a thread is one atomic access of shared memory   *)
(* in the code; a thread's private work between two such accesses is       *)
(* folded into the step that follows it.                                   *)
(***************************************************************************)
EXTENDS Integers, Sequences, FiniteSets, SequencesExt, HazardAlgorithms

CONSTANTS
  Threads,      \* thread ids (model values)
  Nodes,        \* node addresses the client may allocate (model values)
  InitNode,     \* the node published before any context exists
  NULL,         \* nullptr
  BlockSize,    \* [Threads -> Nat]: the template parameter S of each thread's context
  NumBlocks,    \* NUM_HAZP_CHUNK_BLOCKS, the bits of a chunk's bitmap (32 in the code)
  R,            \* [Threads -> Nat]: the template parameter R, the size of deleted[], of each thread's context
  Lifetimes,    \* how many contexts each thread constructs, one after another
  MaxOps        \* reads plus writes one context performs

ASSUME InitNode \in Nodes /\ NULL \notin Nodes
ASSUME BlockSize \in [Threads -> Nat \ {0}]
ASSUME NumBlocks \in Nat \ {0} /\ R \in [Threads -> Nat \ {0}]
ASSUME Lifetimes \in Nat \ {0} /\ MaxOps \in Nat

VARIABLES
  (* hazard_pointer_domain *)
  chunks,       \* the pool; chunks[Len(chunks)] is pools_head, chunks[c-1] its next
  deleteHead,   \* delete_head: the domain's LIFO of delete nodes, head first
  destroyed,    \* the domain destructor has run
  (* the client data *)
  shared,       \* the shared pointer the threads protect and replace
  allocated,    \* nodes allocated so far
  retired,      \* nodes handed to delete_item
  freeCnt,      \* [Nodes -> Nat]: how many times each node was deleted
  (* per thread *)
  pc,           \* program counter
  block,        \* hp_block as [c, b]: block b of chunk c, or NULL
  deleted,      \* deleted[0..R-1]
  delIndex,     \* del_index
  lives,        \* contexts the thread will still construct
  ops,          \* operations left to the current context
  rd,           \* the node a reader loaded and protects
  old,          \* the node a writer exchanged out and retires
  snapPos,      \* slots still to copy into the thread's snapshot
  snapVals,     \* mark-stripped values copied so far
  snapRet,      \* where the snapshot returns: "reclaimFree" or "collectFree"
  local,        \* collect()'s local_delete_head
  rsv           \* pools_reserve's chunk p and reserve_impl's expected, as [c, exp]

domainVars == <<chunks, deleteHead, destroyed>>
clientVars == <<shared, allocated, retired, freeCnt>>
threadVars == <<pc, block, deleted, delIndex, lives, ops, rd, old,
                snapPos, snapVals, snapRet, local>>
vars == <<domainVars, clientVars, threadVars, rsv>>

-----------------------------------------------------------------------------
(* Chunks *)

(* hp_count = blk_size * NUM_HAZP_CHUNK_BLOCKS *)
HpCount(c) == chunks[c].blk * NumBlocks

(* new hazp_chunk<T>(blocklen): every slot null, no block reserved *)
NewChunk(len) ==
  [blk |-> len, bitmap |-> {}, slots |-> [i \in 0..len * NumBlocks - 1 |-> NULL]]

(* The slots &haz_ptrs[ix * blk_size] .. + blk_size - 1 of block ix *)
BlockSlots(c, ix) == {ix * chunks[c].blk + j : j \in 0..chunks[c].blk - 1}

(* Hazard pointer 0 of the context that owns block bk *)
Slot0(bk) == bk.b * chunks[bk.c].blk

(* Set the slots S of chunk c to v *)
SetSlots(c, S, v) ==
  [chunks EXCEPT ![c].slots = [i \in DOMAIN @ |-> IF i \in S THEN v ELSE @[i]]]

(* The lowest clear bit of a bitmap that is not FULL *)
LowestFree(bm) == CHOOSE ix \in 0..NumBlocks-1 :
                    ix \notin bm /\ \A j \in 0..ix-1 : j \in bm

(* FULL: every bit of the bitmap set *)
FullBitmap == 0..NumBlocks-1

(* Pointers pushed by enqueue_for_delete(items, R): x = 0 .. R-1 is pushed *)
(* to the head one after another, so the last ends up first.              *)
EnqueueAll(items) ==
  Reverse(SelectSeq([x \in 1..Cardinality(DOMAIN items) |-> items[x-1]],
                    LAMBDA p : p # NULL))

(* Count the deletes of the pointers of sequence s, one per entry *)
FreeSeq(s) ==
  [n \in Nodes |-> freeCnt[n] + Cardinality({i \in DOMAIN s : s[i] = n})]

EmptyBuffer(t) == [x \in 0..R[t]-1 |-> NULL]

-----------------------------------------------------------------------------
(* hazard_pointers_snapshot *)

(* Mutant: the copy loop stops after the chunk it started from. *)
SlotOrderHeadOnly(h) ==
  IF h = 0 THEN <<>> ELSE [j \in 1..HpCount(h) |-> <<h, j - 1>>]

(* The order in which the constructor copies slots: from the captured     *)
(* pools_head (chunk h) along next, each chunk's slots in index order.     *)
SlotOrder(h) ==
  FlattenSeq([k \in 1..h |->
                LET c == h - k + 1 IN [j \in 1..HpCount(c) |-> <<c, j - 1>>]])

(* hps.search(p) over thread t's completed snapshot; HazardAlgorithms     *)
(* shows that the bisection and binary search answer membership of the    *)
(* mark-stripped values.  The client here never stores a marked pointer.  *)
Protected(t, p) == p \in snapVals[t]

Init ==
  /\ chunks = <<>>
  /\ deleteHead = <<>>
  /\ destroyed = FALSE
  /\ shared = InitNode
  /\ allocated = {InitNode}
  /\ retired = {}
  /\ freeCnt = [n \in Nodes |-> 0]
  /\ pc = [t \in Threads |-> "reserve"]
  /\ block = [t \in Threads |-> NULL]
  /\ deleted = [t \in Threads |-> EmptyBuffer(t)]
  /\ delIndex = [t \in Threads |-> 0]
  /\ lives = [t \in Threads |-> Lifetimes]
  /\ ops = [t \in Threads |-> 0]
  /\ rd = [t \in Threads |-> NULL]
  /\ old = [t \in Threads |-> NULL]
  /\ snapPos = [t \in Threads |-> <<>>]
  /\ snapVals = [t \in Threads |-> {}]
  /\ snapRet = [t \in Threads |-> "reclaimFree"]
  /\ local = [t \in Threads |-> <<>>]
  /\ rsv = [t \in Threads |-> [c |-> 0, exp |-> {}]]

Goto(t, l) == pc' = [pc EXCEPT ![t] = l]

-----------------------------------------------------------------------------
(* Context construction: hazard_pointer_domain::reserve *)

(* reserve() passes pools_head to pools_reserve, which reads it once: its *)
(* loop never advances p and calls reserve_impl on that chunk again and    *)
(* again.  An empty pool returns nullptr and reserve() calls pools_new; in *)
(* "reserve2", after pools_new, the pool is never empty.                   *)
ReserveEmpty(t) ==
  /\ pc[t] = "reserve"
  /\ chunks = <<>>
  /\ Goto(t, "poolsNew")
  /\ UNCHANGED <<domainVars, clientVars, block, deleted, delIndex, lives, ops,
                 rd, old, snapPos, snapVals, snapRet, local, rsv>>

(* pools_reserve(pools_head, S) on a non-empty pool: the head chunk is the *)
(* p of every later call, and reserve_impl reads expected = bitmap.        *)
ReserveHead(t) ==
  LET h == Len(chunks)
  IN
  /\ pc[t] \in {"reserve", "reserve2"}
  /\ h > 0
  /\ rsv' = [rsv EXCEPT ![t] = [c |-> h, exp |-> chunks[h].bitmap]]
  /\ Goto(t, "reserveCas")
  /\ UNCHANGED <<domainVars, clientVars, block, deleted, delIndex, lives, ops,
                 rd, old, snapPos, snapVals, snapRet, local>>

(* reserve_impl returns nullptr: len != blk_size, or expected is FULL.    *)
(* pools_reserve calls it again on the same chunk, which re-reads bitmap. *)
ReserveSpin(t) ==
  LET c == rsv[t].c
  IN
  /\ pc[t] = "reserveCas"
  /\ chunks[c].blk # BlockSize[t] \/ rsv[t].exp = FullBitmap
  /\ rsv' = [rsv EXCEPT ![t].exp = chunks[c].bitmap]
  /\ UNCHANGED <<domainVars, clientVars, threadVars>>

(* Mutant: the bit is set by a plain store of expected | mask, not a CAS. *)
ReserveCasNoCompare(t) ==
  LET c  == rsv[t].c
      ix == LowestFree(rsv[t].exp)
  IN
  /\ pc[t] = "reserveCas"
  /\ chunks[c].blk = BlockSize[t] /\ rsv[t].exp # FullBitmap
  /\ chunks' = [SetSlots(c, BlockSlots(c, ix), NULL)
                  EXCEPT ![c].bitmap = rsv[t].exp \cup {ix}]
  /\ block' = [block EXCEPT ![t] = [c |-> c, b |-> ix]]
  /\ deleted' = [deleted EXCEPT ![t] = EmptyBuffer(t)]
  /\ delIndex' = [delIndex EXCEPT ![t] = 0]
  /\ ops' = [ops EXCEPT ![t] = MaxOps]
  /\ Goto(t, "active")
  /\ UNCHANGED <<deleteHead, destroyed, clientVars, lives, rd, old,
                 snapPos, snapVals, snapRet, local, rsv>>

(* The CAS of bitmap from expected to expected | mask, mask the lowest    *)
(* clear bit of expected, succeeds: the block ix is reserved.  The        *)
(* constructor then nulls its S slots (placement new of hazard_pointer)   *)
(* and the deleted[] buffer.                                              *)
ReserveCas(t) ==
  LET c  == rsv[t].c
      ix == LowestFree(rsv[t].exp)
  IN
  /\ pc[t] = "reserveCas"
  /\ chunks[c].blk = BlockSize[t] /\ rsv[t].exp # FullBitmap
  /\ chunks[c].bitmap = rsv[t].exp
  /\ chunks' = [SetSlots(c, BlockSlots(c, ix), NULL)
                  EXCEPT ![c].bitmap = @ \cup {ix}]
  /\ block' = [block EXCEPT ![t] = [c |-> c, b |-> ix]]
  /\ deleted' = [deleted EXCEPT ![t] = EmptyBuffer(t)]
  /\ delIndex' = [delIndex EXCEPT ![t] = 0]
  /\ ops' = [ops EXCEPT ![t] = MaxOps]
  /\ Goto(t, "active")
  /\ UNCHANGED <<deleteHead, destroyed, clientVars, lives, rd, old,
                 snapPos, snapVals, snapRet, local, rsv>>

(* The CAS fails because another thread changed the bitmap since it was   *)
(* read; __atomic_compare_exchange writes the current bitmap to expected  *)
(* and the loop retries.                                                  *)
ReserveCasFail(t) ==
  LET c == rsv[t].c
  IN
  /\ pc[t] = "reserveCas"
  /\ chunks[c].blk = BlockSize[t] /\ rsv[t].exp # FullBitmap
  /\ chunks[c].bitmap # rsv[t].exp
  /\ rsv' = [rsv EXCEPT ![t].exp = chunks[c].bitmap]
  /\ UNCHANGED <<domainVars, clientVars, threadVars>>

(* pools_new: push a fresh chunk of blk_size S at pools_head (CAS loop).   *)
PoolsNew(t) ==
  /\ pc[t] = "poolsNew"
  /\ chunks' = Append(chunks, NewChunk(BlockSize[t]))
  /\ Goto(t, "reserve2")
  /\ UNCHANGED <<deleteHead, destroyed, clientVars, block, deleted, delIndex,
                 lives, ops, rd, old, snapPos, snapVals, snapRet, local, rsv>>

-----------------------------------------------------------------------------
(* The client's use of a context *)

(* Load the shared pointer to read it. *)
StartRead(t) ==
  /\ pc[t] = "active"
  /\ ops[t] > 0
  /\ ops' = [ops EXCEPT ![t] = @ - 1]
  /\ rd' = [rd EXCEPT ![t] = shared]
  /\ Goto(t, "rdStore")
  /\ UNCHANGED <<domainVars, clientVars, block, deleted, delIndex, lives, old,
                 snapPos, snapVals, snapRet, local, rsv>>

(* hazard_pointer_context::store(0, p): a release store into slot 0 of    *)
(* the context's block.                                                    *)
Store(t) ==
  /\ pc[t] = "rdStore"
  /\ chunks' = SetSlots(block[t].c, {Slot0(block[t])}, rd[t])
  /\ Goto(t, "rdValidate")
  /\ UNCHANGED <<deleteHead, destroyed, clientVars, block, deleted, delIndex,
                 lives, ops, rd, old, snapPos, snapVals, snapRet, local, rsv>>

(* Re-read the shared pointer: if it changed, protect the new value.       *)
Validate(t) ==
  /\ pc[t] = "rdValidate"
  /\ IF shared = rd[t]
       THEN Goto(t, "use") /\ UNCHANGED rd
       ELSE Goto(t, "rdStore") /\ rd' = [rd EXCEPT ![t] = shared]
  /\ UNCHANGED <<domainVars, clientVars, block, deleted, delIndex, lives, ops,
                 old, snapPos, snapVals, snapRet, local, rsv>>

(* Done with the node: store(0, nullptr). *)
EndRead(t) ==
  /\ pc[t] = "use"
  /\ chunks' = SetSlots(block[t].c, {Slot0(block[t])}, NULL)
  /\ rd' = [rd EXCEPT ![t] = NULL]
  /\ Goto(t, "active")
  /\ UNCHANGED <<deleteHead, destroyed, clientVars, block, deleted, delIndex,
                 lives, ops, old, snapPos, snapVals, snapRet, local, rsv>>

(* Exchange a freshly allocated node into the shared pointer; the old one  *)
(* is now unreachable and is retired next.                                 *)
StartWrite(t) ==
  /\ pc[t] = "active"
  /\ ops[t] > 0
  /\ \E m \in Nodes \ allocated :
       /\ shared' = m
       /\ allocated' = allocated \cup {m}
  /\ old' = [old EXCEPT ![t] = shared]
  /\ ops' = [ops EXCEPT ![t] = @ - 1]
  /\ Goto(t, "retire")
  /\ UNCHANGED <<domainVars, retired, freeCnt, block, deleted, delIndex, lives,
                 rd, snapPos, snapVals, snapRet, local, rsv>>

-----------------------------------------------------------------------------
(* hazard_pointer_context::delete_item and reclaim *)

(* Mutant: delete_item reclaims only once del_index exceeds R. *)
DeleteItemLate(t) ==
  /\ pc[t] = "retire"
  /\ deleted' = [deleted EXCEPT ![t][delIndex[t]] = old[t]]
  /\ delIndex' = [delIndex EXCEPT ![t] = @ + 1]
  /\ retired' = retired \cup {old[t]}
  /\ old' = [old EXCEPT ![t] = NULL]
  /\ IF delIndex[t] + 1 > R[t]
       THEN Goto(t, "snapBegin") /\ snapRet' = [snapRet EXCEPT ![t] = "reclaimFree"]
       ELSE Goto(t, "active") /\ UNCHANGED snapRet
  /\ UNCHANGED <<domainVars, shared, allocated, freeCnt, block, lives, ops, rd,
                 snapPos, snapVals, local, rsv>>

DeleteItem(t) ==
  /\ pc[t] = "retire"
  /\ deleted' = [deleted EXCEPT ![t][delIndex[t]] = old[t]]
  /\ delIndex' = [delIndex EXCEPT ![t] = @ + 1]
  /\ retired' = retired \cup {old[t]}
  /\ old' = [old EXCEPT ![t] = NULL]
  /\ IF delIndex[t] + 1 = R[t]
       THEN Goto(t, "snapBegin") /\ snapRet' = [snapRet EXCEPT ![t] = "reclaimFree"]
       ELSE Goto(t, "active") /\ UNCHANGED snapRet
  /\ UNCHANGED <<domainVars, shared, allocated, freeCnt, block, lives, ops, rd,
                 snapPos, snapVals, local, rsv>>

(* The snapshot constructor reads pools_head once ... *)
SnapBegin(t) ==
  /\ pc[t] = "snapBegin"
  /\ snapPos' = [snapPos EXCEPT ![t] = SlotOrder(Len(chunks))]
  /\ snapVals' = [snapVals EXCEPT ![t] = {}]
  /\ Goto(t, IF Len(chunks) = 0 THEN snapRet[t] ELSE "snapCopy")
  /\ UNCHANGED <<domainVars, clientVars, block, deleted, delIndex, lives, ops,
                 rd, old, snapRet, local, rsv>>

(* ... and copies the slots one plain load at a time (std::copy), while    *)
(* other threads keep storing into them.                                   *)
SnapCopy(t) ==
  LET s == Head(snapPos[t])
  IN
  /\ pc[t] = "snapCopy"
  /\ snapVals' = [snapVals EXCEPT ![t] = @ \cup {chunks[s[1]].slots[s[2]]}]
  /\ snapPos' = [snapPos EXCEPT ![t] = Tail(@)]
  /\ IF Len(snapPos[t]) = 1 THEN Goto(t, snapRet[t]) ELSE UNCHANGED pc
  /\ UNCHANGED <<domainVars, clientVars, block, deleted, delIndex, lives, ops,
                 rd, old, snapRet, local, rsv>>

(* Mutant: handing a full buffer to the domain leaves deleted[] as it was *)
(* (enqueue_for_delete without items_ptr[x] = nullptr).                    *)
ReclaimFreeKeepEscalated(t) ==
  LET d     == deleted[t]
      unpro == {ix \in 0..R[t]-1 : ~Protected(t, d[ix])}
      kept  == [ix \in 0..R[t]-1 |-> IF ix \in unpro THEN NULL ELSE d[ix]]
      di    == delIndex[t] - Cardinality(unpro)
  IN
  /\ pc[t] = "reclaimFree"
  /\ freeCnt' = FreeSeq([x \in 1..R[t] |-> IF x - 1 \in unpro THEN d[x-1] ELSE NULL])
  /\ IF di = R[t]
       THEN /\ deleteHead' = EnqueueAll(kept) \o deleteHead
            /\ UNCHANGED deleted
            /\ delIndex' = [delIndex EXCEPT ![t] = 0]
       ELSE /\ deleted' = [deleted EXCEPT ![t] = Compact(kept, NULL, R[t])]
            /\ delIndex' = [delIndex EXCEPT ![t] = di]
            /\ UNCHANGED deleteHead
  /\ snapVals' = [snapVals EXCEPT ![t] = {}]
  /\ Goto(t, "active")
  /\ UNCHANGED <<chunks, destroyed, shared, allocated, retired, block, lives,
                 ops, rd, old, snapPos, snapRet, local, rsv>>

(* reclaim() after its snapshot: delete every retired pointer the snapshot *)
(* does not hold; if none could be deleted, hand all R to the domain,      *)
(* else compact the survivors to the front of deleted[].                   *)
ReclaimFree(t) ==
  LET d     == deleted[t]
      unpro == {ix \in 0..R[t]-1 : ~Protected(t, d[ix])}
      kept  == [ix \in 0..R[t]-1 |-> IF ix \in unpro THEN NULL ELSE d[ix]]
      di    == delIndex[t] - Cardinality(unpro)
  IN
  /\ pc[t] = "reclaimFree"
  /\ freeCnt' = FreeSeq([x \in 1..R[t] |-> IF x - 1 \in unpro THEN d[x-1] ELSE NULL])
  /\ IF di = R[t]
       THEN /\ deleteHead' = EnqueueAll(kept) \o deleteHead
            /\ deleted' = [deleted EXCEPT ![t] = EmptyBuffer(t)]
            /\ delIndex' = [delIndex EXCEPT ![t] = 0]
       ELSE /\ deleted' = [deleted EXCEPT ![t] = Compact(kept, NULL, R[t])]
            /\ delIndex' = [delIndex EXCEPT ![t] = di]
            /\ UNCHANGED deleteHead
  /\ snapVals' = [snapVals EXCEPT ![t] = {}]
  /\ Goto(t, "active")
  /\ UNCHANGED <<chunks, destroyed, shared, allocated, retired, block, lives,
                 ops, rd, old, snapPos, snapRet, local, rsv>>

-----------------------------------------------------------------------------
(* hazard_pointer_domain::collect *)

(* Swap the shared delete list with an empty one, then take a snapshot.    *)
CollectSwap(t) ==
  /\ pc[t] = "collectSwap"
  /\ local' = [local EXCEPT ![t] = deleteHead]
  /\ deleteHead' = <<>>
  /\ snapRet' = [snapRet EXCEPT ![t] = "collectFree"]
  /\ Goto(t, "snapBegin")
  /\ UNCHANGED <<chunks, destroyed, clientVars, block, deleted, delIndex, lives,
                 ops, rd, old, snapPos, snapVals, rsv>>

(* Mutant: collect deletes what it may and drops the rest.                 *)
CollectFreeDropKept(t) ==
  /\ pc[t] = "collectFree"
  /\ freeCnt' = FreeSeq(SelectSeq(local[t], LAMBDA p : ~Protected(t, p)))
  /\ local' = [local EXCEPT ![t] = <<>>]
  /\ snapVals' = [snapVals EXCEPT ![t] = {}]
  /\ Goto(t, "dtorClear")
  /\ UNCHANGED <<domainVars, shared, allocated, retired, block, deleted,
                 delIndex, lives, ops, rd, old, snapPos, snapRet, rsv>>

(* Delete every payload the snapshot does not hold, keep the others.       *)
CollectFree(t) ==
  LET kept == SelectSeq(local[t], LAMBDA p : Protected(t, p))
  IN
  /\ pc[t] = "collectFree"
  /\ freeCnt' = FreeSeq(SelectSeq(local[t], LAMBDA p : ~Protected(t, p)))
  /\ local' = [local EXCEPT ![t] = kept]
  /\ snapVals' = [snapVals EXCEPT ![t] = {}]
  /\ Goto(t, IF kept = <<>> THEN "dtorClear" ELSE "collectPush")
  /\ UNCHANGED <<domainVars, shared, allocated, retired, block, deleted,
                 delIndex, lives, ops, rd, old, snapPos, snapRet, rsv>>

(* Put the survivors back on the shared list, one push_delete_node each.   *)
CollectPush(t) ==
  /\ pc[t] = "collectPush"
  /\ deleteHead' = <<Head(local[t])>> \o deleteHead
  /\ local' = [local EXCEPT ![t] = Tail(@)]
  /\ IF Len(local[t]) = 1 THEN Goto(t, "dtorClear") ELSE UNCHANGED pc
  /\ UNCHANGED <<chunks, destroyed, clientVars, block, deleted, delIndex, lives,
                 ops, rd, old, snapPos, snapVals, snapRet, rsv>>

-----------------------------------------------------------------------------
(* ~hazard_pointer_context *)

(* The thread ends its use of the context. *)
StartDestroy(t) ==
  /\ pc[t] = "active"
  /\ Goto(t, "dtorRelease")
  /\ UNCHANGED <<domainVars, clientVars, block, deleted, delIndex, lives, ops,
                 rd, old, snapPos, snapVals, snapRet, local, rsv>>

(* domain->release(hp_block): release_impl nulls the block's slots and    *)
(* flips its bit in the bitmap.                                            *)
DtorRelease(t) ==
  LET bk == block[t]
  IN
  /\ pc[t] = "dtorRelease"
  /\ chunks' = [SetSlots(bk.c, BlockSlots(bk.c, bk.b), NULL)
                  EXCEPT ![bk.c].bitmap = @ \ {bk.b}]
  /\ Goto(t, "dtorEnqueue")
  /\ UNCHANGED <<deleteHead, destroyed, clientVars, block, deleted, delIndex,
                 lives, ops, rd, old, snapPos, snapVals, snapRet, local, rsv>>

(* domain->enqueue_for_delete(deleted, R), then domain->collect(). *)
DtorEnqueue(t) ==
  /\ pc[t] = "dtorEnqueue"
  /\ deleteHead' = EnqueueAll(deleted[t]) \o deleteHead
  /\ deleted' = [deleted EXCEPT ![t] = EmptyBuffer(t)]
  /\ Goto(t, "collectSwap")
  /\ UNCHANGED <<chunks, destroyed, clientVars, block, delIndex, lives, ops,
                 rd, old, snapPos, snapVals, snapRet, local, rsv>>

(* Last, ~hazard_pointer on each of the S handles stores nullptr into the *)
(* slots of hp_block, a block the context released two calls earlier.      *)
DtorClear(t) ==
  LET bk == block[t]
  IN
  /\ pc[t] = "dtorClear"
  /\ chunks' = SetSlots(bk.c, BlockSlots(bk.c, bk.b), NULL)
  /\ block' = [block EXCEPT ![t] = NULL]
  /\ lives' = [lives EXCEPT ![t] = @ - 1]
  /\ Goto(t, IF lives[t] > 1 THEN "reserve" ELSE "done")
  /\ UNCHANGED <<deleteHead, destroyed, clientVars, deleted, delIndex, ops, rd,
                 old, snapPos, snapVals, snapRet, local, rsv>>

-----------------------------------------------------------------------------
(* ~hazard_pointer_domain, once every context is gone: collect() with no  *)
(* thread running, then the chunks are deleted.                            *)
DomainDestroy ==
  LET hps  == UNION {{chunks[c].slots[i] : i \in 0..HpCount(c) - 1}
                      : c \in 1..Len(chunks)}
      kept == SelectSeq(deleteHead, LAMBDA p : p \in hps)
  IN
  /\ \A t \in Threads : pc[t] = "done"
  /\ ~destroyed
  /\ freeCnt' = FreeSeq(SelectSeq(deleteHead, LAMBDA p : p \notin hps))
  /\ deleteHead' = Reverse(kept)
  /\ destroyed' = TRUE
  /\ UNCHANGED <<chunks, shared, allocated, retired, threadVars, rsv>>

(* The program has ended. *)
Terminated ==
  /\ destroyed
  /\ UNCHANGED vars

ThreadStep(t) ==
  \/ ReserveEmpty(t) \/ ReserveHead(t) \/ ReserveSpin(t)
  \/ ReserveCas(t) \/ ReserveCasFail(t) \/ PoolsNew(t)
  \/ StartRead(t) \/ Store(t) \/ Validate(t) \/ EndRead(t)
  \/ StartWrite(t) \/ DeleteItem(t)
  \/ SnapBegin(t) \/ SnapCopy(t) \/ ReclaimFree(t)
  \/ CollectSwap(t) \/ CollectFree(t) \/ CollectPush(t)
  \/ StartDestroy(t) \/ DtorRelease(t) \/ DtorEnqueue(t) \/ DtorClear(t)

Next ==
  \/ \E t \in Threads : ThreadStep(t)
  \/ DomainDestroy
  \/ Terminated

(* Threads are OS threads: none is descheduled forever, and the thread    *)
(* that owns the domain destroys it once the others are done.              *)
Fairness ==
  /\ \A t \in Threads : WF_vars(ThreadStep(t))
  /\ WF_vars(DomainDestroy)

Spec == Init /\ [][Next]_vars /\ Fairness

-----------------------------------------------------------------------------
(* Properties *)

TypeOK ==
  /\ \A c \in 1..Len(chunks) :
       /\ chunks[c].bitmap \subseteq 0..NumBlocks-1
       /\ chunks[c].slots \in [0..HpCount(c) - 1 -> Nodes \cup {NULL}]
  /\ deleteHead \in Seq(Nodes)
  /\ shared \in allocated /\ retired \subseteq allocated
  /\ freeCnt \in [Nodes -> Nat]
  /\ \A t \in Threads : /\ deleted[t] \in [0..R[t]-1 -> Nodes \cup {NULL}]
                        /\ delIndex[t] \in 0..R[t]
  /\ \A t \in Threads : block[t] = NULL \/ block[t].c \in 1..Len(chunks)
  /\ \A t \in Threads : rsv[t].exp \subseteq 0..NumBlocks-1

(* Thread t holds its block: it won the bitmap CAS and has not yet reached *)
(* release_impl in ~hazard_pointer_context (afterwards block still names   *)
(* the released block until DtorClear).                                    *)
HoldsBlock(t) ==
  /\ block[t] # NULL
  /\ pc[t] \notin {"dtorEnqueue", "collectSwap", "collectFree", "collectPush",
                    "dtorClear"}
  /\ ~(pc[t] \in {"snapBegin", "snapCopy"} /\ snapRet[t] = "collectFree")

(***************************************************************************)
(* reserve_impl hands out each block once: two threads that race on the    *)
(* bitmap of one chunk (the CAS at line 159, retried with the refreshed    *)
(* expected after a lost CAS) never hold the same block, and a held        *)
(* block's bit stays set until its owner releases it.                      *)
(***************************************************************************)
BlocksExclusive ==
  /\ \A t \in Threads : HoldsBlock(t) => block[t].b \in chunks[block[t].c].bitmap
  /\ \A t, u \in Threads :
       t # u /\ HoldsBlock(t) /\ HoldsBlock(u) => block[t] # block[u]

(***************************************************************************)
(* The safety promise of the SMR scheme: while a reader is between its     *)
(* successful re-validation and clearing its hazard pointer, the node it   *)
(* reads has not been deleted by reclaim(), collect() or the domain        *)
(* destructor of any thread.                                               *)
(***************************************************************************)
NoUseAfterFree ==
  \A t \in Threads : pc[t] = "use" => freeCnt[rd[t]] = 0

(***************************************************************************)
(* No retired node is deleted twice: reclaim's compaction, its hand-over   *)
(* of a full buffer to the domain, collect's push-back and the context     *)
(* destructor's enqueue never leave the same pointer in two places.        *)
(***************************************************************************)
NoDoubleFree ==
  \A n \in Nodes : freeCnt[n] <= 1

(***************************************************************************)
(* When the domain destructor has run, nothing is leaked and its asserts   *)
(* hold: delete_head is empty (assert(nullptr == delete_head)), no chunk   *)
(* has a reservation (assert(!p->has_reservations())), and every node      *)
(* ever retired was deleted.                                               *)
(***************************************************************************)
TeardownClean ==
  destroyed =>
    /\ deleteHead = <<>>
    /\ \A c \in 1..Len(chunks) : chunks[c].bitmap = {}
    /\ \A n \in retired : freeCnt[n] = 1

(***************************************************************************)
(* hazard_pointer_domain::reserve always succeeds: a thread constructing a *)
(* context eventually holds a block, creating a chunk of its block size    *)
(* when no chunk can serve it (spec 4.2, and the comment at the top of     *)
(* hazard_pointer.hpp: "uses or creates hazp_chunk<T> of matching          *)
(* blocksize").                                                            *)
(***************************************************************************)
ReserveCompletes ==
  \A t \in Threads :
    pc[t] \in {"reserve", "poolsNew", "reserve2"} ~> pc[t] = "active"
==============================================================================
