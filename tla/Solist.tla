-------------------------------- MODULE Solist --------------------------------
(***************************************************************************)
(* The split-ordered list of hazard_pointer.hpp (struct solist and class   *)
(* solist_accessor), one step per access to shared memory.                 *)
(*                                                                         *)
(* Shared state: the node memory (mem, alloc, freed), the bucket arrays    *)
(* (tables, buckets, size) and n_items.  Each thread runs one              *)
(* solist_accessor: its members prev, cur, next and steps, the locals of   *)
(* insert_node, expand, find_node and initialise_bucket, and a program     *)
(* counter, all in th[t].                                                  *)
(* find_node and initialise_bucket are called as subroutines: the caller   *)
(* stores the label to return to (fret, iret).                              *)
(*                                                                         *)
(* Pointers are node numbers, NULL is 0.  A node's next field is a         *)
(* mark_ptr_type: a pointer (next) and a mark bit (mark).  Freed nodes are *)
(* never reallocated, so a read of a freed node returns what it last held; *)
(* every such read sets uaf.                                                *)
(***************************************************************************)
EXTENDS Integers, Sequences, FiniteSets, SequencesExt

CONSTANTS
  Threads,          \* threads, each with its own solist_accessor
  Hashes,           \* hash values passed to the operations
  Kinds,            \* operations called: "insert", "delete", "find"
  HashBits,         \* width of hash_t in the model (32 in the code)
  InitSize,         \* solist(size): initial number of buckets
  MaxBucketLength,  \* solist(size, bucket_length): max_bucket_length
  MaxSize,          \* bound: largest table expand() may create
  MaxNodes,         \* bound: nodes that may be allocated in a behaviour
  MaxOps,           \* bound: operations per thread
  NoOp              \* op of a thread between operations

ASSUME \A h \in Hashes : h \in 0..2^HashBits - 1

VARIABLES
  mem,      \* mem[n]: fields hashv, key, data (is_node), next, mark of node n
  alloc,    \* nodes 1..alloc have been allocated with new
  freed,    \* nodes released with delete
  tables,   \* every bucket array allocated: tables[i] is [0..len-1 -> node]
  buckets,  \* so_list->buckets: the index in tables of the current array
  size,     \* so_list->size
  nItems,   \* so_list->n_items
  th,       \* th[t]: the accessor and call frames of thread t
  uaf,      \* some thread has read a freed node
  destroyed \* ~solist has run

vars == <<mem, alloc, freed, tables, buckets, size, nItems, th, uaf, destroyed>>

NULL == 0
DATABIT == 1
NodeIds == 1..MaxNodes
Ops == [kind : Kinds, h : Hashes]

(* reverse_hasht_bits over HashBits bits. *)
RECURSIVE RevBits(_, _)
RevBits(h, w) == IF w = 0 THEN 0
                 ELSE (h % 2) * 2^(w - 1) + RevBits(h \div 2, w - 1)

Rev(h) == RevBits(h, HashBits)

(* sol_node_key: reverse_hasht_bits(hashv) | DATABIT *)
NodeKey(h) == Rev(h) - (Rev(h) % 2) + DATABIT

(* sol_bucket_key: reverse_hasht_bits(hashv), asserted to be even. *)
BucketKey(h) == Rev(h)

(* The current bucket array, so_list->buckets. *)
Bkt == tables[buckets]

NodeRec(h, k, d) == [hashv |-> h, key |-> k, data |-> d, next |-> NULL, mark |-> FALSE]

Frame == [pc : STRING, op : Ops \cup {NoOp}, ops : 0..MaxOps,
          prev : 0..MaxNodes, cur : 0..MaxNodes, next : 0..MaxNodes,
          steps : Nat, dnode : 0..MaxNodes, nb : Nat, found : BOOLEAN,
          fret : STRING, fslot : Nat, islot : Nat, inode : 0..MaxNodes,
          iret : STRING, res : BOOLEAN, lin : BOOLEAN,
          etab : Nat, esize : Nat, ex : Nat, sin : BOOLEAN, sout : BOOLEAN]

TypeOK ==
  /\ alloc \in 1..MaxNodes
  /\ freed \subseteq 1..alloc
  /\ \A n \in NodeIds : mem[n].next \in 0..MaxNodes /\ mem[n].mark \in BOOLEAN
  /\ size \in {2^i : i \in 0..HashBits} /\ size <= MaxSize
  /\ buckets \in DOMAIN tables
  /\ \A i \in DOMAIN tables : \E k \in 0..HashBits : tables[i] \in [0..2^k-1 -> 0..MaxNodes]
  /\ 0..size-1 \subseteq DOMAIN Bkt
  /\ nItems \in Int
  /\ th \in [Threads -> Frame]
  /\ uaf \in BOOLEAN
  /\ destroyed \in BOOLEAN

(* solist(size, bucket_length): Bkt[0] = new solist_bucket(0). *)
Init ==
  /\ mem = [n \in NodeIds |-> NodeRec(0, BucketKey(0), FALSE)]
  /\ alloc = 1
  /\ freed = {}
  /\ tables = <<[s \in 0..InitSize-1 |-> IF s = 0 THEN 1 ELSE NULL]>>
  /\ buckets = 1
  /\ size = InitSize
  /\ nItems = 0
  /\ th = [t \in Threads |->
             [pc |-> "idle", op |-> NoOp, ops |-> MaxOps, prev |-> NULL,
              cur |-> NULL, next |-> NULL, steps |-> 0, dnode |-> NULL,
              nb |-> 0, found |-> FALSE, fret |-> "idle", fslot |-> 0,
              islot |-> 0, inode |-> NULL, iret |-> "idle", res |-> FALSE,
              lin |-> FALSE, etab |-> 0, esize |-> 0, ex |-> 0,
              sin |-> FALSE, sout |-> FALSE]]
  /\ uaf = FALSE
  /\ destroyed = FALSE

(* A step that dereferences the nodes in S. *)
Touch(S) == uaf' = (uaf \/ (S \ {NULL}) \cap freed # {})

Key(t) == NodeKey(th[t].op.h)
IKey(t) == BucketKey(th[t].islot)

(* The key of node n; no key for NULL. *)
KeyOf(n) == IF n = NULL THEN -1 ELSE mem[n].key

(* The accessor's advance(): prev = cur; cur = next; next = cur->next(). *)
Advanced(f) == [f EXCEPT !.prev = f.cur, !.cur = f.next, !.next = mem[f.next].next]

(* Frame of t after a call of initialise_bucket(s) that returns to r. *)
CallInit(f, s, r) == [f EXCEPT !.islot = s, !.iret = r, !.pc = "ib_check"]

Set(t, f) == th' = [th EXCEPT ![t] = f]

(* new: the next unused node, initialised with r. *)
New(r) == /\ alloc < MaxNodes
          /\ mem' = [mem EXCEPT ![alloc + 1] = r]
          /\ alloc' = alloc + 1

(* n->next.CAS(expected, new) succeeds: it compares the whole mark_ptr    *)
(* word with expected and mark 0.                                         *)
Unmarked(n, expected) == mem[n].next = expected /\ ~mem[n].mark

(* The nodes reachable from buckets[0] in memory m, in list order. *)
RECURSIVE ChainIn(_, _, _)
ChainIn(m, n, fuel) ==
  IF n = NULL \/ fuel = 0 THEN <<>> ELSE <<n>> \o ChainIn(m, m[n].next, fuel - 1)

(* The hashes of the data nodes linked in memory m: the set the list holds *)
HashesIn(m) ==
  LET linked == ToSet(ChainIn(m, Bkt[0], MaxNodes)) IN
  {m[n].hashv : n \in {x \in linked : m[x].data}}

(* History fields of a frame, for the linearizability check only: sin and *)
(* sout record whether the call's hash was in, or out of, the set in some *)
(* state since the call began.  The set changes only at the insert and    *)
(* unlink CASes (property AtomicUpdate), which update every frame.        *)
Observe(g, S) ==
  IF g.op = NoOp THEN g
  ELSE [g EXCEPT !.sin = @ \/ g.op.h \in S, !.sout = @ \/ g.op.h \notin S]

(* Set(t, f) for a step that leaves memory m, recording m in every frame *)
SetSeen(t, f, m) ==
  th' = [u \in Threads |-> Observe(IF u = t THEN f ELSE th[u], HashesIn(m))]

(***************************************************************************)
(* A client calls insert_node, delete_node or find_item_node.             *)
(***************************************************************************)
Begin(t) ==
  LET f == th[t] IN
  /\ f.pc = "idle"
  /\ f.ops > 0
  /\ \E o \in Ops :
       Set(t, [f EXCEPT !.op = o, !.ops = @ - 1, !.lin = FALSE,
                        !.sin = o.h \in HashesIn(mem), !.sout = o.h \notin HashesIn(mem),
                        !.pc = IF o.kind = "insert" THEN "ins_alloc" ELSE "f_slot",
                        !.fret = CASE o.kind = "insert" -> @
                                   [] o.kind = "delete" -> "del_mark"
                                   [] o.kind = "find"   -> "fnd_ret"])
  /\ UNCHANGED <<destroyed, mem, alloc, freed, tables, buckets, size, nItems, uaf>>

(* insert_node: nbuckets = so_list->size; dnode = new solist_node; the   *)
(* loop starts with find_node.                                           *)
InsAlloc(t) ==
  LET f == th[t] IN
  /\ f.pc = "ins_alloc"
  /\ New(NodeRec(f.op.h, NodeKey(f.op.h), TRUE))
  /\ Set(t, [f EXCEPT !.nb = size, !.dnode = alloc + 1, !.pc = "f_slot",
                      !.fret = "ins_try"])
  /\ UNCHANGED <<destroyed, freed, tables, buckets, size, nItems, uaf>>

(***************************************************************************)
(* find_node(hashv)                                                        *)
(***************************************************************************)
FSlot(t) ==
  LET f == th[t] IN
  /\ f.pc = "f_slot"
  /\ Set(t, [f EXCEPT !.fslot = f.op.h % size, !.pc = "f_bucket"])
  /\ UNCHANGED <<destroyed, mem, alloc, freed, tables, buckets, size, nItems, uaf>>

(* The bucket is uninitialised: initialise_bucket(slot). *)
FBucketInit(t) ==
  LET f == th[t] IN
  /\ f.pc = "f_bucket"
  /\ Bkt[f.fslot] = NULL
  /\ Set(t, CallInit(f, f.fslot, "f_start"))
  /\ UNCHANGED <<destroyed, mem, alloc, freed, tables, buckets, size, nItems, uaf>>

FBucketSet(t) ==
  LET f == th[t] IN
  /\ f.pc = "f_bucket"
  /\ Bkt[f.fslot] # NULL
  /\ Set(t, [f EXCEPT !.pc = "f_start"])
  /\ UNCHANGED <<destroyed, mem, alloc, freed, tables, buckets, size, nItems, uaf>>

(* prev = cur = buckets[slot]; next = cur->next(); steps = 0.  A null   *)
(* buckets[slot] (see IbAsserts) crashes the thread here.                *)
FStart(t) ==
  LET f == th[t]
      c == Bkt[f.fslot]
  IN
  /\ f.pc = "f_start"
  /\ c # NULL
  /\ Set(t, [f EXCEPT !.prev = c, !.cur = c, !.next = mem[c].next,
                      !.steps = 0, !.pc = "f_walk"])
  /\ Touch({c})
  /\ UNCHANGED <<destroyed, mem, alloc, freed, tables, buckets, size, nItems>>

(* Mutant: the walk stops before a node with an equal key. *)
FWalkOnLt(t) == th[t].next # NULL /\ mem[th[t].next].key < Key(t)

FWalkOn(t) == th[t].next # NULL /\ mem[th[t].next].key <= Key(t)

(* while (next && next->key <= key) { advance(); ++steps; } *)
FAdvance(t) ==
  LET f == th[t] IN
  /\ f.pc = "f_walk"
  /\ FWalkOn(t)
  /\ Set(t, [Advanced(f) EXCEPT !.steps = @ + 1])
  /\ Touch({f.next})
  /\ UNCHANGED <<destroyed, mem, alloc, freed, tables, buckets, size, nItems>>

(* Mutant: find_node reports any node it stops at as found. *)
FReturnNoKey(t) ==
  LET f == th[t] IN
  /\ f.pc = "f_walk"
  /\ ~FWalkOn(t)
  /\ Set(t, [f EXCEPT !.found = (f.cur # NULL), !.pc = f.fret])
  /\ Touch({f.next, f.cur})
  /\ UNCHANGED <<destroyed, mem, alloc, freed, tables, buckets, size, nItems>>

(* return cur && cur->key == key *)
FReturn(t) ==
  LET f == th[t] IN
  /\ f.pc = "f_walk"
  /\ ~FWalkOn(t)
  /\ Set(t, [f EXCEPT !.found = (f.cur # NULL /\ mem[f.cur].key = Key(t)),
                      !.pc = f.fret])
  /\ Touch({f.next, f.cur})
  /\ UNCHANGED <<destroyed, mem, alloc, freed, tables, buckets, size, nItems>>

(***************************************************************************)
(* insert_node(hashv, payload), after find_node                            *)
(***************************************************************************)
(* find_node found the key: break; delete dnode; zap(); return false *)
(* Mutant: the node allocated for the insert is not deleted when the key *)
(* is already present.                                                  *)
InsDuplicateKeep(t) ==
  LET f == th[t] IN
  /\ f.pc = "ins_try"
  /\ f.found
  /\ Set(t, [f EXCEPT !.res = FALSE, !.lin = TRUE, !.pc = "done"])
  /\ UNCHANGED <<destroyed, mem, alloc, freed, tables, buckets, size, nItems, uaf>>

InsDuplicate(t) ==
  LET f == th[t] IN
  /\ f.pc = "ins_try"
  /\ f.found
  /\ freed' = freed \cup {f.dnode}
  /\ Set(t, [f EXCEPT !.res = FALSE, !.lin = TRUE, !.pc = "done"])
  /\ UNCHANGED <<destroyed, mem, alloc, tables, buckets, size, nItems, uaf>>

(* Mutant: the insert uses the CAS that compares the pointer bits only, *)
(* so it also links after a node marked for deletion.                  *)
InsLinkIgnoreMark(t) ==
  LET f == th[t] IN
  /\ f.pc = "ins_try"
  /\ ~f.found
  /\ mem[f.cur].next = f.next
  /\ mem' = [mem EXCEPT ![f.dnode].next = f.next, ![f.cur].next = f.dnode]
  /\ SetSeen(t, [f EXCEPT !.res = TRUE, !.lin = TRUE, !.pc = "ins_inc"], mem')
  /\ Touch({f.cur})
  /\ UNCHANGED <<destroyed, alloc, freed, tables, buckets, size, nItems>>

(* dnode->next = next; cur->next.CAS(next, dnode) succeeds *)
InsLink(t) ==
  LET f == th[t] IN
  /\ f.pc = "ins_try"
  /\ ~f.found
  /\ Unmarked(f.cur, f.next)
  /\ mem' = [mem EXCEPT ![f.dnode].next = f.next, ![f.cur].next = f.dnode]
  /\ SetSeen(t, [f EXCEPT !.res = TRUE, !.lin = TRUE, !.pc = "ins_inc"], mem')
  /\ Touch({f.cur})
  /\ UNCHANGED <<destroyed, alloc, freed, tables, buckets, size, nItems>>

(* the CAS fails: the loop calls find_node again *)
InsRetry(t) ==
  LET f == th[t] IN
  /\ f.pc = "ins_try"
  /\ ~f.found
  /\ ~Unmarked(f.cur, f.next)
  /\ mem' = [mem EXCEPT ![f.dnode].next = f.next]
  /\ Set(t, [f EXCEPT !.pc = "f_slot"])
  /\ Touch({f.cur})
  /\ UNCHANGED <<destroyed, alloc, freed, tables, buckets, size, nItems>>

(* so_list->inc_item_count() *)
InsInc(t) ==
  LET f == th[t] IN
  /\ f.pc = "ins_inc"
  /\ nItems' = nItems + 1
  /\ Set(t, [f EXCEPT !.pc = "ins_next"])
  /\ UNCHANGED <<destroyed, mem, alloc, freed, tables, buckets, size, uaf>>

(* next = cur->next() *)
InsNext(t) ==
  LET f == th[t] IN
  /\ f.pc = "ins_next"
  /\ Set(t, [f EXCEPT !.next = mem[f.cur].next, !.pc = "ins_walk"])
  /\ Touch({f.cur})
  /\ UNCHANGED <<destroyed, mem, alloc, freed, tables, buckets, size, nItems>>

IWalkOn(t) == th[t].next # NULL /\ mem[th[t].next].data

(* while (next && next->is_node()) { advance(); ++steps; } *)
InsAdvance(t) ==
  LET f == th[t] IN
  /\ f.pc = "ins_walk"
  /\ IWalkOn(t)
  /\ Set(t, [Advanced(f) EXCEPT !.steps = @ + 1])
  /\ Touch({f.next})
  /\ UNCHANGED <<destroyed, mem, alloc, freed, tables, buckets, size, nItems>>

(* steps <= max_bucket_length: no expansion; zap(); return true *)
InsNoSplit(t) ==
  LET f == th[t] IN
  /\ f.pc = "ins_walk"
  /\ ~IWalkOn(t)
  /\ f.steps <= MaxBucketLength
  /\ Set(t, [f EXCEPT !.pc = "done"])
  /\ Touch({f.next})
  /\ UNCHANGED <<destroyed, mem, alloc, freed, tables, buckets, size, nItems>>

Overfull(f) == f.steps >= MaxBucketLength * 2 \/ nItems >= MaxBucketLength * size

(* slot = hashv % size; the bucket or the whole table is overfull *)
InsGrow(t) ==
  LET f == th[t] IN
  /\ f.pc = "ins_walk"
  /\ ~IWalkOn(t)
  /\ f.steps > MaxBucketLength
  /\ Overfull(f)
  /\ Set(t, [f EXCEPT !.islot = f.op.h % size, !.pc = "ins_expand"])
  /\ Touch({f.next})
  /\ UNCHANGED <<destroyed, mem, alloc, freed, tables, buckets, size, nItems>>

(* otherwise: initialise_bucket(slot + (nbuckets/2)) *)
InsSplit(t) ==
  LET f == th[t] IN
  /\ f.pc = "ins_walk"
  /\ ~IWalkOn(t)
  /\ f.steps > MaxBucketLength
  /\ ~Overfull(f)
  /\ Set(t, CallInit(f, (f.op.h % size) + (f.nb \div 2), "done"))
  /\ Touch({f.next})
  /\ UNCHANGED <<destroyed, mem, alloc, freed, tables, buckets, size, nItems>>

(***************************************************************************)
(* so_list->expand(nbuckets), one step per access of size or buckets,     *)
(* then initialise_bucket(slot + nbuckets).  The locals new_size,         *)
(* new_buckets and x are esize, etab and ex.                               *)
(***************************************************************************)
(* curr_size < size: another expand got there first; return *)
ExpDone(t) ==
  LET f == th[t] IN
  /\ f.pc = "ins_expand"
  /\ f.nb < size
  /\ Set(t, CallInit(f, f.islot + f.nb, "done"))
  /\ UNCHANGED <<destroyed, mem, alloc, freed, tables, buckets, size, nItems, uaf>>

ExpStart(t) ==
  LET f == th[t] IN
  /\ f.pc = "ins_expand"
  /\ f.nb >= size
  /\ Set(t, [f EXCEPT !.pc = "exp_alloc"])
  /\ UNCHANGED <<destroyed, mem, alloc, freed, tables, buckets, size, nItems, uaf>>

(* Mutant: new_buckets is allocated with the old size. *)
ExpAllocShort(t) ==
  LET f == th[t] IN
  /\ f.pc = "exp_alloc"
  /\ 2 * size <= MaxSize
  /\ tables' = Append(tables, [x \in 0..size-1 |-> NULL])
  /\ Set(t, [f EXCEPT !.esize = 2 * size, !.etab = Len(tables) + 1, !.ex = 0,
                      !.pc = "exp_copy"])
  /\ UNCHANGED <<destroyed, mem, alloc, freed, buckets, size, nItems, uaf>>

(* new_size = size * 2; new_buckets = make_unique<solist_bucket*[]>(new_size), *)
(* value-initialised to nullptr.                                               *)
ExpAlloc(t) ==
  LET f == th[t] IN
  /\ f.pc = "exp_alloc"
  /\ 2 * size <= MaxSize
  /\ tables' = Append(tables, [x \in 0..2*size-1 |-> NULL])
  /\ Set(t, [f EXCEPT !.esize = 2 * size, !.etab = Len(tables) + 1, !.ex = 0,
                      !.pc = "exp_copy"])
  /\ UNCHANGED <<destroyed, mem, alloc, freed, buckets, size, nItems, uaf>>

(* for (x = 0; x < size; ++x) new_buckets[x] = buckets[x]: one element per *)
(* step, re-reading size and the current array each time.                  *)
ExpCopy(t) ==
  LET f == th[t] IN
  /\ f.pc = "exp_copy"
  /\ f.ex < size
  /\ tables' = [tables EXCEPT ![f.etab][f.ex] = Bkt[f.ex]]
  /\ Set(t, [f EXCEPT !.ex = @ + 1])
  /\ UNCHANGED <<destroyed, mem, alloc, freed, buckets, size, nItems, uaf>>

(* Mutant: the copy loop stops one element short (x < size - 1). *)
ExpCopiedShort(t) ==
  LET f == th[t] IN
  /\ f.pc = "exp_copy"
  /\ f.ex >= size - 1
  /\ Set(t, [f EXCEPT !.pc = "exp_swap"])
  /\ UNCHANGED <<destroyed, mem, alloc, freed, tables, buckets, size, nItems, uaf>>

(* The copy loop ends; the loop that nulls new_buckets[size..new_size-1]   *)
(* stores the nullptr make_unique already put there.                        *)
ExpCopied(t) ==
  LET f == th[t] IN
  /\ f.pc = "exp_copy"
  /\ f.ex >= size
  /\ Set(t, [f EXCEPT !.pc = "exp_swap"])
  /\ UNCHANGED <<destroyed, mem, alloc, freed, tables, buckets, size, nItems, uaf>>

(* buckets.swap(new_buckets): the old array is released on return. *)
ExpSwap(t) ==
  LET f == th[t] IN
  /\ f.pc = "exp_swap"
  /\ buckets' = f.etab
  /\ Set(t, [f EXCEPT !.pc = "exp_size"])
  /\ UNCHANGED <<destroyed, mem, alloc, freed, tables, size, nItems, uaf>>

(* size = new_size; expand returns; initialise_bucket(slot + nbuckets) *)
ExpSize(t) ==
  LET f == th[t] IN
  /\ f.pc = "exp_size"
  /\ size' = f.esize
  /\ Set(t, CallInit(f, f.islot + f.nb, "done"))
  /\ UNCHANGED <<destroyed, mem, alloc, freed, tables, buckets, nItems, uaf>>

(***************************************************************************)
(* initialise_bucket(slot), get_parent(slot, key) included.  The assert   *)
(* slot < so_list->size is the guard of the first step; a thread whose    *)
(* slot is out of range goes no further.                                  *)
(***************************************************************************)
(* buckets[slot] != nullptr: return *)
IbAlready(t) ==
  LET f == th[t] IN
  /\ f.pc = "ib_check"
  /\ f.islot < size
  /\ Bkt[f.islot] # NULL
  /\ Set(t, [f EXCEPT !.pc = f.iret])
  /\ UNCHANGED <<destroyed, mem, alloc, freed, tables, buckets, size, nItems, uaf>>

(* node = new solist_bucket(slot) *)
IbStart(t) ==
  LET f == th[t] IN
  /\ f.pc = "ib_check"
  /\ f.islot < size
  /\ Bkt[f.islot] = NULL
  /\ New(NodeRec(f.islot, BucketKey(f.islot), FALSE))
  /\ Set(t, [f EXCEPT !.inode = alloc + 1, !.pc = "ib_parent"])
  /\ UNCHANGED <<destroyed, freed, tables, buckets, size, nItems, uaf>>

(* get_parent: prev = cur = Bkt[0]; the downward loop over the slots  *)
(* below slot ends by assigning Bkt[0] again, so the walk always      *)
(* starts at bucket 0; next = cur->next().                                *)
IbParent(t) ==
  LET f == th[t]
      c == Bkt[0]
  IN
  /\ f.pc = "ib_parent"
  /\ Set(t, [f EXCEPT !.prev = c, !.cur = c, !.next = mem[c].next,
                      !.pc = "ib_walk"])
  /\ Touch({c})
  /\ UNCHANGED <<destroyed, mem, alloc, freed, tables, buckets, size, nItems>>

BWalkOn(t) == th[t].next # NULL /\ mem[th[t].next].key < IKey(t)

(* get_parent: while (next && next->key < key) advance(); *)
IbAdvance(t) ==
  LET f == th[t] IN
  /\ f.pc = "ib_walk"
  /\ BWalkOn(t)
  /\ Set(t, Advanced(f))
  /\ Touch({f.next})
  /\ UNCHANGED <<destroyed, mem, alloc, freed, tables, buckets, size, nItems>>

(* node->next = next, then the loop condition: some thread published the *)
(* bucket, or next is another thread's dummy for it: leave the loop.      *)
IbFound(t) ==
  LET f == th[t] IN
  /\ f.pc = "ib_walk"
  /\ ~BWalkOn(t)
  /\ Bkt[f.islot] # NULL \/ KeyOf(f.next) = IKey(t)
  /\ mem' = [mem EXCEPT ![f.inode].next = f.next]
  /\ Set(t, [f EXCEPT !.pc = "ib_publish"])
  /\ Touch({f.next})
  /\ UNCHANGED <<destroyed, alloc, freed, tables, buckets, size, nItems>>

(* Mutant: the loop condition misses another thread's dummy for the     *)
(* slot and links a second one.                                          *)
IbLinkNoKey(t) ==
  LET f == th[t] IN
  /\ f.pc = "ib_walk"
  /\ ~BWalkOn(t)
  /\ Bkt[f.islot] = NULL
  /\ Unmarked(f.cur, f.next)
  /\ mem' = [mem EXCEPT ![f.inode].next = f.next, ![f.cur].next = f.inode]
  /\ Set(t, [f EXCEPT !.pc = "ib_publish"])
  /\ Touch({f.next, f.cur})
  /\ UNCHANGED <<destroyed, alloc, freed, tables, buckets, size, nItems>>

(* cur->next.CAS(next, node) succeeds: the dummy is linked *)
IbLink(t) ==
  LET f == th[t] IN
  /\ f.pc = "ib_walk"
  /\ ~BWalkOn(t)
  /\ Bkt[f.islot] = NULL
  /\ KeyOf(f.next) # IKey(t)
  /\ Unmarked(f.cur, f.next)
  /\ mem' = [mem EXCEPT ![f.inode].next = f.next, ![f.cur].next = f.inode]
  /\ Set(t, [f EXCEPT !.pc = "ib_publish"])
  /\ Touch({f.next, f.cur})
  /\ UNCHANGED <<destroyed, alloc, freed, tables, buckets, size, nItems>>

(* the CAS fails: do { get_parent(slot, key); ... } again *)
IbRetry(t) ==
  LET f == th[t] IN
  /\ f.pc = "ib_walk"
  /\ ~BWalkOn(t)
  /\ Bkt[f.islot] = NULL
  /\ KeyOf(f.next) # IKey(t)
  /\ ~Unmarked(f.cur, f.next)
  /\ mem' = [mem EXCEPT ![f.inode].next = f.next]
  /\ Set(t, [f EXCEPT !.pc = "ib_parent"])
  /\ Touch({f.next, f.cur})
  /\ UNCHANGED <<destroyed, alloc, freed, tables, buckets, size, nItems>>

(* if (so_list->buckets[slot] == nullptr): read once, before the branch *)
IbPubCheck(t) ==
  LET f == th[t] IN
  /\ f.pc = "ib_publish"
  /\ Bkt[f.islot] = NULL
  /\ Set(t, [f EXCEPT !.pc = "ib_pub_read"])
  /\ UNCHANGED <<destroyed, mem, alloc, freed, tables, buckets, size, nItems, uaf>>

(* if (cur->next() == node): one load of cur->next *)
IbPubRead(t) ==
  LET f == th[t] IN
  /\ f.pc = "ib_pub_read"
  /\ Set(t, [f EXCEPT !.pc = IF mem[f.cur].next = f.inode THEN "ib_pub_new"
                                                          ELSE "ib_pub_other"])
  /\ Touch({f.cur})
  /\ UNCHANGED <<destroyed, mem, alloc, freed, tables, buckets, size, nItems>>

(* Mutant: buckets[slot] is assigned cur, the node the dummy follows. *)
IbPublishNewCur(t) ==
  LET f == th[t] IN
  /\ f.pc = "ib_pub_new"
  /\ tables' = [tables EXCEPT ![buckets][f.islot] = f.cur]
  /\ Set(t, [f EXCEPT !.next = f.inode, !.pc = "ib_end"])
  /\ UNCHANGED <<destroyed, mem, alloc, freed, buckets, size, nItems, uaf>>

(* success: buckets[slot] = node; next = node *)
IbPublishNew(t) ==
  LET f == th[t] IN
  /\ f.pc = "ib_pub_new"
  /\ tables' = [tables EXCEPT ![buckets][f.islot] = f.inode]
  /\ Set(t, [f EXCEPT !.next = f.inode, !.pc = "ib_end"])
  /\ UNCHANGED <<destroyed, mem, alloc, freed, buckets, size, nItems, uaf>>

(* Mutant: the slot gets the thread's own node, not the one linked. *)
IbPublishOtherOwn(t) ==
  LET f == th[t] IN
  /\ f.pc = "ib_pub_other"
  /\ tables' = [tables EXCEPT ![buckets][f.islot] = f.inode]
  /\ freed' = freed \cup {f.inode}
  /\ Set(t, [f EXCEPT !.pc = "ib_end"])
  /\ UNCHANGED <<destroyed, mem, alloc, buckets, size, nItems, uaf>>

(* another thread linked its dummy: buckets[slot] = next; the assert    *)
(* reads next->key; delete node                                          *)
IbPublishOther(t) ==
  LET f == th[t] IN
  /\ f.pc = "ib_pub_other"
  /\ tables' = [tables EXCEPT ![buckets][f.islot] = f.next]
  /\ freed' = freed \cup {f.inode}
  /\ Set(t, [f EXCEPT !.pc = "ib_end"])
  /\ Touch({f.next})
  /\ UNCHANGED <<destroyed, mem, alloc, buckets, size, nItems>>

(* another thread published the bucket: delete node *)
(* Mutant: the dummy whose bucket another thread published is kept. *)
IbDiscardKeep(t) ==
  LET f == th[t] IN
  /\ f.pc = "ib_publish"
  /\ Bkt[f.islot] # NULL
  /\ Set(t, [f EXCEPT !.pc = "ib_end"])
  /\ UNCHANGED <<destroyed, mem, alloc, freed, tables, buckets, size, nItems, uaf>>

IbDiscard(t) ==
  LET f == th[t] IN
  /\ f.pc = "ib_publish"
  /\ Bkt[f.islot] # NULL
  /\ freed' = freed \cup {f.inode}
  /\ Set(t, [f EXCEPT !.pc = "ib_end"])
  /\ UNCHANGED <<destroyed, mem, alloc, tables, buckets, size, nItems, uaf>>

(* the closing asserts (invariant IbAsserts), then return *)
IbReturn(t) ==
  LET f == th[t] IN
  /\ f.pc = "ib_end"
  /\ Set(t, [f EXCEPT !.pc = f.iret, !.inode = NULL])
  /\ UNCHANGED <<destroyed, mem, alloc, freed, tables, buckets, size, nItems, uaf>>

(***************************************************************************)
(* delete_node(hashv), after find_node                                     *)
(***************************************************************************)
(* not found: break; zap(); return false *)
DelAbsent(t) ==
  LET f == th[t] IN
  /\ f.pc = "del_mark"
  /\ ~f.found
  /\ Set(t, [f EXCEPT !.res = FALSE, !.lin = TRUE, !.pc = "done"])
  /\ UNCHANGED <<destroyed, mem, alloc, freed, tables, buckets, size, nItems, uaf>>

(* Mutant: the mark is set by a plain store, whatever cur->next now holds. *)
DelMarkBlind(t) ==
  LET f == th[t] IN
  /\ f.pc = "del_mark"
  /\ f.found
  /\ mem' = [mem EXCEPT ![f.cur].mark = TRUE]
  /\ Set(t, [f EXCEPT !.pc = "del_unlink"])
  /\ Touch({f.cur})
  /\ UNCHANGED <<destroyed, alloc, freed, tables, buckets, size, nItems>>

(* cur->next.CAS(next, next, true): compares the pointer bits only *)
DelMark(t) ==
  LET f == th[t] IN
  /\ f.pc = "del_mark"
  /\ f.found
  /\ mem[f.cur].next = f.next
  /\ mem' = [mem EXCEPT ![f.cur].mark = TRUE]
  /\ Set(t, [f EXCEPT !.pc = "del_unlink"])
  /\ Touch({f.cur})
  /\ UNCHANGED <<destroyed, alloc, freed, tables, buckets, size, nItems>>

(* the mark CAS fails: continue *)
DelMarkFail(t) ==
  LET f == th[t] IN
  /\ f.pc = "del_mark"
  /\ f.found
  /\ mem[f.cur].next # f.next
  /\ Set(t, [f EXCEPT !.pc = "f_slot"])
  /\ Touch({f.cur})
  /\ UNCHANGED <<destroyed, mem, alloc, freed, tables, buckets, size, nItems>>

(* prev->next.CAS(cur, next) succeeds *)
DelUnlink(t) ==
  LET f == th[t] IN
  /\ f.pc = "del_unlink"
  /\ Unmarked(f.prev, f.cur)
  /\ mem' = [mem EXCEPT ![f.prev].next = f.next]
  /\ SetSeen(t, [f EXCEPT !.res = TRUE, !.lin = TRUE, !.pc = "del_free"], mem')
  /\ Touch({f.prev})
  /\ UNCHANGED <<destroyed, alloc, freed, tables, buckets, size, nItems>>

(* the unlink CAS fails: the loop calls find_node again *)
DelUnlinkFail(t) ==
  LET f == th[t] IN
  /\ f.pc = "del_unlink"
  /\ ~Unmarked(f.prev, f.cur)
  /\ Set(t, [f EXCEPT !.pc = "f_slot"])
  /\ Touch({f.prev})
  /\ UNCHANGED <<destroyed, mem, alloc, freed, tables, buckets, size, nItems>>

(* Mutant: dec_item_count() is missing. *)
DelFreeNoDec(t) ==
  LET f == th[t] IN
  /\ f.pc = "del_free"
  /\ freed' = freed \cup {f.cur}
  /\ Set(t, [f EXCEPT !.pc = "done"])
  /\ UNCHANGED <<destroyed, mem, alloc, tables, buckets, size, nItems, uaf>>

(* so_list->dec_item_count(); delete cur *)
DelFree(t) ==
  LET f == th[t] IN
  /\ f.pc = "del_free"
  /\ nItems' = nItems - 1
  /\ freed' = freed \cup {f.cur}
  /\ Set(t, [f EXCEPT !.pc = "done"])
  /\ UNCHANGED <<destroyed, mem, alloc, tables, buckets, size, uaf>>

(* find_item_node: dynamic_cast<solist_node<T>*>(cur) if found *)
FndRet(t) ==
  LET f == th[t] IN
  /\ f.pc = "fnd_ret"
  /\ Set(t, [f EXCEPT !.res = f.found, !.lin = TRUE, !.pc = "done"])
  /\ Touch(IF f.found THEN {f.cur} ELSE {})
  /\ UNCHANGED <<destroyed, mem, alloc, freed, tables, buckets, size, nItems>>

(* zap(): prev = cur = next = nullptr; the operation returns *)
Done(t) ==
  LET f == th[t] IN
  /\ f.pc = "done"
  /\ Set(t, [f EXCEPT !.prev = NULL, !.cur = NULL, !.next = NULL,
                      !.dnode = NULL, !.op = NoOp, !.lin = FALSE, !.steps = 0,
                      !.found = FALSE, !.nb = 0, !.fslot = 0, !.islot = 0,
                      !.fret = "idle", !.iret = "idle", !.pc = "idle",
                      !.etab = 0, !.esize = 0, !.ex = 0])
  /\ UNCHANGED <<destroyed, mem, alloc, freed, tables, buckets, size, nItems, uaf>>

Step(t) ==
  \/ Begin(t) \/ InsAlloc(t) \/ Done(t)
  \/ FSlot(t) \/ FBucketInit(t) \/ FBucketSet(t) \/ FStart(t)
  \/ FAdvance(t) \/ FReturn(t)
  \/ InsDuplicate(t) \/ InsLink(t) \/ InsRetry(t) \/ InsInc(t) \/ InsNext(t)
  \/ InsAdvance(t) \/ InsNoSplit(t) \/ InsGrow(t) \/ InsSplit(t)
  \/ ExpDone(t) \/ ExpStart(t) \/ ExpAlloc(t) \/ ExpCopy(t) \/ ExpCopied(t)
  \/ ExpSwap(t) \/ ExpSize(t)
  \/ IbAlready(t) \/ IbStart(t) \/ IbParent(t) \/ IbAdvance(t) \/ IbFound(t)
  \/ IbLink(t) \/ IbRetry(t) \/ IbPubCheck(t) \/ IbPubRead(t)
  \/ IbPublishNew(t) \/ IbPublishOther(t)
  \/ IbDiscard(t) \/ IbReturn(t)
  \/ DelAbsent(t) \/ DelMark(t) \/ DelMarkFail(t) \/ DelUnlink(t)
  \/ DelUnlinkFail(t) \/ DelFree(t) \/ FndRet(t)

(***************************************************************************)
(* The list as the code links it: the nodes reachable from Bkt[0].    *)
(***************************************************************************)
Chain == ChainIn(mem, Bkt[0], MaxNodes)
Linked == ToSet(Chain)
DataNodes == {n \in Linked : mem[n].data}

(* ~solist, once every thread has made all its calls: cur = buckets[0];   *)
(* while (cur) { next = cur->next(); delete cur; cur = next; }             *)
Destroy ==
  /\ ~destroyed
  /\ \A t \in Threads : th[t].pc = "idle" /\ th[t].ops = 0
  /\ freed' = freed \cup Linked
  /\ destroyed' = TRUE
  /\ UNCHANGED <<mem, alloc, tables, buckets, size, nItems, th, uaf>>

(* The list has been destroyed. *)
Finished == destroyed /\ UNCHANGED vars

Next == (\E t \in Threads : Step(t)) \/ Destroy \/ Finished

(* Each thread runs on its own accessor and is never descheduled forever. *)
Spec == Init /\ [][Next]_vars /\ \A t \in Threads : WF_vars(Step(t))


(* The state bound of the concurrent runs: a thread that passed expand's  *)
(* size check before another thread's expand finished would double an     *)
(* already doubled table; behaviours are cut where a thread needs a table  *)
(* beyond MaxSize, and where the heap of MaxNodes is used up.              *)
WithinBounds ==
  /\ alloc < MaxNodes
  /\ \A t \in Threads : th[t].pc = "exp_alloc" => 2 * size <= MaxSize

(* No thread is inside an operation. *)
Quiescent == \A t \in Threads : th[t].pc = "idle"

(***************************************************************************)
(* Keys strictly increase along the list, in every state and not only at  *)
(* quiescence: the CASes of insert_node, initialise_bucket and            *)
(* delete_node, run by any interleaving of threads, never link a node out *)
(* of order or twice.                                                      *)
(***************************************************************************)
SortedChain == IsSorted([i \in 1..Len(Chain) |-> mem[Chain[i]].key], <)

(***************************************************************************)
(* Every published bucket points to a dummy that is linked in the list    *)
(* and carries the key of its slot (spec section 8): initialise_bucket    *)
(* publishes the dummy it or a competing thread linked, and no dummy is   *)
(* ever unlinked.                                                          *)
(***************************************************************************)
BucketsWellFormed ==
  \A s \in 0..size-1 :
    Bkt[s] # NULL =>
      /\ Bkt[s] \in Linked
      /\ ~mem[Bkt[s]].data
      /\ mem[Bkt[s]].key = BucketKey(s)

(***************************************************************************)
(* A bucket, once published, stays published (spec section 8: buckets are *)
(* initialised lazily and never uninitialised): no step, expand's swap of  *)
(* so_list->buckets included, takes a non-null entry of the current array  *)
(* to null.  find_node relies on it: after initialise_bucket(slot) returns *)
(* it dereferences buckets[slot] without checking it.                      *)
(***************************************************************************)
NoLostBucket ==
  [][\A s \in DOMAIN Bkt :
       Bkt[s] # NULL => s \in DOMAIN Bkt' /\ Bkt'[s] # NULL]_<<tables, buckets>>

(***************************************************************************)
(* When no operation is in progress, n_items equals the number of data    *)
(* nodes in the list (spec section 8): every successful insert CAS is     *)
(* matched by inc_item_count and every successful unlink by               *)
(* dec_item_count, whatever the retries.                                   *)
(***************************************************************************)
ItemCount == Quiescent => nItems = Cardinality(DataNodes)

(***************************************************************************)
(* The closing asserts of initialise_bucket: on return buckets[slot] is   *)
(* not null and holds the key of the slot.                                *)
(***************************************************************************)
IbAsserts ==
  \A t \in Threads :
    th[t].pc = "ib_end" =>
      /\ Bkt[th[t].islot] # NULL
      /\ mem[Bkt[th[t].islot]].key = IKey(t)

(***************************************************************************)
(* No thread reads a node after it was deleted: delete_node's delete cur  *)
(* and initialise_bucket's delete node happen only when no other thread   *)
(* holds the node in prev, cur or next.                                   *)
(***************************************************************************)
NoUseAfterFree == ~uaf

(***************************************************************************)
(* No node reachable in the list has been deleted.                         *)
(***************************************************************************)
NoLinkedFreed == Linked \cap freed = {}

(***************************************************************************)
(* ~solist frees exactly what is still linked, so every node ever          *)
(* allocated must by then be freed: the dummy an insert_node finds already *)
(* present (the delete of dnode), the dummy initialise_bucket loses its    *)
(* CAS for, and every node delete_node unlinks must each be deleted on     *)
(* their own paths.                                                        *)
(***************************************************************************)
NoLeak == destroyed => freed = 1..alloc

(***************************************************************************)
(* The list implements the set of SolistSet: the hashes of the linked      *)
(* data nodes form the set, and each operation takes effect at one step:  *)
(* insert at its successful CAS or when find_node finds the key, delete   *)
(* at its successful unlink or when find_node does not find the key, find *)
(* when it returns.                                                        *)
(***************************************************************************)
AbsSet == HashesIn(mem)

Abstract == INSTANCE SolistSet WITH
              set <- AbsSet,
              aop <- [t \in Threads |-> th[t].op],
              ares <- [t \in Threads |-> th[t].res],
              applied <- [t \in Threads |-> th[t].lin]

ImplementsSet == Abstract!Spec


-----------------------------------------------------------------------------
(* Linearizability of concurrent calls.  A set of hashes is a product of  *)
(* one boolean object per hash, so a history is linearizable iff it is so *)
(* per hash.  A call that changes the set takes effect at its CAS; a call *)
(* that only observes it (find, an insert that finds the hash, a delete   *)
(* that does not) may take effect in any state of the call.               *)

(* Thread t's call takes effect in this step by changing the set. *)
Updates(t) ==
  /\ ~th[t].lin /\ th'[t].lin /\ th'[t].res
  /\ th[t].op.kind \in {"insert", "delete"}

(* The set a successful insert or delete of o.h leaves, from S *)
Updated(o, S) == IF o.kind = "insert" THEN S \cup {o.h} ELSE S \ {o.h}

(* A step keeps the set, or is one thread's successful insert or delete  *)
(* CAS that adds or removes exactly its own hash, absent or present before *)
AtomicUpdate ==
  /\ \A t \in Threads :
       Updates(t) => AbsSet' = Updated(th[t].op, AbsSet) /\ AbsSet' # AbsSet
  /\ AbsSet' # AbsSet => \E t \in Threads : Updates(t)

(* An observing call's result held in some state of the call: TRUE from  *)
(* find or FALSE from insert needs the hash in the set once, FALSE from   *)
(* find or from delete needs it out of the set once.                     *)
Witnessed(t) ==
  LET o == th[t].op IN
  th[t].lin /\ ~(o.kind \in {"insert", "delete"} /\ th[t].res) =>
    IF (o.kind = "find" /\ th[t].res) \/ o.kind = "insert"
    THEN th[t].sin ELSE th[t].sout

(***************************************************************************)
(* With two threads calling insert_node, delete_node and find_item_node   *)
(* on one bucket, every call is linearizable: the linked data nodes change *)
(* only at a successful insert CAS (line 1230) or unlink CAS (line 1305),  *)
(* each adding or removing exactly its own hash, which was absent or       *)
(* present before; and every other call's result held at some instant of  *)
(* the call.  The mark CAS (line 1300) must fail when cur->next changed,   *)
(* or an insert behind cur is dropped by the unlink.                       *)
(***************************************************************************)
Linearizable ==
  /\ [][AtomicUpdate]_vars
  /\ [](\A t \in Threads : Witnessed(t))

==============================================================================
