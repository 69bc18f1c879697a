------------------------- MODULE MC_HazardAlgorithms -------------------------
(***************************************************************************)
(* Checks the operators of HazardAlgorithms against reference definitions  *)
(* over every bounded input.  The state is one input to each algorithm;    *)
(* Init enumerates all of them and Next leaves them unchanged, so that the *)
(* invariants below are evaluated once per input.                          *)
(***************************************************************************)
EXTENDS HazardAlgorithms

CONSTANTS
  R,          \* length of the deleted[] buffer (template parameter R)
  MaxSlots,   \* largest number of hazard-pointer slots in a snapshot
  Words       \* pointer words a slot may hold (0 = nullptr, odd = marked)

VARIABLES
  buf,        \* deleted[] after the free loop of reclaim()
  snap        \* [n |-> size, a |-> the sorted copy over 0..n-1]

vars == <<buf, snap>>

Pointers == {w \in Words : w # NullWord /\ w % 2 = 0}

Sorted(a, n) == \A i \in 0..n-2 : a[i] <= a[i+1]

(* Inputs reclaim() can meet: every entry is a retired pointer or a slot   *)
(* the free loop just nulled.                                              *)
Buffers == [0..R-1 -> {NullWord} \cup Pointers]

(* Inputs the snapshot can meet: std::sort has ordered the copied words.   *)
Snapshots ==
  UNION {{[n |-> k, a |-> f] : f \in {g \in [0..k-1 -> Words] : Sorted(g, k)}}
          : k \in 1..MaxSlots}

Init == buf \in Buffers /\ snap \in Snapshots

Next == UNCHANGED vars

Spec == Init /\ [][Next]_vars

TypeOK == buf \in Buffers /\ snap \in Snapshots

CountOf(a, n, v) == Cardinality({i \in 0..n-1 : a[i] = v})

(***************************************************************************)
(* The compaction in reclaim() leaves the surviving retired pointers in    *)
(* deleted[0 .. del_index-1] and nulls after them, losing and duplicating  *)
(* none: delete_item() then appends at del_index without overwriting a     *)
(* pointer that still awaits reclamation.                                  *)
(***************************************************************************)
CompactCorrect ==
  LET c    == Compact(buf, NullWord, R)
      live == R - CountOf(buf, R, NullWord)
  IN  /\ \A i \in 0..R-1 : (i < live) <=> (c[i] # NullWord)
      /\ \A v \in Pointers : CountOf(c, R, v) = CountOf(buf, R, v)

(***************************************************************************)
(* hazard_pointers_snapshot::search(p) answers, for every non-null node    *)
(* pointer p, whether some hazard pointer held p with or without its mark  *)
(* bit, and std::binary_search is only applied to a sorted range: the      *)
(* bisection past the null prefix and the mark stripping after the sort    *)
(* lose no protected pointer and do not break the order.                   *)
(***************************************************************************)
SearchCorrect ==
  LET n == snap.n
      a == snap.a
      b == SnapshotBegin(a, n)
      m == MaskFrom(a, n)
  IN  /\ b \in 0..n-1
      /\ \A i \in b..n-2 : m[i] <= m[i+1]
      /\ \A p \in Pointers :
           SnapshotSearch(a, n, p) <=> \E i \in 0..n-1 : ClearMark(a[i]) = p
==============================================================================
