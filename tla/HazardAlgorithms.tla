-------------------------- MODULE HazardAlgorithms ---------------------------
(***************************************************************************)
(* The sequential algorithms inside the hazard-pointer code, as operators:  *)
(*                                                                         *)
(*  - Compact: the two-index loop that hazard_pointer_context::reclaim     *)
(*    runs to move the retired pointers that survived a scan to the front  *)
(*    of the deleted[] buffer;                                             *)
(*  - SnapshotBegin / SnapshotSearch: the bisection that moves the         *)
(*    snapshot's begin past the null prefix of the sorted hazard-pointer   *)
(*    copy, the mark-bit stripping that follows, and the binary search     *)
(*    over [begin, end).                                                   *)
(*                                                                         *)
(* Arrays are functions over 0..n-1 as in the C++ code.  Pointer values    *)
(* are naturals: NULL is 0, node addresses are even (aligned), and the     *)
(* mark bit is bit 0, cleared by mark_bits_maskoff.                        *)
(***************************************************************************)
EXTENDS Integers, FiniteSets

(* The C++ nullptr as a pointer word. *)
NullWord == 0

(* w & mark_bits_maskoff: clear the mark bit of a pointer word. *)
ClearMark(w) == w - (w % 2)

(* Mutant: the swap copies a[j] over a[i] and leaves a[j] in place. *)
SwapNoClear(a, i, j) == [a EXCEPT ![i] = a[j]]

(* std::swap(a[i], a[j]) *)
Swap(a, i, j) == [a EXCEPT ![i] = a[j], ![j] = a[i]]

(***************************************************************************)
(* reclaim(), compaction after at least one retired pointer was freed:     *)
(*   while (ixd < ixs) {                                                   *)
(*     while (nullptr != deleted[ixd] && ixd < ixs) ++ixd;                 *)
(*     while (nullptr == deleted[ixs] && ixd < ixs) --ixs;                 *)
(*     if (nullptr != deleted[ixs] && nullptr == deleted[ixd])             *)
(*       { swap(deleted[ixs], deleted[ixd]); ++ixd; --ixs; } }              *)
(* null is the parameter Null so that the operator serves both the word    *)
(* arrays here and the model-value arrays of HazardPointers.               *)
(***************************************************************************)
RECURSIVE SkipLive(_, _, _, _)
SkipLive(a, Null, ixd, ixs) ==
  IF a[ixd] # Null /\ ixd < ixs THEN SkipLive(a, Null, ixd + 1, ixs) ELSE ixd

RECURSIVE SkipFree(_, _, _, _)
SkipFree(a, Null, ixd, ixs) ==
  IF a[ixs] = Null /\ ixd < ixs THEN SkipFree(a, Null, ixd, ixs - 1) ELSE ixs

RECURSIVE CompactLoop(_, _, _, _)
CompactLoop(a, Null, ixd, ixs) ==
  IF ixd >= ixs THEN a
  ELSE LET d == SkipLive(a, Null, ixd, ixs)
           s == SkipFree(a, Null, d, ixs)
       IN  IF a[s] # Null /\ a[d] = Null
             THEN CompactLoop(Swap(a, s, d), Null, d + 1, s - 1)
             ELSE CompactLoop(a, Null, d, s)

Compact(a, Null, R) == CompactLoop(a, Null, 0, R - 1)

(* Mutant: the bisection moves begin one past the null it lands on. *)
RECURSIVE BisectPastNull(_, _, _)
BisectPastNull(a, begin, count) ==
  LET halfc == count \div 2
      b2    == IF a[begin + halfc] = NullWord THEN begin + halfc + 1 ELSE begin
      c2    == IF a[begin + halfc] = NullWord THEN count - halfc - 1 ELSE halfc
  IN  IF c2 > 1 THEN BisectPastNull(a, b2, c2) ELSE b2

(***************************************************************************)
(* hazard_pointers_snapshot constructor, after std::sort: the do/while     *)
(* bisection that moves begin to the last nullptr entry, if there is one.  *)
(* a is the sorted copy over 0..size-1; the result is the index of begin.  *)
(***************************************************************************)
RECURSIVE Bisect(_, _, _)
Bisect(a, begin, count) ==
  LET halfc == count \div 2
      b2    == IF a[begin + halfc] = NullWord THEN begin + halfc ELSE begin
      c2    == IF a[begin + halfc] = NullWord THEN count - halfc ELSE halfc
  IN  IF c2 > 1 THEN Bisect(a, b2, c2) ELSE b2

SnapshotBegin(a, size) == Bisect(a, 0, size)

(* The loop that clears the mark bit of every word in [begin, end). *)
MaskFrom(a, size) ==
  LET b == SnapshotBegin(a, size)
  IN  [i \in 0..size-1 |-> IF i >= b THEN ClearMark(a[i]) ELSE a[i]]

(* search(ptr): std::binary_search over [begin, end) of the masked copy;   *)
(* on a sorted range it answers membership.                                 *)
SnapshotSearch(a, size, p) ==
  LET m == MaskFrom(a, size)
  IN  \E i \in SnapshotBegin(a, size)..size-1 : m[i] = p
==============================================================================
