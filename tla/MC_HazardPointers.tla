------------------------- MODULE MC_HazardPointers --------------------------
(***************************************************************************)
(* Instantiates HazardPointers for TLC.                                    *)
(***************************************************************************)
EXTENDS HazardPointers

CONSTANTS t1, t2, n0, n1, n2, n3

(* Every thread's contexts use the same block size S = 1. *)
SameBlockSize == [t \in Threads |-> 1]

(* Every thread's contexts retire through a buffer of R = 1. *)
SameBufferSize == [t \in Threads |-> 1]

(* t1's contexts have R = 1: every retire reclaims and a full buffer is    *)
(* escalated; every other thread's have R = 2: reclaim frees part of the   *)
(* buffer and compacts the rest.                                           *)
MixedBufferSize == [t \in Threads |-> IF t = t1 THEN 1 ELSE 2]

(* t1 uses contexts with S = 1, every other thread S = 2. *)
MixedBlockSize == [t \in Threads |-> IF t = t1 THEN 1 ELSE 2]

==============================================================================
