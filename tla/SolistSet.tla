------------------------------ MODULE SolistSet -------------------------------
(***************************************************************************)
(* What the split-ordered list promises its clients (spec sections 6 and   *)
(* 8): a set of hashes on which every operation takes effect at a single   *)
(* instant between its invocation and its return.                          *)
(*                                                                         *)
(*   insert(h) returns TRUE iff h was absent, and adds it;                 *)
(*   delete(h) returns TRUE iff h was present, and removes it;             *)
(*   find(h)   returns TRUE iff h is present.                              *)
(*                                                                         *)
(* A thread invokes one operation at a time (aop), the operation is        *)
(* applied atomically (applied, ares), and then returns.  Payloads are not *)
(* modelled: a hash stands for its item.                                   *)
(***************************************************************************)
CONSTANTS
  Threads,    \* client threads, each with its own solist_accessor
  Hashes,     \* hash values the clients use
  Kinds,      \* operations the clients call: "insert", "delete", "find"
  NoOp        \* aop of a thread that is between operations

VARIABLES
  set,        \* the hashes present in the list
  aop,        \* aop[t]: the operation t is executing, or NoOp
  ares,       \* ares[t]: the result of t's last applied operation
  applied     \* applied[t]: t's current operation has taken effect

vars == <<set, aop, ares, applied>>

Ops == [kind : Kinds, h : Hashes]

TypeOK ==
  /\ set \subseteq Hashes
  /\ aop \in [Threads -> Ops \cup {NoOp}]
  /\ ares \in [Threads -> BOOLEAN]
  /\ applied \in [Threads -> BOOLEAN]

Init ==
  /\ set = {}
  /\ aop = [t \in Threads |-> NoOp]
  /\ ares = [t \in Threads |-> FALSE]
  /\ applied = [t \in Threads |-> FALSE]

Invoke(t) ==
  /\ aop[t] = NoOp
  /\ \E o \in Ops : aop' = [aop EXCEPT ![t] = o]
  /\ applied' = [applied EXCEPT ![t] = FALSE]
  /\ UNCHANGED <<set, ares>>

(* The effect of an operation on the set, and its result. *)
Effect(o) ==
  CASE o.kind = "insert" -> set \cup {o.h}
    [] o.kind = "delete" -> set \ {o.h}
    [] o.kind = "find"   -> set

Result(o) == IF o.kind = "insert" THEN o.h \notin set ELSE o.h \in set

Apply(t) ==
  /\ aop[t] # NoOp
  /\ ~applied[t]
  /\ set' = Effect(aop[t])
  /\ ares' = [ares EXCEPT ![t] = Result(aop[t])]
  /\ applied' = [applied EXCEPT ![t] = TRUE]
  /\ UNCHANGED aop

Return(t) ==
  /\ applied[t]
  /\ aop' = [aop EXCEPT ![t] = NoOp]
  /\ applied' = [applied EXCEPT ![t] = FALSE]
  /\ UNCHANGED <<set, ares>>

Next == \E t \in Threads : Invoke(t) \/ Apply(t) \/ Return(t)

Spec == Init /\ [][Next]_vars
==============================================================================
