------------------------------- MODULE MC_Solist ------------------------------
(***************************************************************************)
(* Instantiates Solist for TLC: thread ids are model values, and the      *)
(* operation mixes are definitions chosen per run in the .cfg files.       *)
(***************************************************************************)
EXTENDS Solist

CONSTANTS t1, t2

AllKinds == {"insert", "delete", "find"}
InsertOnly == {"insert"}

(* Only t1 is scheduled fairly: the other thread may stop for good between *)
(* two of its steps, as a thread that is preempted and not rescheduled.    *)
SoloSpec == Init /\ [][Next]_vars /\ WF_vars(Step(t1))

(***************************************************************************)
(* Lock-freedom (spec, Progress: "All public operations are lock-free"):  *)
(* as long as t1 keeps being scheduled, each of its calls of insert_node, *)
(* delete_node and find_item_node returns, whatever the other thread does *)
(* and wherever it stops.  The spec reaches this by having find help      *)
(* unlink marked nodes; find_node (lines 1142-1146) walks past them.      *)
(***************************************************************************)
SoloProgress == th[t1].pc # "idle" ~> th[t1].pc = "idle"

==============================================================================
