-------------------------- MODULE InstanceLifecycle --------------------------
(***************************************************************************)
(* What the rest of the system relies on of an instance row: it appears    *)
(* once, is fenced off (perf_deleting) before it goes, and neither the     *)
(* fence nor the removal is ever undone.  PerfJobs takes this for granted; *)
(* InstanceRegistry, where several handlers write the row, implements it.  *)
(***************************************************************************)
CONSTANT Instances

VARIABLE inst   \* "unborn", "live", "deleting" or "gone"

Init == inst = [i \in Instances |-> "unborn"]

Step(i, from, to) ==
  inst[i] = from /\ inst' = [inst EXCEPT ![i] = to]

Next == \E i \in Instances :
  \/ Step(i, "unborn", "live")
  \/ Step(i, "live", "deleting")
  \/ Step(i, "deleting", "gone")

Spec == Init /\ [][Next]_inst
=============================================================================
