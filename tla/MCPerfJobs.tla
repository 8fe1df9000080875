----------------------------- MODULE MCPerfJobs -----------------------------
(* Small instances of PerfJobs for TLC. *)
EXTENDS PerfJobs, TLC

CONSTANTS r1, r2, i1, m1, v1, c1, c2

(* Two runs of one version: they compete for a slot and share the          *)
(* latest-result row.                                                      *)
OneTarget == [r \in {r1, r2} |-> [instance |-> i1, model |-> m1, version |-> v1]]

(* The runs of OneTarget, and the clients, can be exchanged. *)
Symmetry == Permutations(Runs) \cup Permutations(Clients)

(* Leaves the deletion of instances to the runs that are about it. *)
InstancesStay == \A i \in Instances : inst[i] = "live"

(* The second client is about admission: what it does further on, the      *)
(* first one does.                                                         *)
SecondIsAdmitted == pc[c2] \in {"idle", "reserve", "lock_prepare"} /\ (lates > 0 => pc[c2] = "idle")
RunSymmetry == Permutations(Runs)

(* The call that is late is one of the run admitted first, and no deadline *)
(* is reached in addition: late calls of a run by itself, with everything  *)
(* else that may go wrong, are met where there is one run.                 *)
LateForTheSecond ==
  /\ lates > 0 => \A r \in Runs : ~overdue[r]
  /\ \A c \in late, r \in Runs :
       row[r].state # "unborn" => row[c.run].admitted <= row[r].admitted

(* Once a call is late, one client acts at a time, and instances stay.     *)
QuietWhenLate ==
  lates > 0 => /\ InstancesStay
               /\ \A c, d \in Clients : pc[c] # "idle" /\ pc[d] # "idle" => c = d

OneRun == [r \in {r1} |-> [instance |-> i1, model |-> m1, version |-> v1]]
=============================================================================
