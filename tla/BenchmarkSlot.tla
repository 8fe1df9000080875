---------------------------- MODULE BenchmarkSlot ----------------------------
(***************************************************************************)
(* What the performance-run service promises, without rows, locks, Jobs or *)
(* pods: every run is admitted to the slot of its model, may execute while *)
(* it holds the slot, and gives the slot back only when it has ceased to   *)
(* execute.  PerfJobs is shown to implement this.                          *)
(***************************************************************************)
CONSTANTS Runs, SlotOf

VARIABLES phase,      \* of a run: "new", "held" or "released"
          executing   \* the runs whose benchmark executes

vars == <<phase, executing>>

Init ==
  /\ phase = [r \in Runs |-> "new"]
  /\ executing = {}

Free(s) == \A r \in Runs : SlotOf[r] = s => phase[r] # "held"

Admit(r) ==
  /\ phase[r] = "new" /\ Free(SlotOf[r])
  /\ phase' = [phase EXCEPT ![r] = "held"]
  /\ UNCHANGED executing

Begin(r) ==
  /\ phase[r] = "held"
  /\ executing' = executing \cup {r}
  /\ UNCHANGED phase

Cease(r) ==
  /\ executing' = executing \ {r}
  /\ UNCHANGED phase

Release(r) ==
  /\ phase[r] = "held" /\ r \notin executing
  /\ phase' = [phase EXCEPT ![r] = "released"]
  /\ UNCHANGED executing

Next == \E r \in Runs : Admit(r) \/ Begin(r) \/ Cease(r) \/ Release(r)

Spec == Init /\ [][Next]_vars
=============================================================================
