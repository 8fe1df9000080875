------------------------------ MODULE PerfJobs ------------------------------
(***************************************************************************)
(* Model performance runs: triton-backend/app/services/perf_analyzer.      *)
(*                                                                         *)
(* A run is a row of model_perf_jobs and a Kubernetes Job that executes    *)
(* the benchmark.  HTTP requests (start, stop, status, instance deletion)  *)
(* and the reconciler thread of every backend process move the two towards *)
(* each other.  They serialise on the row lock (SELECT ... FOR UPDATE);    *)
(* Kubernetes knows nothing of that lock, and a call that timed out at the *)
(* client may still be carried out by the API server later.                *)
(*                                                                         *)
(* One worker is one request handler or one reconciler thread.  Its        *)
(* program counter stops wherever another actor can get in between: before *)
(* a lock, after every read, between a Kubernetes write and the commit.    *)
(***************************************************************************)
EXTENDS Integers

CONSTANTS
  Runs,         \* run identifiers (uuid4), each usable once
  Instances, Models, Versions,
  TargetOf,     \* what a run benchmarks: fixed when its row is inserted
  SecretRuns,   \* runs with an input file or registry credentials
  LossyLogs,    \* whether the API may have no log for a pod that has run
  Clients,      \* request handler threads
  Reconcilers,  \* PerfJobReconciler threads, one per backend process
  None,         \* no worker, no run, no instance
  MaxFaults,    \* bound: failed calls, crashes and outside interference
  MaxLate       \* bound: calls that time out and are carried out later

Workers == Clients \cup Reconcilers
Targets == [instance : Instances, model : Models, version : Versions]

ASSUME TargetAssumption == TargetOf \in [Runs -> Targets]
ASSUME DataAssumption   == SecretRuns \subseteq Runs /\ LossyLogs \in BOOLEAN
ASSUME NoneAssumption   == None \notin Workers \cup Runs \cup Instances
ASSUME WorkerAssumption == Clients \cap Reconcilers = {}
ASSUME BoundAssumption  == MaxFaults \in Nat /\ MaxLate \in Nat

VARIABLES
  inst,     \* the instance row: "live", "deleting" (perf_deleting) or "gone"
  row,      \* the run's committed row
  lock,     \* the worker that holds the run's row lock
  result,   \* latest-result rows (PerfAnalyzerRunEntity), one per target
  legacy,   \* the old singleton installation and its record
  now,      \* a clock: it ticks when a run's record is built or reserved
  created,  \* created_at: when start() built the run's record; 0 before that
  overdue,  \* the time limit of the run's state is over: 60 s to prepare it,
            \* deadline_seconds() + 60 s to execute it
  job,      \* the run's Job in Kubernetes; uid 0 when there is none
  pod,      \* the Job's pod
  secret,   \* the run owns at least one Secret
  ver,      \* last uid / resourceVersion the API server gave out
  late,     \* timed-out calls the API server may still carry out
  lates,    \* number of calls that timed out that way
  pc, cur,  \* what a worker does next, and for which run
  view,     \* the Job and the pod its pass has read
  tx,       \* the row as its open transaction will commit it
  loop,     \* the runs it has still to visit, and why
  faults    \* number of faults so far

dbVars     == <<inst, row, lock, result, legacy, now, created, overdue>>
kubeVars   == <<job, pod, secret, ver>>
workerVars == <<pc, cur, view, tx, loop>>
boundVars  == <<lates, faults>>
vars == <<inst, row, lock, result, legacy, now, created, overdue, job, pod,
          secret, ver, late, lates, pc, cur, view, tx, loop, faults>>

-----------------------------------------------------------------------------
(* The data. *)

ACTIVE   == {"creating", "pending", "running", "stopping"}
TERMINAL == {"succeeded", "failed", "cancelled"}

(* A row that was never inserted is "unborn", a removed one "deleted".     *)
(* uid is job_uid (0: NULL); output is 1 once some output was captured;    *)
(* admitted is when the row was inserted, which the code does not record.  *)
(* created_at is older than the row and kept in the variable created.      *)
Row == [state : ACTIVE \cup TERMINAL \cup {"unborn", "deleted"},
        prepared : BOOLEAN, saved : BOOLEAN, cleaned : BOOLEAN,
        uid : Nat, output : 0..1, admitted : Nat]
NewRow == [state |-> "unborn", prepared |-> FALSE, saved |-> FALSE,
           cleaned |-> FALSE, uid |-> 0, output |-> 0, admitted |-> 0]

Exists(r)       == row[r].state \in ACTIVE \cup TERMINAL
Slot(r)         == <<TargetOf[r].instance, TargetOf[r].model>>
ActiveIn(s)     == \E q \in Runs : Slot(q) = s /\ row[q].state \in ACTIVE
InstanceRuns(i) == {r \in Runs : TargetOf[r].instance = i}

(* perf_analyzer_job.yaml: one pod, never restarted (parallelism 1,        *)
(* backoffLimit 0, restartPolicy Never); made: that pod has been created.  *)
Job == [uid : Nat, rv : Nat, suspend : BOOLEAN, deleting : BOOLEAN,
        made : BOOLEAN, cond : {"none", "Complete", "Failed"}]
NoJob == [uid |-> 0, rv |-> 0, suspend |-> FALSE, deleting |-> FALSE,
          made |-> FALSE, cond |-> "none"]

LIVE  == {"Pending", "Running"}
Pod   == [phase : LIVE \cup {"none", "Succeeded", "Failed"}, doomed : BOOLEAN]
NoPod == [phase |-> "none", doomed |-> FALSE]
NoView == [job |-> NoJob, pod |-> NoPod]

(* What read_namespaced_pod_log returns for a pod in this phase: 400 while *)
(* it waits and 404 once it is gone both count as no output.               *)
LogOf(phase) == IF phase \in {"Running", "Succeeded", "Failed"} THEN 1 ELSE 0

Call == [kind : {"create", "resume", "delete", "delete_pod", "secret"},
         run : Runs, uid : Nat, rv : Nat]
CallFor(kind, r, j) == [kind |-> kind, run |-> r, uid |-> j.uid, rv |-> j.rv]

(* What a worker loops over: a reconciler the pending runs, a request that *)
(* deletes an instance (victim) the runs of that instance.                 *)
Loop == [todo : SUBSET Runs, unfinished : BOOLEAN,
         victim : Instances \cup {None}]
NoLoop == [todo |-> {}, unfinished |-> FALSE, victim |-> None]

LockedPc == {"prepare", "read_job", "read_pods", "act", "commit"}
DelPc    == {"del_next", "del_check", "del_instance"}
RunPc    == LockedPc \cup {"reserve", "lock_prepare", "reconcile", "del_check"}
Pc       == RunPc \cup {"idle", "loop_next", "del_next", "del_instance"}

DbTypeOK ==
  /\ inst \in [Instances -> {"live", "deleting", "gone"}]
  /\ row \in [Runs -> Row]
  /\ lock \in [Runs -> Workers \cup {None}]
  /\ result \in [Targets -> [run : Runs \cup {None}, output : 0..1]]
  /\ legacy \in {"installed", "terminating", "stopped", "retired"}
  /\ now \in Nat
  /\ created \in [Runs -> Nat]
  /\ overdue \in [Runs -> BOOLEAN]

KubeTypeOK ==
  /\ job \in [Runs -> Job]
  /\ pod \in [Runs -> Pod]
  /\ secret \in [Runs -> BOOLEAN]
  /\ ver \in [Runs -> Nat]

WorkerTypeOK ==
  /\ pc \in [Workers -> Pc]
  /\ cur \in [Workers -> Runs \cup {None}]
  /\ view \in [Workers -> [job : Job, pod : Pod]]
  /\ tx \in [Workers -> Row]
  /\ loop \in [Workers -> Loop]
  /\ \A w \in Workers :
       /\ pc[w] \in RunPc => cur[w] \in Runs
       /\ pc[w] \in DelPc => loop[w].victim \in Instances

TypeOK ==
  /\ DbTypeOK /\ KubeTypeOK /\ WorkerTypeOK
  /\ late \in SUBSET Call
  /\ lates \in Nat /\ faults \in Nat

Init ==
  /\ inst = [i \in Instances |-> "live"]
  /\ row = [r \in Runs |-> NewRow]
  /\ lock = [r \in Runs |-> None]
  /\ result = [t \in Targets |-> [run |-> None, output |-> 0]]
  /\ legacy \in {"installed", "retired"}
  /\ now = 0
  /\ created = [r \in Runs |-> 0]
  /\ overdue = [r \in Runs |-> FALSE]
  /\ job = [r \in Runs |-> NoJob]
  /\ pod = [r \in Runs |-> NoPod]
  /\ secret = [r \in Runs |-> FALSE]
  /\ ver = [r \in Runs |-> 0]
  /\ late = {}
  /\ lates = 0
  /\ pc = [w \in Workers |-> "idle"]
  /\ cur = [w \in Workers |-> None]
  /\ view = [w \in Workers |-> NoView]
  /\ tx = [w \in Workers |-> NewRow]
  /\ loop = [w \in Workers |-> NoLoop]
  /\ faults = 0

-----------------------------------------------------------------------------
(* Steps of a worker. *)

Goto(w, label) == pc' = [pc EXCEPT ![w] = label]

(* The handler is over: the session is closed and its locals are dropped.  *)
ToIdle(w) ==
  /\ Goto(w, "idle")
  /\ cur'  = [cur EXCEPT ![w] = None]
  /\ view' = [view EXCEPT ![w] = NoView]
  /\ tx'   = [tx EXCEPT ![w] = NewRow]
  /\ loop' = [loop EXCEPT ![w] = NoLoop]

(* reconcile() returns to its caller: the deletion of an instance, the     *)
(* reconciler's loop, or a request that is answered.                       *)
Return(w) ==
  LET deleting == loop[w].victim # None
  IN /\ Goto(w, IF deleting THEN "del_check"
                ELSE IF loop[w].todo # {} THEN "loop_next" ELSE "idle")
     /\ cur'  = [cur EXCEPT ![w] = IF deleting THEN @ ELSE None]
     /\ view' = [view EXCEPT ![w] = NoView]
     /\ tx'   = [tx EXCEPT ![w] = NewRow]
     /\ loop' = loop

Unlocked(r) == lock[r] = None
Release(w)  == lock' = [lock EXCEPT ![cur[w]] = None]

(* session.rollback(): the row keeps its committed value.  The error note  *)
(* written to run.message afterwards is not modelled.                      *)
Rollback(w) ==
  /\ Release(w)
  /\ Return(w)
  /\ UNCHANGED <<inst, row, result, legacy, now, created, overdue>>

(* finish() keeps the result that is already there. *)
BadStore_FirstResult(r, new) ==
  /\ row' = [row EXCEPT ![r] = new]
  /\ overdue' = [overdue EXCEPT ![r] = @ /\ new.state = row[r].state]
  /\ result' = IF /\ row[r].state \in ACTIVE /\ new.state \in TERMINAL
                  /\ result[TargetOf[r]].run = None
               THEN [result EXCEPT ![TargetOf[r]] = [run |-> r, output |-> new.output]]
               ELSE result

(* A transaction that writes the run's row.  finish() also overwrites the  *)
(* latest result of the run's target in that transaction.                  *)
Store(r, new) ==
  /\ row' = [row EXCEPT ![r] = new]
  /\ overdue' = [overdue EXCEPT ![r] = @ /\ new.state = row[r].state]
  /\ result' = IF row[r].state \in ACTIVE /\ new.state \in TERMINAL
               THEN [result EXCEPT ![TargetOf[r]] = [run |-> r, output |-> new.output]]
               ELSE result

(* The pass ends: commit and release the row lock.  Where a pass has done  *)
(* nothing in Kubernetes, or nothing that the row records, the commit is   *)
(* part of the same step: the row is locked, so nobody can tell.           *)
Settle(w, new) ==
  /\ Store(cur[w], new)
  /\ Release(w)
  /\ Return(w)
  /\ UNCHANGED <<inst, legacy, now, created>>

(* The row has yet to be committed: a crash in between loses it. *)
Uncommitted(w, new) ==
  /\ tx' = [tx EXCEPT ![w] = new]
  /\ view' = [view EXCEPT ![w] = NoView]
  /\ Goto(w, "commit")
  /\ UNCHANGED <<dbVars, cur, loop>>

Commit(w) ==
  /\ pc[w] = "commit"
  /\ Settle(w, tx[w])
  /\ UNCHANGED <<kubeVars, late, boundVars>>

-----------------------------------------------------------------------------
(* Requests. *)

(* The legacy record is not looked at. *)
BadStart_IgnoresLegacy(w, r) ==
  /\ w \in Clients /\ pc[w] = "idle"
  /\ row[r].state = "unborn" /\ created[r] = 0
  /\ \A v \in Workers : cur[v] # r
  /\ inst[TargetOf[r].instance] # "gone"
  /\ ~ActiveIn(Slot(r))
  /\ Goto(w, "reserve")
  /\ cur' = [cur EXCEPT ![w] = r]
  /\ UNCHANGED <<dbVars, kubeVars, late, view, tx, loop, boundVars>>

(* start() before it builds the run's record: the target instance is       *)
(* there, the legacy record is not, and no run of the model is active.  The *)
(* answers of Triton and the command line they lead to are not modelled.   *)
(* The id is a uuid4: one that is in a record already is not drawn again.  *)
Start(w, r) ==
  /\ w \in Clients /\ pc[w] = "idle"
  /\ row[r].state = "unborn" /\ created[r] = 0
  /\ \A v \in Workers : cur[v] # r
  /\ inst[TargetOf[r].instance] # "gone"
  /\ legacy = "retired"
  /\ ~ActiveIn(Slot(r))
  /\ Goto(w, "reserve")
  /\ cur' = [cur EXCEPT ![w] = r]
  /\ UNCHANGED <<dbVars, kubeVars, late, view, tx, loop, boundVars>>

(* The run's record is built: created_at, a default_factory, is filled in  *)
(* here, before reserve() waits for the instance's lock.  Another request  *)
(* may build its record later and yet be admitted first.                   *)
Build(w) ==
  LET r == cur[w]
  IN /\ pc[w] = "reserve" /\ created[r] = 0
     /\ created' = [created EXCEPT ![r] = now + 1]
     /\ now' = now + 1
     /\ UNCHANGED <<inst, row, lock, result, legacy, overdue, kubeVars, late,
                    workerVars, boundVars>>

(* Faulty variants, each a slip this code could have had, are named        *)
(* Bad... and defined just before the definition they stand in for: they   *)
(* show that a property notices the slip.  No specification uses them.     *)

(* The instance's deletion flag is not looked at. *)
BadCanReserve_NoFence(r) ==
  /\ inst[TargetOf[r].instance] # "gone"
  /\ ~ActiveIn(Slot(r))

(* A stopping run no longer counts as active. *)
BadCanReserve_StoppingIsFree(r) ==
  /\ inst[TargetOf[r].instance] = "live"
  /\ ~\E q \in Runs : Slot(q) = Slot(r) /\ row[q].state \in ACTIVE \ {"stopping"}

(* reserve(): one transaction under the instance's row lock. *)
CanReserve(r) ==
  /\ inst[TargetOf[r].instance] = "live"
  /\ ~ActiveIn(Slot(r))

Reserve(w) ==
  LET r == cur[w]
  IN /\ pc[w] = "reserve" /\ created[r] # 0
     /\ CanReserve(r)
     /\ row' = [row EXCEPT ![r] = [@ EXCEPT !.state = "creating", !.admitted = now + 1]]
     /\ now' = now + 1
     /\ Goto(w, "lock_prepare")
     /\ UNCHANGED <<inst, lock, result, legacy, created, overdue, kubeVars,
                    late, cur, view, tx, loop, boundVars>>

(* 404: the instance is gone; 409: it is being deleted or the slot taken.  *)
ReserveConflict(w) ==
  /\ pc[w] = "reserve" /\ created[cur[w]] # 0
  /\ ~CanReserve(cur[w])
  /\ ToIdle(w)
  /\ UNCHANGED <<dbVars, kubeVars, late, boundVars>>

(* start() takes the run's row lock.  A stop, or a reconciler that gave up *)
(* on the preparation, may have come first; then nothing is prepared.      *)
LockPrepare(w) ==
  LET r == cur[w]
  IN /\ pc[w] = "lock_prepare"
     /\ Unlocked(r)
     /\ IF row[r].state = "creating"
        THEN /\ lock' = [lock EXCEPT ![r] = w]
             /\ Goto(w, "prepare")
             /\ UNCHANGED <<cur, view, tx, loop>>
        ELSE lock' = lock /\ ToIdle(w)
     /\ UNCHANGED <<inst, row, result, legacy, now, created, overdue, kubeVars, late, boundVars>>

(* Jobs.prepare(): the Secrets a run needs, if any, are created. *)
Prepare(w) ==
  LET r == cur[w]
  IN /\ pc[w] = "prepare"
     /\ secret' = [secret EXCEPT ![r] = r \in SecretRuns]
     /\ Uncommitted(w, [row[r] EXCEPT !.prepared = TRUE])
     /\ UNCHANGED <<job, pod, ver, late, boundVars>>

(* Preparation fails: there is no cluster configuration, or a Secret could *)
(* not be created, possibly after another one was; a call that timed out   *)
(* may still be carried out.                                               *)
PrepareFailed(w) ==
  LET r == cur[w]
  IN /\ pc[w] = "prepare"
     /\ \/ /\ secret' \in {secret, [secret EXCEPT ![r] = r \in SecretRuns]}
           /\ UNCHANGED <<late, lates>>
        \/ /\ r \in SecretRuns /\ lates < MaxLate
           /\ lates' = lates + 1
           /\ late' = late \cup {CallFor("secret", r, NoJob)}
           /\ secret' = secret
     /\ Uncommitted(w, [row[r] EXCEPT !.state = "failed"])
     /\ UNCHANGED <<job, pod, ver, faults>>

(* stop(): waits for the row lock, marks an active run and commits; then   *)
(* it reconciles.                                                          *)
MarkStopping(r) ==
  IF row[r].state \in ACTIVE THEN [row[r] EXCEPT !.state = "stopping"] ELSE row[r]

Stop(w, r) ==
  /\ w \in Clients /\ pc[w] = "idle"
  /\ Exists(r) /\ inst[TargetOf[r].instance] # "gone"
  /\ Unlocked(r)
  /\ Store(r, MarkStopping(r))
  /\ Goto(w, "reconcile")
  /\ cur' = [cur EXCEPT ![w] = r]
  /\ UNCHANGED <<inst, lock, legacy, now, created, kubeVars, late, view, tx, loop, boundVars>>

(* lock_run(skip_locked): a pass over a locked, removed or cleaned run     *)
(* does nothing.                                                           *)
CanLock(r) == Exists(r) /\ Unlocked(r) /\ ~row[r].cleaned

BeginPass(w, r) ==
  /\ lock' = [lock EXCEPT ![r] = w]
  /\ cur' = [cur EXCEPT ![w] = r]
  /\ Goto(w, "read_job")
  /\ UNCHANGED <<inst, row, result, legacy, now, created, overdue, view, tx>>

(* get_run() and status() reconcile the run they report. *)
Observe(w, r) ==
  /\ w \in Clients /\ pc[w] = "idle"
  /\ inst[TargetOf[r].instance] # "gone"
  /\ CanLock(r)
  /\ BeginPass(w, r)
  /\ UNCHANGED <<kubeVars, late, loop, boundVars>>

-----------------------------------------------------------------------------
(* The reconciler's thread: retire the legacy installation, list the runs  *)
(* that are not cleaned, reconcile each of them.                           *)

(* retire_legacy(): delete the Deployment; once it and its pods are gone,  *)
(* delete the record.  A failure leaves both for the next pass.            *)
RetireLegacy ==
  \/ legacy' = legacy
  \/ legacy = "installed" /\ legacy' = "terminating"
  \/ legacy = "stopped" /\ legacy' = "retired"

PendingIds == {r \in Runs : Exists(r) /\ ~row[r].cleaned}

LoopPass(w) ==
  /\ w \in Reconcilers /\ pc[w] = "idle"
  /\ RetireLegacy
  /\ loop' = [loop EXCEPT ![w].todo = PendingIds]
  /\ Goto(w, IF PendingIds = {} THEN "idle" ELSE "loop_next")
  /\ UNCHANGED <<inst, row, lock, result, now, created, overdue, kubeVars, late,
                 cur, view, tx, boundVars>>

LoopNext(w) ==
  /\ pc[w] = "loop_next"
  /\ \E r \in loop[w].todo :
       /\ loop' = [loop EXCEPT ![w].todo = @ \ {r}]
       /\ IF CanLock(r) THEN BeginPass(w, r)
          ELSE /\ Goto(w, IF loop[w].todo = {r} THEN "idle" ELSE "loop_next")
               /\ UNCHANGED <<dbVars, cur, view, tx>>
  /\ UNCHANGED <<kubeVars, late, boundVars>>

-----------------------------------------------------------------------------
(* reconcile(): one pass over one run, under its row lock.                 *)

(* reconcile() as stop() and prepare_instance_deletion() call it, after    *)
(* they have committed: another pass may have come first.                  *)
Reconcile(w) ==
  /\ pc[w] = "reconcile"
  /\ IF CanLock(cur[w]) THEN BeginPass(w, cur[w]) /\ loop' = loop
     ELSE Return(w) /\ UNCHANGED dbVars
  /\ UNCHANGED <<kubeVars, late, boundVars>>

(* Jobs.read(): a Job with another uid than the saved one is an error. *)
SameIdentity(r) == job[r].uid \in {0, row[r].uid} \/ row[r].uid = 0

ReadJob(w) ==
  LET r == cur[w]
  IN /\ pc[w] = "read_job"
     /\ IF SameIdentity(r)
        THEN /\ view' = [view EXCEPT ![w].job = job[r]]
             /\ Goto(w, "read_pods")
             /\ UNCHANGED <<dbVars, cur, tx, loop>>
        ELSE Rollback(w)
     /\ UNCHANGED <<kubeVars, late, boundVars>>

ReadPods(w) ==
  /\ pc[w] = "read_pods"
  /\ view' = [view EXCEPT ![w].pod = pod[cur[w]]]
  /\ Goto(w, "act")
  /\ UNCHANGED <<dbVars, kubeVars, late, cur, tx, loop, boundVars>>

(* The pass has read the Job and the pods of its run, whose row it holds.  *)
Acting(w, states) == pc[w] = "act" /\ row[cur[w]].state \in states

JobSeen(w)  == view[w].job.uid # 0
PodSeen(w)  == view[w].pod.phase # "none"
LiveSeen(w) == view[w].pod.phase \in LIVE

(* Jobs.logs() for the pods listed: what their containers have written, or *)
(* nothing when the API has no log for them (400 or 404).                  *)
LogsRead(w) ==
  {IF PodSeen(w) THEN LogOf(pod[cur[w]].phase) ELSE 0} \cup {n \in {0} : LossyLogs}

(* An empty log replaces what was captured. *)
BadCaptured_Overwrite(w, seen) == [row[cur[w]] EXCEPT !.output = seen]

(* Every pass appends the whole log again. *)
BadCaptured_Append(w, seen) == [row[cur[w]] EXCEPT !.output = @ + seen]

(* run.output = logs.output or run.output *)
Captured(w, seen) == [row[cur[w]] EXCEPT !.output = IF seen > 0 THEN seen ELSE @]

(* The row is written and nothing changes in Kubernetes. *)
WriteOnly(w, new) ==
  /\ Settle(w, new)
  /\ UNCHANGED <<kubeVars, late, boundVars>>

(* stopping, first pass: keep the partial output before anything is        *)
(* deleted.                                                                *)
SaveSnapshot(w) ==
  /\ Acting(w, {"stopping"})
  /\ ~row[cur[w]].saved
  /\ \E seen \in LogsRead(w) :
       WriteOnly(w, [Captured(w, seen) EXCEPT !.saved = TRUE])

(* The run is cancelled without waiting for its workload to go. *)
BadCancelled_TooEarly(w) ==
  /\ Acting(w, {"stopping"})
  /\ row[cur[w]].saved
  /\ WriteOnly(w, [row[cur[w]] EXCEPT !.state = "cancelled"])

(* stopping, workload gone. *)
Cancelled(w) ==
  /\ Acting(w, {"stopping"})
  /\ row[cur[w]].saved
  /\ ~JobSeen(w) /\ ~PodSeen(w)
  /\ WriteOnly(w, [row[cur[w]] EXCEPT !.state = "cancelled"])

(* An interrupted preparation is waited for without limit. *)
BadPreparation_NoLimit(w) ==
  /\ Acting(w, {"creating"})
  /\ ~row[cur[w]].prepared
  /\ WriteOnly(w, row[cur[w]])

(* creating, but start() has not prepared the run: give up after 60 s. *)
PreparationInterrupted(w) ==
  /\ Acting(w, {"creating"})
  /\ ~row[cur[w]].prepared
  /\ WriteOnly(w, IF overdue[cur[w]]
                  THEN [row[cur[w]] EXCEPT !.state = "failed"]
                  ELSE row[cur[w]])

(* The uid of the Job that was found is not saved. *)
BadAdoptJob_NoUid(w) ==
  /\ Acting(w, {"creating"})
  /\ row[cur[w]].prepared
  /\ JobSeen(w)
  /\ WriteOnly(w, [row[cur[w]] EXCEPT !.state = "pending"])

(* creating, and an earlier pass created the Job without saving its uid. *)
AdoptJob(w) ==
  /\ Acting(w, {"creating"})
  /\ row[cur[w]].prepared
  /\ JobSeen(w)
  /\ WriteOnly(w, [row[cur[w]] EXCEPT !.state = "pending", !.uid = view[w].job.uid])

(* The API server refuses the Job (400, 401, 403, 404, 422). *)
CreateRejected(w) ==
  /\ Acting(w, {"creating"})
  /\ row[cur[w]].prepared
  /\ ~JobSeen(w)
  /\ WriteOnly(w, [row[cur[w]] EXCEPT !.state = "failed"])

(* pending or running: the order of the tests is the order of the code. *)
Executing   == {"pending", "running"}
Lost(w)     == ~JobSeen(w) \/ view[w].job.deleting
Resumed(w)  == ~Lost(w) /\ ~view[w].job.suspend
Over(w)     == ~LiveSeen(w) /\ view[w].job.cond # "none"

(* A run whose Job disappeared fails although its pod still executes. *)
BadJobDisappeared_PodRuns(w) ==
  /\ Acting(w, Executing)
  /\ Lost(w)
  /\ WriteOnly(w, [row[cur[w]] EXCEPT !.state = "failed"])

JobDisappeared(w) ==
  /\ Acting(w, Executing)
  /\ Lost(w) /\ ~PodSeen(w)
  /\ WriteOnly(w, [row[cur[w]] EXCEPT !.state = "failed"])

(* The Job is being deleted and its pod is still there: wait. *)
AwaitDeletion(w) ==
  /\ Acting(w, Executing)
  /\ JobSeen(w) /\ view[w].job.deleting /\ PodSeen(w)
  /\ \E seen \in LogsRead(w) : WriteOnly(w, Captured(w, seen))

JobEnded(w) ==
  /\ Acting(w, Executing)
  /\ Resumed(w) /\ Over(w)
  /\ \E seen \in LogsRead(w) :
       WriteOnly(w, [Captured(w, seen) EXCEPT
         !.state = IF view[w].job.cond = "Complete" THEN "succeeded" ELSE "failed"])

Progress(w) ==
  /\ Acting(w, Executing)
  /\ Resumed(w) /\ ~Over(w) /\ ~overdue[cur[w]]
  /\ \E seen \in LogsRead(w) :
       WriteOnly(w, [Captured(w, seen) EXCEPT
         !.state = IF view[w].pod.phase = "Running" THEN "running" ELSE @])

-----------------------------------------------------------------------------
(* The API server carries out a call.  Names are unique, a patch with a    *)
(* stale resourceVersion is refused, a delete is for one uid and runs in   *)
(* the foreground: the Job stays until its pod is gone.                    *)

(* The Job is created ready to run. *)
BadManifest_Enabled(r) == [NoJob EXCEPT !.uid = ver[r] + 1, !.rv = ver[r] + 1]

(* manifest(): a Job is always created suspended. *)
Manifest(r) == [uid |-> ver[r] + 1, rv |-> ver[r] + 1, suspend |-> TRUE,
                deleting |-> FALSE, made |-> FALSE, cond |-> "none"]

ServeCreate(r) ==
  IF job[r].uid = 0
  THEN /\ job' = [job EXCEPT ![r] = Manifest(r)]
       /\ ver' = [ver EXCEPT ![r] = @ + 1]
  ELSE UNCHANGED <<job, ver>>

Resumable(r, rv) == job[r].uid # 0 /\ job[r].rv = rv

ServeResume(r, rv) ==
  IF Resumable(r, rv)
  THEN /\ job' = [job EXCEPT ![r] = [@ EXCEPT !.suspend = FALSE, !.rv = ver[r] + 1]]
       /\ ver' = [ver EXCEPT ![r] = @ + 1]
  ELSE UNCHANGED <<job, ver>>

ServeDelete(r, uid) ==
  IF job[r].uid = uid /\ ~job[r].deleting
  THEN /\ job' = [job EXCEPT ![r] = [@ EXCEPT !.deleting = TRUE, !.rv = ver[r] + 1]]
       /\ ver' = [ver EXCEPT ![r] = @ + 1]
  ELSE UNCHANGED <<job, ver>>

ServeDeletePod(r) ==
  pod' = IF pod[r].phase = "none" THEN pod ELSE [pod EXCEPT ![r].doomed = TRUE]

(* A call whose client has given up is carried out after all. *)
LateCall(c) ==
  /\ late' = late \ {c}
  /\ \/ c.kind = "create" /\ ServeCreate(c.run) /\ UNCHANGED <<pod, secret>>
     \/ c.kind = "resume" /\ ServeResume(c.run, c.rv) /\ UNCHANGED <<pod, secret>>
     \/ c.kind = "delete" /\ ServeDelete(c.run, c.uid) /\ UNCHANGED <<pod, secret>>
     \/ c.kind = "delete_pod" /\ ServeDeletePod(c.run) /\ UNCHANGED <<job, ver, secret>>
     \/ c.kind = "secret" /\ secret' = [secret EXCEPT ![c.run] = TRUE]
                          /\ UNCHANGED <<job, ver, pod>>
  /\ UNCHANGED <<dbVars, workerVars, boundVars>>

-----------------------------------------------------------------------------
(* Passes that change something in Kubernetes. *)

WantsCreate(w) ==
  /\ Acting(w, {"creating"})
  /\ row[cur[w]].prepared
  /\ ~JobSeen(w)

WantsResume(w) ==
  /\ Acting(w, Executing)
  /\ ~Lost(w) /\ view[w].job.suspend

(* A stop deletes the Job at once. *)
BadWantsDelete_BeforeSnapshot(w) ==
  \/ Acting(w, {"stopping"})
  \/ Acting(w, TERMINAL)
  \/ /\ Acting(w, Executing)
     /\ ~JobSeen(w) \/ (Resumed(w) /\ ~Over(w) /\ overdue[cur[w]])

(* delete_job() is called while stopping, in cleanup(), for the pods of a  *)
(* Job that disappeared, and past the deadline.                            *)
WantsDelete(w) ==
  \/ Acting(w, {"stopping"}) /\ row[cur[w]].saved
  \/ Acting(w, TERMINAL)
  \/ /\ Acting(w, Executing)
     /\ ~JobSeen(w) \/ (Resumed(w) /\ ~Over(w) /\ overdue[cur[w]])

(* Jobs.create(): on 409 the Job that is already there is read instead. *)
Create(w) ==
  /\ WantsCreate(w)
  /\ ServeCreate(cur[w])
  /\ Uncommitted(w, [row[cur[w]] EXCEPT !.state = "pending", !.uid = job'[cur[w]].uid])
  /\ UNCHANGED <<pod, secret, late, boundVars>>

Resume(w) ==
  /\ WantsResume(w)
  /\ ServeResume(cur[w], view[w].job.rv)
  /\ Settle(w, row[cur[w]])
  /\ UNCHANGED <<pod, secret, late, boundVars>>

(* A delete for a uid that is not the Job's any more is refused (409), and *)
(* the pass rolls back.                                                    *)
Refused(w) == JobSeen(w) /\ job[cur[w]].uid \notin {0, view[w].job.uid}

(* While the run executes, the log read in this pass is kept as well. *)
DeletionNote(w, seen) ==
  IF row[cur[w]].state \in Executing /\ ~Refused(w)
  THEN Captured(w, seen) ELSE row[cur[w]]

DeleteJob(w) ==
  /\ WantsDelete(w) /\ JobSeen(w)
  /\ ServeDelete(cur[w], view[w].job.uid)
  /\ \E seen \in LogsRead(w) : Settle(w, DeletionNote(w, seen))
  /\ UNCHANGED <<pod, secret, late, boundVars>>

DeletePods(w) ==
  /\ WantsDelete(w) /\ ~JobSeen(w) /\ PodSeen(w)
  /\ ServeDeletePod(cur[w])
  /\ \E seen \in LogsRead(w) : Settle(w, DeletionNote(w, seen))
  /\ UNCHANGED <<job, ver, secret, late, boundVars>>

(* cleanup() does not wait for the workload to go. *)
BadCleanup_TooEarly(w) ==
  /\ Acting(w, TERMINAL)
  /\ secret' = [secret EXCEPT ![cur[w]] = FALSE]
  /\ Uncommitted(w, [row[cur[w]] EXCEPT !.cleaned = TRUE])
  /\ UNCHANGED <<job, pod, ver, late, boundVars>>

(* cleanup() forgets the Secrets. *)
BadCleanup_KeepsSecrets(w) ==
  /\ Acting(w, TERMINAL)
  /\ ~JobSeen(w) /\ ~PodSeen(w)
  /\ Uncommitted(w, [row[cur[w]] EXCEPT !.cleaned = TRUE])
  /\ UNCHANGED <<kubeVars, late, boundVars>>

(* cleanup() of a finished run whose Job and pods are gone. *)
Cleanup(w) ==
  /\ Acting(w, TERMINAL)
  /\ ~JobSeen(w) /\ ~PodSeen(w)
  /\ secret' = [secret EXCEPT ![cur[w]] = FALSE]
  /\ Uncommitted(w, [row[cur[w]] EXCEPT !.cleaned = TRUE])
  /\ UNCHANGED <<job, pod, ver, late, boundVars>>

(* A Kubernetes call fails: the pass rolls back and a later one retries. *)
CallFailed(w) ==
  /\ pc[w] \in {"read_job", "read_pods", "act"}
  /\ faults < MaxFaults
  /\ faults' = faults + 1
  /\ Rollback(w)
  /\ UNCHANGED <<kubeVars, late, lates>>

(* A write times out: the pass rolls back, the call is still under way. *)
TimedOut(w) ==
  LET r == cur[w]
  IN /\ lates < MaxLate
     /\ lates' = lates + 1
     /\ \/ WantsCreate(w) /\ late' = late \cup {CallFor("create", r, NoJob)}
        \/ WantsResume(w) /\ late' = late \cup {CallFor("resume", r, view[w].job)}
        \/ /\ WantsDelete(w) /\ JobSeen(w)
           /\ late' = late \cup {CallFor("delete", r, view[w].job)}
        \/ /\ WantsDelete(w) /\ ~JobSeen(w) /\ PodSeen(w)
           /\ late' = late \cup {CallFor("delete_pod", r, NoJob)}
     /\ Rollback(w)
     /\ UNCHANGED <<kubeVars, faults>>

(* The process dies: its connection closes, so its locks are released and  *)
(* its open transaction is lost.                                           *)
Crash(w) ==
  /\ pc[w] # "idle"
  /\ faults < MaxFaults
  /\ faults' = faults + 1
  /\ lock' = [r \in Runs |-> IF lock[r] = w THEN None ELSE lock[r]]
  /\ ToIdle(w)
  /\ UNCHANGED <<inst, row, result, legacy, now, created, overdue, kubeVars, late, lates>>

-----------------------------------------------------------------------------
(* Deleting an instance: prepare_instance_deletion() fences off new runs,  *)
(* stops the ones there are and refuses (409) until all are cleaned; then  *)
(* the rows go, the result rows and the instance last.                     *)

DeleteInstance(w, i) ==
  /\ w \in Clients /\ pc[w] = "idle"
  /\ inst[i] # "gone"
  /\ inst' = [inst EXCEPT ![i] = "deleting"]
  /\ loop' = [loop EXCEPT ![w] = [todo |-> {r \in InstanceRuns(i) : Exists(r)},
                                  unfinished |-> FALSE, victim |-> i]]
  /\ Goto(w, "del_next")
  /\ UNCHANGED <<row, lock, result, legacy, now, created, overdue, kubeVars, late,
                 cur, view, tx, boundVars>>

DelNext(w) ==
  /\ pc[w] = "del_next"
  /\ \E r \in loop[w].todo :
       /\ Unlocked(r)
       /\ Store(r, MarkStopping(r))
       /\ loop' = [loop EXCEPT ![w].todo = @ \ {r}]
       /\ cur' = [cur EXCEPT ![w] = r]
       /\ Goto(w, "reconcile")
  /\ UNCHANGED <<inst, lock, legacy, now, created, kubeVars, late, view, tx, boundVars>>

(* session.refresh(row) fails if another request has removed the row. *)
DelCheck(w) ==
  LET r == cur[w]
  IN /\ pc[w] = "del_check"
     /\ IF Exists(r)
        THEN /\ loop' = [loop EXCEPT ![w].unfinished = @ \/ ~row[r].cleaned]
             /\ cur' = [cur EXCEPT ![w] = None]
             /\ Goto(w, "del_next")
             /\ UNCHANGED <<view, tx>>
        ELSE ToIdle(w)
     /\ UNCHANGED <<dbVars, kubeVars, late, boundVars>>

DelConflict(w) ==
  /\ pc[w] = "del_next"
  /\ loop[w].todo = {} /\ loop[w].unfinished
  /\ ToIdle(w)
  /\ UNCHANGED <<dbVars, kubeVars, late, boundVars>>

(* delete_for_instance(): the DELETE waits for the locks on its rows. *)
DelRows(w) ==
  LET gone == {r \in InstanceRuns(loop[w].victim) : Exists(r)}
  IN /\ pc[w] = "del_next"
     /\ loop[w].todo = {} /\ ~loop[w].unfinished
     /\ \A r \in gone : Unlocked(r)
     /\ row' = [r \in Runs |-> IF r \in gone THEN [row[r] EXCEPT !.state = "deleted"]
                               ELSE row[r]]
     /\ Goto(w, "del_instance")
     /\ UNCHANGED <<inst, lock, result, legacy, now, created, overdue, kubeVars, late,
                    cur, view, tx, loop, boundVars>>

DelInstanceRow(w) ==
  LET i == loop[w].victim
  IN /\ pc[w] = "del_instance"
     /\ inst' = [inst EXCEPT ![i] = "gone"]
     /\ result' = [t \in Targets |-> IF t.instance = i
                                     THEN [run |-> None, output |-> 0] ELSE result[t]]
     /\ ToIdle(w)
     /\ UNCHANGED <<row, lock, legacy, now, created, overdue, kubeVars, late, boundVars>>

(* The Triton deployment could not be removed: the instance row stays. *)
DelAborted(w) ==
  /\ pc[w] = "del_instance"
  /\ ToIdle(w)
  /\ UNCHANGED <<dbVars, kubeVars, late, boundVars>>

-----------------------------------------------------------------------------
(* Kubernetes and the passing of time (external). *)

PodCreated(r) ==
  /\ job[r].uid # 0 /\ ~job[r].suspend /\ ~job[r].deleting
  /\ ~job[r].made /\ job[r].cond = "none" /\ pod[r].phase = "none"
  /\ pod' = [pod EXCEPT ![r] = [phase |-> "Pending", doomed |-> FALSE]]
  /\ job' = [job EXCEPT ![r].made = TRUE]
  /\ UNCHANGED <<secret, ver>>

PodStarted(r) ==
  /\ pod[r].phase = "Pending"
  /\ pod' = [pod EXCEPT ![r].phase = "Running"]
  /\ UNCHANGED <<job, secret, ver>>

PodFinished(r) ==
  /\ pod[r].phase = "Running"
  /\ \E p \in {"Succeeded", "Failed"} : pod' = [pod EXCEPT ![r].phase = p]
  /\ UNCHANGED <<job, secret, ver>>

(* The Job controller records how the only pod ended. *)
JobConcluded(r) ==
  /\ job[r].made /\ job[r].cond = "none" /\ pod[r].phase \notin LIVE
  /\ job' = [job EXCEPT ![r].cond = IF pod[r].phase = "Succeeded"
                                    THEN "Complete" ELSE "Failed"]
  /\ UNCHANGED <<pod, secret, ver>>

(* activeDeadlineSeconds: the Job fails while its pod still terminates. *)
JobTooLong(r) ==
  /\ job[r].made /\ job[r].cond = "none" /\ pod[r].phase \in LIVE
  /\ job' = [job EXCEPT ![r].cond = "Failed"]
  /\ pod' = [pod EXCEPT ![r].doomed = TRUE]
  /\ UNCHANGED <<secret, ver>>

PodGone(r) ==
  /\ pod[r].phase # "none"
  /\ pod[r].doomed \/ job[r].deleting
  /\ pod' = [pod EXCEPT ![r] = NoPod]
  /\ UNCHANGED <<job, secret, ver>>

JobGone(r) ==
  /\ job[r].deleting /\ pod[r].phase = "none"
  /\ job' = [job EXCEPT ![r] = NoJob]
  /\ UNCHANGED <<pod, secret, ver>>

(* Someone else deletes the Job, removes it and orphans its pod, or evicts *)
(* the pod.                                                                *)
Interference(r) ==
  \/ /\ job[r].uid # 0
     /\ ServeDelete(r, job[r].uid)
     /\ UNCHANGED <<pod, secret>>
  \/ /\ job[r].uid # 0
     /\ job' = [job EXCEPT ![r] = NoJob]
     /\ UNCHANGED <<pod, secret, ver>>
  \/ /\ pod[r].phase # "none"
     /\ ServeDeletePod(r)
     /\ UNCHANGED <<job, secret, ver>>

Kubernetes(r) ==
  \/ PodCreated(r) \/ PodStarted(r) \/ PodFinished(r) \/ JobConcluded(r)
  \/ JobTooLong(r) \/ PodGone(r) \/ JobGone(r)

KubeStep(r) ==
  /\ Kubernetes(r)
  /\ UNCHANGED <<dbVars, late, workerVars, boundVars>>

OutsideStep(r) ==
  /\ faults < MaxFaults
  /\ faults' = faults + 1
  /\ Interference(r)
  /\ UNCHANGED <<dbVars, late, workerVars, lates>>

LegacyGone ==
  /\ legacy = "terminating"
  /\ legacy' = "stopped"
  /\ UNCHANGED <<inst, row, lock, result, now, created, overdue, kubeVars, late,
                 workerVars, boundVars>>

Tick(r) ==
  /\ row[r].state \in Executing \/ (row[r].state = "creating" /\ ~row[r].prepared)
  /\ ~overdue[r]
  /\ overdue' = [overdue EXCEPT ![r] = TRUE]
  /\ UNCHANGED <<inst, row, lock, result, legacy, now, created, kubeVars, late,
                 workerVars, boundVars>>

-----------------------------------------------------------------------------
(* The specification. *)

(* What a worker that has begun does next, Kubernetes answering. *)
Pass(w) ==
  \/ Reconcile(w) \/ ReadJob(w) \/ ReadPods(w)
  \/ SaveSnapshot(w) \/ Cancelled(w)
  \/ PreparationInterrupted(w) \/ AdoptJob(w) \/ Create(w)
  \/ Resume(w) \/ JobDisappeared(w) \/ AwaitDeletion(w) \/ JobEnded(w)
  \/ Progress(w) \/ DeleteJob(w) \/ DeletePods(w) \/ Cleanup(w)
  \/ Commit(w)

Starting(w) ==
  \/ Build(w) \/ Reserve(w) \/ ReserveConflict(w) \/ LockPrepare(w) \/ Prepare(w)

Deleting(w) ==
  \/ DelNext(w) \/ DelCheck(w) \/ DelConflict(w) \/ DelRows(w)
  \/ DelInstanceRow(w)

Looping(w) == LoopPass(w) \/ LoopNext(w)

Request(w) ==
  \/ \E r \in Runs : Start(w, r) \/ Stop(w, r) \/ Observe(w, r)
  \/ \E i \in Instances : DeleteInstance(w, i)

Failure(w) ==
  \/ PrepareFailed(w) \/ CreateRejected(w) \/ CallFailed(w) \/ TimedOut(w)
  \/ DelAborted(w) \/ Crash(w)

Next ==
  \/ \E w \in Workers : \/ Request(w) \/ Starting(w) \/ Pass(w) \/ Looping(w)
                        \/ Deleting(w) \/ Failure(w)
  \/ \E r \in Runs : KubeStep(r) \/ OutsideStep(r) \/ Tick(r)
  \/ \E c \in late : LateCall(c)
  \/ LegacyGone

Spec == Init /\ [][Next]_vars

(* Threads run on, the reconciler's loop never ends, time passes, and what *)
(* is being deleted goes.  Nothing makes a user send a request or a pod    *)
(* start or finish.                                                        *)
Fairness ==
  /\ \A w \in Workers :
       WF_vars(Starting(w) \/ Pass(w) \/ Looping(w) \/ Deleting(w))
  /\ \A r \in Runs : /\ WF_vars(Tick(r))
                     /\ WF_vars(PodGone(r) /\ KubeStep(r))
                     /\ WF_vars(JobGone(r) /\ KubeStep(r))

FairSpec == Spec /\ Fairness

-----------------------------------------------------------------------------
(* Safety. *)

(* docs/model-performance-jobs.md: all versions of one model of an         *)
(* instance share one active-run slot.  reserve() and the partial unique   *)
(* index keep two rows from occupying it, whichever order the requests of  *)
(* several processes come in.                                              *)
OneActiveRun ==
  \A q, r \in Runs : /\ Slot(q) = Slot(r)
                     /\ row[q].state \in ACTIVE /\ row[r].state \in ACTIVE
                     => q = r

(* The slot is worth something only if the cluster agrees: two benchmarks  *)
(* of one model never execute at once, although a finished run's calls may *)
(* still be under way when the next run starts.                            *)
OneBenchmark ==
  \A q, r \in Runs : /\ Slot(q) = Slot(r)
                     /\ pod[q].phase \in LIVE /\ pod[r].phase \in LIVE
                     => q = r

(* A run reported as succeeded, failed or cancelled, or removed with its   *)
(* instance, has no executing pod and never gets one again: a Job is       *)
(* created suspended, and only a pass that holds the lock of an active run *)
(* enables it, against the resourceVersion it has read.                    *)
NoGhostExecution ==
  \A r \in Runs : pod[r].phase \in LIVE => row[r].state \in ACTIVE

(* reconcile_active(): "Save identity before enabling execution".  Every   *)
(* Job that may execute is the one whose uid the row holds, so a restarted *)
(* backend recognises it; crashes and retried creations included.          *)
IdentityBeforeExecution ==
  \A r \in Runs : job[r].uid # 0 /\ ~job[r].suspend => row[r].uid = job[r].uid

(* reconcile(): "commits this snapshot before a later pass deletes         *)
(* anything".  No pass deletes the Job of a stopping run before the row    *)
(* says that its output is saved; only others may.                         *)
SnapshotKept ==
  \A r \in Runs :
    /\ row[r].state = "stopping" /\ ~row[r].saved
    /\ faults' = faults /\ late' = late
    => job'[r].deleting = job[r].deleting \/ job'[r] = NoJob

(* A log that cannot be read any more never replaces captured output, and  *)
(* no run forgets that it has finished or that it is cleaned.              *)
HistoryKept ==
  \A r \in Runs :
    /\ row'[r].output >= row[r].output
    /\ row[r].state \in TERMINAL => row'[r].state \in {row[r].state, "deleted"}
    /\ row[r].cleaned => row'[r].cleaned

(* The output of a run is in the row before the Job that holds it goes, and *)
(* it stays there.                                                          *)
OutputKept == [][SnapshotKept /\ HistoryKept]_vars

(* finish() writes the latest-result row of the target in the transaction  *)
(* that ends the run: of the runs that have finished it always shows the   *)
(* one that was admitted last, and the output that run ended with.  It is  *)
(* also the youngest by created_at, the order in which status() picks its  *)
(* latest run, unless two requests crossed: a run with a younger record    *)
(* was built before the run shown was admitted.                            *)
ResultIsLatest ==
  \A r \in Runs : row[r].state \in TERMINAL =>
    LET best == result[TargetOf[r]]
    IN /\ best.run # None
       /\ row[best.run].output = best.output
       /\ row[best.run].admitted >= row[r].admitted
       /\ created[best.run] >= created[r] \/ created[r] < row[best.run].admitted

(* A cleaned run leaves nothing that executes or could: no pod, and no Job *)
(* other than a suspended one that a late call has created.                *)
CleanedIsQuiet ==
  \A r \in Runs : row[r].cleaned =>
    pod[r].phase = "none" /\ (job[r].uid = 0 \/ job[r].suspend)

(* As long as no call times out and is carried out afterwards, a cleaned   *)
(* run has left nothing at all in the cluster.                             *)
CleanedIsGone ==
  lates = 0 => \A r \in Runs : row[r].cleaned =>
    pod[r].phase = "none" /\ job[r].uid = 0 /\ ~secret[r]

(* Everything in the cluster is accounted for by a row: what may execute by *)
(* the uid the row holds, what is left by a row that is not cleaned.        *)
JobsAccounted == IdentityBeforeExecution /\ CleanedIsGone

(* prepare_instance_deletion(): once an instance is gone no run refers to  *)
(* it, and every run it had was cleaned before its row went.  The          *)
(* perf_deleting flag keeps a start under way from slipping in behind.     *)
InstanceGoesLast ==
  \A r \in Runs :
    /\ inst[TargetOf[r].instance] = "gone" => ~Exists(r)
    /\ row[r].state = "deleted" => row[r].cleaned

(* No run is admitted while the legacy singleton installation, which does  *)
(* not know of slots, may still execute.                                   *)
LegacyFirst == legacy # "retired" => \A r \in Runs : row[r].state = "unborn"

(* Whoever runs benchmarks of a model has been admitted alone: one run at a *)
(* time, and none next to the legacy installation.                          *)
AdmittedAlone == OneActiveRun /\ LegacyFirst


-----------------------------------------------------------------------------
(* The inductive invariant behind the safety properties.                   *)

(* Calls under way that would enable the run's Job. *)
LateResumes(r) == {c \in late : c.kind = "resume" /\ c.run = r}

(* The Job is gone, or nothing under way can enable it. *)
Vanished(r) ==
  job[r].uid = 0 \/ (job[r].suspend /\ \A c \in LateResumes(r) : c.rv # job[r].rv)

(* The Job will not create a pod any more. *)
Inert(r) == Vanished(r) \/ job[r].deleting \/ job[r].cond # "none"

Quiet(r) == Inert(r) /\ pod[r].phase \notin LIVE
Empty(r) == Vanished(r) /\ pod[r].phase = "none"

(* No pass has ever tried to enable the run's Job. *)
Untouched(r) == Empty(r) /\ LateResumes(r) = {}

(* What the cluster owes to a row x of the run, committed or about to be.  *)
Sound(r, x) ==
  /\ x.state \notin ACTIVE => Quiet(r)
  /\ x.uid = 0 => Untouched(r)
  /\ x.state \in Executing => x.uid # 0
  /\ x.state \in {"unborn", "creating"} => x.uid = 0
  /\ x.cleaned => Empty(r) /\ x.state \notin ACTIVE \cup {"unborn"}

RunInv(r) == job[r].rv <= ver[r] /\ Sound(r, row[r])

(* What a pass has read still holds where it matters: a Job seen gone,     *)
(* deleting or concluded does not come back to life behind its back.       *)
GoneSeen(w) == Lost(w) \/ view[w].job.cond # "none"

ViewInv(w) ==
  /\ pc[w] \in {"read_pods", "act"} =>
       /\ view[w].job.rv <= ver[cur[w]]
       /\ GoneSeen(w) => Inert(cur[w])
       /\ ~JobSeen(w) => Vanished(cur[w])
  /\ pc[w] = "act" =>
       /\ GoneSeen(w) /\ ~LiveSeen(w) => Quiet(cur[w])
       /\ ~JobSeen(w) /\ ~PodSeen(w) => Empty(cur[w])

CommitInv(w) ==
  pc[w] = "commit" =>
    /\ tx[w].state \in ACTIVE \cup TERMINAL
    /\ tx[w].state \in ACTIVE => row[cur[w]].state \in ACTIVE
    /\ Sound(cur[w], tx[w])

LockInv(w) ==
  /\ pc[w] \in LockedPc => lock[cur[w]] = w /\ Exists(cur[w])
  /\ pc[w] = "prepare" => row[cur[w]].state = "creating"
  /\ pc[w] = "reserve" => /\ row[cur[w]].state = "unborn"
                          /\ \A v \in Workers : cur[v] = cur[w] => v = w
  /\ \A r \in loop[w].todo : row[r].state # "unborn"

ExecutionInv ==
  /\ TypeOK
  /\ OneActiveRun
  /\ \A c \in late : c.rv <= ver[c.run]
  /\ \A r \in Runs : RunInv(r)
  /\ \A w \in Workers : LockInv(w) /\ ViewInv(w) /\ CommitInv(w)

(* The deletion of an instance has fenced it off, and accounts for every   *)
(* run of it: still to be visited, being visited, cleaned, or unfinished.  *)
DeletionInv(w) ==
  /\ pc[w] \notin RunPc => cur[w] = None
  /\ pc[w] \in {"idle", "loop_next"} => loop[w].victim = None
  /\ pc[w] \in LockedPc => ~row[cur[w]].cleaned
  /\ loop[w].victim # None =>
       /\ inst[loop[w].victim] # "live"
       /\ ~loop[w].unfinished =>
            \A r \in InstanceRuns(loop[w].victim) :
              Exists(r) => r \in loop[w].todo \/ r = cur[w] \/ row[r].cleaned
       /\ pc[w] = "del_instance" =>
            \A r \in InstanceRuns(loop[w].victim) : ~Exists(r)

(* Both parts need each other: rows are removed under the second, which    *)
(* must not free the slot of a run that executes.                          *)
SafetyInv ==
  /\ ExecutionInv
  /\ \A w \in Workers : DeletionInv(w)
  /\ InstanceGoesLast

-----------------------------------------------------------------------------
(* What rows, results and passes remember, inductive next to SafetyInv.    *)

(* A row x that exists may be written as y: it keeps its place in the      *)
(* order, its output and its Job, and what is over stays as it is.         *)
Grows(x, y) ==
  /\ y.admitted = x.admitted /\ y.output >= x.output
  /\ x.uid # 0 => y.uid = x.uid
  /\ x.cleaned => y.cleaned
  /\ x.state \in TERMINAL => y.state = x.state /\ y.output = x.output

(* Until the legacy record goes, no run is on its way to the insert. *)
LegacyInv ==
  legacy # "retired" =>
    /\ \A r \in Runs : row[r].state = "unborn"
    /\ \A w \in Workers : pc[w] # "reserve"

(* Records are built before they are admitted, both in the past.  The      *)
(* active run of a target was admitted after those that have finished, and *)
(* the result row holds what a finished run of the target ended with.      *)
ResultInv ==
  /\ \A r \in Runs :
       /\ created[r] <= now /\ row[r].admitted <= now
       /\ row[r].state \in ACTIVE \cup TERMINAL \cup {"deleted"}
            => created[r] < row[r].admitted
  /\ \A q, r \in Runs :
       TargetOf[q] = TargetOf[r] /\ row[q].state \in TERMINAL /\ row[r].state \in ACTIVE
       => row[q].admitted <= row[r].admitted
  /\ \A t \in Targets : result[t].run # None =>
       LET best == result[t].run
       IN /\ TargetOf[best] = t
          /\ row[best].state \in TERMINAL \cup {"deleted"}
          /\ row[best].output = result[t].output
  /\ ResultIsLatest

RecordInv ==
  /\ LegacyInv
  /\ \A w \in Workers : pc[w] = "commit" => Grows(row[cur[w]], tx[w])
  /\ ResultInv

(* Two sights of a run's Job that show one resourceVersion show one uid.   *)
SameJob(r, uid, rv) == job[r].uid # 0 /\ job[r].rv = rv => job[r].uid = uid

(* Whoever could enable a Job knows the uid that the row holds.            *)
IdentityInv ==
  /\ IdentityBeforeExecution
  /\ \A r \in Runs : \A c \in LateResumes(r) :
       c.uid = row[r].uid /\ c.uid # 0 /\ SameJob(r, c.uid, c.rv)
  /\ \A w \in Workers : pc[w] \in {"read_pods", "act"} /\ JobSeen(w) =>
       /\ row[cur[w]].uid \in {0, view[w].job.uid}
       /\ SameJob(cur[w], view[w].job.uid, view[w].job.rv)

(* Without late calls, a Job seen gone is gone, and what is about to be    *)
(* called cleaned is clean.                                                *)
TidyInv ==
  lates = 0 =>
    /\ late = {}
    /\ CleanedIsGone
    /\ \A w \in Workers :
         /\ pc[w] \in {"read_pods", "act"} /\ ~JobSeen(w) => job[cur[w]].uid = 0
         /\ pc[w] = "commit" /\ tx[w].cleaned => job[cur[w]].uid = 0 /\ ~secret[cur[w]]

HistoryInv == RecordInv /\ IdentityInv /\ TidyInv

-----------------------------------------------------------------------------
(* Refinement. *)

Phase(r) == IF row[r].state = "unborn" THEN "new"
            ELSE IF row[r].state \in ACTIVE THEN "held" ELSE "released"

Slots == INSTANCE BenchmarkSlot
           WITH SlotOf <- [r \in Runs |-> Slot(r)],
                phase <- [r \in Runs |-> Phase(r)],
                executing <- {r \in Runs : pod[r].phase \in LIVE}

(* Rows, locks, Jobs and pods together implement the slot: a benchmark     *)
(* begins only for the run that holds it, and a run lets go of it only     *)
(* when its benchmark has ceased.                                          *)
ImplementsSlots == Slots!Spec

-----------------------------------------------------------------------------
(* Liveness, without late calls. *)

(* Every admitted run comes to an end, frees its slot and is cleaned up,   *)
(* whatever crashes, errors and deletions by others it meets on the way.   *)
EventuallyCleaned ==
  \A r \in Runs : Exists(r) ~> (row[r].cleaned \/ row[r].state = "deleted")
=============================================================================
