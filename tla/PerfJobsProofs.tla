--------------------------- MODULE PerfJobsProofs ---------------------------
(***************************************************************************)
(* Theorems about PerfJobs, for any number of runs, workers, instances,    *)
(* faults and late calls: types, then the inductive invariant and the      *)
(* safety theorems it gives: one active run per slot, no execution without *)
(* an active run, and hence one benchmark per slot.  A second invariant on *)
(* top of it says what rows, results and Jobs remember: no run is admitted *)
(* next to the legacy installation, captured output and outcomes are kept, *)
(* the latest result is the youngest one, every Job is accounted for by    *)
(* its row, and rows, Jobs and pods implement the benchmark slot.          *)
(***************************************************************************)
EXTENDS PerfJobs, TLAPS

-----------------------------------------------------------------------------
(* Type correctness. *)

(* The initial rows, Jobs and locals have their types. *)
LEMMA EmptyTypes ==
  /\ NewRow \in Row /\ NoJob \in Job /\ NoPod \in Pod
  /\ NoView \in [job : Job, pod : Pod] /\ NoLoop \in Loop
BY DEF NewRow, Row, ACTIVE, TERMINAL, NoJob, Job, NoPod, Pod, LIVE, NoView,
       NoLoop, Loop

(* The initial states are well typed. *)
LEMMA InitType == Init => TypeOK
BY EmptyTypes, BoundAssumption
   DEF Init, TypeOK, DbTypeOK, KubeTypeOK, WorkerTypeOK, Targets, Pc, RunPc,
       LockedPc, DelPc

(* What a step leaves alone keeps its type. *)
LEMMA UnchangedTypes ==
  /\ DbTypeOK /\ UNCHANGED dbVars => DbTypeOK'
  /\ KubeTypeOK /\ UNCHANGED kubeVars => KubeTypeOK'
  /\ WorkerTypeOK /\ UNCHANGED workerVars => WorkerTypeOK'
BY DEF DbTypeOK, KubeTypeOK, WorkerTypeOK, dbVars, kubeVars, workerVars

(* A worker whose handler ends, or whose pass returns, keeps its types. *)
LEMMA ToIdleType ==
  ASSUME WorkerTypeOK, NEW w \in Workers, ToIdle(w)
  PROVE  WorkerTypeOK'
BY EmptyTypes DEF WorkerTypeOK, ToIdle, Goto, Pc, RunPc, DelPc, LockedPc

(* reconcile() returns to its caller with well-typed locals. *)
LEMMA ReturnType ==
  ASSUME WorkerTypeOK, NEW w \in Workers, cur[w] \in Runs, Return(w)
  PROVE  WorkerTypeOK'
BY EmptyTypes DEF WorkerTypeOK, Return, Goto, Pc, RunPc, DelPc, LockedPc, Loop

(* A worker that only moves on keeps its types. *)
LEMMA GotoType ==
  ASSUME WorkerTypeOK, NEW w \in Workers, NEW label \in Pc,
         label \notin DelPc, cur[w] \in Runs, Goto(w, label),
         cur' = cur, view' \in [Workers -> [job : Job, pod : Pod]],
         tx' \in [Workers -> Row], loop' = loop
  PROVE  WorkerTypeOK'
BY DEF WorkerTypeOK, Goto, DelPc

(* A transaction that commits a well-typed row keeps the database typed,   *)
(* and the worker that commits it returns.                                 *)
LEMMA StoreType ==
  ASSUME DbTypeOK, NEW r \in Runs, NEW new \in Row, Store(r, new),
         UNCHANGED <<inst, legacy, now, created>>, lock' \in [Runs -> Workers \cup {None}]
  PROVE  DbTypeOK'
<1>1. new.output \in 0..1
  BY DEF Row
<1>2. TargetOf[r] \in Targets
  BY TargetAssumption
<1> QED
  BY <1>1, <1>2 DEF DbTypeOK, Store

(* A pass that commits and releases its lock keeps the types. *)
LEMMA SettleType ==
  ASSUME DbTypeOK, WorkerTypeOK, NEW w \in Workers, cur[w] \in Runs,
         NEW new \in Row, Settle(w, new)
  PROVE  DbTypeOK' /\ WorkerTypeOK'
<1>1. lock' \in [Runs -> Workers \cup {None}]
  BY DEF Settle, Release, DbTypeOK
<1> QED
  BY <1>1, StoreType, ReturnType DEF Settle

(* A pass that rolls back keeps the types. *)
LEMMA RollbackType ==
  ASSUME DbTypeOK, WorkerTypeOK, NEW w \in Workers, cur[w] \in Runs, Rollback(w)
  PROVE  DbTypeOK' /\ WorkerTypeOK'
<1>1. DbTypeOK'
  BY DEF Rollback, Release, DbTypeOK
<1> QED
  BY <1>1, ReturnType DEF Rollback

(* An open transaction with a well-typed row keeps the types. *)
LEMMA UncommittedType ==
  ASSUME DbTypeOK, WorkerTypeOK, NEW w \in Workers, cur[w] \in Runs,
         NEW new \in Row, Uncommitted(w, new)
  PROVE  DbTypeOK' /\ WorkerTypeOK'
<1>1. DbTypeOK'
  BY UnchangedTypes DEF Uncommitted
<1>2. WorkerTypeOK'
  BY EmptyTypes DEF Uncommitted, WorkerTypeOK, Goto, Pc, RunPc, LockedPc, DelPc
<1> QED
  BY <1>1, <1>2

(* lock_run() keeps the types. *)
LEMMA BeginPassType ==
  ASSUME DbTypeOK, WorkerTypeOK, NEW w \in Workers, NEW r \in Runs,
         BeginPass(w, r), loop' \in [Workers -> Loop],
         \A v \in Workers \ {w} : loop'[v] = loop[v]
  PROVE  DbTypeOK' /\ WorkerTypeOK'
<1>1. DbTypeOK'
  BY DEF BeginPass, DbTypeOK
<1>2. WorkerTypeOK'
  BY DEF BeginPass, WorkerTypeOK, Goto, Pc, RunPc, LockedPc, DelPc
<1> QED
  BY <1>1, <1>2

(* What the API server carries out keeps the cluster's types. *)
LEMMA ServeType ==
  ASSUME KubeTypeOK, NEW r \in Runs, NEW n \in Nat, UNCHANGED secret,
         \/ /\ ServeCreate(r) \/ ServeResume(r, n) \/ ServeDelete(r, n)
            /\ UNCHANGED pod
         \/ ServeDeletePod(r) /\ UNCHANGED <<job, ver>>
  PROVE  KubeTypeOK'
<1>1. Manifest(r) \in Job
  BY DEF KubeTypeOK, Manifest, NoJob, Job
<1>2. CASE ServeCreate(r) /\ UNCHANGED pod
  BY <1>1, <1>2 DEF KubeTypeOK, ServeCreate
<1>a. /\ [job[r] EXCEPT !.suspend = FALSE, !.rv = ver[r] + 1] \in Job
      /\ [job[r] EXCEPT !.deleting = TRUE, !.rv = ver[r] + 1] \in Job
  <2>1. job[r] \in Job /\ ver[r] + 1 \in Nat
    BY DEF KubeTypeOK
  <2> DEFINE j == job[r]
             n1 == ver[r] + 1
  <2>2. j \in Job /\ n1 \in Nat
    BY <2>1
  <2> HIDE DEF j, n1
  <2>3. /\ [j EXCEPT !.suspend = FALSE, !.rv = n1] \in Job
        /\ [j EXCEPT !.deleting = TRUE, !.rv = n1] \in Job
    BY <2>2 DEF Job
  <2> QED
    BY <2>3 DEF j, n1
<1>3. CASE ServeResume(r, n) /\ UNCHANGED pod
  BY <1>3, <1>a DEF KubeTypeOK, ServeResume
<1>4. CASE ServeDelete(r, n) /\ UNCHANGED pod
  BY <1>4, <1>a DEF KubeTypeOK, ServeDelete
<1>5. CASE ServeDeletePod(r) /\ UNCHANGED <<job, ver>>
  BY <1>5 DEF KubeTypeOK, ServeDeletePod, Pod
<1> QED
  BY <1>2, <1>3, <1>4, <1>5

(* Every row a pass writes is well typed. *)
LEMMA WrittenRows ==
  ASSUME DbTypeOK, KubeTypeOK, WorkerTypeOK, NEW w \in Workers, cur[w] \in Runs,
         NEW seen \in LogsRead(w)
  PROVE  /\ row[cur[w]] \in Row /\ seen \in 0..1
         /\ Captured(w, seen) \in Row /\ DeletionNote(w, seen) \in Row
         /\ \A st \in ACTIVE \cup TERMINAL :
              /\ [row[cur[w]] EXCEPT !.state = st] \in Row
              /\ [Captured(w, seen) EXCEPT !.state = st] \in Row
         /\ [Captured(w, seen) EXCEPT !.saved = TRUE] \in Row
<1>1. row[cur[w]] \in Row
  BY DEF DbTypeOK
<1>2. seen \in 0..1
  BY DEF LogsRead, LogOf
<1>3. Captured(w, seen) \in Row
  BY <1>1, <1>2 DEF Captured, Row
<1>4. DeletionNote(w, seen) \in Row
  BY <1>1, <1>3 DEF DeletionNote
<1>5. ASSUME NEW x \in Row, NEW st \in ACTIVE \cup TERMINAL
      PROVE  [x EXCEPT !.state = st] \in Row
  BY DEF Row
<1>6. [Captured(w, seen) EXCEPT !.saved = TRUE] \in Row
  BY <1>3 DEF Row
<1> QED
  BY <1>1, <1>2, <1>3, <1>4, <1>5, <1>6

(* Requests and the reconciler's loop preserve the types. *)
LEMMA RequestType ==
  ASSUME TypeOK, NEW w \in Workers, Request(w) \/ Looping(w)
  PROVE  TypeOK'
<1> USE DEF TypeOK
<1>1. ASSUME NEW r \in Runs, Start(w, r) PROVE TypeOK'
  <2>1. WorkerTypeOK'
    BY <1>1 DEF Start, WorkerTypeOK, Goto, Pc, RunPc, LockedPc, DelPc
  <2> QED
    BY <1>1, <2>1, UnchangedTypes DEF Start, boundVars
<1>2. ASSUME NEW r \in Runs, Stop(w, r) PROVE TypeOK'
  <2>1. WorkerTypeOK'
    BY <1>2 DEF Stop, WorkerTypeOK, Goto, Pc, RunPc, LockedPc, DelPc
  <2>2. MarkStopping(r) \in Row
    <3>1. row[r] \in Row
      BY DEF DbTypeOK
    <3> QED
      BY <3>1 DEF MarkStopping, Row, ACTIVE
  <2>3. lock' \in [Runs -> Workers \cup {None}]
    BY <1>2 DEF Stop, DbTypeOK
  <2>4. DbTypeOK'
    BY <1>2, <2>2, <2>3, StoreType DEF Stop
  <2> QED
    BY <1>2, <2>1, <2>4, UnchangedTypes DEF Stop, boundVars
<1>3. ASSUME NEW r \in Runs, Observe(w, r) PROVE TypeOK'
  <2>1. loop' \in [Workers -> Loop]
    BY <1>3 DEF Observe, WorkerTypeOK
  <2> QED
    BY <1>3, <2>1, BeginPassType, UnchangedTypes DEF Observe, boundVars
<1>4. ASSUME NEW i \in Instances, DeleteInstance(w, i) PROVE TypeOK'
  <2>1. DbTypeOK'
    BY <1>4 DEF DeleteInstance, DbTypeOK
  <2>2. WorkerTypeOK'
    BY <1>4 DEF DeleteInstance, WorkerTypeOK, Goto, Pc, RunPc, LockedPc, DelPc,
                InstanceRuns, Loop
  <2> QED
    BY <1>4, <2>1, <2>2, UnchangedTypes DEF DeleteInstance, boundVars
<1>5. CASE LoopPass(w)
  <2>1. DbTypeOK'
    BY <1>5 DEF LoopPass, RetireLegacy, DbTypeOK
  <2>2. loop' \in [Workers -> Loop]
    <3>1. PendingIds \in SUBSET Runs
      BY DEF PendingIds
    <3> QED
      BY <1>5, <3>1 DEF LoopPass, WorkerTypeOK, Loop
  <2>3. WorkerTypeOK'
    BY <1>5, <2>2 DEF LoopPass, WorkerTypeOK, Goto, Pc, RunPc, LockedPc, DelPc
  <2> QED
    BY <1>5, <2>1, <2>3, UnchangedTypes DEF LoopPass, boundVars
<1>6. CASE LoopNext(w)
  <2>1. PICK r \in loop[w].todo :
          /\ loop' = [loop EXCEPT ![w].todo = @ \ {r}]
          /\ IF CanLock(r) THEN BeginPass(w, r)
             ELSE /\ Goto(w, IF loop[w].todo = {r} THEN "idle" ELSE "loop_next")
                  /\ UNCHANGED <<dbVars, cur, view, tx>>
    BY <1>6 DEF LoopNext
  <2>2. r \in Runs /\ loop' \in [Workers -> Loop]
        /\ \A v \in Workers \ {w} : loop'[v] = loop[v]
    BY <2>1 DEF WorkerTypeOK, Loop
  <2>3. CASE CanLock(r)
    BY <1>6, <2>1, <2>2, <2>3, BeginPassType, UnchangedTypes DEF LoopNext, boundVars
  <2>4. CASE ~CanLock(r)
    <3>1. WorkerTypeOK'
      BY <2>1, <2>2, <2>4 DEF WorkerTypeOK, Goto, Pc, RunPc, LockedPc, DelPc
    <3> QED
      BY <1>6, <2>1, <2>4, <3>1, UnchangedTypes DEF LoopNext, boundVars
  <2> QED
    BY <2>3, <2>4
<1> QED
  BY <1>1, <1>2, <1>3, <1>4, <1>5, <1>6 DEF Request, Looping

(* The steps of start() preserve the types. *)
LEMMA StartingType ==
  ASSUME TypeOK, NEW w \in Workers, Starting(w) \/ PrepareFailed(w)
  PROVE  TypeOK'
<1> USE DEF TypeOK
<1>0. pc[w] \in {"reserve", "lock_prepare", "prepare"} => cur[w] \in Runs /\ row[cur[w]] \in Row
  BY DEF WorkerTypeOK, DbTypeOK, RunPc, LockedPc
<1>1. CASE Reserve(w)
  <2>1. now + 1 \in Nat
    BY DEF DbTypeOK
  <2> DEFINE x == row[cur[w]]
             n1 == now + 1
             y == [x EXCEPT !.state = "creating", !.admitted = n1]
  <2>2. x \in Row /\ n1 \in Nat
    BY <1>0, <1>1, <2>1 DEF Reserve
  <2> HIDE DEF x, n1
  <2>3. y \in Row
    BY <2>2 DEF Row, ACTIVE
  <2>4. row' = [row EXCEPT ![cur[w]] = y]
    BY <1>1 DEF Reserve, x, n1
  <2>5. DbTypeOK'
    BY <1>1, <1>0, <2>1, <2>3, <2>4 DEF Reserve, DbTypeOK
  <2>6. WorkerTypeOK'
    BY <1>0, <1>1 DEF Reserve, WorkerTypeOK, Goto, Pc, RunPc, LockedPc, DelPc
  <2> QED
    BY <1>1, <2>5, <2>6, UnchangedTypes DEF Reserve, boundVars
<1>2. CASE ReserveConflict(w)
  BY <1>2, ToIdleType, UnchangedTypes DEF ReserveConflict, boundVars
<1>3. CASE LockPrepare(w)
  <2>1. DbTypeOK'
    BY <1>0, <1>3 DEF LockPrepare, DbTypeOK
  <2>2. WorkerTypeOK'
    <3>1. CASE row[cur[w]].state = "creating"
      BY <1>0, <1>3, <3>1 DEF LockPrepare, WorkerTypeOK, Goto, Pc, RunPc, LockedPc, DelPc
    <3>2. CASE row[cur[w]].state # "creating"
      BY <1>3, <3>2, ToIdleType DEF LockPrepare
    <3> QED
      BY <3>1, <3>2
  <2> QED
    BY <1>3, <2>1, <2>2, UnchangedTypes DEF LockPrepare, boundVars
<1>4. CASE Prepare(w)
  <2>1. [row[cur[w]] EXCEPT !.prepared = TRUE] \in Row
    BY <1>0, <1>4 DEF Prepare, Row
  <2>2. KubeTypeOK'
    BY <1>4, <1>0 DEF Prepare, KubeTypeOK
  <2> QED
    BY <1>0, <1>4, <2>1, <2>2, UncommittedType DEF Prepare, boundVars
<1>5. CASE PrepareFailed(w)
  <2>1. [row[cur[w]] EXCEPT !.state = "failed"] \in Row
    BY <1>0, <1>5 DEF PrepareFailed, Row, TERMINAL
  <2>2. KubeTypeOK'
    <3>1. secret' \in {secret, [secret EXCEPT ![cur[w]] = cur[w] \in SecretRuns]}
      BY <1>5 DEF PrepareFailed
    <3>2. (cur[w] \in SecretRuns) \in BOOLEAN
      OBVIOUS
    <3>3. secret' \in [Runs -> BOOLEAN]
      BY <3>1, <3>2 DEF KubeTypeOK
    <3> QED
      BY <1>5, <3>3 DEF PrepareFailed, KubeTypeOK
  <2>3. CallFor("secret", cur[w], NoJob) \in Call
    BY <1>0, <1>5 DEF PrepareFailed, CallFor, NoJob, Call
  <2>4. late' \in SUBSET Call /\ lates' \in Nat /\ faults' \in Nat
    BY <1>5, <2>3 DEF PrepareFailed
  <2> QED
    BY <1>0, <1>5, <2>1, <2>2, <2>4, UncommittedType DEF PrepareFailed
<1>6. CASE Build(w)
  <2>1. DbTypeOK'
    <3>1. now \in Nat /\ now + 1 \in Nat
      BY DEF DbTypeOK
    <3>2. created' \in [Runs -> Nat]
      BY <1>6, <3>1 DEF Build, DbTypeOK
    <3>3. now' \in Nat
      BY <1>6, <3>1 DEF Build
    <3> QED
      BY <1>6, <3>2, <3>3 DEF Build, DbTypeOK
  <2> QED
    BY <1>6, <2>1, UnchangedTypes DEF Build, boundVars
<1> QED
  BY <1>1, <1>2, <1>3, <1>4, <1>5, <1>6 DEF Starting

(* A reconciliation pass preserves the types. *)
LEMMA PassType ==
  ASSUME TypeOK, NEW w \in Workers, Pass(w) \/ CreateRejected(w)
  PROVE  TypeOK'
<1> USE DEF TypeOK
<1>0. pc[w] \in {"reconcile", "read_job", "read_pods", "act", "commit"} => cur[w] \in Runs
  BY DEF WorkerTypeOK, RunPc, LockedPc
<1>a. pc[w] = "act" => cur[w] \in Runs
  BY <1>0
<1>b. view[w].job.uid \in Nat /\ view[w].job.rv \in Nat
  BY DEF WorkerTypeOK, Job
<1>1. CASE Reconcile(w)
  <2>1. CASE CanLock(cur[w])
    <3>1. loop' \in [Workers -> Loop] /\ \A v \in Workers \ {w} : loop'[v] = loop[v]
      BY <1>1, <2>1 DEF Reconcile, WorkerTypeOK
    <3> QED
      BY <1>0, <1>1, <2>1, <3>1, BeginPassType, UnchangedTypes DEF Reconcile, boundVars
  <2>2. CASE ~CanLock(cur[w])
    BY <1>0, <1>1, <2>2, ReturnType, UnchangedTypes DEF Reconcile, boundVars
  <2> QED
    BY <2>1, <2>2
<1>2. CASE ReadJob(w)
  <2>1. CASE SameIdentity(cur[w])
    <3>1. job[cur[w]] \in Job /\ cur[w] \in Runs
      BY <1>0, <1>2 DEF ReadJob, KubeTypeOK
    <3>2. view' \in [Workers -> [job : Job, pod : Pod]]
      BY <1>2, <2>1, <3>1 DEF ReadJob, WorkerTypeOK
    <3>3. WorkerTypeOK'
      BY <1>2, <2>1, <3>1, <3>2 DEF ReadJob, WorkerTypeOK, Goto, Pc, RunPc, LockedPc, DelPc
    <3> QED
      BY <1>2, <2>1, <3>3, UnchangedTypes DEF ReadJob, boundVars
  <2>2. CASE ~SameIdentity(cur[w])
    BY <1>0, <1>2, <2>2, RollbackType, UnchangedTypes DEF ReadJob, boundVars
  <2> QED
    BY <2>1, <2>2
<1>3. CASE ReadPods(w)
  <2>1. pod[cur[w]] \in Pod /\ cur[w] \in Runs
    BY <1>0, <1>3 DEF ReadPods, KubeTypeOK
  <2>2. view' \in [Workers -> [job : Job, pod : Pod]]
    BY <1>3, <2>1 DEF ReadPods, WorkerTypeOK
  <2>3. WorkerTypeOK'
    BY <1>3, <2>1, <2>2 DEF ReadPods, WorkerTypeOK, Goto, Pc, RunPc, LockedPc, DelPc
  <2> QED
    BY <1>3, <2>3, UnchangedTypes DEF ReadPods, boundVars
<1>4. ASSUME NEW new \in Row, WriteOnly(w, new), cur[w] \in Runs PROVE TypeOK'
  BY <1>4, SettleType, UnchangedTypes DEF WriteOnly, boundVars
<1>5. ASSUME cur[w] \in Runs PROVE row[cur[w]] \in Row
  BY <1>5 DEF DbTypeOK
<1>6. ASSUME NEW x \in Row, NEW st \in ACTIVE \cup TERMINAL
      PROVE  [x EXCEPT !.state = st] \in Row
  BY DEF Row
<1>7. ASSUME Acting(w, ACTIVE \cup TERMINAL) PROVE cur[w] \in Runs
  BY <1>7, <1>0 DEF Acting
<1>8. CASE SaveSnapshot(w)
  BY <1>8, <1>a, <1>4, WrittenRows DEF SaveSnapshot, Acting
<1>9. CASE Cancelled(w)
  BY <1>9, <1>a, <1>4, <1>5, <1>6 DEF Cancelled, Acting, TERMINAL
<1>10. CASE PreparationInterrupted(w)
  BY <1>10, <1>a, <1>4, <1>5, <1>6 DEF PreparationInterrupted, Acting, TERMINAL
<1>11. CASE AdoptJob(w)
  <2> DEFINE x == row[cur[w]]
             u == view[w].job.uid
             y == [x EXCEPT !.state = "pending", !.uid = u]
  <2>1. x \in Row /\ u \in Nat
    BY <1>11, <1>a, <1>b, <1>5 DEF AdoptJob, Acting
  <2> HIDE DEF x, u
  <2>2. y \in Row
    BY <2>1 DEF Row, ACTIVE
  <2>3. WriteOnly(w, y)
    BY <1>11 DEF AdoptJob, x, u
  <2> QED
    BY <1>11, <1>a, <1>4, <2>2, <2>3 DEF AdoptJob, Acting
<1>12. CASE Create(w)
  <2>1. cur[w] \in Runs
    BY <1>12, <1>a DEF Create, WantsCreate, Acting
  <2>2. KubeTypeOK'
    BY <1>12, <2>1, ServeType DEF Create
  <2> DEFINE x == row[cur[w]]
             u == job'[cur[w]].uid
             y == [x EXCEPT !.state = "pending", !.uid = u]
  <2>3. x \in Row /\ u \in Nat
    BY <2>1, <2>2, <1>5 DEF KubeTypeOK, Job
  <2> HIDE DEF x, u
  <2>4. y \in Row
    BY <2>3 DEF Row, ACTIVE
  <2>5. Uncommitted(w, y)
    BY <1>12 DEF Create, x, u
  <2> QED
    BY <1>12, <2>1, <2>2, <2>4, <2>5, UncommittedType DEF Create, boundVars
<1>13. CASE Resume(w)
  <2>1. cur[w] \in Runs
    BY <1>13, <1>a DEF Resume, WantsResume, Acting
  <2>2. KubeTypeOK'
    BY <1>13, <2>1, <1>b, ServeType DEF Resume
  <2> QED
    BY <1>13, <2>1, <2>2, <1>5, SettleType DEF Resume, boundVars
<1>14. CASE JobDisappeared(w)
  BY <1>14, <1>a, <1>4, <1>5, <1>6 DEF JobDisappeared, Acting, TERMINAL
<1>15. CASE AwaitDeletion(w)
  BY <1>15, <1>a, <1>4, WrittenRows DEF AwaitDeletion, Acting
<1>16. CASE JobEnded(w)
  <2>1. cur[w] \in Runs
    BY <1>16, <1>a DEF JobEnded, Acting
  <2>2. PICK seen \in LogsRead(w) :
          WriteOnly(w, [Captured(w, seen) EXCEPT
            !.state = IF view[w].job.cond = "Complete" THEN "succeeded" ELSE "failed"])
    BY <1>16 DEF JobEnded
  <2>3. Captured(w, seen) \in Row
    BY <2>1, WrittenRows
  <2> QED
    BY <2>1, <2>2, <2>3, <1>4, <1>6 DEF TERMINAL
<1>17. CASE Progress(w)
  <2>1. cur[w] \in Runs
    BY <1>17, <1>a DEF Progress, Acting
  <2>2. PICK seen \in LogsRead(w) :
          WriteOnly(w, [Captured(w, seen) EXCEPT
            !.state = IF view[w].pod.phase = "Running" THEN "running" ELSE @])
    BY <1>17 DEF Progress
  <2> DEFINE x == Captured(w, seen)
  <2>3. x \in Row
    BY <2>1, WrittenRows
  <2> HIDE DEF x
  <2>4. [x EXCEPT !.state = IF view[w].pod.phase = "Running" THEN "running" ELSE @] \in Row
    BY <2>3 DEF Row, ACTIVE
  <2> QED
    BY <2>1, <2>2, <2>4, <1>4 DEF x
<1>18. CASE DeleteJob(w)
  <2>1. cur[w] \in Runs
    BY <1>18, <1>a DEF DeleteJob, WantsDelete, Acting
  <2>2. KubeTypeOK'
    BY <1>18, <2>1, <1>b, ServeType DEF DeleteJob
  <2> QED
    BY <1>18, <2>1, <2>2, WrittenRows, SettleType DEF DeleteJob, boundVars
<1>19. CASE DeletePods(w)
  <2>1. cur[w] \in Runs
    BY <1>19, <1>a DEF DeletePods, WantsDelete, Acting
  <2>2. KubeTypeOK'
    BY <1>19, <2>1, <1>b, ServeType DEF DeletePods
  <2> QED
    BY <1>19, <2>1, <2>2, WrittenRows, SettleType DEF DeletePods, boundVars
<1>20. CASE Cleanup(w)
  <2>1. cur[w] \in Runs
    BY <1>20, <1>a DEF Cleanup, Acting
  <2>2. [row[cur[w]] EXCEPT !.cleaned = TRUE] \in Row
    BY <2>1, <1>5 DEF Row
  <2>3. KubeTypeOK'
    BY <1>20 DEF Cleanup, KubeTypeOK
  <2> QED
    BY <1>20, <2>1, <2>2, <2>3, UncommittedType DEF Cleanup, boundVars
<1>21. CASE Commit(w)
  <2>1. cur[w] \in Runs /\ tx[w] \in Row
    BY <1>21, <1>0 DEF Commit, WorkerTypeOK
  <2> QED
    BY <1>21, <2>1, SettleType, UnchangedTypes DEF Commit, boundVars
<1>22. CASE CreateRejected(w)
  BY <1>22, <1>a, <1>4, <1>5, <1>6 DEF CreateRejected, Acting, TERMINAL
<1> QED
  BY <1>1, <1>2, <1>3, <1>8, <1>9, <1>10, <1>11, <1>12, <1>13, <1>14, <1>15,
     <1>16, <1>17, <1>18, <1>19, <1>20, <1>21, <1>22 DEF Pass

(* Deleting an instance, and what can go wrong, preserve the types. *)
LEMMA DeletingType ==
  ASSUME TypeOK, NEW w \in Workers,
         Deleting(w) \/ DelAborted(w) \/ CallFailed(w) \/ TimedOut(w) \/ Crash(w)
  PROVE  TypeOK'
<1> USE DEF TypeOK
<1>1. CASE DelNext(w)
  <2>1. PICK r \in loop[w].todo :
          /\ Unlocked(r) /\ Store(r, MarkStopping(r))
          /\ loop' = [loop EXCEPT ![w].todo = @ \ {r}]
          /\ cur' = [cur EXCEPT ![w] = r] /\ Goto(w, "reconcile")
    BY <1>1 DEF DelNext
  <2>2. r \in Runs /\ row[r] \in Row /\ loop' \in [Workers -> Loop]
        /\ \A v \in Workers : loop'[v].victim = loop[v].victim
    <3>1. loop[w] \in Loop /\ loop \in [Workers -> Loop] /\ row \in [Runs -> Row]
      BY DEF WorkerTypeOK, DbTypeOK
    <3>2. r \in Runs
      BY <2>1, <3>1 DEF Loop
    <3> DEFINE x == loop[w]
               y == [x EXCEPT !.todo = x.todo \ {r}]
    <3>3. y \in Loop /\ y.victim = x.victim
      BY <3>1 DEF Loop
    <3>4. loop' = [loop EXCEPT ![w] = y]
      BY <2>1
    <3> HIDE DEF y
    <3> QED
      BY <3>1, <3>2, <3>3, <3>4
  <2>3. MarkStopping(r) \in Row
    BY <2>2 DEF MarkStopping, Row, ACTIVE
  <2>4. DbTypeOK'
    <3>1. lock' \in [Runs -> Workers \cup {None}]
      BY <1>1 DEF DelNext, DbTypeOK
    <3> QED
      BY <1>1, <2>1, <2>2, <2>3, <3>1, StoreType DEF DelNext
  <2>5. WorkerTypeOK'
    <3>1. pc' \in [Workers -> Pc] /\ cur' \in [Workers -> Runs \cup {None}]
      BY <2>1, <2>2 DEF WorkerTypeOK, Goto, Pc, RunPc
    <3>2. \A v \in Workers : pc'[v] \in RunPc => cur'[v] \in Runs
      BY <2>1, <2>2 DEF WorkerTypeOK, Goto
    <3>3. \A v \in Workers : pc'[v] \in DelPc => loop'[v].victim \in Instances
      BY <2>1, <2>2 DEF WorkerTypeOK, Goto, DelPc
    <3> QED
      BY <1>1, <2>2, <3>1, <3>2, <3>3 DEF DelNext, WorkerTypeOK
  <2> QED
    BY <1>1, <2>4, <2>5, UnchangedTypes DEF DelNext, boundVars
<1>2. CASE DelCheck(w)
  <2>1. CASE Exists(cur[w])
    <3>1. loop' \in [Workers -> Loop]
          /\ \A v \in Workers : loop'[v].victim = loop[v].victim
      <4>1. loop[w] \in Loop /\ loop \in [Workers -> Loop]
        BY DEF WorkerTypeOK
      <4> DEFINE x == loop[w]
                 b == x.unfinished \/ ~row[cur[w]].cleaned
                 y == [x EXCEPT !.unfinished = b]
      <4>2. b \in BOOLEAN
        OBVIOUS
      <4>3. loop' = [loop EXCEPT ![w] = y]
        BY <1>2, <2>1 DEF DelCheck
      <4> HIDE DEF b
      <4>4. y \in Loop /\ y.victim = x.victim
        BY <4>1, <4>2 DEF Loop
      <4> HIDE DEF y
      <4> QED
        BY <4>1, <4>3, <4>4
    <3>2. WorkerTypeOK'
      <4>1. pc' \in [Workers -> Pc] /\ cur' \in [Workers -> Runs \cup {None}]
        BY <1>2, <2>1 DEF DelCheck, WorkerTypeOK, Goto, Pc
      <4>2. \A v \in Workers : pc'[v] \in RunPc => cur'[v] \in Runs
        BY <1>2, <2>1 DEF DelCheck, WorkerTypeOK, Goto, RunPc, LockedPc
      <4>3. \A v \in Workers : pc'[v] \in DelPc => loop'[v].victim \in Instances
        BY <1>2, <2>1, <3>1 DEF DelCheck, WorkerTypeOK, Goto, DelPc
      <4> QED
        BY <1>2, <2>1, <3>1, <4>1, <4>2, <4>3 DEF DelCheck, WorkerTypeOK
    <3> QED
      BY <1>2, <3>2, UnchangedTypes DEF DelCheck, boundVars
  <2>2. CASE ~Exists(cur[w])
    BY <1>2, <2>2, ToIdleType, UnchangedTypes DEF DelCheck, boundVars
  <2> QED
    BY <2>1, <2>2
<1>3. CASE DelConflict(w)
  BY <1>3, ToIdleType, UnchangedTypes DEF DelConflict, boundVars
<1>4. CASE DelRows(w)
  <2>1. DbTypeOK'
    <3>1. \A r \in Runs : [row[r] EXCEPT !.state = "deleted"] \in Row
      <4> SUFFICES ASSUME NEW r \in Runs PROVE [row[r] EXCEPT !.state = "deleted"] \in Row
        OBVIOUS
      <4>1. row[r] \in Row
        BY DEF DbTypeOK
      <4> QED
        BY <4>1 DEF Row
    <3> QED
      BY <1>4, <3>1 DEF DelRows, DbTypeOK
  <2>2. WorkerTypeOK'
    <3>1. \A v \in Workers : pc'[v] \in RunPc => cur'[v] \in Runs
      BY <1>4 DEF DelRows, WorkerTypeOK, Goto, RunPc, LockedPc
    <3>2. \A v \in Workers : pc'[v] \in DelPc => loop'[v].victim \in Instances
      BY <1>4 DEF DelRows, WorkerTypeOK, Goto, DelPc
    <3> QED
      BY <1>4, <3>1, <3>2 DEF DelRows, WorkerTypeOK, Goto, Pc
  <2> QED
    BY <1>4, <2>1, <2>2, UnchangedTypes DEF DelRows, boundVars
<1>5. CASE DelInstanceRow(w)
  <2>1. DbTypeOK'
    <3>1. inst' \in [Instances -> {"live", "deleting", "gone"}]
      BY <1>5 DEF DelInstanceRow, DbTypeOK
    <3>2. result' \in [Targets -> [run : Runs \cup {None}, output : 0..1]]
      <4>1. \A t \in Targets : result[t] \in [run : Runs \cup {None}, output : 0..1]
        BY DEF DbTypeOK
      <4>2. [run |-> None, output |-> 0] \in [run : Runs \cup {None}, output : 0..1]
        OBVIOUS
      <4> QED
        BY <1>5, <4>1, <4>2 DEF DelInstanceRow
    <3> QED
      BY <1>5, <3>1, <3>2 DEF DelInstanceRow, DbTypeOK
  <2> QED
    BY <1>5, <2>1, ToIdleType, UnchangedTypes DEF DelInstanceRow, boundVars
<1>6. CASE DelAborted(w)
  BY <1>6, ToIdleType, UnchangedTypes DEF DelAborted, boundVars
<1>7. CASE CallFailed(w)
  <2>1. cur[w] \in Runs
    BY <1>7 DEF CallFailed, WorkerTypeOK, RunPc, LockedPc
  <2> QED
    BY <1>7, <2>1, RollbackType, UnchangedTypes DEF CallFailed
<1>8. CASE TimedOut(w)
  <2>1. cur[w] \in Runs
    BY <1>8 DEF TimedOut, WantsCreate, WantsResume, WantsDelete, Acting,
                WorkerTypeOK, RunPc, LockedPc
  <2>2. \A k \in {"create", "resume", "delete", "delete_pod"} :
           CallFor(k, cur[w], NoJob) \in Call /\ CallFor(k, cur[w], view[w].job) \in Call
    BY <2>1 DEF CallFor, NoJob, Call, WorkerTypeOK, Job
  <2>3. late' \in SUBSET Call /\ lates' \in Nat
    BY <1>8, <2>2 DEF TimedOut
  <2> QED
    BY <1>8, <2>1, <2>3, RollbackType, UnchangedTypes DEF TimedOut
<1>9. CASE Crash(w)
  <2>1. DbTypeOK'
    BY <1>9 DEF Crash, DbTypeOK
  <2> QED
    BY <1>9, <2>1, ToIdleType, UnchangedTypes DEF Crash
<1> QED
  BY <1>1, <1>2, <1>3, <1>4, <1>5, <1>6, <1>7, <1>8, <1>9 DEF Deleting

(* The cluster, other people and the clock preserve the types. *)
LEMMA OutsideType ==
  ASSUME TypeOK,
         \/ \E r \in Runs : KubeStep(r) \/ OutsideStep(r) \/ Tick(r)
         \/ \E c \in late : LateCall(c)
         \/ LegacyGone
  PROVE  TypeOK'
<1> USE DEF TypeOK
<1>1. ASSUME NEW r \in Runs, KubeStep(r) PROVE TypeOK'
  <2>1. job[r] \in Job /\ pod[r] \in Pod
    BY DEF KubeTypeOK
  <2>2. KubeTypeOK'
    <3>1. CASE PodCreated(r)
      BY <3>1, <2>1 DEF PodCreated, KubeTypeOK, Job, Pod, LIVE
    <3>2. CASE PodStarted(r) \/ PodFinished(r)
      BY <3>2, <2>1 DEF PodStarted, PodFinished, KubeTypeOK, Pod, LIVE
    <3>3. CASE JobConcluded(r)
      BY <3>3, <2>1 DEF JobConcluded, KubeTypeOK, Job
    <3>4. CASE JobTooLong(r)
      BY <3>4, <2>1 DEF JobTooLong, KubeTypeOK, Job, Pod
    <3>5. CASE PodGone(r) \/ JobGone(r)
      BY <3>5, EmptyTypes DEF PodGone, JobGone, KubeTypeOK
    <3> QED
      BY <1>1, <3>1, <3>2, <3>3, <3>4, <3>5 DEF KubeStep, Kubernetes
  <2> QED
    BY <1>1, <2>2, UnchangedTypes DEF KubeStep, boundVars
<1>2. ASSUME NEW r \in Runs, OutsideStep(r) PROVE TypeOK'
  <2>1. job[r].uid \in Nat
    BY DEF KubeTypeOK, Job
  <2>2. KubeTypeOK'
    <3>1. CASE job' = [job EXCEPT ![r] = NoJob] /\ UNCHANGED <<pod, secret, ver>>
      BY <3>1, EmptyTypes DEF KubeTypeOK
    <3> QED
      BY <1>2, <2>1, <3>1, ServeType DEF OutsideStep, Interference
  <2> QED
    BY <1>2, <2>2, UnchangedTypes DEF OutsideStep
<1>3. ASSUME NEW r \in Runs, Tick(r) PROVE TypeOK'
  <2>1. DbTypeOK'
    BY <1>3 DEF Tick, DbTypeOK
  <2> QED
    BY <1>3, <2>1, UnchangedTypes DEF Tick, boundVars
<1>4. ASSUME NEW c \in late, LateCall(c) PROVE TypeOK'
  <2>1. c.run \in Runs /\ c.uid \in Nat /\ c.rv \in Nat
    BY DEF Call
  <2>2. KubeTypeOK'
    <3>1. CASE secret' = [secret EXCEPT ![c.run] = TRUE] /\ UNCHANGED <<job, ver, pod>>
      BY <3>1 DEF KubeTypeOK
    <3> QED
      BY <1>4, <2>1, <3>1, ServeType DEF LateCall
  <2> QED
    BY <1>4, <2>2, UnchangedTypes DEF LateCall, boundVars
<1>5. CASE LegacyGone
  <2>1. DbTypeOK'
    BY <1>5 DEF LegacyGone, DbTypeOK
  <2> QED
    BY <1>5, <2>1, UnchangedTypes DEF LegacyGone, boundVars
<1> QED
  BY <1>1, <1>2, <1>3, <1>4, <1>5

(* Every step preserves the types. *)
LEMMA NextType == TypeOK /\ [Next]_vars => TypeOK'
<1> SUFFICES ASSUME TypeOK, [Next]_vars PROVE TypeOK'
  OBVIOUS
<1>1. CASE UNCHANGED vars
  BY <1>1, UnchangedTypes DEF TypeOK, vars, dbVars, kubeVars, workerVars
<1>2. CASE Next
  BY <1>2, RequestType, StartingType, PassType, DeletingType, OutsideType
     DEF Next, Failure
<1> QED
  BY <1>1, <1>2

(* Every reachable state is well typed: in particular a worker past its    *)
(* lock always has a run, and a deletion always an instance.               *)
THEOREM TypeCorrect == Spec => []TypeOK
BY InitType, NextType, PTL DEF Spec

-----------------------------------------------------------------------------
(* Calm steps: nothing that has gone quiet in the cluster wakes up again.  *)
(* Every step is calm, except for a pass that enables the Job of its run.  *)

Calm(q) ==
  /\ ver[q] <= ver'[q]
  /\ Vanished(q) => Vanished(q)'
  /\ Inert(q) => Inert(q)'
  /\ Quiet(q) => Quiet(q)'
  /\ Empty(q) => Empty(q)'
  /\ Untouched(q) => Untouched(q)'

(* Versions only grow, and nothing refers to one not yet given out. *)
VersionsOK ==
  /\ \A r \in Runs : job[r].rv <= ver[r]
  /\ \A c \in late : c.rv <= ver[c.run]

(* A run whose Job and pod a step leaves alone stays calm. *)
LEMMA CalmHere ==
  ASSUME TypeOK, NEW q \in Runs, job'[q] = job[q], pod'[q] = pod[q],
         ver'[q] = ver[q], LateResumes(q)' \subseteq LateResumes(q)
  PROVE  Calm(q)
<1>1. ver[q] <= ver'[q]
  BY DEF TypeOK, KubeTypeOK
<1>2. Vanished(q) => Vanished(q)'
  BY DEF Vanished
<1>3. Inert(q) => Inert(q)'
  BY <1>2 DEF Inert
<1> QED
  BY <1>1, <1>2, <1>3 DEF Calm, Quiet, Empty, Untouched

(* In particular when no call was added to those under way. *)
LEMMA CalmElsewhere ==
  ASSUME TypeOK, NEW q \in Runs, job'[q] = job[q], pod'[q] = pod[q],
         ver'[q] = ver[q], late' \subseteq late
  PROVE  Calm(q)
<1>1. LateResumes(q)' \subseteq LateResumes(q)
  BY DEF LateResumes
<1> QED
  BY <1>1, CalmHere

(* So does a run of which a step only takes something away. *)
LEMMA CalmIf ==
  ASSUME NEW q \in Runs, ver[q] <= ver'[q],
         Vanished(q) => Vanished(q)', Inert(q) => Inert(q)',
         Inert(q) /\ pod[q].phase \notin LIVE => pod'[q].phase \notin LIVE,
         Vanished(q) /\ pod[q].phase = "none" => pod'[q].phase = "none",
         late' \subseteq late
  PROVE  Calm(q)
<1>1. LateResumes(q)' \subseteq LateResumes(q)
  BY DEF LateResumes
<1> QED
  BY <1>1 DEF Calm, Quiet, Empty, Untouched

(* Calls the API server carries out are calm: a Job is created suspended   *)
(* with a version no pending call knows, and a pending call that would     *)
(* enable a Job fails once the Job has another version.                    *)
LEMMA ServeCalm ==
  ASSUME TypeOK, VersionsOK, NEW r \in Runs, NEW n \in Nat, late' \subseteq late,
         \/ ServeCreate(r) \/ ServeDelete(r, n)
         \/ ServeResume(r, n) /\ \E c \in late : c.kind = "resume" /\ c.run = r /\ c.rv = n,
         UNCHANGED pod
  PROVE  (\A q \in Runs : Calm(q)) /\ (\A q \in Runs : job'[q].rv <= ver'[q])
<1>0. /\ job[r] \in Job /\ ver[r] \in Nat /\ job[r].rv \in Nat
      /\ job \in [Runs -> Job] /\ ver \in [Runs -> Nat]
  BY DEF TypeOK, KubeTypeOK, Job
<1>1. ASSUME NEW q \in Runs, q # r PROVE Calm(q) /\ job'[q].rv <= ver'[q]
  <2>1. job'[q] = job[q] /\ ver'[q] = ver[q]
    BY <1>1, <1>0 DEF ServeCreate, ServeDelete, ServeResume
  <2> QED
    BY <2>1, CalmElsewhere DEF VersionsOK
<1>2. CASE UNCHANGED <<job, ver>>
  BY <1>2, CalmElsewhere DEF VersionsOK
<1>3. LateResumes(r)' \subseteq LateResumes(r) /\ \A c \in LateResumes(r) : c.rv <= ver[r] /\ c.rv \in Nat
  BY DEF LateResumes, VersionsOK, TypeOK, Call
<1>4. CASE ServeCreate(r) /\ job[r].uid = 0
  <2>1. job'[r] = Manifest(r) /\ ver'[r] = ver[r] + 1
    BY <1>0, <1>4 DEF ServeCreate
  <2>2. Vanished(r)'
    <3>1. job'[r].suspend /\ job'[r].rv = ver[r] + 1
      BY <2>1 DEF Manifest
    <3> QED
      BY <3>1, <1>0, <1>3 DEF Vanished
  <2>3. Calm(r) /\ job'[r].rv <= ver'[r]
    <3>1. Inert(r)' /\ ver[r] <= ver'[r] /\ job'[r].rv <= ver'[r]
      BY <1>0, <2>1, <2>2 DEF Inert, Manifest
    <3> QED
      BY <2>2, <3>1, CalmIf
  <2> QED
    BY <1>1, <2>3
<1>5. CASE ServeDelete(r, n) /\ job[r].uid = n /\ ~job[r].deleting
  <2> DEFINE j == job[r]
             m == ver[r] + 1
  <2>1. job'[r] = [j EXCEPT !.deleting = TRUE, !.rv = m] /\ ver'[r] = m
    BY <1>0, <1>5 DEF ServeDelete
  <2>2. j \in Job /\ m \in Nat /\ m > ver[r]
    BY <1>0
  <2> HIDE DEF j, m
  <2>3. /\ job'[r].rv = m /\ job'[r].deleting /\ job'[r].suspend = j.suspend
        /\ job'[r].uid = j.uid
    BY <2>1, <2>2 DEF Job
  <2>4. Vanished(r) => Vanished(r)'
    BY <1>0, <1>3, <2>2, <2>3 DEF Vanished, j
  <2>5. Calm(r) /\ job'[r].rv <= ver'[r]
    <3>1. Inert(r)' /\ ver[r] <= ver'[r] /\ job'[r].rv <= ver'[r]
      BY <1>0, <2>1, <2>2, <2>3 DEF Inert
    <3> QED
      BY <2>4, <3>1, CalmIf
  <2> QED
    BY <1>1, <2>5
<1>6. CASE ServeResume(r, n) /\ Resumable(r, n)
           /\ \E c \in late : c.kind = "resume" /\ c.run = r /\ c.rv = n
  <2> DEFINE j == job[r]
             m == ver[r] + 1
  <2>1. job'[r] = [j EXCEPT !.suspend = FALSE, !.rv = m] /\ ver'[r] = m
    BY <1>0, <1>6 DEF ServeResume
  <2>2. j \in Job /\ m \in Nat /\ m > ver[r]
    BY <1>0
  <2> HIDE DEF j, m
  <2>3. job'[r].rv = m /\ job'[r].deleting = j.deleting /\ job'[r].cond = j.cond
    BY <2>1, <2>2 DEF Job
  <2>4. ~Vanished(r)
    BY <1>6 DEF Resumable, Vanished, LateResumes
  <2>5. Inert(r) => Inert(r)'
    BY <2>3, <2>4 DEF Inert, j
  <2>6. Calm(r) /\ job'[r].rv <= ver'[r]
    <3>1. ver[r] <= ver'[r] /\ job'[r].rv <= ver'[r]
      BY <1>0, <2>1, <2>2, <2>3
    <3> QED
      BY <2>4, <2>5, <3>1, CalmIf
  <2> QED
    BY <1>1, <2>6
<1> QED
  BY <1>2, <1>4, <1>5, <1>6 DEF ServeCreate, ServeDelete, ServeResume

(* Deleting a pod wakes nothing up. *)
LEMMA ServeDeletePodCalm ==
  ASSUME TypeOK, VersionsOK, NEW r \in Runs, late' \subseteq late,
         ServeDeletePod(r), UNCHANGED <<job, ver>>
  PROVE  (\A q \in Runs : Calm(q)) /\ (\A q \in Runs : job'[q].rv <= ver'[q])
<1>1. ASSUME NEW q \in Runs PROVE pod'[q].phase = pod[q].phase
  BY DEF ServeDeletePod, TypeOK, KubeTypeOK, Pod
<1>2. ASSUME NEW q \in Runs PROVE Calm(q)
  <2>1. LateResumes(q)' \subseteq LateResumes(q)
    BY DEF LateResumes
  <2>2. (Vanished(q) => Vanished(q)') /\ ver[q] <= ver'[q]
    BY <2>1 DEF Vanished, TypeOK, KubeTypeOK
  <2>3. Inert(q) => Inert(q)'
    BY <2>2 DEF Inert
  <2> QED
    BY <1>1, <2>2, <2>3, CalmIf
<1> QED
  BY <1>2 DEF VersionsOK

(* The cluster's own steps, other people and late calls are calm. *)
LEMMA OutsideCalm ==
  ASSUME TypeOK, VersionsOK,
         \/ \E r \in Runs : KubeStep(r) \/ OutsideStep(r)
         \/ \E c \in late : LateCall(c)
  PROVE  (\A q \in Runs : Calm(q)) /\ (\A q \in Runs : job'[q].rv <= ver'[q])
<1>0. job \in [Runs -> Job] /\ pod \in [Runs -> Pod] /\ ver \in [Runs -> Nat]
  BY DEF TypeOK, KubeTypeOK
<1>1. ASSUME NEW r \in Runs, KubeStep(r)
      PROVE  (\A q \in Runs : Calm(q)) /\ (\A q \in Runs : job'[q].rv <= ver'[q])
  <2>1. late' = late /\ ver' = ver
    BY <1>1 DEF KubeStep, Kubernetes, PodCreated, PodStarted, PodFinished,
                JobConcluded, JobTooLong, PodGone, JobGone
  <2>2. ASSUME NEW q \in Runs, q # r PROVE Calm(q) /\ job'[q].rv <= ver'[q]
    <3>1. job'[q] = job[q] /\ pod'[q] = pod[q]
      BY <1>0, <1>1, <2>2 DEF KubeStep, Kubernetes, PodCreated, PodStarted,
           PodFinished, JobConcluded, JobTooLong, PodGone, JobGone
    <3> QED
      BY <2>1, <3>1, CalmElsewhere DEF VersionsOK
  <2>3. job[r] \in Job /\ pod[r] \in Pod /\ ver[r] \in Nat /\ LateResumes(r)' = LateResumes(r)
    BY <1>0, <2>1 DEF LateResumes
  <2>4. Calm(r) /\ job'[r].rv <= ver'[r]
    <3>1. CASE PodCreated(r)
      <4>1. ~Vanished(r) /\ ~Inert(r)
        BY <3>1 DEF PodCreated, Vanished, Inert
      <4>2. job'[r].rv = job[r].rv
        BY <1>0, <2>3, <3>1 DEF PodCreated, Job
      <4>3. job'[r].rv <= ver'[r] /\ ver[r] <= ver'[r]
        BY <2>1, <2>3, <4>2 DEF VersionsOK
      <4> QED
        BY <2>1, <4>1, <4>3, CalmIf
    <3>2. CASE PodStarted(r) \/ PodFinished(r)
      <4>1. job' = job /\ (pod[r].phase \notin LIVE => pod'[r].phase \notin LIVE)
            /\ pod[r].phase # "none"
        BY <1>0, <2>3, <3>2 DEF PodStarted, PodFinished, Pod, LIVE
      <4>2. Vanished(r) => Vanished(r)'
        BY <2>3, <4>1 DEF Vanished
      <4>3. Inert(r) => Inert(r)'
        BY <4>1, <4>2 DEF Inert
      <4> QED
        BY <2>1, <2>3, <4>1, <4>2, <4>3, CalmIf DEF VersionsOK
    <3>3. CASE JobConcluded(r) \/ JobTooLong(r)
      <4>1. /\ job'[r].uid = job[r].uid /\ job'[r].suspend = job[r].suspend
            /\ job'[r].rv = job[r].rv /\ job'[r].cond # "none"
        BY <1>0, <2>3, <3>3 DEF JobConcluded, JobTooLong, Job
      <4>2. pod'[r].phase = pod[r].phase
        BY <1>0, <2>3, <3>3 DEF JobConcluded, JobTooLong, Pod
      <4>3. Vanished(r) => Vanished(r)'
        BY <2>3, <4>1 DEF Vanished
      <4>4. Inert(r)'
        BY <4>1 DEF Inert
      <4> QED
        BY <2>1, <2>3, <4>1, <4>2, <4>3, <4>4, CalmIf DEF VersionsOK
    <3>4. CASE PodGone(r)
      <4>1. job' = job /\ pod'[r].phase = "none"
        BY <1>0, <3>4 DEF PodGone, NoPod
      <4>2. Vanished(r) => Vanished(r)'
        BY <2>3, <4>1 DEF Vanished
      <4>3. Inert(r) => Inert(r)'
        BY <4>1, <4>2 DEF Inert
      <4> QED
        BY <2>1, <2>3, <4>1, <4>2, <4>3, CalmIf DEF VersionsOK, LIVE
    <3>5. CASE JobGone(r)
      <4>1. pod' = pod /\ job'[r].uid = 0 /\ job'[r].rv = 0
        BY <1>0, <3>5 DEF JobGone, NoJob
      <4>2. Vanished(r)' /\ Inert(r)'
        BY <4>1 DEF Vanished, Inert
      <4> QED
        BY <2>1, <2>3, <4>1, <4>2, CalmIf DEF VersionsOK
    <3> QED
      BY <1>1, <3>1, <3>2, <3>3, <3>4, <3>5 DEF KubeStep, Kubernetes
  <2> QED
    BY <2>2, <2>4
<1>2. ASSUME NEW r \in Runs, OutsideStep(r)
      PROVE  (\A q \in Runs : Calm(q)) /\ (\A q \in Runs : job'[q].rv <= ver'[q])
  <2>1. late' = late /\ job[r].uid \in Nat
    BY <1>0, <1>2 DEF OutsideStep, Job
  <2>2. CASE job' = [job EXCEPT ![r] = NoJob] /\ UNCHANGED <<pod, secret, ver>>
    <3>1. ASSUME NEW q \in Runs, q # r PROVE Calm(q) /\ job'[q].rv <= ver'[q]
      <4>1. job'[q] = job[q]
        BY <1>0, <2>2, <3>1
      <4> QED
        BY <2>1, <2>2, <4>1, CalmElsewhere DEF VersionsOK
    <3>2. job'[r].uid = 0 /\ job'[r].rv = 0 /\ ver[r] \in Nat
      BY <1>0, <2>2 DEF NoJob
    <3>3. Vanished(r)' /\ Inert(r)'
      BY <3>2 DEF Vanished, Inert
    <3>4. Calm(r) /\ job'[r].rv <= ver'[r]
      BY <2>1, <2>2, <3>2, <3>3, CalmIf
    <3> QED
      BY <3>1, <3>4
  <2> QED
    BY <1>2, <2>1, <2>2, ServeCalm, ServeDeletePodCalm DEF OutsideStep, Interference
<1>3. ASSUME NEW c \in late, LateCall(c)
      PROVE  (\A q \in Runs : Calm(q)) /\ (\A q \in Runs : job'[q].rv <= ver'[q])
  <2>1. late' \subseteq late /\ c.run \in Runs /\ c.uid \in Nat /\ c.rv \in Nat
    BY <1>3 DEF LateCall, TypeOK, Call
  <2>2. CASE UNCHANGED <<job, ver, pod>>
    BY <2>1, <2>2, CalmElsewhere DEF VersionsOK
  <2> QED
    BY <1>3, <2>1, <2>2, ServeCalm, ServeDeletePodCalm DEF LateCall
<1> QED
  BY <1>1, <1>2, <1>3

-----------------------------------------------------------------------------
(* Workers that a step does not concern. *)

Same(v) ==
  /\ pc'[v] = pc[v] /\ cur'[v] = cur[v] /\ view'[v] = view[v]
  /\ tx'[v] = tx[v] /\ loop'[v] = loop[v]

(* Calm steps preserve what the cluster owes to a row. *)
SoundAfter(r, x) ==
  /\ x.state \notin ACTIVE => Quiet(r)'
  /\ x.uid = 0 => Untouched(r)'
  /\ x.state \in Executing => x.uid # 0
  /\ x.state \in {"unborn", "creating"} => x.uid = 0
  /\ x.cleaned => Empty(r)' /\ x.state \notin ACTIVE \cup {"unborn"}

(* A sound row stays sound in a calm step. *)
LEMMA SoundStays ==
  ASSUME NEW r \in Runs, NEW x, Calm(r), Sound(r, x)
  PROVE  SoundAfter(r, x)
BY DEF Calm, Sound, SoundAfter

(* A run whose next row is sound keeps its invariant. *)
LEMMA RunStays ==
  ASSUME NEW r \in Runs, SoundAfter(r, row'[r]), job'[r].rv <= ver'[r]
  PROVE  RunInv(r)'
BY DEF RunInv, Sound, SoundAfter

(* A pass that is not concerned still sees what it has seen. *)
LEMMA BystanderStays ==
  ASSUME TypeOK, TypeOK', NEW v \in Workers, Same(v), ViewInv(v), CommitInv(v),
         pc[v] \in LockedPc => Calm(cur[v]) /\ row'[cur[v]] = row[cur[v]]
  PROVE  ViewInv(v)' /\ CommitInv(v)'
<1>1. CASE pc[v] \notin LockedPc
  BY <1>1 DEF Same, ViewInv, CommitInv, LockedPc
<1>2. CASE pc[v] \in LockedPc
  <2> DEFINE r == cur[v]
  <2>1. r \in Runs /\ cur'[v] = r /\ pc'[v] = pc[v] /\ view'[v] = view[v] /\ tx'[v] = tx[v]
    BY <1>2 DEF Same, TypeOK, WorkerTypeOK, RunPc
  <2>2. Calm(r) /\ row'[r] = row[r]
    BY <1>2
  <2>3. /\ ver[r] \in Nat /\ ver'[r] \in Nat /\ view[v].job.rv \in Nat
    BY <2>1 DEF TypeOK, KubeTypeOK, WorkerTypeOK, Job
  <2>4. ViewInv(v)'
    BY <2>1, <2>2, <2>3 DEF ViewInv, GoneSeen, Lost, JobSeen, LiveSeen, PodSeen,
         Calm, Inert, Vanished, Quiet, Empty, LateResumes
  <2>5. CommitInv(v)'
    BY <2>1, <2>2 DEF CommitInv, Sound, Calm, Quiet, Empty, Untouched, Inert,
         Vanished, LateResumes
  <2> QED
    BY <2>4, <2>5
<1> QED
  BY <1>1, <1>2

(* Steps that change nothing but the cluster preserve the invariant. *)
LEMMA CalmStep ==
  ASSUME ExecutionInv, TypeOK', UNCHANGED <<row, lock, workerVars>>,
         \A q \in Runs : Calm(q), \A q \in Runs : job'[q].rv <= ver'[q],
         late' \subseteq late
  PROVE  ExecutionInv'
<1>1. OneActiveRun'
  BY DEF ExecutionInv, OneActiveRun
<1>2. \A c \in late' : c.rv <= ver'[c.run]
  BY DEF ExecutionInv, Calm, TypeOK, KubeTypeOK, Call
<1>3. ASSUME NEW r \in Runs PROVE RunInv(r)'
  BY RunStays, SoundStays DEF ExecutionInv, RunInv
<1>4. ASSUME NEW v \in Workers PROVE LockInv(v)' /\ ViewInv(v)' /\ CommitInv(v)'
  <2>1. Same(v) /\ (pc[v] \in LockedPc => cur[v] \in Runs)
    BY DEF Same, workerVars, ExecutionInv, TypeOK, WorkerTypeOK, RunPc
  <2>2. ViewInv(v)' /\ CommitInv(v)'
    BY <2>1, BystanderStays DEF ExecutionInv
  <2>3. LockInv(v)'
    BY DEF ExecutionInv, LockInv, workerVars, Exists
  <2> QED
    BY <2>2, <2>3
<1> QED
  BY <1>1, <1>2, <1>3, <1>4 DEF ExecutionInv

-----------------------------------------------------------------------------
(* Passes. *)

(* The row lock keeps two passes off one run. *)
LEMMA Exclusive ==
  ASSUME ExecutionInv, NEW v \in Workers, NEW w \in Workers, pc[v] \in LockedPc,
         pc[w] \in LockedPc, cur[v] = cur[w]
  PROVE  v = w
BY DEF ExecutionInv, LockInv

(* Nobody else is about to insert the row of an existing run, or holds it. *)
LEMMA OthersAway ==
  ASSUME ExecutionInv, NEW w \in Workers, pc[w] \in LockedPc, NEW v \in Workers, v # w
  PROVE  /\ pc[v] \in LockedPc => cur[v] \in Runs /\ cur[v] # cur[w]
         /\ pc[v] = "reserve" => cur[v] \in Runs /\ cur[v] # cur[w]
<1>1. pc[v] \in LockedPc \cup {"reserve"} => cur[v] \in Runs
  BY DEF ExecutionInv, TypeOK, WorkerTypeOK, RunPc
<1>2. pc[v] = "reserve" => cur[v] # cur[w]
  BY DEF ExecutionInv, LockInv
<1> QED
  BY <1>1, <1>2, Exclusive

(* A pass that writes a sound row and lets go of the lock preserves the    *)
(* invariant: whatever it did in the cluster concerned its own run only.   *)
LEMMA SettledStep ==
  ASSUME ExecutionInv, TypeOK', NEW w \in Workers, pc[w] \in LockedPc,
         NEW r \in Runs, r = cur[w], NEW new,
         row' = [row EXCEPT ![r] = new], lock' = [lock EXCEPT ![r] = None], Return(w),
         new.state \in ACTIVE \cup TERMINAL,
         new.state \in ACTIVE => row[r].state \in ACTIVE,
         SoundAfter(r, new),
         \A q \in Runs : q # r => Calm(q), \A q \in Runs : job'[q].rv <= ver'[q],
         \A c \in late' : c.rv <= ver'[c.run]
  PROVE  ExecutionInv'
<1>0. row \in [Runs -> Row] /\ lock \in [Runs -> Workers \cup {None}] /\ row'[r] = new
  BY DEF ExecutionInv, TypeOK, DbTypeOK
<1>1. OneActiveRun'
  BY <1>0 DEF ExecutionInv, OneActiveRun, Slot
<1>2. ASSUME NEW q \in Runs PROVE RunInv(q)'
  <2>1. CASE q = r
    BY <1>0, <2>1, RunStays
  <2>2. CASE q # r
    <3>1. row'[q] = row[q] /\ Calm(q) /\ Sound(q, row[q])
      BY <1>0, <2>2 DEF ExecutionInv, RunInv
    <3> QED
      BY <3>1, SoundStays, RunStays
  <2> QED
    BY <2>1, <2>2
<1>3. /\ pc'[w] \in {"del_check", "loop_next", "idle"}
      /\ cur'[w] \in {r, None} /\ loop' = loop
  BY DEF Return, Goto, ExecutionInv, TypeOK, WorkerTypeOK
<1>4. ASSUME NEW v \in Workers, v # w PROVE Same(v)
  BY <1>4 DEF Same, Return, Goto, ExecutionInv, TypeOK, WorkerTypeOK
<1>5. ASSUME NEW q \in Runs, row[q].state # "unborn" PROVE row'[q].state # "unborn"
  BY <1>0, <1>5 DEF ACTIVE, TERMINAL
<1>6. ASSUME NEW v \in Workers PROVE LockInv(v)' /\ ViewInv(v)' /\ CommitInv(v)'
  <2>0. \A q \in loop'[v].todo : row'[q].state # "unborn"
    <3>1. \A q \in loop[v].todo : q \in Runs /\ row[q].state # "unborn"
      BY DEF ExecutionInv, LockInv, TypeOK, WorkerTypeOK, Loop
    <3> QED
      BY <1>3, <1>5, <3>1
  <2>1. CASE v = w
    BY <1>3, <2>0, <2>1 DEF LockInv, ViewInv, CommitInv, LockedPc
  <2>2. CASE v # w
    <3>1. /\ Same(v)
          /\ pc[v] \in LockedPc \cup {"reserve"} =>
               cur[v] \in Runs /\ cur[v] # r /\ row'[cur[v]] = row[cur[v]]
               /\ lock'[cur[v]] = lock[cur[v]]
      BY <1>0, <1>4, <2>2, OthersAway
    <3>2. ViewInv(v)' /\ CommitInv(v)'
      BY <3>1, BystanderStays DEF ExecutionInv
    <3>3. pc'[v] \in LockedPc => lock'[cur'[v]] = v /\ Exists(cur[v])'
      BY <3>1 DEF ExecutionInv, LockInv, Same, Exists
    <3>4. pc'[v] = "prepare" => row'[cur'[v]].state = "creating"
      <4>1. LockInv(v) /\ pc'[v] = pc[v] /\ cur'[v] = cur[v]
        BY <3>1 DEF ExecutionInv, Same
      <4> QED
        BY <3>1, <4>1 DEF LockInv, LockedPc
    <3>5. pc'[v] = "reserve" => /\ row'[cur'[v]].state = "unborn"
                                /\ \A u \in Workers : cur'[u] = cur'[v] => u = v
      <4> SUFFICES ASSUME pc'[v] = "reserve"
                   PROVE  /\ row'[cur'[v]].state = "unborn"
                          /\ \A u \in Workers : cur'[u] = cur'[v] => u = v
        OBVIOUS
      <4>1. pc[v] = "reserve" /\ cur'[v] = cur[v] /\ cur[v] \in Runs /\ cur[v] # r
        BY <3>1 DEF Same
      <4>2. cur'[w] # cur'[v]
        BY <1>3, <4>1, NoneAssumption
      <4>3. \A u \in Workers : u # w => cur'[u] = cur[u]
        BY <1>4 DEF Same
      <4> QED
        BY <3>1, <4>1, <4>2, <4>3 DEF ExecutionInv, LockInv
    <3> QED
      BY <2>0, <3>2, <3>3, <3>4, <3>5 DEF LockInv
  <2> QED
    BY <2>1, <2>2
<1> QED
  BY <1>1, <1>2, <1>6 DEF ExecutionInv

(* A pass that has changed something and is about to commit a sound row.   *)
LEMMA UncommittedStep ==
  ASSUME ExecutionInv, TypeOK', NEW w \in Workers, pc[w] \in LockedPc,
         NEW r \in Runs, r = cur[w], NEW new, Uncommitted(w, new),
         new.state \in ACTIVE \cup TERMINAL,
         new.state \in ACTIVE => row[r].state \in ACTIVE,
         SoundAfter(r, new),
         \A q \in Runs : Calm(q), \A q \in Runs : job'[q].rv <= ver'[q],
         \A c \in late' : c.rv <= ver'[c.run]
  PROVE  ExecutionInv'
<1>0. UNCHANGED <<row, lock, cur, loop>> /\ pc'[w] = "commit" /\ tx'[w] = new
  BY DEF Uncommitted, dbVars, Goto, ExecutionInv, TypeOK, WorkerTypeOK
<1>1. OneActiveRun'
  BY <1>0 DEF ExecutionInv, OneActiveRun
<1>2. ASSUME NEW q \in Runs PROVE RunInv(q)'
  BY <1>0, SoundStays, RunStays DEF ExecutionInv, RunInv
<1>3. ASSUME NEW v \in Workers, v # w PROVE Same(v)
  BY <1>3 DEF Same, Uncommitted, Goto, ExecutionInv, TypeOK, WorkerTypeOK
<1>4. ASSUME NEW v \in Workers PROVE LockInv(v)' /\ ViewInv(v)' /\ CommitInv(v)'
  <2>1. LockInv(v)'
    <3>1. LockInv(v) /\ LockInv(w)
      BY DEF ExecutionInv
    <3>2. CASE v = w
      BY <1>0, <3>1, <3>2 DEF LockInv, Exists, LockedPc
    <3>3. CASE v # w
      <4>1. pc'[v] = pc[v]
        BY <1>3, <3>3 DEF Same
      <4> QED
        BY <1>0, <3>1, <4>1 DEF LockInv, Exists
    <3> QED
      BY <3>2, <3>3
  <2>2. CASE v = w
    <3>1. ViewInv(v)'
      BY <1>0, <2>2 DEF ViewInv
    <3>2. CommitInv(v)'
      BY <1>0, <2>2 DEF CommitInv, Sound, SoundAfter, Quiet, Untouched, Empty,
           Inert, Vanished, LateResumes
    <3> QED
      BY <2>1, <3>1, <3>2
  <2>3. CASE v # w
    <3>1. pc[v] \in LockedPc => cur[v] \in Runs
      BY <2>3, OthersAway
    <3> QED
      BY <1>0, <1>3, <2>1, <2>3, <3>1, BystanderStays DEF ExecutionInv
  <2> QED
    BY <2>2, <2>3
<1> QED
  BY <1>1, <1>2, <1>4 DEF ExecutionInv

-----------------------------------------------------------------------------
(* Steps outside a pass. *)

(* A step that does not reach the cluster is calm. *)
LEMMA ClusterAlone ==
  ASSUME ExecutionInv, UNCHANGED <<kubeVars, late>>
  PROVE  /\ \A q \in Runs : Calm(q)
         /\ \A q \in Runs : job'[q].rv <= ver'[q]
         /\ \A c \in late' : c.rv <= ver'[c.run]
BY CalmElsewhere DEF ExecutionInv, RunInv, kubeVars

(* Without a change to the rows, a worker may go anywhere but into a pass  *)
(* or an insertion, and may lose locks of its own.                         *)
LEMMA AsideStep ==
  ASSUME ExecutionInv, TypeOK', NEW w \in Workers, row' = row,
         \A q \in Runs : Calm(q), \A q \in Runs : job'[q].rv <= ver'[q],
         \A c \in late' : c.rv <= ver'[c.run],
         pc'[w] \notin LockedPc \cup {"reserve"}, cur'[w] \in {cur[w], None},
         \A q \in loop'[w].todo : row[q].state # "unborn",
         \A v \in Workers : v # w =>
           Same(v) /\ \A q \in Runs : lock[q] = v => lock'[q] = v
  PROVE  ExecutionInv'
<1>1. OneActiveRun'
  BY DEF ExecutionInv, OneActiveRun
<1>2. ASSUME NEW q \in Runs PROVE RunInv(q)'
  BY SoundStays, RunStays DEF ExecutionInv, RunInv
<1>3. ASSUME NEW v \in Workers PROVE LockInv(v)' /\ ViewInv(v)' /\ CommitInv(v)'
  <2>1. CASE v = w
    BY <2>1 DEF LockInv, ViewInv, CommitInv, LockedPc
  <2>2. CASE v # w
    <3>1. Same(v) /\ LockInv(v)
      BY <2>2 DEF ExecutionInv
    <3>2. pc[v] \in LockedPc \cup {"reserve"} => cur[v] \in Runs
      BY DEF ExecutionInv, TypeOK, WorkerTypeOK, RunPc
    <3>3. ViewInv(v)' /\ CommitInv(v)'
      BY <3>1, <3>2, BystanderStays DEF ExecutionInv
    <3>4. pc'[v] \in LockedPc => lock'[cur'[v]] = v /\ Exists(cur[v])'
      BY <2>2, <3>1, <3>2 DEF LockInv, Same, Exists
    <3>5. pc'[v] = "reserve" => \A u \in Workers : cur'[u] = cur'[v] => u = v
      BY <3>1, <3>2, NoneAssumption DEF LockInv, Same
    <3> QED
      BY <3>1, <3>3, <3>4, <3>5 DEF LockInv, Same
  <2> QED
    BY <2>1, <2>2
<1> QED
  BY <1>1, <1>2, <1>3 DEF ExecutionInv

(* A pass begins on a row that exists and that nobody holds. *)
LEMMA BeginPassStep ==
  ASSUME ExecutionInv, TypeOK', NEW w \in Workers, NEW r \in Runs, CanLock(r),
         BeginPass(w, r), UNCHANGED <<kubeVars, late>>,
         \A v \in Workers : loop'[v].todo \subseteq loop[v].todo,
         \A v \in Workers : v # w => loop'[v] = loop[v]
  PROVE  ExecutionInv'
<1>0. /\ row' = row /\ lock' = [lock EXCEPT ![r] = w] /\ pc'[w] = "read_job"
      /\ cur'[w] = r /\ row[r].state \in ACTIVE \cup TERMINAL /\ lock[r] = None
      /\ lock'[r] = w
  BY DEF BeginPass, Goto, CanLock, Exists, Unlocked, ExecutionInv, TypeOK,
         WorkerTypeOK, DbTypeOK
<1>1. OneActiveRun'
  BY <1>0 DEF ExecutionInv, OneActiveRun
<1>2. ASSUME NEW q \in Runs PROVE RunInv(q)'
  BY <1>0, ClusterAlone, SoundStays, RunStays DEF ExecutionInv, RunInv
<1>3. ASSUME NEW v \in Workers PROVE LockInv(v)' /\ ViewInv(v)' /\ CommitInv(v)'
  <2>0. \A q \in loop'[v].todo : row'[q].state # "unborn"
    BY <1>0 DEF ExecutionInv, LockInv
  <2>1. CASE v = w
    <3>1. lock'[cur'[v]] = v /\ Exists(cur[v])'
      BY <1>0, <2>1 DEF Exists
    <3> QED
      BY <1>0, <2>0, <2>1, <3>1 DEF LockInv, ViewInv, CommitInv
  <2>2. CASE v # w
    <3>1. Same(v) /\ LockInv(v)
      BY <2>2 DEF ExecutionInv, Same, BeginPass, Goto, TypeOK, WorkerTypeOK
    <3>2. pc[v] \in LockedPc \cup {"reserve"} => cur[v] \in Runs /\ cur[v] # r
      <4>1. pc[v] \in LockedPc \cup {"reserve"} => cur[v] \in Runs
        BY DEF ExecutionInv, TypeOK, WorkerTypeOK, RunPc
      <4>2. pc[v] \in LockedPc => cur[v] # r
        BY <1>0, <3>1, NoneAssumption DEF LockInv
      <4>3. pc[v] = "reserve" => cur[v] # r
        BY <1>0, <3>1 DEF LockInv, ACTIVE, TERMINAL
      <4> QED
        BY <4>1, <4>2, <4>3
    <3>3. ViewInv(v)' /\ CommitInv(v)'
      BY <1>0, <3>1, <3>2, ClusterAlone, BystanderStays DEF ExecutionInv
    <3>4. pc'[v] \in LockedPc => lock'[cur'[v]] = v /\ Exists(cur[v])'
      BY <1>0, <3>1, <3>2 DEF LockInv, Same, Exists, ExecutionInv, TypeOK, DbTypeOK
    <3>5. pc'[v] = "reserve" => \A u \in Workers : cur'[u] = cur'[v] => u = v
      <4>1. \A u \in Workers : u # w => cur'[u] = cur[u]
        BY DEF BeginPass, ExecutionInv, TypeOK, WorkerTypeOK
      <4> QED
        BY <1>0, <3>1, <3>2, <4>1 DEF LockInv, Same
    <3> QED
      BY <1>0, <2>0, <3>1, <3>3, <3>4, <3>5 DEF LockInv, Same
  <2> QED
    BY <2>1, <2>2
<1> QED
  BY <1>0, <1>1, <1>2, <1>3, ClusterAlone DEF ExecutionInv

(* Which fields the invariant looks at, and what an update leaves of them. *)
LEMMA RowUpdates ==
  ASSUME NEW x \in Row
  PROVE  /\ \A st : LET y == [x EXCEPT !.state = st]
                    IN y.state = st /\ y.uid = x.uid /\ y.cleaned = x.cleaned
         /\ LET y == [x EXCEPT !.saved = TRUE]
            IN y.state = x.state /\ y.uid = x.uid /\ y.cleaned = x.cleaned
         /\ LET y == [x EXCEPT !.prepared = TRUE]
            IN y.state = x.state /\ y.uid = x.uid /\ y.cleaned = x.cleaned
         /\ \A n : LET y == [x EXCEPT !.output = n]
                   IN y.state = x.state /\ y.uid = x.uid /\ y.cleaned = x.cleaned
         /\ LET y == [x EXCEPT !.cleaned = TRUE]
            IN y.state = x.state /\ y.uid = x.uid
         /\ \A u : LET y == [x EXCEPT !.state = "pending", !.uid = u]
                   IN y.state = "pending" /\ y.uid = u /\ y.cleaned = x.cleaned
         /\ \A n : LET y == [x EXCEPT !.state = "creating", !.admitted = n]
                   IN y.state = "creating" /\ y.uid = x.uid /\ y.cleaned = x.cleaned
BY DEF Row

(* A workload that is gone does not execute. *)
LEMMA EmptyIsQuiet ==
  ASSUME NEW r \in Runs
  PROVE  (Untouched(r) => Empty(r)) /\ (Empty(r) => Quiet(r))
BY DEF Untouched, Empty, Quiet, Inert, LIVE

(* A row that nobody holds is overwritten by a worker that is not in a     *)
(* pass and does not enter one: stop(), the deletion of an instance and    *)
(* the insertion.                                                          *)
LEMMA RowStep ==
  ASSUME ExecutionInv, TypeOK', NEW w \in Workers, NEW S \in SUBSET Runs,
         \A q \in S : row'[q].state # "unborn" /\ Sound(q, row'[q]),
         \A q \in Runs \ S : row'[q] = row[q],
         \A q \in S, v \in Workers :
           v # w => (pc[v] \in LockedPc \cup {"reserve"} => cur[v] # q),
         OneActiveRun', UNCHANGED <<lock, kubeVars, late>>,
         pc'[w] \notin LockedPc \cup {"reserve"},
         cur'[w] \in S \cup {cur[w], None},
         loop'[w].todo \subseteq loop[w].todo,
         \A v \in Workers : v # w => Same(v)
  PROVE  ExecutionInv'
<1>0. \A q \in Runs : row[q].state # "unborn" => row'[q].state # "unborn"
  OBVIOUS
<1>1. ASSUME NEW q \in Runs PROVE RunInv(q)'
  <2>1. Sound(q, row'[q])
    BY DEF ExecutionInv, RunInv
  <2> QED
    BY <2>1, ClusterAlone, SoundStays, RunStays
<1>2. ASSUME NEW v \in Workers PROVE LockInv(v)' /\ ViewInv(v)' /\ CommitInv(v)'
  <2>0. \A q \in loop'[v].todo : row'[q].state # "unborn"
    <3>1. \A q \in loop[v].todo : q \in Runs /\ row[q].state # "unborn"
      BY DEF ExecutionInv, LockInv, TypeOK, WorkerTypeOK, Loop
    <3>2. loop'[v].todo \subseteq loop[v].todo
      BY DEF Same
    <3> QED
      BY <1>0, <3>1, <3>2
  <2>1. CASE v = w
    BY <2>0, <2>1 DEF LockInv, ViewInv, CommitInv, LockedPc
  <2>2. CASE v # w
    <3>1. Same(v) /\ LockInv(v)
      BY <2>2 DEF ExecutionInv
    <3>2. pc[v] \in LockedPc \cup {"reserve"} =>
             cur[v] \in Runs /\ cur[v] \notin S /\ row'[cur[v]] = row[cur[v]]
      BY <2>2 DEF ExecutionInv, TypeOK, WorkerTypeOK, RunPc
    <3>3. ViewInv(v)' /\ CommitInv(v)'
      BY <3>1, <3>2, ClusterAlone, BystanderStays DEF ExecutionInv
    <3>4. pc'[v] \in LockedPc => lock'[cur'[v]] = v /\ Exists(cur[v])'
      BY <3>1, <3>2 DEF LockInv, Same, Exists
    <3>5. pc'[v] = "prepare" => row'[cur'[v]].state = "creating"
      BY <3>1, <3>2 DEF LockInv, Same, LockedPc
    <3>6. pc'[v] = "reserve" => /\ row'[cur'[v]].state = "unborn"
                                /\ \A u \in Workers : cur'[u] = cur'[v] => u = v
      <4>1. \A u \in Workers : u # w => cur'[u] = cur[u]
        BY DEF Same
      <4> QED
        BY <3>1, <3>2, <4>1, NoneAssumption DEF LockInv, Same
    <3> QED
      BY <2>0, <3>3, <3>4, <3>5, <3>6 DEF LockInv
  <2> QED
    BY <2>1, <2>2
<1> QED
  BY <1>1, <1>2, ClusterAlone DEF ExecutionInv

(* stop() and the deletion of an instance mark a run. *)
LEMMA MarkStep ==
  ASSUME ExecutionInv, TypeOK', NEW w \in Workers, NEW r \in Runs,
         row[r].state # "unborn", Unlocked(r), Store(r, MarkStopping(r)),
         UNCHANGED <<lock, kubeVars, late>>, pc'[w] = "reconcile", cur'[w] = r,
         loop'[w].todo \subseteq loop[w].todo,
         \A v \in Workers : v # w => Same(v)
  PROVE  ExecutionInv'
<1>0. row' = [row EXCEPT ![r] = MarkStopping(r)] /\ row[r] \in Row /\ row \in [Runs -> Row]
  BY DEF Store, ExecutionInv, TypeOK, DbTypeOK
<1>1. /\ MarkStopping(r).state # "unborn" /\ Sound(r, MarkStopping(r))
      /\ MarkStopping(r).state \in ACTIVE => row[r].state \in ACTIVE
  <2>1. Sound(r, row[r])
    BY DEF ExecutionInv, RunInv
  <2>2. CASE row[r].state \notin ACTIVE
    BY <2>1, <2>2 DEF MarkStopping
  <2>3. CASE row[r].state \in ACTIVE
    <3> DEFINE y == [row[r] EXCEPT !.state = "stopping"]
    <3>1. y.state = "stopping" /\ y.uid = row[r].uid /\ y.cleaned = row[r].cleaned
      BY <1>0, RowUpdates
    <3>2. MarkStopping(r) = y
      BY <2>3 DEF MarkStopping
    <3> HIDE DEF y
    <3> QED
      BY <2>1, <2>3, <3>1, <3>2 DEF Sound, ACTIVE, Executing
  <2> QED
    BY <2>2, <2>3
<1>2. OneActiveRun'
  BY <1>0, <1>1 DEF ExecutionInv, OneActiveRun, Slot
<1>3. ASSUME NEW v \in Workers, pc[v] \in LockedPc \cup {"reserve"} PROVE cur[v] # r
  BY <1>3, NoneAssumption DEF ExecutionInv, LockInv, Unlocked
<1>4. row'[r] = MarkStopping(r) /\ \A q \in Runs \ {r} : row'[q] = row[q]
  BY <1>0
<1> DEFINE S == {r}
<1>5. /\ S \in SUBSET Runs
      /\ \A q \in S : row'[q].state # "unborn" /\ Sound(q, row'[q])
      /\ \A q \in Runs \ S : row'[q] = row[q]
      /\ \A q \in S, v \in Workers :
           v # w => (pc[v] \in LockedPc \cup {"reserve"} => cur[v] # q)
      /\ cur'[w] \in S \cup {cur[w], None}
      /\ pc'[w] \notin LockedPc \cup {"reserve"}
  BY <1>1, <1>3, <1>4 DEF LockedPc
<1> HIDE DEF S
<1> QED
  BY <1>2, <1>5, RowStep

-----------------------------------------------------------------------------
(* Every step preserves the invariant. *)

(* What a step outside a pass leaves of the other workers. *)
LEMMA OthersSame ==
  ASSUME TypeOK, NEW w \in Workers,
         ToIdle(w) \/ Return(w)
  PROVE  /\ \A v \in Workers : v # w => Same(v)
         /\ pc'[w] \notin LockedPc \cup {"reserve"} /\ cur'[w] \in {cur[w], None}
         /\ loop'[w].todo \subseteq loop[w].todo
<1>1. pc \in [Workers -> Pc] /\ cur \in [Workers -> Runs \cup {None}]
      /\ view \in [Workers -> [job : Job, pod : Pod]] /\ tx \in [Workers -> Row]
      /\ loop \in [Workers -> Loop]
  BY DEF TypeOK, WorkerTypeOK
<1>2. CASE ToIdle(w)
  <2>1. NoLoop.todo = {}
    BY DEF NoLoop
  <2> QED
    BY <1>1, <1>2, <2>1 DEF ToIdle, Goto, Same, LockedPc
<1>3. CASE Return(w)
  BY <1>1, <1>3 DEF Return, Goto, Same, LockedPc
<1> QED
  BY <1>2, <1>3

(* The handler ends, or the pass returns, and neither rows nor cluster     *)
(* have changed.                                                           *)
LEMMA LeaveStep ==
  ASSUME ExecutionInv, TypeOK', NEW w \in Workers, ToIdle(w) \/ Return(w),
         UNCHANGED <<row, kubeVars, late>>,
         \A v \in Workers, q \in Runs : v # w /\ lock[q] = v => lock'[q] = v
  PROVE  ExecutionInv'
<1>1. \A q \in loop'[w].todo : row[q].state # "unborn"
  BY OthersSame DEF ExecutionInv, LockInv
<1> QED
  BY <1>1, OthersSame, ClusterAlone, AsideStep DEF ExecutionInv

(* Requests and the reconciler's loop preserve the invariant. *)
LEMMA RequestInv ==
  ASSUME ExecutionInv, TypeOK', NEW w \in Workers, Request(w) \/ Looping(w)
  PROVE  ExecutionInv'
<1>0. /\ TypeOK /\ pc \in [Workers -> Pc] /\ cur \in [Workers -> Runs \cup {None}]
      /\ loop \in [Workers -> Loop] /\ OneActiveRun
  BY DEF ExecutionInv, TypeOK, WorkerTypeOK
<1>1. ASSUME NEW r \in Runs, Start(w, r) PROVE ExecutionInv'
  <2>0. /\ UNCHANGED <<row, lock, loop, kubeVars, late>> /\ pc'[w] = "reserve"
        /\ cur'[w] = r /\ row[r].state = "unborn" /\ \A v \in Workers : cur[v] # r
        /\ \A v \in Workers : v # w => Same(v)
    BY <1>0, <1>1 DEF Start, dbVars, Goto, Same
  <2>1. OneActiveRun'
    BY <1>0, <2>0 DEF OneActiveRun
  <2>2. ASSUME NEW q \in Runs PROVE RunInv(q)'
    BY <2>0, ClusterAlone, SoundStays, RunStays DEF ExecutionInv, RunInv
  <2>3. ASSUME NEW v \in Workers PROVE LockInv(v)' /\ ViewInv(v)' /\ CommitInv(v)'
    <3>0. LockInv(v) /\ \A u \in Workers : u # w => cur'[u] = cur[u]
      BY <2>0 DEF ExecutionInv, Same
    <3>1. CASE v = w
      <4>1. LockInv(v)'
        BY <2>0, <3>0, <3>1 DEF LockInv, LockedPc
      <4> QED
        BY <2>0, <3>1, <4>1 DEF ViewInv, CommitInv
    <3>2. CASE v # w
      <4>1. Same(v)
        BY <2>0, <3>2
      <4>2. pc[v] \in LockedPc => cur[v] \in Runs
        BY <1>0 DEF TypeOK, WorkerTypeOK, RunPc
      <4>3. ViewInv(v)' /\ CommitInv(v)'
        BY <2>0, <4>1, <4>2, ClusterAlone, BystanderStays DEF ExecutionInv
      <4>4. pc'[v] = "reserve" => \A u \in Workers : cur'[u] = cur'[v] => u = v
        BY <2>0, <3>0, <4>1 DEF LockInv, Same
      <4>5. LockInv(v)'
        BY <2>0, <3>0, <4>1, <4>4 DEF LockInv, Same, Exists
      <4> QED
        BY <4>3, <4>5
    <3> QED
      BY <3>1, <3>2
  <2> QED
    BY <1>0, <2>0, <2>1, <2>2, <2>3, ClusterAlone DEF ExecutionInv
<1>2. ASSUME NEW r \in Runs, Stop(w, r) PROVE ExecutionInv'
  <2>1. /\ row[r].state # "unborn" /\ pc'[w] = "reconcile" /\ cur'[w] = r
        /\ loop' = loop /\ \A v \in Workers : v # w => Same(v)
    BY <1>0, <1>2 DEF Stop, Goto, Same, Exists, ACTIVE, TERMINAL
  <2> QED
    BY <1>2, <2>1, MarkStep DEF Stop
<1>3. ASSUME NEW r \in Runs, Observe(w, r) PROVE ExecutionInv'
  BY <1>3, BeginPassStep DEF Observe
<1>4. ASSUME NEW i \in Instances, DeleteInstance(w, i) PROVE ExecutionInv'
  <2>1. /\ UNCHANGED <<row, lock, kubeVars, late>> /\ pc'[w] = "del_next"
        /\ cur'[w] = cur[w] /\ loop'[w].todo = {r \in InstanceRuns(i) : Exists(r)}
        /\ \A v \in Workers : v # w => Same(v)
    BY <1>0, <1>4 DEF DeleteInstance, Goto, Same
  <2>2. \A q \in loop'[w].todo : row[q].state # "unborn"
    BY <2>1 DEF Exists, ACTIVE, TERMINAL
  <2> QED
    BY <2>1, <2>2, ClusterAlone, AsideStep DEF LockedPc
<1>5. CASE LoopPass(w)
  <2>1. /\ UNCHANGED <<row, lock, kubeVars, late>> /\ pc'[w] \in {"idle", "loop_next"}
        /\ cur'[w] = cur[w] /\ \A v \in Workers : v # w => Same(v)
    BY <1>0, <1>5 DEF LoopPass, Goto, Same
  <2>2. loop'[w].todo = PendingIds
    BY <1>0, <1>5 DEF LoopPass, Loop
  <2>3. \A q \in loop'[w].todo : row[q].state # "unborn"
    BY <2>2 DEF PendingIds, Exists, ACTIVE, TERMINAL
  <2> QED
    BY <2>1, <2>3, ClusterAlone, AsideStep DEF LockedPc
<1>6. CASE LoopNext(w)
  <2>1. PICK r \in loop[w].todo :
          /\ loop' = [loop EXCEPT ![w].todo = @ \ {r}]
          /\ IF CanLock(r) THEN BeginPass(w, r)
             ELSE /\ Goto(w, IF loop[w].todo = {r} THEN "idle" ELSE "loop_next")
                  /\ UNCHANGED <<dbVars, cur, view, tx>>
    BY <1>6 DEF LoopNext
  <2>2. /\ r \in Runs
        /\ \A v \in Workers : loop'[v].todo \subseteq loop[v].todo
        /\ \A v \in Workers : v # w => loop'[v] = loop[v]
    BY <1>0, <2>1 DEF Loop
  <2>3. CASE CanLock(r)
    BY <1>6, <2>1, <2>2, <2>3, BeginPassStep DEF LoopNext
  <2>4. CASE ~CanLock(r)
    <3>1. /\ UNCHANGED <<row, lock, kubeVars, late>> /\ pc'[w] \in {"idle", "loop_next"}
          /\ cur'[w] = cur[w] /\ \A v \in Workers : v # w => Same(v)
      BY <1>0, <1>6, <2>1, <2>2, <2>4 DEF LoopNext, Goto, Same, dbVars
    <3>2. \A q \in loop'[w].todo : row[q].state # "unborn"
      BY <2>2 DEF ExecutionInv, LockInv
    <3> QED
      BY <3>1, <3>2, ClusterAlone, AsideStep DEF LockedPc
  <2> QED
    BY <2>3, <2>4
<1> QED
  BY <1>1, <1>2, <1>3, <1>4, <1>5, <1>6 DEF Request, Looping

(* The steps of start() preserve the invariant. *)
LEMMA StartingInv ==
  ASSUME ExecutionInv, TypeOK', NEW w \in Workers, Starting(w) \/ PrepareFailed(w)
  PROVE  ExecutionInv'
<1>0. /\ TypeOK /\ pc \in [Workers -> Pc] /\ cur \in [Workers -> Runs \cup {None}]
      /\ row \in [Runs -> Row] /\ lock \in [Runs -> Workers \cup {None}]
      /\ pc[w] \in {"reserve", "lock_prepare", "prepare"} => cur[w] \in Runs
      /\ OneActiveRun /\ LockInv(w)
  BY DEF ExecutionInv, TypeOK, WorkerTypeOK, DbTypeOK, RunPc, LockedPc
<1> DEFINE r == cur[w]
<1>1. CASE Reserve(w)
  <2>0. /\ pc[w] = "reserve" /\ r \in Runs /\ row[r] \in Row /\ ~ActiveIn(Slot(r))
        /\ row[r].state = "unborn" /\ Sound(r, row[r])
        /\ \A v \in Workers : cur[v] = r => v = w
    BY <1>0, <1>1 DEF Reserve, CanReserve, LockInv, ExecutionInv, RunInv
  <2> DEFINE y == [row[r] EXCEPT !.state = "creating", !.admitted = now + 1]
             S == {r}
  <2>1. row' = [row EXCEPT ![r] = y]
    BY <1>1 DEF Reserve
  <2>2. y.state = "creating" /\ y.uid = row[r].uid /\ y.cleaned = row[r].cleaned
    BY <2>0, RowUpdates
  <2> HIDE DEF y
  <2>3. Sound(r, y)
    BY <2>0, <2>2 DEF Sound, ACTIVE, Executing
  <2>4. row'[r] = y /\ \A q \in Runs \ S : row'[q] = row[q]
    BY <1>0, <2>0, <2>1
  <2>5. OneActiveRun'
    BY <1>0, <2>0, <2>4 DEF OneActiveRun, ActiveIn, Slot
  <2>6. /\ \A v \in Workers : v # w => Same(v)
        /\ pc'[w] \notin LockedPc \cup {"reserve"} /\ cur' = cur /\ loop' = loop
        /\ UNCHANGED <<lock, kubeVars, late>>
    BY <1>0, <1>1 DEF Reserve, Goto, Same, LockedPc
  <2>7. /\ S \in SUBSET Runs
        /\ \A q \in S : row'[q].state # "unborn" /\ Sound(q, row'[q])
        /\ \A q \in S, v \in Workers :
             v # w => (pc[v] \in LockedPc \cup {"reserve"} => cur[v] # q)
        /\ cur'[w] \in S \cup {cur[w], None}
    BY <2>0, <2>2, <2>3, <2>4, <2>6
  <2> HIDE DEF S
  <2> QED
    BY <2>4, <2>5, <2>6, <2>7, RowStep
<1>2. CASE ReserveConflict(w)
  BY <1>2, LeaveStep DEF ReserveConflict, dbVars
<1>3. CASE LockPrepare(w)
  <2>1. CASE row[r].state # "creating"
    BY <1>3, <2>1, LeaveStep DEF LockPrepare
  <2>2. CASE row[r].state = "creating"
    <3>0. /\ r \in Runs /\ lock[r] = None /\ lock' = [lock EXCEPT ![r] = w]
          /\ pc'[w] = "prepare" /\ UNCHANGED <<row, cur, loop, kubeVars, late>>
          /\ \A v \in Workers : v # w => Same(v)
      BY <1>0, <1>3, <2>2 DEF LockPrepare, Unlocked, Goto, Same
    <3>1. OneActiveRun'
      BY <1>0, <3>0 DEF OneActiveRun
    <3>2. ASSUME NEW q \in Runs PROVE RunInv(q)'
      BY <3>0, ClusterAlone, SoundStays, RunStays DEF ExecutionInv, RunInv
    <3>3. ASSUME NEW v \in Workers PROVE LockInv(v)' /\ ViewInv(v)' /\ CommitInv(v)'
      <4>0. LockInv(v) /\ (pc[v] \in LockedPc => cur[v] \in Runs)
        BY DEF ExecutionInv, TypeOK, WorkerTypeOK, RunPc
      <4>1. CASE v = w
        <5>1. lock'[cur'[v]] = v /\ Exists(cur[v])' /\ row'[cur'[v]].state = "creating"
          BY <1>0, <2>2, <3>0, <4>1 DEF Exists, ACTIVE
        <5>2. LockInv(v)'
          BY <3>0, <4>0, <4>1, <5>1 DEF LockInv
        <5> QED
          BY <3>0, <4>1, <5>2 DEF ViewInv, CommitInv
      <4>2. CASE v # w
        <5>1. Same(v) /\ (pc[v] \in LockedPc => lock'[cur[v]] = lock[cur[v]])
          BY <1>0, <3>0, <4>0, <4>2, NoneAssumption DEF LockInv
        <5>2. ViewInv(v)' /\ CommitInv(v)'
          BY <3>0, <4>0, <5>1, ClusterAlone, BystanderStays DEF ExecutionInv
        <5>3. LockInv(v)'
          BY <3>0, <4>0, <5>1 DEF LockInv, Same, Exists
        <5> QED
          BY <5>2, <5>3
      <4> QED
        BY <4>1, <4>2
    <3> QED
      BY <3>0, <3>1, <3>2, <3>3, ClusterAlone DEF ExecutionInv
  <2> QED
    BY <2>1, <2>2
<1>4. ASSUME pc[w] = "prepare"
      PROVE  /\ r \in Runs /\ row[r] \in Row /\ row[r].state = "creating"
             /\ Sound(r, row[r]) /\ Quiet(r) /\ pc[w] \in LockedPc
  <2>1. r \in Runs /\ row[r] \in Row /\ row[r].state = "creating" /\ Sound(r, row[r])
    BY <1>0, <1>4 DEF LockInv, ExecutionInv, RunInv
  <2>2. Quiet(r)
    BY <2>1, EmptyIsQuiet DEF Sound
  <2> QED
    BY <1>4, <2>1, <2>2 DEF LockedPc
<1>5. CASE Prepare(w)
  <2> DEFINE y == [row[r] EXCEPT !.prepared = TRUE]
  <2>1. Uncommitted(w, y) /\ pc[w] = "prepare" /\ UNCHANGED <<job, pod, ver, late>>
    BY <1>5 DEF Prepare
  <2>2. y.state = row[r].state /\ y.uid = row[r].uid /\ y.cleaned = row[r].cleaned
    BY <1>4, <2>1, RowUpdates
  <2>3. \A q \in Runs : Calm(q) /\ job'[q].rv <= ver'[q]
    BY <1>0, <2>1, CalmElsewhere DEF ExecutionInv, RunInv
  <2> HIDE DEF y
  <2>4. Sound(r, y) /\ y.state = "creating"
    BY <1>4, <2>1, <2>2 DEF Sound
  <2>5. SoundAfter(r, y)
    BY <1>4, <2>1, <2>3, <2>4, SoundStays
  <2>6. \A c \in late' : c.rv <= ver'[c.run]
    BY <2>1 DEF ExecutionInv
  <2>7. r \in Runs /\ pc[w] \in LockedPc /\ row[r].state \in ACTIVE /\ y.state \in ACTIVE
    BY <1>4, <2>1, <2>4 DEF ACTIVE
  <2> QED
    BY <2>1, <2>3, <2>5, <2>6, <2>7, UncommittedStep
<1>6. CASE PrepareFailed(w)
  <2> DEFINE y == [row[r] EXCEPT !.state = "failed"]
  <2>1. /\ Uncommitted(w, y) /\ pc[w] = "prepare" /\ UNCHANGED <<job, pod, ver>>
        /\ late' \subseteq late \cup {CallFor("secret", r, NoJob)}
    BY <1>6 DEF PrepareFailed
  <2>2. y.state = "failed" /\ y.uid = row[r].uid /\ y.cleaned = row[r].cleaned
    BY <1>4, <2>1, RowUpdates
  <2>3. \A q \in Runs : LateResumes(q)' \subseteq LateResumes(q)
    BY <2>1 DEF LateResumes, CallFor
  <2>4. \A q \in Runs : Calm(q) /\ job'[q].rv <= ver'[q]
    BY <1>0, <2>1, <2>3, CalmHere DEF ExecutionInv, RunInv
  <2> HIDE DEF y
  <2>5. Sound(r, y)
    BY <1>4, <2>1, <2>2 DEF Sound, ACTIVE, Executing
  <2>6. SoundAfter(r, y)
    BY <1>4, <2>1, <2>4, <2>5, SoundStays
  <2>7. \A c \in late' : c.rv <= ver'[c.run]
    <3>1. ver[r] \in Nat
      BY <1>0, <1>4, <2>1 DEF TypeOK, KubeTypeOK
    <3>2. LET c == CallFor("secret", r, NoJob) IN c.rv = 0 /\ c.run = r
      BY DEF CallFor, NoJob
    <3> QED
      BY <2>1, <3>1, <3>2 DEF ExecutionInv
  <2>8. r \in Runs /\ pc[w] \in LockedPc /\ y.state \in TERMINAL /\ y.state \notin ACTIVE
    BY <1>4, <2>1, <2>2 DEF ACTIVE, TERMINAL
  <2> QED
    BY <2>1, <2>4, <2>6, <2>7, <2>8, UncommittedStep
<1>7. CASE Build(w)
  BY <1>7, ClusterAlone, CalmStep DEF Build
<1> QED
  BY <1>1, <1>2, <1>3, <1>5, <1>6, <1>7 DEF Starting

(* The cluster, other people and the clock preserve the invariant. *)
LEMMA OutsideInv ==
  ASSUME ExecutionInv, TypeOK',
         \/ \E r \in Runs : KubeStep(r) \/ OutsideStep(r) \/ Tick(r)
         \/ \E c \in late : LateCall(c)
         \/ LegacyGone
  PROVE  ExecutionInv'
<1>0. TypeOK /\ VersionsOK
  BY DEF ExecutionInv, RunInv, VersionsOK
<1>1. CASE \/ \E r \in Runs : KubeStep(r) \/ OutsideStep(r)
           \/ \E c \in late : LateCall(c)
  <2>1. UNCHANGED <<row, lock, workerVars>> /\ late' \subseteq late
    BY <1>1 DEF KubeStep, OutsideStep, LateCall, dbVars
  <2> QED
    BY <1>0, <1>1, <2>1, OutsideCalm, CalmStep
<1>2. CASE (\E r \in Runs : Tick(r)) \/ LegacyGone
  <2>1. UNCHANGED <<row, lock, workerVars, kubeVars, late>>
    BY <1>2 DEF Tick, LegacyGone
  <2> QED
    BY <2>1, ClusterAlone, CalmStep
<1> QED
  BY <1>1, <1>2

(* A pass that only writes its row. *)
LEMMA WriteStep ==
  ASSUME ExecutionInv, TypeOK', NEW w \in Workers, NEW new, pc[w] = "act",
         WriteOnly(w, new), new.state \in ACTIVE \cup TERMINAL,
         new.state \in ACTIVE => row[cur[w]].state \in ACTIVE,
         Sound(cur[w], new)
  PROVE  ExecutionInv'
<1>1. cur[w] \in Runs /\ pc[w] \in LockedPc
  BY DEF ExecutionInv, TypeOK, WorkerTypeOK, RunPc, LockedPc
<1>2. /\ row' = [row EXCEPT ![cur[w]] = new] /\ lock' = [lock EXCEPT ![cur[w]] = None]
      /\ Return(w) /\ UNCHANGED <<kubeVars, late>>
  BY DEF WriteOnly, Settle, Store, Release
<1>3. SoundAfter(cur[w], new)
  BY <1>1, <1>2, ClusterAlone, SoundStays
<1> QED
  BY <1>1, <1>2, <1>3, ClusterAlone, SettledStep

(* What a pass knows of its run when it acts. *)
LEMMA ActFacts ==
  ASSUME ExecutionInv, NEW w \in Workers, pc[w] = "act"
  PROVE  /\ cur[w] \in Runs /\ row[cur[w]] \in Row /\ pc[w] \in LockedPc
         /\ Sound(cur[w], row[cur[w]])
         /\ row[cur[w]].state \in ACTIVE \cup TERMINAL
         /\ GoneSeen(w) /\ ~LiveSeen(w) => Quiet(cur[w])
         /\ ~JobSeen(w) /\ ~PodSeen(w) => Empty(cur[w])
         /\ view[w].job.rv <= ver[cur[w]] /\ view[w].job.rv \in Nat /\ view[w].job.uid \in Nat
<1>1. cur[w] \in Runs /\ pc[w] \in LockedPc /\ row \in [Runs -> Row] /\ view[w].job \in Job
  BY DEF ExecutionInv, TypeOK, WorkerTypeOK, DbTypeOK, RunPc, LockedPc
<1>2. Sound(cur[w], row[cur[w]]) /\ LockInv(w) /\ ViewInv(w)
  BY <1>1 DEF ExecutionInv, RunInv
<1> QED
  BY <1>1, <1>2 DEF LockInv, ViewInv, Exists, Job

(* Rows that differ from the committed one in the output or the snapshot   *)
(* flag only are as sound.                                                 *)
LEMMA KeptRows ==
  ASSUME ExecutionInv, NEW w \in Workers, pc[w] = "act", NEW seen
  PROVE  /\ Captured(w, seen).state = row[cur[w]].state
         /\ Captured(w, seen).uid = row[cur[w]].uid
         /\ Captured(w, seen).cleaned = row[cur[w]].cleaned
         /\ Sound(cur[w], Captured(w, seen))
         /\ DeletionNote(w, seen).state = row[cur[w]].state
         /\ Sound(cur[w], DeletionNote(w, seen))
<1>1. row[cur[w]] \in Row /\ Sound(cur[w], row[cur[w]])
  BY ActFacts
<1>2. /\ Captured(w, seen).state = row[cur[w]].state
      /\ Captured(w, seen).uid = row[cur[w]].uid
      /\ Captured(w, seen).cleaned = row[cur[w]].cleaned
  BY <1>1, RowUpdates DEF Captured
<1>3. Sound(cur[w], Captured(w, seen))
  BY <1>1, <1>2 DEF Sound
<1> QED
  BY <1>1, <1>2, <1>3 DEF DeletionNote

(* A run whose workload is quiet may finish. *)
LEMMA FinishStep ==
  ASSUME ExecutionInv, TypeOK', NEW w \in Workers, pc[w] = "act", NEW x \in Row,
         NEW st \in TERMINAL, x.uid = row[cur[w]].uid,
         x.cleaned = row[cur[w]].cleaned, row[cur[w]].state \in ACTIVE,
         Quiet(cur[w]), WriteOnly(w, [x EXCEPT !.state = st])
  PROVE  ExecutionInv'
<1> DEFINE y == [x EXCEPT !.state = st]
<1>1. y.state = st /\ y.uid = x.uid /\ y.cleaned = x.cleaned
  BY RowUpdates
<1>2. WriteOnly(w, y)
  OBVIOUS
<1> HIDE DEF y
<1>3. Sound(cur[w], row[cur[w]]) /\ st \notin ACTIVE
  BY ActFacts DEF ACTIVE, TERMINAL
<1>4. Sound(cur[w], y)
  BY <1>1, <1>3 DEF Sound, Executing, ACTIVE, TERMINAL
<1> QED
  BY <1>1, <1>2, <1>3, <1>4, WriteStep

(* Reading the cluster: what is read is what the invariant is about. *)
LEMMA ReadStep ==
  ASSUME ExecutionInv, TypeOK', NEW w \in Workers, ReadJob(w) \/ ReadPods(w)
  PROVE  ExecutionInv'
<1>0. /\ TypeOK /\ pc \in [Workers -> Pc] /\ view \in [Workers -> [job : Job, pod : Pod]]
      /\ cur[w] \in Runs /\ pc[w] \in LockedPc /\ LockInv(w) /\ ViewInv(w)
      /\ RunInv(cur[w]) /\ job \in [Runs -> Job] /\ pod \in [Runs -> Pod]
  BY DEF ExecutionInv, TypeOK, WorkerTypeOK, KubeTypeOK, RunPc, LockedPc, ReadJob, ReadPods
<1>1. CASE ReadJob(w) /\ ~SameIdentity(cur[w])
  <2>1. /\ Return(w) /\ UNCHANGED <<row, kubeVars, late>>
        /\ lock' = [lock EXCEPT ![cur[w]] = None]
    BY <1>1 DEF ReadJob, Rollback, Release
  <2>2. \A v \in Workers, q \in Runs : v # w /\ lock[q] = v => lock'[q] = v
    BY <1>0, <2>1 DEF LockInv, TypeOK, DbTypeOK
  <2> QED
    BY <2>1, <2>2, LeaveStep
<1>2. CASE ReadPods(w) \/ (ReadJob(w) /\ SameIdentity(cur[w]))
  <2>0. /\ UNCHANGED <<row, lock, cur, tx, loop, kubeVars, late>>
        /\ pc'[w] \in {"read_pods", "act"}
        /\ \A v \in Workers : v # w => Same(v)
    BY <1>0, <1>2 DEF ReadJob, ReadPods, Goto, Same, dbVars
  <2>1. OneActiveRun'
    BY <2>0 DEF ExecutionInv, OneActiveRun
  <2>2. ASSUME NEW q \in Runs PROVE RunInv(q)'
    BY <2>0, ClusterAlone, SoundStays, RunStays DEF ExecutionInv, RunInv
  <2>3. ViewInv(w)'
    <3> DEFINE r == cur[w]
    <3>1. /\ cur'[w] = r /\ r \in Runs /\ job' = job /\ pod' = pod /\ ver' = ver
          /\ late' = late /\ job[r].rv <= ver[r]
      BY <1>0, <2>0 DEF kubeVars, RunInv
    <3>2. CASE ReadJob(w) /\ SameIdentity(r)
      <4>1. pc'[w] = "read_pods" /\ view'[w].job = job[r]
        BY <1>0, <3>2 DEF ReadJob, Goto
      <4> QED
        BY <3>1, <4>1 DEF ViewInv, GoneSeen, Lost, JobSeen, Inert, Vanished, LateResumes
    <3>3. CASE ReadPods(w)
      <4>1. /\ pc[w] = "read_pods" /\ pc'[w] = "act" /\ view'[w].pod = pod[r]
            /\ view'[w].job = view[w].job
        BY <1>0, <3>3 DEF ReadPods, Goto
      <4> QED
        BY <1>0, <3>1, <4>1 DEF ViewInv, GoneSeen, Lost, JobSeen, LiveSeen, PodSeen,
             Inert, Vanished, Quiet, Empty, LateResumes
    <3> QED
      BY <1>2, <3>2, <3>3
  <2>4. LockInv(w)' /\ CommitInv(w)'
    BY <1>0, <2>0 DEF LockInv, CommitInv, Exists, LockedPc
  <2>5. ASSUME NEW v \in Workers, v # w PROVE LockInv(v)' /\ ViewInv(v)' /\ CommitInv(v)'
    <3>1. Same(v) /\ LockInv(v) /\ (pc[v] \in LockedPc => cur[v] \in Runs)
      BY <2>0, <2>5, OthersAway, <1>0 DEF ExecutionInv
    <3>2. ViewInv(v)' /\ CommitInv(v)'
      BY <2>0, <3>1, ClusterAlone, BystanderStays DEF ExecutionInv
    <3>3. LockInv(v)'
      BY <2>0, <3>1 DEF LockInv, Same, Exists
    <3> QED
      BY <3>2, <3>3
  <2> QED
    BY <2>0, <2>1, <2>2, <2>3, <2>4, <2>5, ClusterAlone DEF ExecutionInv
<1> QED
  BY <1>1, <1>2 DEF ReadJob, ReadPods

(* A pass that deletes something, or enables its Job, and commits.         *)
LEMMA ClusterStep ==
  ASSUME ExecutionInv, TypeOK', NEW w \in Workers,
         Resume(w) \/ DeleteJob(w) \/ DeletePods(w)
  PROVE  ExecutionInv'
<1>0. TypeOK /\ VersionsOK /\ pc[w] = "act"
  BY DEF ExecutionInv, RunInv, VersionsOK, Resume, DeleteJob, DeletePods,
         WantsResume, WantsDelete, Acting
<1> DEFINE r == cur[w]
<1>1. ASSUME NEW new, Settle(w, new)
      PROVE  row' = [row EXCEPT ![r] = new] /\ lock' = [lock EXCEPT ![r] = None] /\ Return(w)
  BY <1>1 DEF Settle, Store, Release
<1>2. CASE DeleteJob(w) \/ DeletePods(w)
  <2>1. PICK seen \in LogsRead(w) : Settle(w, DeletionNote(w, seen))
    BY <1>2 DEF DeleteJob, DeletePods
  <2>2. late' = late /\ r \in Runs /\ view[w].job.uid \in Nat
    BY <1>0, <1>2, ActFacts DEF DeleteJob, DeletePods
  <2>3. (\A q \in Runs : Calm(q)) /\ (\A q \in Runs : job'[q].rv <= ver'[q])
    BY <1>0, <1>2, <2>2, ServeCalm, ServeDeletePodCalm DEF DeleteJob, DeletePods
  <2>4. \A c \in late' : c.rv <= ver'[c.run]
    BY <1>0, <2>2, <2>3 DEF Calm, VersionsOK, TypeOK, KubeTypeOK, Call
  <2> DEFINE y == DeletionNote(w, seen)
  <2>5. y.state = row[r].state /\ Sound(r, y) /\ Settle(w, y)
    BY <1>0, <2>1, KeptRows
  <2> HIDE DEF y
  <2>6. SoundAfter(r, y) /\ y.state \in ACTIVE \cup TERMINAL /\ pc[w] \in LockedPc
    BY <1>0, <2>2, <2>3, <2>5, SoundStays, ActFacts
  <2> QED
    BY <1>1, <2>2, <2>3, <2>4, <2>5, <2>6, SettledStep
<1>3. CASE Resume(w)
  <2>0. /\ r \in Runs /\ late' = late /\ UNCHANGED pod /\ ServeResume(r, view[w].job.rv)
        /\ row[r].state \in Executing /\ Settle(w, row[r]) /\ pc[w] \in LockedPc
        /\ Sound(r, row[r])
    BY <1>0, <1>3, ActFacts DEF Resume, WantsResume, Acting
  <2>1. job \in [Runs -> Job] /\ ver \in [Runs -> Nat]
    BY <1>0 DEF TypeOK, KubeTypeOK
  <2>2. ASSUME NEW q \in Runs, q # r PROVE Calm(q) /\ job'[q].rv <= ver'[q]
    <3>1. job'[q] = job[q] /\ ver'[q] = ver[q]
      BY <2>0, <2>1, <2>2 DEF ServeResume
    <3> QED
      BY <1>0, <2>0, <3>1, CalmElsewhere DEF VersionsOK
  <2>3. ver[r] <= ver'[r] /\ job'[r].rv <= ver'[r]
    <3> DEFINE j == job[r]
               m == ver[r] + 1
    <3>1. j \in Job /\ m \in Nat
      BY <2>0, <2>1
    <3>2. CASE Resumable(r, view[w].job.rv)
      <4>1. job'[r] = [j EXCEPT !.suspend = FALSE, !.rv = m] /\ ver'[r] = m
        BY <2>0, <2>1, <3>2 DEF ServeResume
      <4> HIDE DEF j
      <4>2. job'[r].rv = m
        BY <3>1, <4>1 DEF Job
      <4> QED
        BY <2>0, <2>1, <4>1, <4>2
    <3>3. CASE ~Resumable(r, view[w].job.rv)
      BY <1>0, <2>0, <2>1, <3>3 DEF ServeResume, VersionsOK
    <3> QED
      BY <3>2, <3>3
  <2>4. \A c \in late' : c.rv <= ver'[c.run]
    <3>1. \A c \in late : c.run \in Runs /\ c.rv \in Nat /\ c.rv <= ver[c.run]
      BY <1>0 DEF VersionsOK, TypeOK, Call
    <3>2. \A q \in Runs : ver[q] <= ver'[q] /\ ver[q] \in Nat /\ ver'[q] \in Nat
      BY <2>1, <2>2, <2>3 DEF Calm, TypeOK, KubeTypeOK
    <3> QED
      BY <2>0, <3>1, <3>2
  <2>5. SoundAfter(r, row[r]) /\ row[r].state \in ACTIVE
    BY <2>0 DEF SoundAfter, Sound, Executing, ACTIVE
  <2> DEFINE y == row[r]
  <2>6. SoundAfter(r, y) /\ y.state \in ACTIVE /\ Settle(w, y) /\ y = row[r]
    BY <2>0, <2>5
  <2> HIDE DEF y
  <2> QED
    BY <1>1, <2>0, <2>2, <2>3, <2>4, <2>5, <2>6, SettledStep
<1> QED
  BY <1>2, <1>3

(* Every step of a reconciliation pass preserves the invariant. *)
LEMMA PassInv ==
  ASSUME ExecutionInv, TypeOK', NEW w \in Workers, Pass(w) \/ CreateRejected(w)
  PROVE  ExecutionInv'
<1> DEFINE r == cur[w]
<1>0. TypeOK /\ VersionsOK
  BY DEF ExecutionInv, RunInv, VersionsOK
<1>1. CASE Reconcile(w)
  <2>1. r \in Runs
    BY <1>0, <1>1 DEF Reconcile, TypeOK, WorkerTypeOK, RunPc
  <2>2. CASE CanLock(r)
    BY <1>1, <2>1, <2>2, BeginPassStep DEF Reconcile
  <2>3. CASE ~CanLock(r)
    BY <1>1, <2>3, LeaveStep DEF Reconcile, dbVars
  <2> QED
    BY <2>2, <2>3
<1>2. CASE ReadJob(w) \/ ReadPods(w)
  BY <1>2, ReadStep
<1>3. CASE SaveSnapshot(w)
  <2>1. PICK seen \in LogsRead(w) : WriteOnly(w, [Captured(w, seen) EXCEPT !.saved = TRUE])
    BY <1>3 DEF SaveSnapshot
  <2>2. pc[w] = "act"
    BY <1>3 DEF SaveSnapshot, Acting
  <2> DEFINE x == Captured(w, seen)
             y == [x EXCEPT !.saved = TRUE]
  <2>3. x \in Row /\ x.state = row[r].state /\ Sound(r, x)
    BY <1>0, <2>2, KeptRows, ActFacts, WrittenRows DEF TypeOK
  <2> HIDE DEF x
  <2>4. y.state = x.state /\ y.uid = x.uid /\ y.cleaned = x.cleaned
    BY <2>3, RowUpdates
  <2>5. WriteOnly(w, y)
    BY <2>1 DEF x
  <2> HIDE DEF y
  <2>6. Sound(r, y) /\ y.state = row[r].state
    BY <2>3, <2>4 DEF Sound
  <2> QED
    BY <2>2, <2>5, <2>6, WriteStep, ActFacts
<1>4. CASE Cancelled(w)
  <2>1. /\ pc[w] = "act" /\ row[r].state \in ACTIVE /\ Quiet(r) /\ row[r] \in Row
        /\ WriteOnly(w, [row[r] EXCEPT !.state = "cancelled"])
    BY <1>4, ActFacts, EmptyIsQuiet DEF Cancelled, Acting, ACTIVE
  <2> QED
    BY <2>1, FinishStep DEF TERMINAL
<1>5. ASSUME Acting(w, {"creating"})
      PROVE  pc[w] = "act" /\ row[r].state \in ACTIVE /\ Quiet(r) /\ row[r] \in Row
  BY <1>5, ActFacts, EmptyIsQuiet DEF Acting, ACTIVE, Sound
<1>6. CASE PreparationInterrupted(w) \/ CreateRejected(w)
  <2>1. /\ Acting(w, {"creating"})
        /\ \/ WriteOnly(w, [row[r] EXCEPT !.state = "failed"])
           \/ WriteOnly(w, row[r])
    BY <1>6 DEF PreparationInterrupted, CreateRejected
  <2>2. CASE WriteOnly(w, [row[r] EXCEPT !.state = "failed"])
    BY <1>5, <2>1, <2>2, FinishStep DEF TERMINAL
  <2>3. CASE WriteOnly(w, row[r])
    BY <1>5, <2>1, <2>3, WriteStep, ActFacts
  <2> QED
    BY <2>1, <2>2, <2>3
<1>7. CASE AdoptJob(w)
  <2> DEFINE y == [row[r] EXCEPT !.state = "pending", !.uid = view[w].job.uid]
  <2>1. /\ Acting(w, {"creating"}) /\ WriteOnly(w, y) /\ view[w].job.uid # 0
    BY <1>7 DEF AdoptJob, JobSeen
  <2>2. y.state = "pending" /\ y.uid = view[w].job.uid /\ y.cleaned = row[r].cleaned
    BY <1>5, <2>1, RowUpdates
  <2> HIDE DEF y
  <2>3. Sound(r, y) /\ y.state \in ACTIVE
    BY <1>5, <2>1, <2>2, ActFacts DEF Sound, ACTIVE
  <2> QED
    BY <1>5, <2>1, <2>3, WriteStep
<1>8. CASE Create(w)
  <2>1. /\ Acting(w, {"creating"}) /\ ServeCreate(r) /\ UNCHANGED <<pod, late>>
    BY <1>8 DEF Create, WantsCreate
  <2>2. r \in Runs /\ pc[w] \in LockedPc /\ row[r].state \in ACTIVE /\ row[r] \in Row
        /\ Sound(r, row[r])
    BY <1>5, <2>1, ActFacts
  <2>3. (\A q \in Runs : Calm(q)) /\ (\A q \in Runs : job'[q].rv <= ver'[q])
    <3>1. 0 \in Nat
      OBVIOUS
    <3> QED
      BY <1>0, <2>1, <2>2, <3>1, ServeCalm
  <2>4. job'[r].uid # 0
    <3>1. job \in [Runs -> Job] /\ ver \in [Runs -> Nat]
      BY <1>0 DEF TypeOK, KubeTypeOK
    <3> QED
      BY <2>1, <2>2, <3>1 DEF ServeCreate, Manifest
  <2> DEFINE u == job'[r].uid
             y == [row[r] EXCEPT !.state = "pending", !.uid = u]
  <2>5. y.state = "pending" /\ y.uid = u /\ y.cleaned = row[r].cleaned
    BY <2>2, RowUpdates
  <2>6. Uncommitted(w, y)
    BY <1>8 DEF Create
  <2> HIDE DEF y
  <2>7. SoundAfter(r, y) /\ y.state \in ACTIVE
    BY <2>2, <2>4, <2>5 DEF SoundAfter, Sound, ACTIVE
  <2>8. \A c \in late' : c.rv <= ver'[c.run]
    BY <1>0, <2>1, <2>3 DEF Calm, VersionsOK, TypeOK, KubeTypeOK, Call
  <2> QED
    BY <2>2, <2>3, <2>6, <2>7, <2>8, UncommittedStep
<1>9. CASE Resume(w) \/ DeleteJob(w) \/ DeletePods(w)
  BY <1>9, ClusterStep
<1>10. CASE JobDisappeared(w)
  <2>1. /\ pc[w] = "act" /\ row[r].state \in ACTIVE /\ Quiet(r) /\ row[r] \in Row
        /\ WriteOnly(w, [row[r] EXCEPT !.state = "failed"])
    BY <1>10, ActFacts DEF JobDisappeared, Acting, GoneSeen, PodSeen, LiveSeen, LIVE,
         Executing, ACTIVE
  <2> QED
    BY <2>1, FinishStep DEF TERMINAL
<1>11. CASE AwaitDeletion(w)
  <2>1. PICK seen \in LogsRead(w) : WriteOnly(w, Captured(w, seen))
    BY <1>11 DEF AwaitDeletion
  <2>2. pc[w] = "act"
    BY <1>11 DEF AwaitDeletion, Acting
  <2> QED
    BY <2>1, <2>2, WriteStep, KeptRows, ActFacts
<1>12. CASE JobEnded(w)
  <2>1. PICK seen \in LogsRead(w) :
          WriteOnly(w, [Captured(w, seen) EXCEPT
            !.state = IF view[w].job.cond = "Complete" THEN "succeeded" ELSE "failed"])
    BY <1>12 DEF JobEnded
  <2>2. /\ pc[w] = "act" /\ row[r].state \in ACTIVE /\ Quiet(r)
    BY <1>12, ActFacts DEF JobEnded, Acting, GoneSeen, Over, Executing, ACTIVE
  <2> DEFINE x == Captured(w, seen)
  <2>3. x \in Row /\ x.uid = row[r].uid /\ x.cleaned = row[r].cleaned
    BY <1>0, <2>2, KeptRows, ActFacts, WrittenRows DEF TypeOK
  <2> HIDE DEF x
  <2>4. \E st \in TERMINAL : WriteOnly(w, [x EXCEPT !.state = st])
    BY <2>1 DEF x, TERMINAL
  <2> QED
    BY <2>2, <2>3, <2>4, FinishStep
<1>13. CASE Progress(w)
  <2>1. PICK seen \in LogsRead(w) :
          WriteOnly(w, [Captured(w, seen) EXCEPT
            !.state = IF view[w].pod.phase = "Running" THEN "running" ELSE @])
    BY <1>13 DEF Progress
  <2>2. pc[w] = "act" /\ row[r].state \in Executing
    BY <1>13 DEF Progress, Acting
  <2> DEFINE x == Captured(w, seen)
             st == IF view[w].pod.phase = "Running" THEN "running" ELSE x.state
             y == [x EXCEPT !.state = st]
  <2>3. x \in Row /\ x.state = row[r].state /\ Sound(r, x)
    BY <1>0, <2>2, KeptRows, ActFacts, WrittenRows DEF TypeOK
  <2>4. WriteOnly(w, y)
    BY <2>1
  <2> HIDE DEF x
  <2>5. st \in Executing
    BY <2>2, <2>3 DEF Executing
  <2> HIDE DEF st
  <2>6. y.state = st /\ y.uid = x.uid /\ y.cleaned = x.cleaned
    BY <2>3, RowUpdates
  <2> HIDE DEF y
  <2>7. Sound(r, y) /\ y.state \in ACTIVE /\ row[r].state \in ACTIVE
    BY <2>2, <2>3, <2>5, <2>6 DEF Sound, Executing, ACTIVE
  <2> QED
    BY <2>2, <2>4, <2>7, WriteStep
<1>14. CASE Cleanup(w)
  <2> DEFINE y == [row[r] EXCEPT !.cleaned = TRUE]
  <2>1. /\ pc[w] = "act" /\ row[r].state \in TERMINAL /\ UNCHANGED <<job, pod, ver, late>>
        /\ Uncommitted(w, y) /\ ~JobSeen(w) /\ ~PodSeen(w)
    BY <1>14 DEF Cleanup, Acting
  <2>2. /\ r \in Runs /\ row[r] \in Row /\ Empty(r) /\ Sound(r, row[r])
        /\ pc[w] \in LockedPc
    BY <2>1, ActFacts
  <2>3. y.state = row[r].state /\ y.uid = row[r].uid
    BY <2>2, RowUpdates
  <2> HIDE DEF y
  <2>4. Sound(r, y) /\ y.state \in TERMINAL /\ y.state \notin ACTIVE
    BY <2>1, <2>2, <2>3 DEF Sound, TERMINAL, ACTIVE
  <2>5. \A q \in Runs : Calm(q) /\ job'[q].rv <= ver'[q]
    BY <1>0, <2>1, CalmElsewhere DEF VersionsOK
  <2>6. SoundAfter(r, y) /\ \A c \in late' : c.rv <= ver'[c.run]
    BY <1>0, <2>1, <2>2, <2>4, <2>5, SoundStays DEF VersionsOK
  <2> QED
    BY <2>1, <2>2, <2>4, <2>5, <2>6, UncommittedStep
<1>15. CASE Commit(w)
  <2>1. /\ pc[w] = "commit" /\ pc[w] \in LockedPc /\ r \in Runs /\ CommitInv(w)
        /\ Settle(w, tx[w]) /\ UNCHANGED <<kubeVars, late>>
    BY <1>0, <1>15 DEF Commit, ExecutionInv, LockedPc, TypeOK, WorkerTypeOK, RunPc
  <2> DEFINE y == tx[w]
  <2>2. /\ y.state \in ACTIVE \cup TERMINAL /\ (y.state \in ACTIVE => row[r].state \in ACTIVE)
        /\ Sound(r, y) /\ Settle(w, y)
    BY <2>1 DEF CommitInv
  <2> HIDE DEF y
  <2>3. /\ row' = [row EXCEPT ![r] = y] /\ lock' = [lock EXCEPT ![r] = None] /\ Return(w)
    BY <2>2 DEF Settle, Store, Release
  <2>4. SoundAfter(r, y)
    BY <2>1, <2>2, ClusterAlone, SoundStays
  <2> QED
    BY <2>1, <2>2, <2>3, <2>4, ClusterAlone, SettledStep
<1> QED
  BY <1>1, <1>2, <1>3, <1>4, <1>6, <1>7, <1>8, <1>9, <1>10, <1>11, <1>12, <1>13,
     <1>14, <1>15 DEF Pass

(* A call that times out: a pass only leaves a call behind that would      *)
(* enable the Job if its run is pending or running.                        *)
LEMMA TimedOutInv ==
  ASSUME ExecutionInv, TypeOK', NEW w \in Workers, TimedOut(w)
  PROVE  ExecutionInv'
<1> DEFINE r == cur[w]
<1>0. TypeOK /\ VersionsOK /\ pc[w] = "act"
  BY DEF ExecutionInv, RunInv, VersionsOK, TimedOut, WantsCreate, WantsResume,
         WantsDelete, Acting
<1>1. /\ r \in Runs /\ pc[w] \in LockedPc /\ row[r].state \in ACTIVE \cup TERMINAL
      /\ Sound(r, row[r]) /\ view[w].job.rv <= ver[r] /\ view[w].job.rv \in Nat
  BY <1>0, ActFacts
<1>2. /\ UNCHANGED <<row, kubeVars>> /\ lock' = [lock EXCEPT ![r] = None] /\ Return(w)
      /\ row' = [row EXCEPT ![r] = row[r]]
  BY <1>0 DEF TimedOut, Rollback, Release, TypeOK, DbTypeOK
<1>3. PICK c : /\ late' = late \cup {c} /\ c.run = r /\ c.rv <= ver[r]
               /\ c.kind = "resume" => row[r].state \in Executing
  <2>1. 0 <= ver[r]
    BY <1>0, <1>1 DEF TypeOK, KubeTypeOK
  <2>2. \A k : /\ CallFor(k, r, NoJob).run = r /\ CallFor(k, r, NoJob).rv = 0
               /\ CallFor(k, r, NoJob).kind = k
               /\ CallFor(k, r, view[w].job).run = r
               /\ CallFor(k, r, view[w].job).rv = view[w].job.rv
               /\ CallFor(k, r, view[w].job).kind = k
    BY DEF CallFor, NoJob
  <2>3. WantsResume(w) => row[r].state \in Executing
    BY DEF WantsResume, Acting
  <2>4. PICK c : /\ late' = late \cup {c}
                 /\ \/ c = CallFor("create", r, NoJob)
                    \/ WantsResume(w) /\ c = CallFor("resume", r, view[w].job)
                    \/ c = CallFor("delete", r, view[w].job)
                    \/ c = CallFor("delete_pod", r, NoJob)
    BY DEF TimedOut
  <2>5. c.run = r /\ c.rv <= ver[r] /\ (c.kind = "resume" => row[r].state \in Executing)
    BY <1>1, <2>1, <2>2, <2>3, <2>4
  <2> QED
    BY <2>4, <2>5
<1>4. ASSUME NEW q \in Runs, q # r \/ c.kind # "resume" PROVE Calm(q)
  <2>1. LateResumes(q)' \subseteq LateResumes(q)
    BY <1>3, <1>4 DEF LateResumes
  <2> QED
    BY <1>0, <1>2, <2>1, CalmHere DEF kubeVars
<1>5. /\ \A q \in Runs : job'[q].rv <= ver'[q]
      /\ \A d \in late' : d.rv <= ver'[d.run]
  BY <1>0, <1>2, <1>3 DEF VersionsOK, kubeVars
<1> DEFINE y == row[r]
<1>6. SoundAfter(r, y)
  <2>1. CASE c.kind # "resume"
    BY <1>1, <1>4, <2>1, SoundStays
  <2>2. CASE c.kind = "resume"
    BY <1>1, <1>3, <2>2 DEF SoundAfter, Sound, Executing, ACTIVE
  <2> QED
    BY <2>1, <2>2
<1>7. y.state \in ACTIVE \cup TERMINAL /\ (y.state \in ACTIVE => row[r].state \in ACTIVE)
      /\ row' = [row EXCEPT ![r] = y]
  BY <1>1, <1>2
<1> HIDE DEF y
<1> QED
  BY <1>1, <1>2, <1>4, <1>5, <1>6, <1>7, SettledStep

(* Deleting an instance, failed calls and crashes preserve it. *)
LEMMA DeletingInv ==
  ASSUME ExecutionInv, TypeOK', NEW w \in Workers, DeletionInv(w),
         Deleting(w) \/ DelAborted(w) \/ CallFailed(w) \/ TimedOut(w) \/ Crash(w)
  PROVE  ExecutionInv'
<1>0. /\ TypeOK /\ pc \in [Workers -> Pc] /\ cur \in [Workers -> Runs \cup {None}]
      /\ loop \in [Workers -> Loop] /\ row \in [Runs -> Row] /\ LockInv(w)
      /\ lock \in [Runs -> Workers \cup {None}]
  BY DEF ExecutionInv, TypeOK, WorkerTypeOK, DbTypeOK
<1>1. CASE DelNext(w)
  <2>1. PICK r \in loop[w].todo :
          /\ Unlocked(r) /\ Store(r, MarkStopping(r))
          /\ loop' = [loop EXCEPT ![w].todo = @ \ {r}]
          /\ cur' = [cur EXCEPT ![w] = r] /\ Goto(w, "reconcile")
    BY <1>1 DEF DelNext
  <2>2. /\ r \in Runs /\ row[r].state # "unborn"
        /\ loop'[w].todo \subseteq loop[w].todo
    BY <1>0, <2>1 DEF Loop, LockInv
  <2>3. /\ pc'[w] = "reconcile" /\ cur'[w] = r /\ \A v \in Workers : v # w => Same(v)
        /\ UNCHANGED <<lock, kubeVars, late>>
    BY <1>0, <1>1, <2>1 DEF DelNext, Goto, Same
  <2> QED
    BY <2>1, <2>2, <2>3, MarkStep
<1>2. CASE DelCheck(w)
  <2>1. CASE Exists(cur[w])
    <3>1. /\ UNCHANGED <<row, lock, kubeVars, late>> /\ pc'[w] = "del_next"
          /\ cur'[w] = None
          /\ \A v \in Workers : v # w => Same(v)
      BY <1>0, <1>2, <2>1 DEF DelCheck, dbVars, Goto, Same
    <3>2. loop'[w].todo = loop[w].todo
      BY <1>0, <1>2, <2>1 DEF DelCheck, Loop
    <3> QED
      BY <1>0, <3>1, <3>2, ClusterAlone, AsideStep DEF LockInv, LockedPc
  <2>2. CASE ~Exists(cur[w])
    BY <1>2, <2>2, LeaveStep DEF DelCheck, dbVars
  <2> QED
    BY <2>1, <2>2
<1>3. CASE DelConflict(w) \/ DelAborted(w)
  BY <1>3, LeaveStep DEF DelConflict, DelAborted, dbVars
<1>4. CASE DelInstanceRow(w)
  BY <1>4, LeaveStep DEF DelInstanceRow
<1>5. CASE DelRows(w)
  <2> DEFINE S == {r \in InstanceRuns(loop[w].victim) : Exists(r)}
  <2>0. /\ row' = [r \in Runs |-> IF r \in S THEN [row[r] EXCEPT !.state = "deleted"]
                                  ELSE row[r]]
        /\ \A r \in S : Unlocked(r)
        /\ \A v \in Workers : v # w => Same(v)
        /\ UNCHANGED <<lock, kubeVars, late, cur, loop>> /\ pc'[w] = "del_instance"
    BY <1>0, <1>5 DEF DelRows, Goto, Same
  <2>1. \A r \in S : row[r].state \notin ACTIVE
    <3>1. /\ loop[w].victim # None /\ loop[w].todo = {} /\ ~loop[w].unfinished
          /\ cur[w] = None
      BY <1>0, <1>5, NoneAssumption
         DEF DelRows, DeletionInv, TypeOK, WorkerTypeOK, DelPc, RunPc, LockedPc
    <3>2. \A r \in S : r \in Runs /\ row[r].cleaned
      BY <3>1, NoneAssumption DEF DeletionInv, InstanceRuns
    <3> QED
      BY <3>2 DEF ExecutionInv, RunInv, Sound
  <2>2. QED
    <3>1. S \in SUBSET Runs
      BY DEF InstanceRuns
    <3>2. ASSUME NEW q \in S PROVE /\ row'[q].state = "deleted" /\ Sound(q, row'[q])
                                   /\ lock[q] = None
                                   /\ row[q].state \in TERMINAL
      <4> DEFINE y == [row[q] EXCEPT !.state = "deleted"]
      <4>1. q \in Runs /\ row'[q] = y /\ row[q] \in Row /\ Sound(q, row[q])
            /\ row[q].state \in TERMINAL /\ lock[q] = None
        BY <1>0, <2>0, <2>1, <3>1 DEF ExecutionInv, RunInv, Exists, Unlocked
      <4>2. y.state = "deleted" /\ y.uid = row[q].uid /\ y.cleaned = row[q].cleaned
        BY <4>1, RowUpdates
      <4> HIDE DEF y
      <4> QED
        BY <2>1, <4>1, <4>2 DEF Sound, Executing, ACTIVE
    <3>3. \A q \in Runs \ S : row'[q] = row[q]
      BY <2>0
    <3>4. OneActiveRun'
      BY <3>2, <3>3 DEF ExecutionInv, OneActiveRun, Slot, ACTIVE
    <3>5. \A q \in S, v \in Workers :
             v # w => (pc[v] \in LockedPc \cup {"reserve"} => cur[v] # q)
      BY <3>2, NoneAssumption DEF ExecutionInv, LockInv, TERMINAL
    <3>6. /\ pc'[w] \notin LockedPc \cup {"reserve"}
          /\ cur'[w] \in S \cup {cur[w], None} /\ loop'[w].todo \subseteq loop[w].todo
      BY <2>0 DEF LockedPc
    <3> HIDE DEF S
    <3> QED
      BY <2>0, <3>1, <3>2, <3>3, <3>4, <3>5, <3>6, RowStep
<1>6. CASE CallFailed(w)
  <2>1. /\ cur[w] \in Runs /\ pc[w] \in LockedPc /\ Return(w)
        /\ UNCHANGED <<row, kubeVars, late>> /\ lock' = [lock EXCEPT ![cur[w]] = None]
    BY <1>0, <1>6 DEF CallFailed, Rollback, Release, TypeOK, WorkerTypeOK, RunPc, LockedPc
  <2>2. \A v \in Workers, q \in Runs : v # w /\ lock[q] = v => lock'[q] = v
    BY <1>0, <2>1 DEF LockInv
  <2> QED
    BY <2>1, <2>2, LeaveStep
<1>7. CASE TimedOut(w)
  BY <1>7, TimedOutInv
<1>8. CASE Crash(w)
  <2>1. ToIdle(w) /\ UNCHANGED <<row, kubeVars, late>>
        /\ \A v \in Workers, q \in Runs : v # w /\ lock[q] = v => lock'[q] = v
    BY <1>8 DEF Crash
  <2> QED
    BY <2>1, LeaveStep
<1> QED
  BY <1>1, <1>2, <1>3, <1>4, <1>5, <1>6, <1>7, <1>8 DEF Deleting

-----------------------------------------------------------------------------
(* The deletion of instances. *)

(* What no step does to rows and instances: forget that a run is cleaned,  *)
(* add a run to an instance that is being deleted, remove a run that is    *)
(* not cleaned, or reopen an instance.                                     *)
Monotone ==
  /\ \A r \in Runs :
       /\ row[r].cleaned => row'[r].cleaned
       /\ Exists(r)' => Exists(r) \/ inst[TargetOf[r].instance] = "live"
       /\ row'[r].state = "deleted" => row[r].state = "deleted" \/ row[r].cleaned
  /\ \A i \in Instances : inst[i] # "live" => inst'[i] # "live"

(* A write that keeps the run and its cleaned flag is monotone. *)
LEMMA MonotoneIf ==
  ASSUME SafetyInv, UNCHANGED inst, NEW r \in Runs, NEW new \in Row,
         row' = [row EXCEPT ![r] = new], Exists(r),
         new.state \in ACTIVE \cup TERMINAL, row[r].cleaned => new.cleaned
  PROVE  Monotone
<1>1. row \in [Runs -> Row]
  BY DEF SafetyInv, ExecutionInv, TypeOK, DbTypeOK
<1> QED
  BY <1>1 DEF Monotone, Exists, ACTIVE, TERMINAL

(* So is a step that writes neither runs nor instances. *)
LEMMA MonotoneUnchanged ==
  ASSUME UNCHANGED <<row, inst>> PROVE Monotone
BY DEF Monotone, Exists

(* The row a pass writes keeps the run in existence. *)
LEMMA PassRow ==
  ASSUME SafetyInv, NEW w \in Workers, Pass(w) \/ CreateRejected(w)
  PROVE  \/ row' = row
         \/ /\ pc[w] \in LockedPc
            /\ \E new \in Row : /\ row' = [row EXCEPT ![cur[w]] = new]
                                /\ new.state \in ACTIVE \cup TERMINAL
<1> DEFINE r == cur[w]
<1>0. ExecutionInv /\ TypeOK /\ DbTypeOK /\ KubeTypeOK /\ WorkerTypeOK
  BY DEF SafetyInv, ExecutionInv, TypeOK
<1>1. CASE \/ Reconcile(w) \/ ReadJob(w) \/ ReadPods(w) \/ Create(w) \/ Cleanup(w)
  BY <1>1 DEF Reconcile, BeginPass, dbVars, ReadJob, Rollback, ReadPods, Create,
              Cleanup, Uncommitted
<1>2. ASSUME NEW new \in Row, pc[w] = "act", new.state \in ACTIVE \cup TERMINAL,
             Settle(w, new)
      PROVE  /\ pc[w] \in LockedPc
             /\ \E x \in Row : /\ row' = [row EXCEPT ![cur[w]] = x]
                               /\ x.state \in ACTIVE \cup TERMINAL
  BY <1>2 DEF Settle, Store, LockedPc
<1>3. ASSUME pc[w] = "act"
      PROVE  /\ row[r] \in Row /\ row[r].state \in ACTIVE \cup TERMINAL
             /\ \A st \in ACTIVE \cup TERMINAL :
                  LET y == [row[r] EXCEPT !.state = st]
                  IN y \in Row /\ y.state = st
             /\ \A seen \in LogsRead(w) :
                  /\ Captured(w, seen) \in Row /\ DeletionNote(w, seen) \in Row
                  /\ Captured(w, seen).state = row[r].state
                  /\ DeletionNote(w, seen).state = row[r].state
  <2>1. cur[w] \in Runs /\ row[r] \in Row /\ row[r].state \in ACTIVE \cup TERMINAL
    BY <1>0, <1>3, ActFacts
  <2>2. \A st \in ACTIVE \cup TERMINAL :
          LET y == [row[r] EXCEPT !.state = st] IN y \in Row /\ y.state = st
    BY <2>1 DEF Row
  <2>3. \A seen \in LogsRead(w) : Captured(w, seen) \in Row /\ DeletionNote(w, seen) \in Row
    BY <1>0, <2>1, WrittenRows
  <2>4. \A seen : /\ Captured(w, seen).state = row[r].state
                  /\ DeletionNote(w, seen).state = row[r].state
    BY <1>0, <1>3, KeptRows
  <2> QED
    BY <2>1, <2>2, <2>3, <2>4
<1>4. CASE \/ Cancelled(w) \/ PreparationInterrupted(w) \/ CreateRejected(w)
           \/ JobDisappeared(w) \/ Resume(w)
  <2>1. /\ pc[w] = "act"
        /\ \/ Settle(w, row[r])
           \/ \E st \in TERMINAL : Settle(w, [row[r] EXCEPT !.state = st])
    BY <1>4 DEF Cancelled, PreparationInterrupted, CreateRejected, JobDisappeared,
         Resume, WantsResume, Acting, WriteOnly, TERMINAL
  <2> QED
    BY <1>2, <1>3, <2>1
<1>5. CASE AwaitDeletion(w) \/ DeleteJob(w) \/ DeletePods(w)
  <2>1. /\ pc[w] = "act"
        /\ \E seen \in LogsRead(w) :
             Settle(w, Captured(w, seen)) \/ Settle(w, DeletionNote(w, seen))
    BY <1>5 DEF AwaitDeletion, DeleteJob, DeletePods, WantsDelete, Acting, WriteOnly
  <2> QED
    BY <1>2, <1>3, <2>1
<1>6. CASE AdoptJob(w)
  <2> DEFINE y == [row[r] EXCEPT !.state = "pending", !.uid = view[w].job.uid]
  <2>1. pc[w] = "act" /\ Settle(w, y) /\ view[w].job.uid \in Nat
    BY <1>0, <1>6, ActFacts DEF AdoptJob, Acting, WriteOnly
  <2>2. y \in Row /\ y.state = "pending"
    BY <1>3, <2>1 DEF Row, ACTIVE
  <2> HIDE DEF y
  <2> QED
    BY <1>2, <2>1, <2>2 DEF ACTIVE
<1>7. CASE SaveSnapshot(w)
  <2>1. pc[w] = "act"
    BY <1>7 DEF SaveSnapshot, Acting
  <2>2. PICK seen \in LogsRead(w) : Settle(w, [Captured(w, seen) EXCEPT !.saved = TRUE])
    BY <1>7 DEF SaveSnapshot, WriteOnly
  <2> DEFINE x == Captured(w, seen)
             y == [x EXCEPT !.saved = TRUE]
  <2>3. x \in Row /\ x.state \in ACTIVE \cup TERMINAL
    BY <1>3, <2>1
  <2> HIDE DEF x
  <2>4. y \in Row /\ y.state = x.state
    BY <2>3 DEF Row
  <2>5. Settle(w, y)
    BY <2>2 DEF x
  <2> QED
    BY <1>2, <2>1, <2>3, <2>4, <2>5
<1>8. CASE JobEnded(w) \/ Progress(w)
  <2>1. pc[w] = "act"
    BY <1>8 DEF JobEnded, Progress, Acting
  <2>2. PICK seen \in LogsRead(w), st \in ACTIVE \cup TERMINAL :
           Settle(w, [Captured(w, seen) EXCEPT !.state = st])
    <3>1. CASE JobEnded(w)
      BY <3>1 DEF JobEnded, WriteOnly, TERMINAL
    <3>2. CASE Progress(w)
      <4>1. PICK seen \in LogsRead(w) :
              WriteOnly(w, [Captured(w, seen) EXCEPT
                !.state = IF view[w].pod.phase = "Running" THEN "running" ELSE @])
        BY <3>2 DEF Progress
      <4>2. (IF view[w].pod.phase = "Running" THEN "running" ELSE Captured(w, seen).state)
               \in ACTIVE \cup TERMINAL
        BY <1>3, <2>1 DEF ACTIVE
      <4> QED
        BY <4>1, <4>2 DEF WriteOnly
    <3> QED
      BY <1>8, <3>1, <3>2
  <2> DEFINE x == Captured(w, seen)
             y == [x EXCEPT !.state = st]
  <2>3. x \in Row
    BY <1>3, <2>1
  <2> HIDE DEF x
  <2>4. y \in Row /\ y.state = st
    BY <2>3 DEF Row
  <2>5. Settle(w, y)
    BY <2>2 DEF x
  <2> QED
    BY <1>2, <2>1, <2>4, <2>5
<1>9. CASE Commit(w)
  <2>1. pc[w] = "commit" /\ tx[w] \in Row /\ tx[w].state \in ACTIVE \cup TERMINAL
    BY <1>0, <1>9 DEF Commit, ExecutionInv, CommitInv, WorkerTypeOK
  <2> QED
    BY <1>9, <2>1 DEF Commit, Settle, Store, LockedPc
<1> QED
  BY <1>1, <1>4, <1>5, <1>6, <1>7, <1>8, <1>9 DEF Pass

(* How a pass leaves the worker's locals. *)
LEMMA PassLocals ==
  ASSUME SafetyInv, NEW w \in Workers,
         Pass(w) \/ CreateRejected(w) \/ CallFailed(w) \/ TimedOut(w)
  PROVE  /\ UNCHANGED inst
         /\ \/ Return(w) /\ pc[w] \in RunPc
            \/ /\ pc'[w] \in LockedPc /\ pc[w] \in LockedPc \cup {"reconcile"}
               /\ UNCHANGED <<row, cur, loop>>
               /\ \A v \in Workers : v # w => Same(v)
               /\ pc[w] = "reconcile" => ~row[cur[w]].cleaned
<1>0. pc \in [Workers -> Pc] /\ view \in [Workers -> [job : Job, pod : Pod]]
      /\ cur \in [Workers -> Runs \cup {None}] /\ tx \in [Workers -> Row]
  BY DEF SafetyInv, ExecutionInv, TypeOK, WorkerTypeOK
<1>1. CASE Reconcile(w)
  BY <1>0, <1>1 DEF Reconcile, BeginPass, CanLock, Goto, Same, dbVars, LockedPc, RunPc
<1>2. CASE ReadJob(w) \/ ReadPods(w)
  BY <1>0, <1>2 DEF ReadJob, ReadPods, Rollback, Goto, Same, dbVars, LockedPc, RunPc
<1>3. CASE Create(w) \/ Cleanup(w)
  BY <1>0, <1>3 DEF Create, WantsCreate, Cleanup, Acting, Uncommitted, Goto, Same,
       dbVars, LockedPc
<1>4. CASE \/ SaveSnapshot(w) \/ Cancelled(w) \/ PreparationInterrupted(w)
           \/ AdoptJob(w) \/ JobDisappeared(w) \/ AwaitDeletion(w) \/ JobEnded(w)
           \/ Progress(w) \/ CreateRejected(w)
  BY <1>4 DEF SaveSnapshot, Cancelled, PreparationInterrupted, AdoptJob, JobDisappeared,
       AwaitDeletion, JobEnded, Progress, CreateRejected, WriteOnly, Settle, Acting,
       LockedPc, RunPc
<1>5. CASE Resume(w) \/ DeleteJob(w) \/ DeletePods(w) \/ Commit(w)
  BY <1>5 DEF Resume, WantsResume, DeleteJob, WantsDelete, DeletePods, Commit, Settle,
       Acting, LockedPc, RunPc
<1>6. CASE CallFailed(w) \/ TimedOut(w)
  BY <1>6 DEF CallFailed, TimedOut, WantsCreate, WantsResume, WantsDelete, Acting,
       Rollback, LockedPc, RunPc
<1> QED
  BY <1>1, <1>2, <1>3, <1>4, <1>5, <1>6 DEF Pass

(* Steps of others, the end of a handler, the return of a pass and its     *)
(* progress keep account of the runs to be deleted.                        *)
LEMMA WorkerDeletion ==
  ASSUME SafetyInv, TypeOK', Monotone, NEW v \in Workers,
         \/ Same(v) /\ (pc[v] \in LockedPc => ~row'[cur[v]].cleaned)
         \/ ToIdle(v)
         \/ Return(v) /\ pc[v] \in RunPc
         \/ /\ pc'[v] \in LockedPc /\ pc[v] \in RunPc
            /\ cur'[v] = cur[v] /\ loop'[v] = loop[v] /\ ~row'[cur[v]].cleaned
  PROVE  DeletionInv(v)'
<1>0. /\ pc \in [Workers -> Pc] /\ cur \in [Workers -> Runs \cup {None}]
      /\ loop \in [Workers -> Loop] /\ DeletionInv(v)
      /\ loop[v].victim \in Instances \cup {None}
  BY DEF SafetyInv, ExecutionInv, TypeOK, WorkerTypeOK, Loop
<1>1. CASE ToIdle(v)
  <2>1. pc'[v] = "idle" /\ cur'[v] = None /\ loop'[v].victim = None
    BY <1>0, <1>1 DEF ToIdle, Goto, NoLoop
  <2> QED
    BY <2>1 DEF DeletionInv, LockedPc
<1>2. ASSUME loop'[v] = loop[v], loop[v].victim # None, cur'[v] = cur[v],
             pc'[v] = "del_instance" => pc[v] = "del_instance"
      PROVE  /\ inst'[loop'[v].victim] # "live"
             /\ ~loop'[v].unfinished =>
                  \A r \in InstanceRuns(loop'[v].victim) :
                    Exists(r)' => r \in loop'[v].todo \/ r = cur'[v] \/ row'[r].cleaned
             /\ pc'[v] = "del_instance" =>
                  \A r \in InstanceRuns(loop'[v].victim) : ~Exists(r)'
  <2> DEFINE i == loop[v].victim
  <2>1. i \in Instances /\ inst[i] # "live"
    BY <1>0, <1>2 DEF DeletionInv
  <2>2. \A r \in InstanceRuns(i) :
           r \in Runs /\ (Exists(r)' => Exists(r)) /\ (row[r].cleaned => row'[r].cleaned)
    BY <2>1 DEF Monotone, InstanceRuns
  <2> QED
    BY <1>0, <1>2, <2>1, <2>2 DEF DeletionInv, Monotone
<1>3. CASE Same(v) /\ (pc[v] \in LockedPc => ~row'[cur[v]].cleaned)
  <2>1. /\ pc'[v] = pc[v] /\ cur'[v] = cur[v] /\ loop'[v] = loop[v]
        /\ pc[v] \in LockedPc => ~row'[cur[v]].cleaned
    BY <1>3 DEF Same
  <2> QED
    BY <1>0, <1>2, <2>1 DEF DeletionInv, InstanceRuns, Exists
<1>4. CASE Return(v) /\ pc[v] \in RunPc
  <2>1. /\ loop'[v] = loop[v]
        /\ loop[v].victim # None => pc'[v] = "del_check" /\ cur'[v] = cur[v]
        /\ loop[v].victim = None => pc'[v] \in {"idle", "loop_next"} /\ cur'[v] = None
    BY <1>0, <1>4 DEF Return, Goto
  <2> QED
    BY <1>2, <2>1 DEF DeletionInv, RunPc, LockedPc, InstanceRuns, Exists
<1>5. CASE /\ pc'[v] \in LockedPc /\ pc[v] \in RunPc
           /\ cur'[v] = cur[v] /\ loop'[v] = loop[v] /\ ~row'[cur[v]].cleaned
  <2>1. pc'[v] \in RunPc /\ pc'[v] \notin {"idle", "loop_next", "del_instance"}
    BY <1>5 DEF RunPc, LockedPc
  <2> QED
    BY <1>2, <1>5, <2>1 DEF DeletionInv, InstanceRuns, Exists
<1> QED
  BY <1>1, <1>3, <1>4, <1>5

(* No step finds a row removed that was not cleaned, or a run of an        *)
(* instance that has gone.                                                 *)
LEMMA GoesLastKept ==
  ASSUME SafetyInv, Monotone,
         \A i \in Instances : inst'[i] = "gone" =>
           inst[i] = "gone" \/ \A r \in InstanceRuns(i) : ~Exists(r)',
         \A r \in Runs : inst[TargetOf[r].instance] = "gone" => (Exists(r)' => Exists(r))
  PROVE  InstanceGoesLast'
<1>1. \A r \in Runs : TargetOf[r].instance \in Instances /\ r \in InstanceRuns(TargetOf[r].instance)
  BY TargetAssumption DEF Targets, InstanceRuns
<1>2. \A r \in Runs : inst'[TargetOf[r].instance] = "gone" => ~Exists(r)'
  BY <1>1 DEF SafetyInv, InstanceGoesLast
<1>3. \A r \in Runs : row'[r].state = "deleted" => row'[r].cleaned
  BY DEF SafetyInv, InstanceGoesLast, Monotone
<1> QED
  BY <1>2, <1>3 DEF InstanceGoesLast, Exists

(* A pass keeps account of the runs to be deleted. *)
LEMMA PassDeletion ==
  ASSUME SafetyInv, TypeOK', NEW w \in Workers,
         Pass(w) \/ CreateRejected(w) \/ CallFailed(w) \/ TimedOut(w)
  PROVE  (\A v \in Workers : DeletionInv(v)') /\ InstanceGoesLast'
<1>0. ExecutionInv /\ TypeOK /\ row \in [Runs -> Row] /\ DeletionInv(w)
  BY DEF SafetyInv, ExecutionInv, TypeOK, DbTypeOK
<1>1. \/ row' = row
      \/ /\ pc[w] \in LockedPc
         /\ \E new \in Row : /\ row' = [row EXCEPT ![cur[w]] = new]
                             /\ new.state \in ACTIVE \cup TERMINAL
  BY PassRow DEF CallFailed, TimedOut, Rollback
<1>2. UNCHANGED inst
  BY PassLocals
<1>3. pc[w] \in LockedPc => cur[w] \in Runs /\ Exists(cur[w]) /\ ~row[cur[w]].cleaned
  BY <1>0 DEF DeletionInv, ExecutionInv, LockInv, TypeOK, WorkerTypeOK, RunPc
<1>4. Monotone
  BY <1>1, <1>2, <1>3, MonotoneIf, MonotoneUnchanged
<1>5. \A r \in Runs : Exists(r)' => Exists(r)
  BY <1>0, <1>1, <1>3 DEF Exists
<1>6. InstanceGoesLast'
  BY <1>2, <1>4, <1>5, GoesLastKept
<1>7. ASSUME NEW v \in Workers, v # w PROVE DeletionInv(v)'
  <2>1. Same(v)
    BY <1>0, <1>7, PassLocals, OthersSame
  <2>2. pc[v] \in LockedPc => ~row'[cur[v]].cleaned
    <3>1. pc[v] \in LockedPc => ~row[cur[v]].cleaned /\ cur[v] \in Runs
      BY <1>0 DEF SafetyInv, DeletionInv, TypeOK, WorkerTypeOK, RunPc
    <3> QED
      BY <1>0, <1>1, <1>7, <3>1, OthersAway
  <2> QED
    BY <1>4, <2>1, <2>2, WorkerDeletion
<1>8. DeletionInv(w)'
  <2>1. pc[w] \in LockedPc => pc[w] \in RunPc /\ ~row[cur[w]].cleaned
    BY <1>3 DEF RunPc
  <2>2. "reconcile" \in RunPc
    BY DEF RunPc
  <2> QED
    BY <1>4, <2>1, <2>2, PassLocals, WorkerDeletion
<1> QED
  BY <1>6, <1>7, <1>8

(* Steps that leave rows and instances alone. *)
LEMMA AloneDeletion ==
  ASSUME SafetyInv, TypeOK', UNCHANGED <<row, inst>>, NEW w \in Workers, DeletionInv(w)',
         \A v \in Workers : v # w => Same(v)
  PROVE  (\A v \in Workers : DeletionInv(v)') /\ InstanceGoesLast'
<1>1. Monotone
  BY MonotoneUnchanged
<1>2. InstanceGoesLast'
  BY DEF SafetyInv, InstanceGoesLast, Exists
<1>3. ASSUME NEW v \in Workers, v # w PROVE DeletionInv(v)'
  <2>1. pc[v] \in LockedPc => ~row'[cur[v]].cleaned
    BY DEF SafetyInv, DeletionInv
  <2> QED
    BY <1>1, <1>3, <2>1, WorkerDeletion
<1> QED
  BY <1>2, <1>3

(* So does a handler that ends. *)
LEMMA LeaveDeletion ==
  ASSUME SafetyInv, TypeOK', UNCHANGED <<row, inst>>, NEW w \in Workers, ToIdle(w)
  PROVE  (\A v \in Workers : DeletionInv(v)') /\ InstanceGoesLast'
<1>1. DeletionInv(w)'
  BY MonotoneUnchanged, WorkerDeletion
<1>2. \A v \in Workers : v # w => Same(v)
  BY OthersSame DEF SafetyInv, ExecutionInv
<1> QED
  BY <1>1, <1>2, AloneDeletion

(* A run is marked for deletion or to be stopped. *)
LEMMA MarkDeletion ==
  ASSUME SafetyInv, NEW r \in Runs, Exists(r), Store(r, MarkStopping(r)), UNCHANGED inst
  PROVE  /\ Monotone /\ InstanceGoesLast'
         /\ \A q \in Runs : row'[q].cleaned = row[q].cleaned /\ (Exists(q)' => Exists(q))
<1>0. row \in [Runs -> Row] /\ row' = [row EXCEPT ![r] = MarkStopping(r)]
  BY DEF SafetyInv, ExecutionInv, TypeOK, DbTypeOK, Store
<1>1. /\ MarkStopping(r) \in Row /\ MarkStopping(r).cleaned = row[r].cleaned
      /\ MarkStopping(r).state \in ACTIVE \cup TERMINAL
  <2>1. LET y == [row[r] EXCEPT !.state = "stopping"]
        IN y \in Row /\ y.cleaned = row[r].cleaned /\ y.state = "stopping"
    BY <1>0 DEF Row, ACTIVE
  <2> QED
    BY <1>0, <2>1 DEF MarkStopping, Exists, ACTIVE
<1>2. Monotone
  BY <1>0, <1>1, MonotoneIf
<1>3. \A q \in Runs : row'[q].cleaned = row[q].cleaned /\ (Exists(q)' => Exists(q))
  BY <1>0, <1>1 DEF Exists
<1>4. InstanceGoesLast'
  BY <1>2, <1>3, GoesLastKept
<1> QED
  BY <1>2, <1>3, <1>4

(* So do requests and the reconciler's loop. *)
LEMMA RequestDeletion ==
  ASSUME SafetyInv, TypeOK', NEW w \in Workers, Request(w) \/ Looping(w)
  PROVE  (\A v \in Workers : DeletionInv(v)') /\ InstanceGoesLast'
<1>0. /\ TypeOK /\ pc \in [Workers -> Pc] /\ cur \in [Workers -> Runs \cup {None}]
      /\ loop \in [Workers -> Loop] /\ inst \in [Instances -> {"live", "deleting", "gone"}]
      /\ DeletionInv(w) /\ ExecutionInv
  BY DEF SafetyInv, ExecutionInv, TypeOK, WorkerTypeOK, DbTypeOK
<1>1. ASSUME NEW r \in Runs, Start(w, r)
      PROVE  (\A v \in Workers : DeletionInv(v)') /\ InstanceGoesLast'
  <2>1. /\ UNCHANGED <<row, inst>> /\ \A v \in Workers : v # w => Same(v)
        /\ pc'[w] = "reserve" /\ loop'[w].victim = None
    BY <1>0, <1>1 DEF Start, dbVars, Goto, Same, DeletionInv
  <2>2. DeletionInv(w)'
    BY <2>1 DEF DeletionInv, RunPc, LockedPc
  <2> QED
    BY <2>1, <2>2, AloneDeletion
<1>2. ASSUME NEW r \in Runs, Stop(w, r)
      PROVE  (\A v \in Workers : DeletionInv(v)') /\ InstanceGoesLast'
  <2>1. /\ \A v \in Workers : v # w => Same(v)
        /\ pc'[w] = "reconcile" /\ loop'[w].victim = None
    BY <1>0, <1>2 DEF Stop, Goto, Same, DeletionInv
  <2>2. DeletionInv(w)'
    BY <2>1 DEF DeletionInv, RunPc, LockedPc
  <2>3. /\ Monotone /\ InstanceGoesLast' /\ \A q \in Runs : row'[q].cleaned = row[q].cleaned
    BY <1>2, MarkDeletion DEF Stop
  <2>4. ASSUME NEW v \in Workers, v # w PROVE DeletionInv(v)'
    <3>1. pc[v] \in LockedPc => ~row'[cur[v]].cleaned
      BY <1>0, <2>3 DEF SafetyInv, DeletionInv, TypeOK, WorkerTypeOK, RunPc
    <3> QED
      BY <2>1, <2>3, <2>4, <3>1, WorkerDeletion
  <2> QED
    BY <2>2, <2>3, <2>4
<1>3. ASSUME NEW r \in Runs, CanLock(r), BeginPass(w, r), pc[w] \in {"idle", "loop_next"},
             \A v \in Workers : v # w => loop'[v] = loop[v],
             loop'[w].victim = loop[w].victim
      PROVE  (\A v \in Workers : DeletionInv(v)') /\ InstanceGoesLast'
  <2>1. /\ UNCHANGED <<row, inst>> /\ \A v \in Workers : v # w => Same(v)
        /\ pc'[w] = "read_job" /\ cur'[w] = r /\ loop'[w].victim = None /\ ~row[r].cleaned
    BY <1>0, <1>3 DEF BeginPass, Goto, Same, DeletionInv, CanLock
  <2>2. DeletionInv(w)'
    BY <2>1 DEF DeletionInv, RunPc, LockedPc
  <2> QED
    BY <2>1, <2>2, AloneDeletion
<1>4. ASSUME NEW r \in Runs, Observe(w, r)
      PROVE  (\A v \in Workers : DeletionInv(v)') /\ InstanceGoesLast'
  BY <1>3, <1>4 DEF Observe
<1>5. ASSUME NEW i \in Instances, DeleteInstance(w, i)
      PROVE  (\A v \in Workers : DeletionInv(v)') /\ InstanceGoesLast'
  <2>0. /\ row' = row /\ inst' = [inst EXCEPT ![i] = "deleting"] /\ inst[i] # "gone"
        /\ \A v \in Workers : v # w => Same(v)
        /\ pc'[w] = "del_next" /\ cur'[w] = cur[w] /\ pc[w] = "idle"
        /\ loop'[w] = [todo |-> {r \in InstanceRuns(i) : Exists(r)},
                       unfinished |-> FALSE, victim |-> i]
    BY <1>0, <1>5 DEF DeleteInstance, Goto, Same
  <2>1. Monotone
    BY <1>0, <2>0 DEF Monotone, Exists
  <2>2. InstanceGoesLast'
    <3>1. /\ \A k \in Instances : inst'[k] = "gone" => inst[k] = "gone"
          /\ \A r \in Runs : Exists(r)' => Exists(r)
      BY <1>0, <2>0 DEF Exists
    <3> QED
      BY <2>1, <3>1, GoesLastKept
  <2>3. DeletionInv(w)'
    <3>1. loop'[w].victim = i /\ loop'[w].todo = {r \in InstanceRuns(i) : Exists(r)}
          /\ inst'[i] # "live" /\ cur'[w] = None
      BY <1>0, <2>0 DEF DeletionInv, RunPc, LockedPc
    <3> QED
      BY <2>0, <3>1 DEF DeletionInv, LockedPc, InstanceRuns, Exists
  <2>4. ASSUME NEW v \in Workers, v # w PROVE DeletionInv(v)'
    <3>1. pc[v] \in LockedPc => ~row'[cur[v]].cleaned
      BY <2>0 DEF SafetyInv, DeletionInv
    <3> QED
      BY <2>0, <2>1, <2>4, <3>1, WorkerDeletion
  <2> QED
    BY <2>2, <2>3, <2>4
<1>6. CASE LoopPass(w)
  <2>1. /\ UNCHANGED <<row, inst>> /\ \A v \in Workers : v # w => Same(v)
        /\ pc'[w] \in {"idle", "loop_next"} /\ cur'[w] = None
    BY <1>0, <1>6 DEF LoopPass, Goto, Same, DeletionInv, RunPc, LockedPc
  <2>2. loop'[w].victim = None
    BY <1>0, <1>6 DEF LoopPass, Loop, DeletionInv
  <2>3. DeletionInv(w)'
    BY <2>1, <2>2 DEF DeletionInv, LockedPc
  <2> QED
    BY <2>1, <2>3, AloneDeletion
<1>7. CASE LoopNext(w)
  <2>1. PICK r \in loop[w].todo :
          /\ loop' = [loop EXCEPT ![w].todo = @ \ {r}]
          /\ IF CanLock(r) THEN BeginPass(w, r)
             ELSE /\ Goto(w, IF loop[w].todo = {r} THEN "idle" ELSE "loop_next")
                  /\ UNCHANGED <<dbVars, cur, view, tx>>
    BY <1>7 DEF LoopNext
  <2>2. /\ r \in Runs /\ loop'[w].victim = loop[w].victim
        /\ \A v \in Workers : v # w => loop'[v] = loop[v]
    BY <1>0, <2>1 DEF Loop
  <2>3. CASE CanLock(r)
    BY <1>3, <1>7, <2>1, <2>2, <2>3 DEF LoopNext
  <2>4. CASE ~CanLock(r)
    <3>1. /\ UNCHANGED <<row, inst>> /\ \A v \in Workers : v # w => Same(v)
          /\ pc'[w] \in {"idle", "loop_next"} /\ cur'[w] = None /\ loop'[w].victim = None
      BY <1>0, <1>7, <2>1, <2>2, <2>4
         DEF LoopNext, dbVars, Goto, Same, DeletionInv, RunPc, LockedPc
    <3>2. DeletionInv(w)'
      BY <3>1 DEF DeletionInv, LockedPc
    <3> QED
      BY <3>1, <3>2, AloneDeletion
  <2> QED
    BY <2>3, <2>4
<1> QED
  BY <1>1, <1>2, <1>4, <1>5, <1>6, <1>7 DEF Request, Looping

(* So do the steps of start(): reserve() needs a live instance. *)
LEMMA StartingDeletion ==
  ASSUME SafetyInv, TypeOK', NEW w \in Workers, Starting(w) \/ PrepareFailed(w)
  PROVE  (\A v \in Workers : DeletionInv(v)') /\ InstanceGoesLast'
<1>0. /\ TypeOK /\ pc \in [Workers -> Pc] /\ cur \in [Workers -> Runs \cup {None}]
      /\ loop \in [Workers -> Loop] /\ row \in [Runs -> Row] /\ DeletionInv(w)
      /\ pc[w] \in {"reserve", "lock_prepare", "prepare"} => cur[w] \in Runs /\ pc[w] \in RunPc
      /\ ExecutionInv /\ \A v \in Workers : DeletionInv(v)
  BY DEF SafetyInv, ExecutionInv, TypeOK, WorkerTypeOK, DbTypeOK, RunPc, LockedPc
<1>1. CASE Reserve(w)
  <2> DEFINE r == cur[w]
             y == [row[r] EXCEPT !.state = "creating", !.admitted = now + 1]
  <2>0. /\ pc[w] = "reserve" /\ r \in Runs /\ row[r] \in Row
        /\ inst[TargetOf[r].instance] = "live" /\ inst' = inst
        /\ row' = [row EXCEPT ![r] = y]
        /\ pc'[w] = "lock_prepare" /\ cur' = cur /\ loop' = loop
        /\ \A v \in Workers : v # w => Same(v)
    BY <1>0, <1>1 DEF Reserve, CanReserve, Goto, Same
  <2>1. y.state = "creating" /\ y.cleaned = row[r].cleaned
    BY <2>0, RowUpdates
  <2> HIDE DEF y
  <2>2. \A q \in Runs : /\ row'[q].cleaned = row[q].cleaned
                        /\ q # r => row'[q] = row[q]
    BY <1>0, <2>0, <2>1
  <2>3. Monotone
    <3>1. row'[r].state = "creating"
      BY <1>0, <2>0, <2>1
    <3> QED
      BY <2>0, <2>2, <3>1 DEF Monotone, Exists
  <2>4. \A q \in Runs : inst[TargetOf[q].instance] = "gone" => (Exists(q)' => Exists(q))
    BY <2>0, <2>2 DEF Exists
  <2>5. InstanceGoesLast'
    BY <2>0, <2>3, <2>4, GoesLastKept
  <2>6. ASSUME NEW v \in Workers, v # w PROVE DeletionInv(v)'
    <3>1. pc[v] \in LockedPc => ~row'[cur[v]].cleaned
      BY <1>0, <2>2 DEF DeletionInv, TypeOK, WorkerTypeOK, RunPc
    <3> QED
      BY <2>0, <2>3, <2>6, <3>1, WorkerDeletion
  <2>7. DeletionInv(w)'
    <3>1. ASSUME loop[w].victim # None
          PROVE  /\ inst'[loop'[w].victim] # "live"
                 /\ ~loop'[w].unfinished =>
                      \A q \in InstanceRuns(loop'[w].victim) :
                        Exists(q)' => q \in loop'[w].todo \/ q = cur'[w] \/ row'[q].cleaned
      <4>1. loop[w].victim \in Instances /\ inst[loop[w].victim] # "live"
        BY <1>0, <3>1 DEF DeletionInv, Loop
      <4>2. \A q \in InstanceRuns(loop[w].victim) :
              q \in Runs /\ (Exists(q)' => Exists(q)) /\ row'[q].cleaned = row[q].cleaned
        BY <2>0, <2>2, <4>1 DEF InstanceRuns, Exists
      <4> QED
        BY <1>0, <2>0, <3>1, <4>1, <4>2 DEF DeletionInv
    <3> QED
      BY <2>0, <3>1 DEF DeletionInv, RunPc, LockedPc, InstanceRuns, Exists
  <2> QED
    BY <2>5, <2>6, <2>7
<1>2. CASE ReserveConflict(w)
  BY <1>2, LeaveDeletion DEF ReserveConflict, dbVars
<1>3. CASE LockPrepare(w) /\ row[cur[w]].state # "creating"
  BY <1>3, LeaveDeletion DEF LockPrepare
<1>4. ASSUME UNCHANGED <<row, inst, cur, loop>>, pc'[w] \in LockedPc, pc[w] \in RunPc,
             row[cur[w]].cleaned => FALSE, \A v \in Workers : v # w => Same(v)
      PROVE  (\A v \in Workers : DeletionInv(v)') /\ InstanceGoesLast'
  <2>1. DeletionInv(w)'
    BY <1>4, MonotoneUnchanged, WorkerDeletion
  <2> QED
    BY <1>4, <2>1, AloneDeletion
<1>5. CASE LockPrepare(w) /\ row[cur[w]].state = "creating"
  <2>1. /\ UNCHANGED <<row, inst, cur, loop>> /\ pc'[w] \in LockedPc /\ pc[w] = "lock_prepare"
        /\ \A v \in Workers : v # w => Same(v)
    BY <1>0, <1>5 DEF LockPrepare, Goto, Same, LockedPc
  <2>2. ~row[cur[w]].cleaned
    BY <1>0, <1>5, <2>1 DEF ExecutionInv, RunInv, Sound, ACTIVE
  <2> QED
    BY <1>0, <1>4, <2>1, <2>2
<1>6. CASE Prepare(w) \/ PrepareFailed(w)
  <2>1. /\ UNCHANGED <<row, inst, cur, loop>> /\ pc'[w] \in LockedPc /\ pc[w] = "prepare"
        /\ \A v \in Workers : v # w => Same(v)
    BY <1>0, <1>6 DEF Prepare, PrepareFailed, Uncommitted, dbVars, Goto, Same, LockedPc,
                      TypeOK, WorkerTypeOK
  <2>2. ~row[cur[w]].cleaned
    BY <1>0, <2>1 DEF DeletionInv, LockedPc
  <2> QED
    BY <1>0, <1>4, <2>1, <2>2
<1>7. CASE Build(w)
  <2>1. UNCHANGED <<row, inst, workerVars>>
    BY <1>7 DEF Build
  <2>2. ASSUME NEW v \in Workers PROVE DeletionInv(v)'
    <3>1. Same(v) /\ (pc[v] \in LockedPc => ~row'[cur[v]].cleaned)
      BY <1>0, <2>1 DEF Same, workerVars, DeletionInv
    <3> QED
      BY <1>0, <2>1, <3>1, MonotoneUnchanged, WorkerDeletion
  <2> QED
    BY <2>1, <2>2 DEF SafetyInv, InstanceGoesLast, Exists
<1> QED
  BY <1>1, <1>2, <1>3, <1>5, <1>6, <1>7 DEF Starting

(* So do the steps of the deletion itself. *)
LEMMA DeletingDeletion ==
  ASSUME SafetyInv, TypeOK', NEW w \in Workers,
         Deleting(w) \/ DelAborted(w) \/ Crash(w)
  PROVE  (\A v \in Workers : DeletionInv(v)') /\ InstanceGoesLast'
<1>0. /\ TypeOK /\ pc \in [Workers -> Pc] /\ cur \in [Workers -> Runs \cup {None}]
      /\ loop \in [Workers -> Loop] /\ row \in [Runs -> Row] /\ DeletionInv(w)
      /\ inst \in [Instances -> {"live", "deleting", "gone"}]
      /\ ExecutionInv /\ \A v \in Workers : DeletionInv(v)
      /\ pc[w] \in DelPc => loop[w].victim \in Instances /\ loop[w].victim # None
  BY NoneAssumption DEF SafetyInv, ExecutionInv, TypeOK, WorkerTypeOK, DbTypeOK
<1> DEFINE i == loop[w].victim
<1>1. CASE DelNext(w)
  <2>1. PICK r \in loop[w].todo :
          /\ Unlocked(r) /\ Store(r, MarkStopping(r))
          /\ loop' = [loop EXCEPT ![w].todo = @ \ {r}]
          /\ cur' = [cur EXCEPT ![w] = r] /\ Goto(w, "reconcile")
    BY <1>1 DEF DelNext
  <2>2. /\ pc[w] = "del_next" /\ pc'[w] = "reconcile" /\ cur'[w] = r /\ inst' = inst
        /\ r \in Runs /\ cur[w] = None /\ i \in Instances /\ i # None
        /\ \A v \in Workers : v # w => Same(v)
    BY <1>0, <1>1, <2>1 DEF DelNext, Goto, Same, Loop, DelPc, DeletionInv, RunPc, LockedPc
  <2>3. /\ loop'[w].todo = loop[w].todo \ {r} /\ loop'[w].victim = i
        /\ loop'[w].unfinished = loop[w].unfinished
    BY <1>0, <2>1 DEF Loop
  <2>a. /\ row \in [Runs -> Row] /\ MarkStopping(r) \in Row
        /\ MarkStopping(r).cleaned = row[r].cleaned
        /\ MarkStopping(r).state \in {row[r].state, "stopping"}
        /\ row[r].state \notin ACTIVE => MarkStopping(r).state = row[r].state
        /\ row[r].state # "unborn"
    <3>1. LET y == [row[r] EXCEPT !.state = "stopping"]
          IN y \in Row /\ y.cleaned = row[r].cleaned /\ y.state = "stopping"
      BY <1>0, <2>2 DEF Row, ACTIVE
    <3>2. row[r] \in Row /\ row[r].state # "unborn"
      BY <1>0, <2>1, <2>2 DEF ExecutionInv, LockInv
    <3> QED
      BY <1>0, <3>1, <3>2 DEF MarkStopping
  <2>b. row' = [row EXCEPT ![r] = MarkStopping(r)]
    BY <2>1 DEF Store
  <2>4. \A q \in Runs : /\ row'[q].cleaned = row[q].cleaned /\ (Exists(q)' => Exists(q))
                        /\ row'[q].state = "deleted" => row[q].state = "deleted"
    <3>1. row'[r] = MarkStopping(r) /\ \A q \in Runs : q # r => row'[q] = row[q]
      BY <2>2, <2>a, <2>b
    <3>2. Exists(r)' => Exists(r)
      BY <2>a, <3>1 DEF Exists
    <3>3. row'[r].state = "deleted" => row[r].state = "deleted"
      BY <2>a, <3>1
    <3> QED
      BY <2>a, <3>1, <3>2, <3>3 DEF Exists
  <2>5. Monotone
    BY <2>2, <2>4 DEF Monotone
  <2>6. InstanceGoesLast'
    BY <2>2, <2>4, <2>5, GoesLastKept
  <2>7. ASSUME NEW v \in Workers, v # w PROVE DeletionInv(v)'
    <3>1. pc[v] \in LockedPc => ~row'[cur[v]].cleaned
      BY <1>0, <2>4 DEF DeletionInv, TypeOK, WorkerTypeOK, RunPc
    <3> QED
      BY <2>2, <2>5, <2>7, <3>1, WorkerDeletion
  <2>8. DeletionInv(w)'
    <3>1. ~loop[w].unfinished => \A q \in InstanceRuns(i) :
             Exists(q)' => q \in loop'[w].todo \/ q = r \/ row'[q].cleaned
      BY <1>0, <2>2, <2>3, <2>4, NoneAssumption DEF DeletionInv, InstanceRuns
    <3> QED
      BY <1>0, <2>2, <2>3, <3>1 DEF DeletionInv, RunPc, LockedPc, InstanceRuns, Exists
  <2> QED
    BY <2>6, <2>7, <2>8
<1>2. CASE DelCheck(w) /\ Exists(cur[w])
  <2>1. /\ UNCHANGED <<row, inst>> /\ pc[w] = "del_check" /\ pc'[w] = "del_next"
        /\ cur'[w] = None /\ i # None /\ \A v \in Workers : v # w => Same(v)
    BY <1>0, <1>2 DEF DelCheck, dbVars, Goto, Same, DelPc
  <2> DEFINE b == loop[w].unfinished \/ ~row[cur[w]].cleaned
  <2>2. loop' = [loop EXCEPT ![w].unfinished = b]
    BY <1>2 DEF DelCheck
  <2>3. b \in BOOLEAN /\ (~b => ~loop[w].unfinished /\ row[cur[w]].cleaned)
    OBVIOUS
  <2> HIDE DEF b
  <2>4. loop'[w].unfinished = b /\ loop'[w].todo = loop[w].todo /\ loop'[w].victim = i
    BY <1>0, <2>2, <2>3 DEF Loop
  <2>5. ~b => \A q \in InstanceRuns(i) : Exists(q) => q \in loop[w].todo \/ row[q].cleaned
    BY <1>0, <2>1, <2>3 DEF DeletionInv
  <2>6. DeletionInv(w)'
    BY <1>0, <2>1, <2>4, <2>5 DEF DeletionInv, LockedPc, InstanceRuns, Exists
  <2> QED
    BY <2>1, <2>6, AloneDeletion
<1>3. CASE DelCheck(w) /\ ~Exists(cur[w])
  BY <1>3, LeaveDeletion DEF DelCheck, dbVars
<1>4. CASE DelConflict(w) \/ DelAborted(w) \/ Crash(w)
  BY <1>4, LeaveDeletion DEF DelConflict, DelAborted, Crash, dbVars
<1>5. CASE DelRows(w)
  <2> DEFINE S == {r \in InstanceRuns(i) : Exists(r)}
  <2>0. /\ row' = [r \in Runs |-> IF r \in S THEN [row[r] EXCEPT !.state = "deleted"]
                                  ELSE row[r]]
        /\ \A v \in Workers : v # w => Same(v)
        /\ inst' = inst /\ cur' = cur /\ loop' = loop
        /\ pc'[w] = "del_instance" /\ pc[w] = "del_next"
        /\ loop[w].todo = {} /\ ~loop[w].unfinished /\ i # None /\ cur[w] = None
    BY <1>0, <1>5 DEF DelRows, Goto, Same, DelPc, DeletionInv, RunPc, LockedPc
  <2>1. \A r \in S : r \in Runs /\ row[r].cleaned
    BY <1>0, <2>0, NoneAssumption DEF DeletionInv, InstanceRuns
  <2>2. \A r \in Runs : /\ row'[r].cleaned = row[r].cleaned
                        /\ r \in S => row'[r].state = "deleted"
                        /\ r \notin S => row'[r] = row[r]
    <3> SUFFICES ASSUME NEW r \in Runs
                 PROVE  /\ row'[r].cleaned = row[r].cleaned
                        /\ r \in S => row'[r].state = "deleted"
                        /\ r \notin S => row'[r] = row[r]
      OBVIOUS
    <3> DEFINE y == [row[r] EXCEPT !.state = "deleted"]
    <3>1. y.state = "deleted" /\ y.cleaned = row[r].cleaned
      BY <1>0, RowUpdates
    <3>2. row'[r] = IF r \in S THEN y ELSE row[r]
      BY <2>0
    <3> HIDE DEF y, S
    <3> QED
      BY <3>1, <3>2
  <2>3. \A r \in Runs : Exists(r)' => Exists(r)
    BY <2>2 DEF Exists, ACTIVE, TERMINAL
  <2>4. \A r \in InstanceRuns(i) : ~Exists(r)'
    BY <2>2 DEF Exists, InstanceRuns, ACTIVE, TERMINAL
  <2>5. Monotone
    <3>1. \A r \in Runs : row'[r].state = "deleted" => row[r].state = "deleted" \/ row[r].cleaned
      BY <2>1, <2>2
    <3> HIDE DEF S
    <3> QED
      BY <2>0, <2>2, <2>3, <3>1 DEF Monotone
  <2> HIDE DEF S
  <2>6. InstanceGoesLast'
    BY <2>0, <2>3, <2>5, GoesLastKept
  <2>7. ASSUME NEW v \in Workers, v # w PROVE DeletionInv(v)'
    <3>1. pc[v] \in LockedPc => ~row'[cur[v]].cleaned
      BY <1>0, <2>2 DEF DeletionInv, TypeOK, WorkerTypeOK, RunPc
    <3> QED
      BY <2>0, <2>5, <2>7, <3>1, WorkerDeletion
  <2>8. DeletionInv(w)'
    BY <1>0, <2>0, <2>4 DEF DeletionInv, LockedPc, InstanceRuns, Exists
  <2> QED
    BY <2>6, <2>7, <2>8
<1>6. CASE DelInstanceRow(w)
  <2>1. /\ inst' = [inst EXCEPT ![i] = "gone"] /\ row' = row /\ ToIdle(w)
        /\ pc[w] = "del_instance" /\ i \in Instances /\ i # None
    BY <1>0, <1>6 DEF DelInstanceRow, DelPc
  <2>2. Monotone
    BY <1>0, <2>1 DEF Monotone, Exists
  <2>3. \A r \in InstanceRuns(i) : ~Exists(r)'
    BY <1>0, <2>1 DEF DeletionInv, Exists
  <2>4. \A k \in Instances : inst'[k] = "gone" =>
           inst[k] = "gone" \/ \A r \in InstanceRuns(k) : ~Exists(r)'
    BY <1>0, <2>1, <2>3
  <2>5. InstanceGoesLast'
    <3>1. \A r \in Runs : Exists(r)' => Exists(r)
      BY <2>1 DEF Exists
    <3> QED
      BY <2>2, <2>4, <3>1, GoesLastKept
  <2>6. ASSUME NEW v \in Workers PROVE DeletionInv(v)'
    <3>1. pc[v] \in LockedPc => ~row'[cur[v]].cleaned
      BY <1>0, <2>1 DEF DeletionInv
    <3> QED
      BY <1>0, <2>1, <2>2, <3>1, OthersSame, WorkerDeletion
  <2> QED
    BY <2>5, <2>6
<1> QED
  BY <1>1, <1>2, <1>3, <1>4, <1>5, <1>6 DEF Deleting

(* So do the cluster, other people and the clock. *)
LEMMA OutsideDeletion ==
  ASSUME SafetyInv, TypeOK',
         \/ \E r \in Runs : KubeStep(r) \/ OutsideStep(r) \/ Tick(r)
         \/ \E c \in late : LateCall(c)
         \/ LegacyGone
  PROVE  (\A v \in Workers : DeletionInv(v)') /\ InstanceGoesLast'
<1>1. UNCHANGED <<row, inst, workerVars>>
  BY DEF KubeStep, OutsideStep, LateCall, Tick, LegacyGone, dbVars
<1>2. ASSUME NEW v \in Workers PROVE DeletionInv(v)'
  <2>1. Same(v) /\ (pc[v] \in LockedPc => ~row'[cur[v]].cleaned)
    BY <1>1 DEF Same, workerVars, SafetyInv, DeletionInv
  <2> QED
    BY <1>1, <2>1, MonotoneUnchanged, WorkerDeletion
<1>3. InstanceGoesLast'
  BY <1>1 DEF SafetyInv, InstanceGoesLast, Exists
<1> QED
  BY <1>2, <1>3

-----------------------------------------------------------------------------
(* The theorems. *)

(* The invariant holds initially. *)
LEMMA InitSafety == Init => SafetyInv
<1> SUFFICES ASSUME Init PROVE SafetyInv
  OBVIOUS
<1>1. TypeOK
  BY InitType
<1>2. \A r \in Runs : row[r] = NewRow /\ job[r] = NoJob /\ pod[r] = NoPod /\ ver[r] = 0
  BY DEF Init
<1>3. OneActiveRun /\ InstanceGoesLast
  BY <1>2 DEF Init, OneActiveRun, InstanceGoesLast, Exists, NewRow, ACTIVE, TERMINAL
<1>4. ASSUME NEW r \in Runs PROVE RunInv(r)
  <2>1. Untouched(r)
    BY <1>2 DEF Init, Untouched, Empty, Vanished, LateResumes, NoJob, NoPod
  <2>2. Empty(r) /\ Quiet(r)
    BY <2>1, EmptyIsQuiet
  <2> QED
    BY <1>2, <2>1, <2>2 DEF RunInv, Sound, NewRow, NoJob, Executing
<1>5. ASSUME NEW w \in Workers
      PROVE  LockInv(w) /\ ViewInv(w) /\ CommitInv(w) /\ DeletionInv(w)
  <2>1. pc[w] = "idle" /\ cur[w] = None /\ loop[w].todo = {} /\ loop[w].victim = None
    BY DEF Init, NoLoop
  <2> QED
    BY <2>1 DEF LockInv, ViewInv, CommitInv, DeletionInv, LockedPc
<1>6. \A c \in late : c.rv <= ver[c.run]
  BY DEF Init
<1> QED
  BY <1>1, <1>3, <1>4, <1>5, <1>6 DEF SafetyInv, ExecutionInv

(* Every step preserves the invariant. *)
LEMMA NextSafety == SafetyInv /\ [Next]_vars => SafetyInv'
<1> SUFFICES ASSUME SafetyInv, [Next]_vars PROVE SafetyInv'
  OBVIOUS
<1>0. ExecutionInv /\ TypeOK /\ TypeOK' /\ \A w \in Workers : DeletionInv(w)
  BY NextType DEF SafetyInv, ExecutionInv
<1>1. CASE UNCHANGED vars
  <2>1. UNCHANGED <<row, lock, inst, kubeVars, late, workerVars>>
    BY <1>1 DEF vars, kubeVars, workerVars
  <2>2. ExecutionInv'
    BY <1>0, <2>1, ClusterAlone, CalmStep
  <2>3. ASSUME NEW v \in Workers PROVE DeletionInv(v)'
    <3>1. Same(v) /\ (pc[v] \in LockedPc => ~row'[cur[v]].cleaned)
      BY <1>0, <2>1 DEF Same, workerVars, DeletionInv
    <3> QED
      BY <1>0, <2>1, <3>1, MonotoneUnchanged, WorkerDeletion
  <2>4. InstanceGoesLast'
    BY <2>1 DEF SafetyInv, InstanceGoesLast, Exists
  <2> QED
    BY <2>2, <2>3, <2>4 DEF SafetyInv
<1>2. CASE Next
  <2>1. ExecutionInv'
    BY <1>0, <1>2, RequestInv, StartingInv, PassInv, DeletingInv, OutsideInv
       DEF Next, Failure
  <2>2. (\A v \in Workers : DeletionInv(v)') /\ InstanceGoesLast'
    BY <1>0, <1>2, RequestDeletion, StartingDeletion, PassDeletion, DeletingDeletion,
       OutsideDeletion DEF Next, Failure
  <2> QED
    BY <2>1, <2>2 DEF SafetyInv
<1> QED
  BY <1>1, <1>2

(* The inductive invariant holds in every reachable state. *)
THEOREM SafetyInductive == Spec => []SafetyInv
BY InitSafety, NextSafety, PTL DEF Spec

(* reserve() and the unique index: never two active rows in one slot. *)
THEOREM SlotExclusive == Spec => []OneActiveRun
<1>1. SafetyInv => OneActiveRun
  BY DEF SafetyInv, ExecutionInv
<1> QED
  BY <1>1, SafetyInductive, PTL

(* A run that is not active has no executing pod, whatever crashed, timed  *)
(* out or arrived late.                                                    *)
THEOREM NoGhosts == Spec => []NoGhostExecution
<1>1. SafetyInv => NoGhostExecution
  BY DEF SafetyInv, ExecutionInv, RunInv, Sound, Quiet, NoGhostExecution
<1> QED
  BY <1>1, SafetyInductive, PTL

(* Hence two benchmarks of one model never execute at once. *)
THEOREM BenchmarkExclusive == Spec => []OneBenchmark
<1>1. SafetyInv => OneBenchmark
  BY DEF SafetyInv, ExecutionInv, RunInv, Sound, Quiet, OneActiveRun, OneBenchmark
<1> QED
  BY <1>1, SafetyInductive, PTL

(* A cleaned run has no pod, and no Job that could get one. *)
THEOREM CleanedQuiet == Spec => []CleanedIsQuiet
<1>1. SafetyInv => CleanedIsQuiet
  BY DEF SafetyInv, ExecutionInv, RunInv, Sound, Empty, Vanished, CleanedIsQuiet
<1> QED
  BY <1>1, SafetyInductive, PTL

(* An instance goes after its runs, each of which was cleaned. *)
THEOREM InstanceLast == Spec => []InstanceGoesLast
<1>1. SafetyInv => InstanceGoesLast
  BY DEF SafetyInv
<1> QED
  BY <1>1, SafetyInductive, PTL

-----------------------------------------------------------------------------
(* Rows. *)

(* The kinds of rows the passes write all grow out of the one they read.   *)
LEMMA GrowingRows ==
  ASSUME NEW x \in Row
  PROVE  /\ Grows(x, x)
         /\ Grows(x, [x EXCEPT !.prepared = TRUE])
         /\ Grows(x, [x EXCEPT !.cleaned = TRUE])
         /\ x.state \in ACTIVE =>
              /\ \A st : Grows(x, [x EXCEPT !.state = st])
              /\ \A n \in 0..1 : n >= x.output => Grows(x, [x EXCEPT !.output = n])
              /\ x.uid = 0 => \A st, n : Grows(x, [x EXCEPT !.state = st, !.uid = n])
BY DEF Grows, Row, ACTIVE, TERMINAL

(* A row that grew stays grown when it is written on. *)
LEMMA GrownOn ==
  ASSUME NEW x \in Row, NEW y \in Row, x.state \in ACTIVE, Grows(x, y)
  PROVE  /\ Grows(x, [y EXCEPT !.saved = TRUE])
         /\ \A st : Grows(x, [y EXCEPT !.state = st])
BY DEF Grows, Row, ACTIVE, TERMINAL

(* What the log adds to an active row; a finished row is left alone. *)
LEMMA CapturedGrows ==
  ASSUME TypeOK, NEW w \in Workers, cur[w] \in Runs, row[cur[w]].state \in ACTIVE,
         NEW seen \in LogsRead(w)
  PROVE  /\ Captured(w, seen) \in Row
         /\ Grows(row[cur[w]], Captured(w, seen))
<1>1. row[cur[w]] \in Row /\ seen \in 0..1 /\ Captured(w, seen) \in Row
  BY WrittenRows DEF TypeOK
<1>2. row[cur[w]].output \in 0..1
  BY <1>1 DEF Row
<1> DEFINE n == IF seen > 0 THEN seen ELSE row[cur[w]].output
<1>3. n \in 0..1 /\ n >= row[cur[w]].output
  BY <1>1, <1>2
<1>4. Captured(w, seen) = [row[cur[w]] EXCEPT !.output = n]
  BY DEF Captured
<1> HIDE DEF n
<1> QED
  BY <1>1, <1>3, <1>4, GrowingRows

(* Only the transaction that has cleaned up after a run calls it cleaned.  *)
CommitsCleaned(r) == \E w \in Workers : Commit(w) /\ cur[w] = r /\ tx[w].cleaned

(* A transaction that writes the row of a run that exists. *)
Written(r, new) ==
  /\ Exists(r) /\ new.state \in ACTIVE \cup TERMINAL
  /\ new.state \in ACTIVE => row[r].state \in ACTIVE
  /\ new.cleaned => row[r].cleaned \/ CommitsCleaned(r)
  /\ Grows(row[r], new)
  /\ Store(r, new) /\ now' = now /\ legacy' = legacy

(* The row a pass writes: it holds the lock until then. *)
LEMMA PassWrites ==
  ASSUME SafetyInv, RecordInv, NEW w \in Workers, Pass(w) \/ CreateRejected(w)
  PROVE  \/ UNCHANGED <<row, result, now, legacy>>
         \/ /\ pc[w] \in LockedPc /\ cur[w] \in Runs /\ Return(w)
            /\ \E new \in Row : Written(cur[w], new)
<1> DEFINE r == cur[w]
           Done == /\ pc[w] \in LockedPc /\ cur[w] \in Runs /\ Return(w)
                   /\ \E new \in Row : Written(cur[w], new)
<1>0. ExecutionInv /\ TypeOK /\ DbTypeOK /\ KubeTypeOK /\ WorkerTypeOK
  BY DEF SafetyInv, ExecutionInv, TypeOK
<1>1. CASE \/ Reconcile(w) \/ ReadJob(w) \/ ReadPods(w) \/ Create(w) \/ Cleanup(w)
  BY <1>1 DEF Reconcile, BeginPass, dbVars, ReadJob, Rollback, ReadPods, Create,
              Cleanup, Uncommitted
<1>2. ASSUME pc[w] = "act"
      PROVE  /\ r \in Runs /\ row[r] \in Row /\ pc[w] \in LockedPc /\ Exists(r)
             /\ row[r].state \in ACTIVE \cup TERMINAL
             /\ Sound(r, row[r])
  BY <1>0, <1>2, ActFacts DEF Exists
<1>3. ASSUME NEW new \in Row, pc[w] = "act", new.state \in ACTIVE \cup TERMINAL,
             new.state \in ACTIVE => row[r].state \in ACTIVE,
             new.cleaned = row[r].cleaned,
             Grows(row[r], new), Settle(w, new)
      PROVE  Done
  BY <1>2, <1>3 DEF Settle, Written
<1>4. ASSUME NEW st \in ACTIVE \cup TERMINAL, Acting(w, ACTIVE), Settle(w, [row[r] EXCEPT !.state = st])
      PROVE  Done
  <2> DEFINE y == [row[r] EXCEPT !.state = st]
  <2>1. pc[w] = "act" /\ row[r].state \in ACTIVE /\ row[r] \in Row
    BY <1>2, <1>4 DEF Acting
  <2>2. /\ y \in Row /\ y.state = st /\ y.cleaned = row[r].cleaned
        /\ Grows(row[r], y) /\ Settle(w, y)
    BY <1>4, <2>1, GrowingRows DEF Row
  <2> HIDE DEF y
  <2> QED
    BY <1>3, <2>1, <2>2
<1>5. ASSUME pc[w] = "act", Settle(w, row[r]) PROVE Done
  BY <1>2, <1>3, <1>5, GrowingRows
<1>6. ASSUME NEW seen \in LogsRead(w), Acting(w, ACTIVE)
      PROVE  /\ Captured(w, seen) \in Row /\ Grows(row[r], Captured(w, seen))
             /\ Captured(w, seen).state = row[r].state
             /\ Captured(w, seen).cleaned = row[r].cleaned
             /\ pc[w] = "act" /\ row[r].state \in ACTIVE /\ row[r] \in Row
  BY <1>0, <1>2, <1>6, CapturedGrows, KeptRows DEF Acting
<1>7. CASE \/ Cancelled(w) \/ PreparationInterrupted(w) \/ CreateRejected(w)
           \/ JobDisappeared(w) \/ Resume(w)
  <2>1. \/ pc[w] = "act" /\ Settle(w, row[r])
        \/ Acting(w, ACTIVE) /\ \E st \in TERMINAL : Settle(w, [row[r] EXCEPT !.state = st])
    BY <1>7 DEF Cancelled, PreparationInterrupted, CreateRejected, JobDisappeared,
         Resume, WantsResume, Acting, WriteOnly, TERMINAL, ACTIVE, Executing
  <2> QED
    BY <1>4, <1>5, <2>1
<1>8. ASSUME NEW seen \in LogsRead(w), Acting(w, ACTIVE), Settle(w, Captured(w, seen))
      PROVE  Done
  BY <1>3, <1>6, <1>8
<1>9. CASE AwaitDeletion(w) \/ DeleteJob(w) \/ DeletePods(w)
  <2>1. PICK seen \in LogsRead(w) :
           \/ pc[w] = "act" /\ Settle(w, row[r])
           \/ Acting(w, ACTIVE) /\ Settle(w, Captured(w, seen))
    BY <1>9 DEF AwaitDeletion, DeleteJob, DeletePods, WantsDelete, Acting, WriteOnly,
         DeletionNote, Executing, ACTIVE
  <2> QED
    BY <1>5, <1>8, <2>1
<1>10. CASE AdoptJob(w)
  <2> DEFINE y == [row[r] EXCEPT !.state = "pending", !.uid = view[w].job.uid]
  <2>1. /\ pc[w] = "act" /\ Settle(w, y) /\ view[w].job.uid \in Nat
        /\ row[r].state = "creating"
    BY <1>0, <1>10, ActFacts DEF AdoptJob, Acting, WriteOnly
  <2>2. row[r] \in Row /\ row[r].uid = 0 /\ row[r].state \in ACTIVE
    BY <1>2, <2>1 DEF Sound, ACTIVE
  <2>3. y \in Row /\ y.state = "pending" /\ y.cleaned = row[r].cleaned /\ Grows(row[r], y)
    BY <2>1, <2>2, GrowingRows DEF Row, ACTIVE
  <2> HIDE DEF y
  <2> QED
    BY <1>3, <2>1, <2>2, <2>3 DEF ACTIVE
<1>11. CASE SaveSnapshot(w)
  <2>1. Acting(w, ACTIVE)
    BY <1>11 DEF SaveSnapshot, Acting, ACTIVE
  <2>2. PICK seen \in LogsRead(w) : Settle(w, [Captured(w, seen) EXCEPT !.saved = TRUE])
    BY <1>11 DEF SaveSnapshot, WriteOnly
  <2> DEFINE x == Captured(w, seen)
             y == [x EXCEPT !.saved = TRUE]
  <2>3. /\ x \in Row /\ Grows(row[r], x) /\ x.state = row[r].state /\ row[r].state \in ACTIVE
        /\ pc[w] = "act" /\ row[r] \in Row /\ x.cleaned = row[r].cleaned
    BY <1>6, <2>1
  <2>4. Settle(w, y)
    BY <2>2
  <2> HIDE DEF x
  <2>5. y \in Row /\ y.state = x.state /\ y.cleaned = x.cleaned /\ Grows(row[r], y)
    BY <2>3, GrownOn DEF Row
  <2> HIDE DEF y
  <2> QED
    BY <1>3, <2>3, <2>4, <2>5
<1>12. CASE JobEnded(w) \/ Progress(w)
  <2>1. Acting(w, ACTIVE)
    BY <1>12 DEF JobEnded, Progress, Acting, Executing, ACTIVE
  <2>2. PICK seen \in LogsRead(w), st \in ACTIVE \cup TERMINAL :
           Settle(w, [Captured(w, seen) EXCEPT !.state = st])
    <3>1. CASE JobEnded(w)
      BY <3>1 DEF JobEnded, WriteOnly, TERMINAL
    <3>2. CASE Progress(w)
      <4>1. PICK seen \in LogsRead(w) :
              WriteOnly(w, [Captured(w, seen) EXCEPT
                !.state = IF view[w].pod.phase = "Running" THEN "running" ELSE @])
        BY <3>2 DEF Progress
      <4>2. (IF view[w].pod.phase = "Running" THEN "running" ELSE Captured(w, seen).state)
               \in ACTIVE \cup TERMINAL
        BY <1>6, <2>1 DEF ACTIVE
      <4> QED
        BY <4>1, <4>2 DEF WriteOnly
    <3> QED
      BY <1>12, <3>1, <3>2
  <2> DEFINE x == Captured(w, seen)
             y == [x EXCEPT !.state = st]
  <2>3. /\ x \in Row /\ Grows(row[r], x) /\ row[r].state \in ACTIVE
        /\ pc[w] = "act" /\ row[r] \in Row /\ x.cleaned = row[r].cleaned
    BY <1>6, <2>1
  <2>4. Settle(w, y)
    BY <2>2
  <2> HIDE DEF x
  <2>5. y \in Row /\ y.state = st /\ y.cleaned = x.cleaned /\ Grows(row[r], y)
    BY <2>3, GrownOn DEF Row
  <2> HIDE DEF y
  <2> QED
    BY <1>3, <2>3, <2>4, <2>5
<1>13. CASE Commit(w)
  <2>1. /\ pc[w] = "commit" /\ pc[w] \in LockedPc /\ r \in Runs /\ Exists(r)
        /\ tx[w] \in Row /\ tx[w].state \in ACTIVE \cup TERMINAL
        /\ tx[w].state \in ACTIVE => row[r].state \in ACTIVE
    BY <1>0, <1>13 DEF Commit, ExecutionInv, CommitInv, LockInv, WorkerTypeOK, LockedPc, RunPc
  <2>2. Grows(row[r], tx[w])
    BY <2>1 DEF RecordInv
  <2>3. tx[w].cleaned => CommitsCleaned(r)
    BY <1>13 DEF CommitsCleaned
  <2> QED
    BY <1>13, <2>1, <2>2, <2>3 DEF Commit, Settle, Written
<1> QED
  BY <1>1, <1>7, <1>9, <1>10, <1>11, <1>12, <1>13 DEF Pass

(* A client's stop, or a deletion, marks an active run. *)
LEMMA MarkWrites ==
  ASSUME SafetyInv, NEW r \in Runs, Exists(r), Store(r, MarkStopping(r)),
         UNCHANGED <<now, legacy>>
  PROVE  \E new \in Row : Written(r, new)
<1>1. row[r] \in Row
  BY DEF SafetyInv, ExecutionInv, TypeOK, DbTypeOK
<1> DEFINE y == [row[r] EXCEPT !.state = "stopping"]
<1>2. /\ y \in Row /\ y.state = "stopping" /\ y.cleaned = row[r].cleaned
      /\ row[r].state \in ACTIVE => Grows(row[r], y)
  BY <1>1, GrowingRows DEF Row, ACTIVE
<1>3. MarkStopping(r) = IF row[r].state \in ACTIVE THEN y ELSE row[r]
  BY DEF MarkStopping
<1> HIDE DEF y
<1>4. MarkStopping(r) \in Row /\ Grows(row[r], MarkStopping(r))
  BY <1>1, <1>2, <1>3, GrowingRows
<1>5. /\ MarkStopping(r).state \in ACTIVE \cup TERMINAL
      /\ MarkStopping(r).state \in ACTIVE => row[r].state \in ACTIVE
      /\ MarkStopping(r).cleaned = row[r].cleaned
  BY <1>2, <1>3 DEF Exists, ACTIVE
<1> QED
  BY <1>4, <1>5 DEF Written

(* Every step writes one row, removes the rows of an instance, removes the *)
(* instance, or writes no row at all.  A row is written by the pass that   *)
(* holds its lock and lets go of it, or while nobody does.                 *)
HowRowsChange ==
  \/ UNCHANGED <<row, result>> /\ (now' = now \/ \E w \in Workers : Build(w))
  \/ \E w \in Workers : Reserve(w) \/ DelRows(w) \/ DelInstanceRow(w)
  \/ \E r \in Runs : \E new \in Row :
       /\ Written(r, new)
       /\ \/ Unlocked(r)
          \/ \E w \in Workers : pc[w] \in LockedPc /\ cur[w] = r /\ Return(w)

LEMMA RowChanges ==
  ASSUME SafetyInv, RecordInv, [Next]_vars
  PROVE  HowRowsChange
<1>0. /\ ExecutionInv /\ TypeOK
      /\ \A v \in Workers : pc[v] \in LockedPc => lock[cur[v]] = v
  BY DEF SafetyInv, ExecutionInv, LockInv
<1>1. CASE UNCHANGED vars
  BY <1>1 DEF vars, HowRowsChange
<1>2. ASSUME NEW w \in Workers, Request(w) PROVE HowRowsChange
  <2>1. ASSUME NEW r \in Runs, Stop(w, r) PROVE HowRowsChange
    <3>1. /\ Exists(r) /\ Unlocked(r) /\ Store(r, MarkStopping(r))
          /\ UNCHANGED <<now, legacy>>
      BY <2>1 DEF Stop
    <3> QED
      BY <3>1, MarkWrites DEF HowRowsChange
  <2>2. ASSUME NEW r \in Runs, Start(w, r) \/ Observe(w, r) PROVE HowRowsChange
    BY <2>2 DEF Start, Observe, BeginPass, dbVars, HowRowsChange
  <2>3. ASSUME NEW i \in Instances, DeleteInstance(w, i) PROVE HowRowsChange
    BY <2>3 DEF DeleteInstance, HowRowsChange
  <2> QED
    BY <1>2, <2>1, <2>2, <2>3 DEF Request
<1>3. ASSUME NEW w \in Workers, Starting(w) \/ PrepareFailed(w) PROVE HowRowsChange
  <2>1. CASE Reserve(w)
    BY <2>1 DEF HowRowsChange
  <2>2. CASE ReserveConflict(w) \/ LockPrepare(w) \/ Prepare(w) \/ PrepareFailed(w)
    BY <2>2 DEF ReserveConflict, LockPrepare, Prepare, PrepareFailed, Uncommitted, dbVars,
         HowRowsChange
  <2>3. CASE Build(w)
    BY <2>3 DEF Build, HowRowsChange
  <2> QED
    BY <1>3, <2>1, <2>2, <2>3 DEF Starting
<1>4. ASSUME NEW w \in Workers, Pass(w) \/ CreateRejected(w) PROVE HowRowsChange
  BY <1>4, PassWrites DEF HowRowsChange
<1>5. ASSUME NEW w \in Workers, Looping(w) PROVE HowRowsChange
  BY <1>5 DEF Looping, LoopPass, LoopNext, BeginPass, dbVars, HowRowsChange
<1>6. ASSUME NEW w \in Workers, Deleting(w) \/ DelAborted(w) PROVE HowRowsChange
  <2>1. CASE DelNext(w)
    <3>1. PICK r \in loop[w].todo : Unlocked(r) /\ Store(r, MarkStopping(r))
      BY <2>1 DEF DelNext
    <3>2. UNCHANGED <<now, legacy>>
      BY <2>1 DEF DelNext
    <3>3. r \in Runs
      BY <1>0 DEF TypeOK, WorkerTypeOK, Loop
    <3>4. CASE Exists(r)
      BY <3>1, <3>2, <3>3, <3>4, MarkWrites DEF HowRowsChange
    <3>5. CASE ~Exists(r)
      <4>1. MarkStopping(r) = row[r] /\ row \in [Runs -> Row] /\ row[r].state \notin ACTIVE
        BY <1>0, <3>5 DEF MarkStopping, Exists, TypeOK, DbTypeOK
      <4> QED
        BY <3>1, <3>2, <3>3, <4>1 DEF Store, HowRowsChange
    <3> QED
      BY <3>4, <3>5
  <2>2. CASE DelCheck(w) \/ DelConflict(w) \/ DelAborted(w)
    BY <2>2 DEF DelCheck, DelConflict, DelAborted, dbVars, HowRowsChange
  <2>3. CASE DelRows(w) \/ DelInstanceRow(w)
    BY <2>3 DEF HowRowsChange
  <2> QED
    BY <1>6, <2>1, <2>2, <2>3 DEF Deleting
<1>7. ASSUME NEW w \in Workers, CallFailed(w) \/ TimedOut(w) \/ Crash(w) PROVE HowRowsChange
  BY <1>7 DEF CallFailed, TimedOut, Rollback, Crash, HowRowsChange
<1>8. CASE \/ \E r \in Runs : KubeStep(r) \/ OutsideStep(r) \/ Tick(r)
           \/ \E c \in late : LateCall(c)
           \/ LegacyGone
  BY <1>8 DEF KubeStep, OutsideStep, Tick, LateCall, LegacyGone, dbVars, HowRowsChange
<1> QED
  BY <1>1, <1>2, <1>3, <1>4, <1>5, <1>6, <1>7, <1>8 DEF Next, Failure

(* What becomes of one row. *)
Admitted(q) ==
  /\ row[q].state = "unborn" /\ row'[q].state = "creating"
  /\ row'[q].admitted = now + 1 /\ now' = now + 1
  /\ row'[q].uid = row[q].uid /\ row'[q].output = row[q].output
  /\ row'[q].cleaned = row[q].cleaned
  /\ \E w \in Workers : Reserve(w) /\ cur[w] = q

Kept(q) ==
  /\ Exists(q) /\ row'[q].state \in ACTIVE \cup TERMINAL
  /\ row'[q].state \in ACTIVE => row[q].state \in ACTIVE
  /\ row'[q].cleaned => row[q].cleaned \/ CommitsCleaned(q)
  /\ Grows(row[q], row'[q])

Removed(q) ==
  /\ Exists(q) /\ row[q].cleaned /\ row'[q].state = "deleted"
  /\ row'[q].uid = row[q].uid /\ row'[q].output = row[q].output
  /\ row'[q].cleaned = row[q].cleaned /\ row'[q].admitted = row[q].admitted

(* Rows are removed once they are cleaned and nobody holds them.           *)
LEMMA RemovedRows ==
  ASSUME SafetyInv, NEW w \in Workers, DelRows(w), NEW q \in Runs
  PROVE  row'[q] = row[q] \/ (Removed(q) /\ Unlocked(q))
<1> DEFINE i == loop[w].victim
           gone == {r \in InstanceRuns(i) : Exists(r)}
           x == row[q]
<1>0. /\ x \in Row /\ pc[w] = "del_next" /\ loop[w].todo = {} /\ ~loop[w].unfinished
      /\ i \in Instances /\ DeletionInv(w) /\ i # None
  BY NoneAssumption DEF SafetyInv, ExecutionInv, TypeOK, DbTypeOK, WorkerTypeOK, DelRows, DelPc
<1>1. CASE q \in gone
  <2>1. row'[q] = [x EXCEPT !.state = "deleted"] /\ Exists(q) /\ Unlocked(q)
    BY <1>1 DEF DelRows
  <2>2. row[q].cleaned
    <3>1. cur[w] = None
      BY <1>0 DEF DeletionInv, RunPc, LockedPc
    <3>2. q \in InstanceRuns(i) /\ Exists(q)
      BY <1>1
    <3>3. q \in loop[w].todo \/ q = cur[w] \/ row[q].cleaned
      BY <1>0, <3>2 DEF DeletionInv
    <3> QED
      BY <1>0, <3>1, <3>3, NoneAssumption
  <2>3. /\ row'[q].state = "deleted" /\ row'[q].uid = x.uid /\ row'[q].output = x.output
        /\ row'[q].cleaned = x.cleaned /\ row'[q].admitted = x.admitted
    BY <1>0, <2>1 DEF Row
  <2> QED
    BY <2>1, <2>2, <2>3 DEF Removed
<1>2. CASE q \notin gone
  BY <1>2 DEF DelRows
<1> QED
  BY <1>1, <1>2

(* The life of a row, step by step. *)
LEMMA ARowChanges ==
  ASSUME SafetyInv, HowRowsChange, NEW q \in Runs
  PROVE  row'[q] = row[q] \/ Admitted(q) \/ Kept(q) \/ Removed(q)
<1>0. row \in [Runs -> Row] /\ row[q] \in Row
  BY DEF SafetyInv, ExecutionInv, TypeOK, DbTypeOK
<1>1. ASSUME NEW w \in Workers, Reserve(w) PROVE row'[q] = row[q] \/ Admitted(q)
  <2> DEFINE x == row[q]
  <2>1. CASE q = cur[w]
    <3>1. row'[q] = [x EXCEPT !.state = "creating", !.admitted = now + 1]
          /\ now' = now + 1 /\ pc[w] = "reserve"
      BY <1>0, <1>1, <2>1 DEF Reserve
    <3>2. x \in Row
      BY <1>0
    <3> HIDE DEF x
    <3>3. /\ row'[q].state = "creating" /\ row'[q].admitted = now + 1
          /\ row'[q].uid = x.uid /\ row'[q].output = x.output /\ row'[q].cleaned = x.cleaned
      BY <3>1, <3>2 DEF Row
    <3>4. row[q].state = "unborn"
      BY <2>1, <3>1 DEF SafetyInv, ExecutionInv, LockInv
    <3> QED
      BY <1>1, <2>1, <3>1, <3>3, <3>4 DEF Admitted, x
  <2>2. CASE q # cur[w]
    BY <1>0, <1>1, <2>2 DEF Reserve
  <2> QED
    BY <2>1, <2>2
<1>2. ASSUME NEW r \in Runs, NEW new \in Row, Written(r, new)
      PROVE  row'[q] = row[q] \/ Kept(q)
  BY <1>0, <1>2 DEF Written, Store, Kept
<1>3. ASSUME NEW w \in Workers, DelInstanceRow(w) PROVE row' = row
  BY <1>3 DEF DelInstanceRow
<1> QED
  BY <1>1, <1>2, <1>3, RemovedRows DEF HowRowsChange

(* Nobody writes the row that a pass holds. *)
LEMMA HeldRows ==
  ASSUME SafetyInv, HowRowsChange, NEW v \in Workers, pc[v] \in LockedPc,
         pc'[v] \in LockedPc
  PROVE  cur[v] \in Runs /\ row'[cur[v]] = row[cur[v]]
<1> DEFINE q == cur[v]
<1>0. /\ q \in Runs /\ lock[q] = v /\ Exists(q) /\ row \in [Runs -> Row]
      /\ \A w \in Workers : pc[w] \in LockedPc => lock[cur[w]] = w
  BY DEF SafetyInv, ExecutionInv, LockInv, TypeOK, DbTypeOK, WorkerTypeOK, RunPc
<1>1. ~Unlocked(q)
  BY <1>0, NoneAssumption DEF Unlocked
<1>2. ASSUME NEW w \in Workers, Reserve(w) PROVE row'[q] = row[q]
  <2>1. cur[w] # q
    BY <1>0, <1>2 DEF Reserve, Exists, ACTIVE, TERMINAL, SafetyInv, ExecutionInv, LockInv
  <2> QED
    BY <1>0, <1>2, <2>1 DEF Reserve
<1>3. ASSUME NEW w \in Workers, DelRows(w) PROVE row'[q] = row[q]
  BY <1>0, <1>1, <1>3, RemovedRows
<1>4. ASSUME NEW r \in Runs, NEW new \in Row, Written(r, new),
             \/ Unlocked(r)
             \/ \E w \in Workers : pc[w] \in LockedPc /\ cur[w] = r /\ Return(w)
      PROVE  row'[q] = row[q]
  <2>1. ASSUME r = q PROVE FALSE
    <3>1. PICK w \in Workers : pc[w] \in LockedPc /\ cur[w] = q /\ Return(w)
      BY <1>1, <1>4, <2>1
    <3>2. w = v
      BY <1>0, <3>1
    <3>3. pc'[v] \notin LockedPc
      BY <3>1, <3>2, OthersSame DEF SafetyInv, ExecutionInv
    <3> QED
      BY <3>3
  <2> QED
    BY <1>0, <1>4, <2>1 DEF Written, Store
<1>5. ASSUME NEW w \in Workers, DelInstanceRow(w) PROVE row' = row
  BY <1>5 DEF DelInstanceRow
<1> QED
  BY <1>0, <1>2, <1>3, <1>4, <1>5 DEF HowRowsChange

-----------------------------------------------------------------------------
(* Workers. *)

(* How a worker comes to a point where its locals matter. *)
LEMMA WorkerMoves ==
  ASSUME TypeOK, [Next]_vars, NEW v \in Workers
  PROVE  \/ Same(v)
         \/ pc'[v] \notin LockedPc \cup {"reserve"}
         \/ pc'[v] = "reserve" /\ \E r \in Runs : Start(v, r)
         \/ pc'[v] \in {"prepare", "read_job"}
         \/ ReadJob(v) /\ pc'[v] = "read_pods"
         \/ ReadPods(v) /\ pc'[v] = "act"
         \/ (Prepare(v) \/ PrepareFailed(v) \/ Create(v) \/ Cleanup(v)) /\ pc'[v] = "commit"
<1> DEFINE Moves(w) ==
             \/ Same(w)
             \/ pc'[w] \notin LockedPc \cup {"reserve"}
             \/ pc'[w] = "reserve" /\ \E r \in Runs : Start(w, r)
             \/ pc'[w] \in {"prepare", "read_job"}
             \/ ReadJob(w) /\ pc'[w] = "read_pods"
             \/ ReadPods(w) /\ pc'[w] = "act"
             \/ (Prepare(w) \/ PrepareFailed(w) \/ Create(w) \/ Cleanup(w)) /\ pc'[w] = "commit"
<1>0. /\ pc \in [Workers -> Pc] /\ cur \in [Workers -> Runs \cup {None}]
      /\ view \in [Workers -> [job : Job, pod : Pod]] /\ tx \in [Workers -> Row]
      /\ loop \in [Workers -> Loop]
  BY DEF TypeOK, WorkerTypeOK
<1>1. ASSUME UNCHANGED vars PROVE Same(v)
  BY <1>1 DEF vars, Same
<1>2. ASSUME NEW w \in Workers, ToIdle(w) \/ Return(w)
      PROVE  Moves(w) /\ \A u \in Workers : u # w => Same(u)
  BY <1>2, OthersSame
<1>3. ASSUME NEW w \in Workers, Request(w)
      PROVE  Moves(w) /\ \A u \in Workers : u # w => Same(u)
  BY <1>0, <1>3 DEF Request, Start, Stop, Observe, BeginPass, DeleteInstance,
       Goto, Same, LockedPc
<1>4. ASSUME NEW w \in Workers, Starting(w) \/ PrepareFailed(w)
      PROVE  Moves(w) /\ \A u \in Workers : u # w => Same(u)
  <2>1. CASE Reserve(w)
    BY <1>0, <2>1 DEF Reserve, Goto, Same, LockedPc
  <2>2. CASE ReserveConflict(w)
    BY <1>2, <2>2 DEF ReserveConflict
  <2>3. CASE LockPrepare(w)
    <3>1. ToIdle(w) \/ (Goto(w, "prepare") /\ UNCHANGED <<cur, view, tx, loop>>)
      BY <2>3 DEF LockPrepare
    <3> QED
      BY <1>0, <1>2, <3>1 DEF Goto, Same
  <2>4. CASE Prepare(w) \/ PrepareFailed(w)
    <3>1. \E new : Uncommitted(w, new)
      BY <2>4 DEF Prepare, PrepareFailed
    <3> QED
      BY <1>0, <2>4, <3>1 DEF Uncommitted, Goto, Same
  <2>5. CASE Build(w)
    BY <2>5 DEF Build, workerVars, Same
  <2> QED
    BY <1>4, <2>1, <2>2, <2>3, <2>4, <2>5 DEF Starting
<1>5. ASSUME NEW w \in Workers, Pass(w) \/ CreateRejected(w) \/ CallFailed(w) \/ TimedOut(w)
      PROVE  Moves(w) /\ \A u \in Workers : u # w => Same(u)
  <2>1. CASE Reconcile(w)
    <3>1. Return(w) \/ (BeginPass(w, cur[w]) /\ loop' = loop)
      BY <2>1 DEF Reconcile
    <3> QED
      BY <1>0, <1>2, <3>1 DEF BeginPass, Goto, Same
  <2>2. CASE ReadJob(w)
    <3>1. Rollback(w) \/ (/\ view' = [view EXCEPT ![w].job = job[cur[w]]]
                          /\ Goto(w, "read_pods") /\ UNCHANGED <<cur, tx, loop>>)
      BY <2>2 DEF ReadJob
    <3> QED
      BY <1>0, <1>2, <2>2, <3>1 DEF Rollback, Goto, Same
  <2>3. CASE ReadPods(w)
    BY <1>0, <2>3 DEF ReadPods, Goto, Same
  <2>4. CASE Create(w) \/ Cleanup(w)
    <3>1. \E new : Uncommitted(w, new)
      BY <2>4 DEF Create, Cleanup
    <3> QED
      BY <1>0, <2>4, <3>1 DEF Uncommitted, Goto, Same
  <2>5. CASE \/ SaveSnapshot(w) \/ Cancelled(w) \/ PreparationInterrupted(w)
             \/ AdoptJob(w) \/ JobDisappeared(w) \/ AwaitDeletion(w) \/ JobEnded(w)
             \/ Progress(w) \/ CreateRejected(w)
    BY <1>2, <2>5 DEF SaveSnapshot, Cancelled, PreparationInterrupted, AdoptJob, JobDisappeared,
       AwaitDeletion, JobEnded, Progress, CreateRejected, WriteOnly, Settle
  <2>6. CASE \/ Resume(w) \/ DeleteJob(w) \/ DeletePods(w) \/ Commit(w)
             \/ CallFailed(w) \/ TimedOut(w)
    BY <1>2, <2>6 DEF Resume, DeleteJob, DeletePods, Commit, CallFailed, TimedOut, Settle, Rollback
  <2> QED
    BY <1>5, <2>1, <2>2, <2>3, <2>4, <2>5, <2>6 DEF Pass
<1>6. ASSUME NEW w \in Workers, Looping(w)
      PROVE  Moves(w) /\ \A u \in Workers : u # w => Same(u)
  <2>1. CASE LoopPass(w)
    BY <1>0, <2>1 DEF LoopPass, Goto, Same, LockedPc
  <2>2. CASE LoopNext(w)
    <3>1. PICK r \in loop[w].todo :
            /\ loop' = [loop EXCEPT ![w].todo = @ \ {r}]
            /\ \/ BeginPass(w, r)
               \/ /\ Goto(w, IF loop[w].todo = {r} THEN "idle" ELSE "loop_next")
                  /\ UNCHANGED <<dbVars, cur, view, tx>>
      BY <2>2 DEF LoopNext
    <3> QED
      BY <1>0, <3>1 DEF BeginPass, Goto, Same, LockedPc
  <2> QED
    BY <1>6, <2>1, <2>2 DEF Looping
<1>7. ASSUME NEW w \in Workers, Deleting(w) \/ DelAborted(w) \/ Crash(w)
      PROVE  Moves(w) /\ \A u \in Workers : u # w => Same(u)
  <2>1. CASE DelNext(w)
    BY <1>0, <2>1 DEF DelNext, Goto, Same, LockedPc
  <2>2. CASE DelCheck(w)
    <3>1. ToIdle(w) \/ (/\ loop' = [loop EXCEPT ![w].unfinished = @ \/ ~row[cur[w]].cleaned]
                        /\ cur' = [cur EXCEPT ![w] = None]
                        /\ Goto(w, "del_next") /\ UNCHANGED <<view, tx>>)
      BY <2>2 DEF DelCheck
    <3> QED
      BY <1>0, <1>2, <3>1 DEF Goto, Same, LockedPc
  <2>3. CASE DelRows(w)
    BY <1>0, <2>3 DEF DelRows, Goto, Same, LockedPc
  <2>4. CASE DelConflict(w) \/ DelInstanceRow(w) \/ DelAborted(w) \/ Crash(w)
    BY <1>2, <2>4 DEF DelConflict, DelInstanceRow, DelAborted, Crash
  <2> QED
    BY <1>7, <2>1, <2>2, <2>3, <2>4 DEF Deleting
<1>8. ASSUME \/ \E r \in Runs : KubeStep(r) \/ OutsideStep(r) \/ Tick(r)
             \/ \E c \in late : LateCall(c)
             \/ LegacyGone
      PROVE  Same(v)
  BY <1>8 DEF KubeStep, OutsideStep, Tick, LateCall, LegacyGone, workerVars, Same
<1> HIDE DEF Moves
<1>9. ASSUME NEW w \in Workers, \/ Request(w) \/ Starting(w) \/ Pass(w)
                                \/ Looping(w) \/ Deleting(w) \/ Failure(w)
      PROVE  Same(v) \/ Moves(v)
  <2>1. Moves(w) /\ \A u \in Workers : u # w => Same(u)
    BY <1>3, <1>4, <1>5, <1>6, <1>7, <1>9 DEF Failure
  <2>2. CASE v = w
    BY <2>1, <2>2
  <2>3. CASE v # w
    BY <2>1, <2>3
  <2> QED
    BY <2>2, <2>3
<1>10. Same(v) \/ Moves(v)
  BY <1>1, <1>8, <1>9 DEF Next
<1> QED
  BY <1>10 DEF Moves

-----------------------------------------------------------------------------
(* Records: transactions, the legacy installation and results. *)

(* What a transaction is about to commit grows out of the committed row.   *)
LEMMA TransactionsGrow ==
  ASSUME SafetyInv, RecordInv, [Next]_vars, NEW v \in Workers, pc'[v] = "commit"
  PROVE  Grows(row'[cur'[v]], tx'[v])
<1> DEFINE r == cur[v]
<1>0. ExecutionInv /\ TypeOK /\ HowRowsChange /\ tx \in [Workers -> Row]
  BY RowChanges DEF SafetyInv, ExecutionInv, TypeOK, WorkerTypeOK
<1>1. CASE Same(v)
  <2>1. pc[v] = "commit" /\ pc[v] \in LockedPc /\ pc'[v] \in LockedPc
    BY <1>1 DEF Same, LockedPc
  <2>2. row'[r] = row[r] /\ Grows(row[r], tx[v])
    BY <1>0, <2>1, HeldRows DEF RecordInv
  <2> QED
    BY <1>1, <2>2 DEF Same
<1>2. ASSUME NEW new, Uncommitted(v, new), row[r] \in Row, Grows(row[r], new)
      PROVE  Grows(row'[cur'[v]], tx'[v])
  BY <1>0, <1>2 DEF Uncommitted, dbVars
<1>3. CASE Prepare(v) \/ PrepareFailed(v)
  <2>1. pc[v] = "prepare" /\ r \in Runs /\ row[r] \in Row /\ row[r].state = "creating"
    BY <1>0, <1>3 DEF Prepare, PrepareFailed, ExecutionInv, LockInv, TypeOK, WorkerTypeOK,
         DbTypeOK, RunPc, LockedPc
  <2>2. \/ Uncommitted(v, [row[r] EXCEPT !.prepared = TRUE])
        \/ Uncommitted(v, [row[r] EXCEPT !.state = "failed"])
    BY <1>3 DEF Prepare, PrepareFailed
  <2>3. row[r].state \in ACTIVE
    BY <2>1 DEF ACTIVE
  <2> QED
    BY <1>2, <2>1, <2>2, <2>3, GrowingRows
<1>4. CASE Create(v)
  <2>1. pc[v] = "act" /\ row[r].state = "creating"
    BY <1>4 DEF Create, WantsCreate, Acting
  <2>2. row[r] \in Row /\ row[r].uid = 0 /\ row[r].state \in ACTIVE
    BY <1>0, <2>1, ActFacts DEF Sound, ACTIVE
  <2>3. Uncommitted(v, [row[r] EXCEPT !.state = "pending", !.uid = job'[r].uid])
    BY <1>4 DEF Create
  <2> QED
    BY <1>2, <2>2, <2>3, GrowingRows
<1>5. CASE Cleanup(v)
  <2>1. pc[v] = "act" /\ Uncommitted(v, [row[r] EXCEPT !.cleaned = TRUE])
    BY <1>5 DEF Cleanup, Acting
  <2>2. row[r] \in Row
    BY <1>0, <2>1, ActFacts
  <2> QED
    BY <1>2, <2>1, <2>2, GrowingRows
<1> QED
  BY <1>0, <1>1, <1>3, <1>4, <1>5, WorkerMoves DEF LockedPc

(* The legacy record does not come back. *)
LEMMA RetiredForGood ==
  ASSUME [Next]_vars, legacy = "retired"
  PROVE  legacy' = "retired"
<1>1. CASE UNCHANGED vars
  BY <1>1 DEF vars
<1>2. ASSUME NEW w \in Workers, Request(w) \/ Looping(w) PROVE legacy' = "retired"
  BY <1>2 DEF Request, Start, Stop, Observe, BeginPass, DeleteInstance, Looping, LoopPass,
       RetireLegacy, LoopNext, dbVars
<1>3. ASSUME NEW w \in Workers, Starting(w) \/ PrepareFailed(w) PROVE legacy' = "retired"
  BY <1>3 DEF Starting, Build, Reserve, ReserveConflict, LockPrepare, Prepare, PrepareFailed,
       Uncommitted, dbVars
<1>4. ASSUME NEW w \in Workers, Pass(w) \/ CreateRejected(w) PROVE legacy' = "retired"
  BY <1>4 DEF Pass, Reconcile, BeginPass, ReadJob, Rollback, ReadPods, SaveSnapshot, Cancelled,
       PreparationInterrupted, AdoptJob, Create, Resume, JobDisappeared, AwaitDeletion,
       JobEnded, Progress, DeleteJob, DeletePods, Cleanup, Commit, CreateRejected, WriteOnly,
       Settle, Uncommitted, dbVars
<1>5. ASSUME NEW w \in Workers, \/ Deleting(w) \/ DelAborted(w) \/ CallFailed(w)
                                \/ TimedOut(w) \/ Crash(w)
      PROVE  legacy' = "retired"
  BY <1>5 DEF Deleting, DelNext, DelCheck, DelConflict, DelRows, DelInstanceRow, DelAborted,
       CallFailed, TimedOut, Crash, Rollback, dbVars
<1>6. CASE \/ \E r \in Runs : KubeStep(r) \/ OutsideStep(r) \/ Tick(r)
           \/ \E c \in late : LateCall(c)
           \/ LegacyGone
  BY <1>6 DEF KubeStep, OutsideStep, Tick, LateCall, LegacyGone, dbVars
<1> QED
  BY <1>1, <1>2, <1>3, <1>4, <1>5, <1>6 DEF Next, Failure

(* Nothing is admitted before it is gone. *)
LEMMA LegacyStep ==
  ASSUME SafetyInv, RecordInv, [Next]_vars
  PROVE  LegacyInv'
<1> SUFFICES ASSUME legacy' # "retired"
             PROVE  /\ \A r \in Runs : row'[r].state = "unborn"
                    /\ \A w \in Workers : pc'[w] # "reserve"
  BY DEF LegacyInv
<1>0. TypeOK /\ HowRowsChange
  BY RowChanges DEF SafetyInv, ExecutionInv
<1>1. /\ legacy # "retired"
      /\ \A r \in Runs : row[r].state = "unborn"
      /\ \A w \in Workers : pc[w] # "reserve"
  BY RetiredForGood DEF RecordInv, LegacyInv
<1>2. ASSUME NEW r \in Runs PROVE row'[r].state = "unborn"
  <2>1. ~Exists(r) /\ ~Admitted(r)
    BY <1>1 DEF Exists, ACTIVE, TERMINAL, Admitted, Reserve
  <2> QED
    BY <1>0, <1>1, <2>1, ARowChanges DEF Kept, Removed
<1>3. ASSUME NEW w \in Workers, pc'[w] = "reserve" PROVE FALSE
  <2>1. ~Same(w) /\ \A r \in Runs : ~Start(w, r)
    BY <1>1, <1>3 DEF Same, Start
  <2> QED
    BY <1>0, <1>3, <2>1, WorkerMoves DEF LockedPc, ReadJob, ReadPods
<1> QED
  BY <1>2, <1>3

(* A finished run, removed or not, stays as it has ended. *)
LEMMA EndedStays ==
  ASSUME SafetyInv, HowRowsChange, NEW q \in Runs, row[q].state \in TERMINAL \cup {"deleted"}
  PROVE  /\ row'[q].state \in TERMINAL \cup {"deleted"}
         /\ row'[q].output = row[q].output /\ row'[q].admitted = row[q].admitted
<1>1. ~Admitted(q) /\ (Exists(q) => row[q].state \in TERMINAL)
  BY DEF Admitted, Exists, ACTIVE, TERMINAL
<1> QED
  BY <1>1, ARowChanges DEF Kept, Removed, Grows

(* Records are built by start(), before their runs are admitted. *)
LEMMA RecordsBuilt ==
  ASSUME [Next]_vars
  PROVE  created' = created \/ \E w \in Workers : Build(w)
<1>1. CASE UNCHANGED vars
  BY <1>1 DEF vars
<1>2. ASSUME NEW w \in Workers, Request(w) \/ Looping(w) PROVE created' = created
  BY <1>2 DEF Request, Start, Stop, Observe, BeginPass, DeleteInstance, Looping, LoopPass,
       LoopNext, dbVars
<1>3. ASSUME NEW w \in Workers, Starting(w) \/ PrepareFailed(w)
      PROVE  created' = created \/ Build(w)
  BY <1>3 DEF Starting, Reserve, ReserveConflict, LockPrepare, Prepare, PrepareFailed,
       Uncommitted, dbVars
<1>4. ASSUME NEW w \in Workers, Pass(w) \/ CreateRejected(w) PROVE created' = created
  BY <1>4 DEF Pass, Reconcile, BeginPass, ReadJob, Rollback, ReadPods, SaveSnapshot, Cancelled,
       PreparationInterrupted, AdoptJob, Create, Resume, JobDisappeared, AwaitDeletion,
       JobEnded, Progress, DeleteJob, DeletePods, Cleanup, Commit, CreateRejected, WriteOnly,
       Settle, Uncommitted, dbVars
<1>5. ASSUME NEW w \in Workers, \/ Deleting(w) \/ DelAborted(w) \/ CallFailed(w)
                                \/ TimedOut(w) \/ Crash(w)
      PROVE  created' = created
  BY <1>5 DEF Deleting, DelNext, DelCheck, DelConflict, DelRows, DelInstanceRow, DelAborted,
       CallFailed, TimedOut, Crash, Rollback, dbVars
<1>6. CASE \/ \E r \in Runs : KubeStep(r) \/ OutsideStep(r) \/ Tick(r)
           \/ \E c \in late : LateCall(c)
           \/ LegacyGone
  BY <1>6 DEF KubeStep, OutsideStep, Tick, LateCall, LegacyGone, dbVars
<1> QED
  BY <1>1, <1>2, <1>3, <1>4, <1>5, <1>6 DEF Next, Failure

(* A run that has been reserved keeps the record it was built with. *)
LEMMA CreatedStays ==
  ASSUME SafetyInv, TypeOK', [Next]_vars, NEW r \in Runs
  PROVE  created'[r] = created[r] \/ (row[r].state = "unborn" /\ row' = row /\ created'[r] = now')
<1>1. ASSUME NEW w \in Workers, Build(w)
      PROVE  created'[r] = created[r] \/ (row[r].state = "unborn" /\ row' = row /\ created'[r] = now')
  <2>1. /\ pc[w] = "reserve" /\ created' = [created EXCEPT ![cur[w]] = now + 1]
        /\ now' = now + 1 /\ row' = row
    BY <1>1 DEF Build
  <2>2. row[cur[w]].state = "unborn"
    BY <2>1 DEF SafetyInv, ExecutionInv, LockInv
  <2>3. created \in [Runs -> Nat]
    BY DEF SafetyInv, ExecutionInv, TypeOK, DbTypeOK
  <2> QED
    BY <2>1, <2>2, <2>3
<1> QED
  BY <1>1, RecordsBuilt

(* The order in which runs are admitted, and records are built. *)
LEMMA AgeStep ==
  ASSUME SafetyInv, ResultInv, HowRowsChange, [Next]_vars, TypeOK'
  PROVE  /\ \A r \in Runs :
              /\ created'[r] <= now' /\ row'[r].admitted <= now'
              /\ row'[r].state \in ACTIVE \cup TERMINAL \cup {"deleted"}
                   => created'[r] < row'[r].admitted
         /\ \A q, r \in Runs :
              /\ TargetOf[q] = TargetOf[r]
              /\ row'[q].state \in TERMINAL /\ row'[r].state \in ACTIVE
              => row'[q].admitted <= row'[r].admitted
<1>0. /\ now \in Nat /\ now' \in Nat /\ \A r \in Runs : row[r] \in Row /\ row'[r] \in Row
      /\ \A r \in Runs : row[r].admitted \in Nat /\ row'[r].admitted \in Nat
      /\ \A r \in Runs : created[r] \in Nat /\ created'[r] \in Nat
  BY DEF SafetyInv, ExecutionInv, TypeOK, DbTypeOK, Row
<1>1. now <= now'
  <2>1. ASSUME NEW w \in Workers, Reserve(w) \/ Build(w) PROVE now' = now + 1
    BY <2>1 DEF Reserve, Build
  <2>2. ASSUME NEW w \in Workers, DelRows(w) \/ DelInstanceRow(w) PROVE now' = now
    BY <2>2 DEF DelRows, DelInstanceRow
  <2>3. ASSUME NEW r \in Runs, NEW new \in Row, Written(r, new) PROVE now' = now
    BY <2>3 DEF Written
  <2>4. now' \in {now, now + 1}
    BY <2>1, <2>2, <2>3 DEF HowRowsChange
  <2> QED
    BY <1>0, <2>4
<1>2. ASSUME NEW r \in Runs
      PROVE  /\ row'[r].admitted = row[r].admitted \/ Admitted(r)
             /\ row'[r].admitted <= now'
  <2>1. row'[r].admitted = row[r].admitted \/ Admitted(r)
    BY ARowChanges DEF Kept, Removed, Grows
  <2> QED
    BY <1>0, <1>1, <2>1 DEF Admitted, ResultInv
<1>3. ASSUME NEW q \in Runs, NEW r \in Runs, TargetOf[q] = TargetOf[r],
             row'[q].state \in TERMINAL, row'[r].state \in ACTIVE
      PROVE  row'[q].admitted <= row'[r].admitted
  <2>1. ~Admitted(q) /\ row[q].state \in ACTIVE \cup TERMINAL
    <3>1. ~Admitted(q) /\ ~Removed(q)
      BY <1>3 DEF Admitted, Removed, TERMINAL
    <3>2. row'[q] = row[q] \/ Exists(q)
      BY <3>1, ARowChanges DEF Kept
    <3> QED
      BY <1>3, <3>1, <3>2 DEF Exists
  <2>2. row'[q].admitted = row[q].admitted
    BY <1>2, <2>1
  <2>3. CASE Admitted(r)
    BY <1>0, <2>2, <2>3 DEF Admitted, ResultInv
  <2>4. CASE ~Admitted(r)
    <3>1. row'[r].admitted = row[r].admitted /\ row[r].state \in ACTIVE
      BY <1>2, <1>3, <2>4, ARowChanges DEF Kept, Removed, ACTIVE
    <3>2. q # r
      BY <1>3 DEF ACTIVE, TERMINAL
    <3>3. row[q].state \in TERMINAL
      BY <1>3, <2>1, <3>1, <3>2 DEF SafetyInv, ExecutionInv, OneActiveRun, Slot
    <3> QED
      BY <1>3, <2>2, <3>1, <3>3 DEF ResultInv
  <2> QED
    BY <2>3, <2>4
<1>4. ASSUME NEW r \in Runs
      PROVE  /\ created'[r] <= now'
             /\ row'[r].state \in ACTIVE \cup TERMINAL \cup {"deleted"}
                  => created'[r] < row'[r].admitted
  <2>1. created[r] <= now
    BY DEF ResultInv
  <2>2. created'[r] <= now'
    BY <1>0, <1>1, <2>1, CreatedStays
  <2>3. CASE Admitted(r)
    <3>1. created'[r] = created[r] \/ row' = row
      BY CreatedStays
    <3>2. row'[r].state = "creating" /\ row[r].state = "unborn"
      BY <2>3 DEF Admitted
    <3>3. created'[r] = created[r] /\ row'[r].admitted = now + 1
      BY <2>3, <3>1, <3>2 DEF Admitted
    <3> QED
      BY <1>0, <2>1, <2>2, <3>3
  <2>4. CASE ~Admitted(r)
    <3>1. row'[r] = row[r] \/ Kept(r) \/ Removed(r)
      BY <2>4, ARowChanges
    <3>2. ASSUME row'[r].state \in ACTIVE \cup TERMINAL \cup {"deleted"}
          PROVE  row[r].state \in ACTIVE \cup TERMINAL \cup {"deleted"}
      BY <3>1, <3>2 DEF Kept, Removed, Exists
    <3>3. row[r].state = "unborn" => row[r].state \notin ACTIVE \cup TERMINAL \cup {"deleted"}
      BY DEF ACTIVE, TERMINAL
    <3>4. row'[r].admitted = row[r].admitted
      BY <1>2, <2>4
    <3> QED
      BY <2>2, <3>2, <3>3, <3>4, CreatedStays DEF ResultInv
  <2> QED
    BY <2>3, <2>4
<1> QED
  BY <1>2, <1>3, <1>4

(* The result row goes on showing a run that ended that way. *)
LEMMA ShownStays ==
  ASSUME SafetyInv, ResultInv, HowRowsChange, NEW t \in Targets, result[t].run # None
  PROVE  LET best == result[t].run
         IN /\ best \in Runs /\ TargetOf[best] = t
            /\ row[best].state \in TERMINAL \cup {"deleted"}
            /\ row'[best].state \in TERMINAL \cup {"deleted"}
            /\ row'[best].output = result[t].output
            /\ row'[best].admitted = row[best].admitted
<1> DEFINE best == result[t].run
<1>1. best \in Runs
  BY DEF SafetyInv, ExecutionInv, TypeOK, DbTypeOK
<1>2. /\ TargetOf[best] = t /\ row[best].state \in TERMINAL \cup {"deleted"}
      /\ row[best].output = result[t].output
  BY DEF ResultInv
<1> QED
  BY <1>1, <1>2, EndedStays

(* A run that is finished after a step and was not before has just been    *)
(* written, and its target's result with it.                               *)
LEMMA ResultStep ==
  ASSUME SafetyInv, ResultInv, HowRowsChange, [Next]_vars, TypeOK'
  PROVE  ResultInv'
<1> DEFINE Shows(t) == result'[t].run # None =>
             /\ TargetOf[result'[t].run] = t
             /\ row'[result'[t].run].state \in TERMINAL \cup {"deleted"}
             /\ row'[result'[t].run].output = result'[t].output
           Latest(r) == row'[r].state \in TERMINAL =>
             /\ result'[TargetOf[r]].run # None
             /\ row'[result'[TargetOf[r]].run].admitted >= row'[r].admitted
             /\ row'[result'[TargetOf[r]].run].output = result'[TargetOf[r]].output
<1>0. /\ result \in [Targets -> [run : Runs \cup {None}, output : 0..1]]
      /\ row \in [Runs -> Row] /\ \A r \in Runs : TargetOf[r] \in Targets
      /\ \A r \in Runs : row'[r] \in Row /\ row'[r].admitted \in Nat
  BY TargetAssumption DEF SafetyInv, ExecutionInv, TypeOK, DbTypeOK, Row
<1>1. ASSUME NEW t \in Targets, result'[t] = result[t] PROVE Shows(t)
  BY <1>1, ShownStays
<1>2. ASSUME NEW r \in Runs, result'[TargetOf[r]] = result[TargetOf[r]],
             row[r].state \in TERMINAL
      PROVE  Latest(r)
  <2> DEFINE t == TargetOf[r]
             best == result[t].run
  <2>1. /\ best # None /\ row[best].admitted >= row[r].admitted
        /\ row[best].output = result[t].output
    BY <1>2 DEF ResultInv, ResultIsLatest
  <2>2. /\ row'[best].admitted = row[best].admitted /\ row'[best].output = result[t].output
    BY <1>0, <2>1, ShownStays
  <2>3. row'[r].admitted = row[r].admitted
    BY <1>2, EndedStays
  <2> QED
    BY <1>2, <2>1, <2>2, <2>3
<1>3. ASSUME NEW r \in Runs, row'[r].state \in TERMINAL, row[r].state \notin TERMINAL
      PROVE  row[r].state \in ACTIVE
  <2>1. ~Admitted(r) /\ ~Removed(r) /\ row'[r] # row[r]
    BY <1>3 DEF Admitted, Removed, TERMINAL
  <2>2. Exists(r)
    BY <2>1, ARowChanges DEF Kept
  <2> QED
    BY <1>3, <2>2 DEF Exists
<1>5. ASSUME NEW w \in Workers, Reserve(w) \/ DelRows(w)
      PROVE  (\A t \in Targets : Shows(t)) /\ (\A r \in Runs : Latest(r))
  <2>1. result' = result
    BY <1>5 DEF Reserve, DelRows
  <2>2. ASSUME NEW r \in Runs, row'[r].state \in TERMINAL PROVE row[r].state \in TERMINAL
    <3>1. row'[r] = row[r] \/ row'[r].state \in {"creating", "deleted"}
      <4>1. CASE Reserve(w)
        <5>1. row'[r] = row[r] \/ row'[r] = [row[r] EXCEPT !.state = "creating", !.admitted = now + 1]
          BY <1>0, <4>1 DEF Reserve
        <5> QED
          BY <1>0, <5>1 DEF Row
      <4>2. CASE DelRows(w)
        BY <4>2, RemovedRows DEF Removed
      <4> QED
        BY <1>5, <4>1, <4>2
    <3> QED
      BY <2>2, <3>1 DEF TERMINAL
  <2> QED
    BY <1>0, <1>1, <1>2, <2>1, <2>2
<1>6. ASSUME NEW x \in Runs, NEW new \in Row, Written(x, new)
      PROVE  (\A t \in Targets : Shows(t)) /\ (\A r \in Runs : Latest(r))
  <2> DEFINE tx0 == TargetOf[x]
  <2>1. row' = [row EXCEPT ![x] = new] /\ new.state \in ACTIVE \cup TERMINAL
        /\ Grows(row[x], new) /\ row'[x] = new
    BY <1>0, <1>6 DEF Written, Store
  <2>2. CASE ~(row[x].state \in ACTIVE /\ new.state \in TERMINAL)
    <3>1. result' = result
      <4>1. Store(x, new)
        BY <1>6 DEF Written
      <4> QED
        BY <2>2, <4>1 DEF Store
    <3>2. \A r \in Runs : row'[r].state \in TERMINAL => row[r].state \in TERMINAL
      BY <1>0, <1>3, <2>1, <2>2
    <3> QED
      BY <1>0, <1>1, <1>2, <3>1, <3>2
  <2>3. CASE row[x].state \in ACTIVE /\ new.state \in TERMINAL
    <3>1. result' = [result EXCEPT ![tx0] = [run |-> x, output |-> new.output]]
      BY <1>6, <2>3 DEF Written, Store
    <3>2. result'[tx0].run = x /\ result'[tx0].output = new.output
      BY <1>0, <3>1
    <3>3. ASSUME NEW t \in Targets PROVE Shows(t)
      <4>1. CASE t = tx0
        BY <2>1, <2>3, <3>2, <4>1
      <4>2. CASE t # tx0
        BY <1>0, <1>1, <3>1, <4>2
      <4> QED
        BY <4>1, <4>2
    <3>4. ASSUME NEW r \in Runs PROVE Latest(r)
      <4>1. CASE r = x
        BY <1>0, <2>1, <3>2, <4>1, NoneAssumption
      <4>2. CASE r # x /\ TargetOf[r] = tx0
        <5>1. row'[r] = row[r] /\ row'[x].admitted = row[x].admitted
          BY <1>0, <2>1, <4>2 DEF Grows
        <5>2. row[r].state \in TERMINAL => row[r].admitted <= row[x].admitted
          BY <2>3, <4>2 DEF ResultInv
        <5> QED
          BY <1>0, <2>1, <3>2, <4>2, <5>1, <5>2, NoneAssumption
      <4>3. CASE TargetOf[r] # tx0
        <5>1. row'[r] = row[r] /\ result'[TargetOf[r]] = result[TargetOf[r]]
          BY <1>0, <2>1, <3>1, <4>3
        <5> QED
          BY <1>2, <5>1
      <4> QED
        BY <4>1, <4>2, <4>3
    <3> QED
      BY <3>3, <3>4
  <2> QED
    BY <2>2, <2>3
<1>7. ASSUME NEW w \in Workers, DelInstanceRow(w)
      PROVE  (\A t \in Targets : Shows(t)) /\ (\A r \in Runs : Latest(r))
  <2> DEFINE i == loop[w].victim
  <2>1. /\ row' = row /\ pc[w] = "del_instance"
        /\ \A t \in Targets : result'[t] = IF t.instance = i THEN [run |-> None, output |-> 0]
                                           ELSE result[t]
    BY <1>7 DEF DelInstanceRow
  <2>2. i \in Instances /\ i # None
    BY <2>1, NoneAssumption DEF SafetyInv, ExecutionInv, TypeOK, WorkerTypeOK, DelPc
  <2>3. \A r \in InstanceRuns(i) : ~Exists(r)
    BY <2>1, <2>2 DEF SafetyInv, DeletionInv
  <2>4. ASSUME NEW t \in Targets PROVE Shows(t)
    BY <1>1, <2>1
  <2>5. ASSUME NEW r \in Runs PROVE Latest(r)
    <3>1. CASE TargetOf[r].instance = i
      BY <2>1, <2>3, <3>1 DEF InstanceRuns, Exists
    <3>2. CASE TargetOf[r].instance # i
      BY <1>0, <1>2, <2>1, <3>2
    <3> QED
      BY <3>1, <3>2
  <2> QED
    BY <2>4, <2>5
<1>8. (\A t \in Targets : Shows(t)) /\ (\A r \in Runs : Latest(r))
  <2>1. CASE UNCHANGED <<row, result>>
    BY <1>0, <1>1, <1>2, <2>1
  <2> HIDE DEF Shows, Latest
  <2> QED
    BY <1>5, <1>6, <1>7, <2>1 DEF HowRowsChange
<1>9. ResultIsLatest'
  <2> SUFFICES ASSUME NEW r \in Runs, row'[r].state \in TERMINAL
               PROVE  LET best == result'[TargetOf[r]]
                      IN /\ best.run # None
                         /\ row'[best.run].output = best.output
                         /\ row'[best.run].admitted >= row'[r].admitted
                         /\ \/ created'[best.run] >= created'[r]
                            \/ created'[r] < row'[best.run].admitted
    BY DEF ResultIsLatest
  <2> DEFINE best == result'[TargetOf[r]]
  <2>1. /\ best.run # None /\ row'[best.run].output = best.output
        /\ row'[best.run].admitted >= row'[r].admitted
    BY <1>8
  <2>2. best.run \in Runs
    BY <1>0, <2>1 DEF TypeOK, DbTypeOK
  <2>3. created'[r] < row'[r].admitted
    BY AgeStep
  <2>4. /\ created'[r] \in Nat /\ row'[r].admitted \in Nat /\ row'[best.run].admitted \in Nat
    BY <1>0, <2>2 DEF TypeOK, DbTypeOK
  <2> QED
    BY <2>1, <2>3, <2>4
<1> QED
  BY <1>8, <1>9, AgeStep DEF ResultInv

(* The records' invariant holds at first and is kept. *)
LEMMA InitRecord == Init => RecordInv
BY DEF Init, RecordInv, LegacyInv, ResultInv, ResultIsLatest, NewRow, ACTIVE, TERMINAL

LEMMA NextRecord == SafetyInv /\ RecordInv /\ [Next]_vars => RecordInv'
<1> SUFFICES ASSUME SafetyInv, RecordInv, [Next]_vars PROVE RecordInv'
  OBVIOUS
<1>1. TypeOK' /\ HowRowsChange
  BY RowChanges, NextSafety DEF SafetyInv, ExecutionInv
<1>2. ResultInv'
  BY <1>1, ResultStep DEF RecordInv
<1> QED
  BY <1>2, LegacyStep, TransactionsGrow DEF RecordInv

(* What rows and results remember: legacy installation, captured output and *)
(* results stay what RecordInv says they are.                               *)
THEOREM RecordInductive == Spec => [](SafetyInv /\ RecordInv)
BY SafetyInductive, InitRecord, NextRecord, PTL DEF Spec

(* Runs are admitted one at a time, and none next to the legacy            *)
(* installation.                                                           *)
THEOREM AdmittedAlways == Spec => []AdmittedAlone
<1>1. SafetyInv /\ RecordInv => AdmittedAlone
  BY DEF SafetyInv, ExecutionInv, RecordInv, LegacyInv, AdmittedAlone, LegacyFirst
<1> QED
  BY <1>1, RecordInductive, PTL

(* The latest result is that of the finished run admitted last, as it has  *)
(* ended.                                                                  *)
THEOREM LatestResult == Spec => []ResultIsLatest
<1>1. RecordInv => ResultIsLatest
  BY DEF RecordInv, ResultInv
<1> QED
  BY <1>1, RecordInductive, PTL

-----------------------------------------------------------------------------
(* Jobs. *)

(* What becomes of the Job of one run.  Touched: the pod or the Job        *)
(* controller's business.                                                  *)
Touched(q) ==
  /\ job'[q].uid = job[q].uid /\ job'[q].rv = job[q].rv
  /\ job'[q].suspend = job[q].suspend /\ job'[q].deleting = job[q].deleting

Created(q) ==
  /\ job[q].uid = 0 /\ job'[q] = Manifest(q)
  /\ \/ \E w \in Workers : Create(w) /\ cur[w] = q
     \/ late # {} /\ late' # late

Enabled(q) ==
  /\ job[q].uid # 0
  /\ job'[q].uid = job[q].uid /\ job'[q].rv = ver[q] + 1 /\ job'[q].deleting = job[q].deleting
  /\ \/ \E w \in Workers : Resume(w) /\ cur[w] = q /\ job[q].rv = view[w].job.rv
     \/ late' # late /\ \E c \in LateResumes(q) : c.rv = job[q].rv

Deleted(q) ==
  /\ job'[q].uid = job[q].uid /\ job'[q].rv = ver[q] + 1 /\ job'[q].suspend = job[q].suspend
  /\ \/ \E w \in Workers : DeleteJob(w) /\ cur[w] = q
     \/ late' # late \/ faults' # faults

(* What the API server does with a call. *)
LEMMA Served ==
  ASSUME TypeOK, NEW r \in Runs, NEW n \in Nat, NEW q \in Runs
  PROVE  /\ ServeCreate(r) =>
              job'[q] = job[q] \/ (q = r /\ job[q].uid = 0 /\ job'[q] = Manifest(q))
         /\ ServeResume(r, n) =>
              \/ job'[q] = job[q]
              \/ /\ q = r /\ job[q].uid # 0 /\ job[q].rv = n
                 /\ job'[q].uid = job[q].uid /\ job'[q].rv = ver[q] + 1
                 /\ job'[q].deleting = job[q].deleting
         /\ ServeDelete(r, n) =>
              \/ job'[q] = job[q]
              \/ /\ q = r /\ job'[q].uid = job[q].uid /\ job'[q].rv = ver[q] + 1
                 /\ job'[q].suspend = job[q].suspend
<1>0. job \in [Runs -> Job] /\ job[r] \in Job
  BY DEF TypeOK, KubeTypeOK
<1>1. ServeCreate(r) => job'[q] = job[q] \/ (q = r /\ job[q].uid = 0 /\ job'[q] = Manifest(q))
  BY <1>0 DEF ServeCreate
<1> DEFINE j == job[r]
           m == ver[r] + 1
           y == [j EXCEPT !.suspend = FALSE, !.rv = m]
           z == [j EXCEPT !.deleting = TRUE, !.rv = m]
<1>2. /\ y.uid = j.uid /\ y.rv = m /\ y.deleting = j.deleting
      /\ z.uid = j.uid /\ z.rv = m /\ z.suspend = j.suspend
  BY <1>0 DEF Job
<1>3. /\ ServeResume(r, n) => job' = job \/ (Resumable(r, n) /\ job' = [job EXCEPT ![r] = y])
      /\ ServeDelete(r, n) => job' = job \/ job' = [job EXCEPT ![r] = z]
  BY DEF ServeResume, ServeDelete
<1> HIDE DEF y, z, j, m
<1>4. ServeResume(r, n) => job'[q] = job[q] \/ (q = r /\ Resumable(r, n) /\ job'[q] = y)
  BY <1>0, <1>3
<1>5. ServeDelete(r, n) => job'[q] = job[q] \/ (q = r /\ job'[q] = z)
  BY <1>0, <1>3
<1> QED
  BY <1>1, <1>2, <1>4, <1>5 DEF j, m, Resumable

LEMMA JobChanges ==
  ASSUME TypeOK, [Next]_vars, NEW q \in Runs
  PROVE  \/ job'[q] = job[q] \/ job'[q] = NoJob
         \/ Touched(q) \/ Created(q) \/ Enabled(q) \/ Deleted(q)
<1> DEFINE Goal == \/ job'[q] = job[q] \/ job'[q] = NoJob
                   \/ Touched(q) \/ Created(q) \/ Enabled(q) \/ Deleted(q)
<1>0. /\ job \in [Runs -> Job] /\ job[q] \in Job /\ faults \in Nat
      /\ \A c \in late : c.run \in Runs /\ c.uid \in Nat /\ c.rv \in Nat
      /\ \A w \in Workers : view[w].job \in Job
      /\ \A w \in Workers : pc[w] = "act" => cur[w] \in Runs
  BY DEF TypeOK, KubeTypeOK, WorkerTypeOK, Call, RunPc, LockedPc
<1>1. CASE job' = job
  BY <1>1
<1>2. ASSUME NEW w \in Workers, Create(w) PROVE Goal
  <2>1. cur[w] \in Runs /\ ServeCreate(cur[w]) /\ 0 \in Nat
    BY <1>0, <1>2 DEF Create, WantsCreate, Acting
  <2> QED
    BY <1>2, <2>1, Served DEF Created
<1>3. ASSUME NEW w \in Workers, Resume(w) PROVE Goal
  <2>1. cur[w] \in Runs /\ ServeResume(cur[w], view[w].job.rv) /\ view[w].job.rv \in Nat
    BY <1>0, <1>3 DEF Resume, WantsResume, Acting, Job
  <2> QED
    BY <1>3, <2>1, Served DEF Enabled
<1>4. ASSUME NEW w \in Workers, DeleteJob(w) PROVE Goal
  <2>1. cur[w] \in Runs /\ ServeDelete(cur[w], view[w].job.uid) /\ view[w].job.uid \in Nat
    BY <1>0, <1>4 DEF DeleteJob, WantsDelete, Acting, Job
  <2> QED
    BY <1>4, <2>1, Served DEF Deleted
<1>5. ASSUME NEW r \in Runs, KubeStep(r) PROVE Goal
  <2>1. CASE PodCreated(r)
    BY <1>0, <2>1 DEF PodCreated, Touched, Job
  <2>2. CASE PodStarted(r) \/ PodFinished(r) \/ PodGone(r)
    BY <2>2 DEF PodStarted, PodFinished, PodGone
  <2>3. CASE JobConcluded(r)
    BY <1>0, <2>3 DEF JobConcluded, Touched, Job
  <2>4. CASE JobTooLong(r)
    BY <1>0, <2>4 DEF JobTooLong, Touched, Job
  <2>5. CASE JobGone(r)
    BY <1>0, <2>5 DEF JobGone
  <2> QED
    BY <1>5, <2>1, <2>2, <2>3, <2>4, <2>5 DEF KubeStep, Kubernetes
<1>6. ASSUME NEW r \in Runs, OutsideStep(r) PROVE Goal
  <2>1. faults' # faults /\ job[r].uid \in Nat
    BY <1>0, <1>6 DEF OutsideStep, Job
  <2>2. job' = job \/ job' = [job EXCEPT ![r] = NoJob] \/ ServeDelete(r, job[r].uid)
    BY <1>6 DEF OutsideStep, Interference
  <2> QED
    BY <1>0, <2>1, <2>2, Served DEF Deleted
<1>7. ASSUME NEW c \in late, LateCall(c) PROVE Goal
  <2>1. late' # late /\ late # {}
    BY <1>7 DEF LateCall
  <2>2. \/ job' = job \/ ServeCreate(c.run)
        \/ (c.kind = "resume" /\ ServeResume(c.run, c.rv)) \/ ServeDelete(c.run, c.uid)
    BY <1>7 DEF LateCall
  <2>3. c.kind = "resume" => c \in LateResumes(c.run)
    BY DEF LateResumes
  <2>4. c.run \in Runs /\ c.uid \in Nat /\ c.rv \in Nat
    BY <1>0
  <2> QED
    BY <2>1, <2>2, <2>3, <2>4, Served DEF Created, Enabled, Deleted
<1>8. CASE Next
  <2>1. ASSUME NEW w \in Workers, \/ Request(w) \/ Looping(w) \/ Starting(w) \/ Deleting(w) \/ Failure(w)
        PROVE  job' = job
    <3>1. CASE Request(w) \/ Looping(w)
      BY <3>1 DEF Request, Start, Stop, Observe, DeleteInstance, Looping, LoopPass, LoopNext, kubeVars
    <3>2. CASE Starting(w) \/ PrepareFailed(w)
      BY <3>2 DEF Starting, Build, Reserve, ReserveConflict, LockPrepare, Prepare, PrepareFailed, kubeVars
    <3>3. CASE Deleting(w) \/ DelAborted(w)
      BY <3>3 DEF Deleting, DelNext, DelCheck, DelConflict, DelRows, DelInstanceRow, DelAborted, kubeVars
    <3>4. CASE CreateRejected(w) \/ CallFailed(w) \/ TimedOut(w) \/ Crash(w)
      BY <3>4 DEF CreateRejected, WriteOnly, CallFailed, TimedOut, Crash, kubeVars
    <3> QED
      BY <2>1, <3>1, <3>2, <3>3, <3>4 DEF Failure
  <2>2. ASSUME NEW w \in Workers, Pass(w) PROVE job' = job \/ Create(w) \/ Resume(w) \/ DeleteJob(w)
    BY <2>2 DEF Pass, Reconcile, ReadJob, ReadPods, SaveSnapshot, Cancelled, PreparationInterrupted,
         AdoptJob, JobDisappeared, AwaitDeletion, JobEnded, Progress, DeletePods, Cleanup,
         Commit, WriteOnly, kubeVars
  <2>3. ASSUME NEW r \in Runs, Tick(r) PROVE job' = job
    BY <2>3 DEF Tick, kubeVars
  <2>4. LegacyGone => job' = job
    BY DEF LegacyGone, kubeVars
  <2> HIDE DEF Goal
  <2>5. CASE \E w \in Workers : Pass(w)
    BY <1>1, <1>2, <1>3, <1>4, <2>2, <2>5 DEF Goal
  <2> QED
    BY <1>8, <1>1, <1>5, <1>6, <1>7, <2>1, <2>3, <2>4, <2>5 DEF Next, Goal
<1> QED
  BY <1>1, <1>8 DEF vars

(* Calls under way: only a call that times out adds one, and counts.       *)
LEMMA LateChanges ==
  ASSUME TypeOK, [Next]_vars
  PROVE  \/ lates' = lates /\ late' \subseteq late
         \/ /\ lates' = lates + 1
            /\ \E w \in Workers :
                 \/ PrepareFailed(w) /\ late' = late \cup {CallFor("secret", cur[w], NoJob)}
                 \/ TimedOut(w)
<1>1. CASE UNCHANGED vars
  BY <1>1 DEF vars
<1>2. ASSUME NEW w \in Workers, Request(w) \/ Looping(w) PROVE UNCHANGED <<late, lates>>
  BY <1>2 DEF Request, Start, Stop, Observe, DeleteInstance, Looping, LoopPass, LoopNext, boundVars
<1>3. ASSUME NEW w \in Workers, Starting(w) PROVE UNCHANGED <<late, lates>>
  BY <1>3 DEF Starting, Build, Reserve, ReserveConflict, LockPrepare, Prepare, boundVars
<1>4. ASSUME NEW w \in Workers, Pass(w) \/ CreateRejected(w) PROVE UNCHANGED <<late, lates>>
  BY <1>4 DEF Pass, Reconcile, ReadJob, ReadPods, SaveSnapshot, Cancelled, PreparationInterrupted,
       AdoptJob, Create, Resume, JobDisappeared, AwaitDeletion, JobEnded, Progress, DeleteJob,
       DeletePods, Cleanup, Commit, CreateRejected, WriteOnly, boundVars
<1>5. ASSUME NEW w \in Workers, Deleting(w) \/ DelAborted(w) \/ CallFailed(w) \/ Crash(w)
      PROVE  UNCHANGED <<late, lates>>
  BY <1>5 DEF Deleting, DelNext, DelCheck, DelConflict, DelRows, DelInstanceRow, DelAborted,
       CallFailed, Crash, boundVars
<1>6. ASSUME NEW w \in Workers, PrepareFailed(w)
      PROVE  \/ UNCHANGED <<late, lates>>
             \/ lates' = lates + 1 /\ late' = late \cup {CallFor("secret", cur[w], NoJob)}
  BY <1>6 DEF PrepareFailed
<1>7. ASSUME NEW w \in Workers, TimedOut(w) PROVE lates' = lates + 1
  BY <1>7 DEF TimedOut
<1>8. CASE \/ \E r \in Runs : KubeStep(r) \/ OutsideStep(r) \/ Tick(r)
           \/ \E c \in late : LateCall(c)
           \/ LegacyGone
  BY <1>8 DEF KubeStep, OutsideStep, Tick, LateCall, LegacyGone, boundVars
<1> QED
  BY <1>1, <1>2, <1>3, <1>4, <1>5, <1>6, <1>7, <1>8 DEF Next, Failure

(* Versions identify Jobs: whoever knows a version of the run's Job knows  *)
(* its uid, and a new Job has a version that nobody knows yet.             *)
LEMMA SameJobStays ==
  ASSUME TypeOK, [Next]_vars, NEW q \in Runs, NEW u, NEW n \in Nat, n <= ver[q],
         SameJob(q, u, n)
  PROVE  job'[q].uid # 0 /\ job'[q].rv = n => job'[q].uid = u
<1>1. ver[q] \in Nat
  BY DEF TypeOK, KubeTypeOK
<1>2. CASE job'[q] = NoJob
  BY <1>2 DEF NoJob
<1>3. CASE Created(q)
  BY <1>1, <1>3 DEF Created, Manifest
<1>4. CASE Enabled(q) \/ Deleted(q)
  BY <1>1, <1>4 DEF Enabled, Deleted
<1> QED
  BY <1>2, <1>3, <1>4, JobChanges DEF SameJob, Touched

(* A uid once saved stays saved. *)
LEMMA SavedUidStays ==
  ASSUME SafetyInv, HowRowsChange, NEW q \in Runs, row[q].uid # 0
  PROVE  row'[q].uid = row[q].uid
BY ARowChanges DEF Admitted, Kept, Removed, Grows

(* What a pass that enables the Job of its run knows. *)
LEMMA ResumeFacts ==
  ASSUME SafetyInv, IdentityInv, NEW w \in Workers, WantsResume(w)
  PROVE  /\ cur[w] \in Runs /\ pc[w] = "act" /\ JobSeen(w)
         /\ row[cur[w]].uid = view[w].job.uid /\ row[cur[w]].uid # 0
         /\ SameJob(cur[w], view[w].job.uid, view[w].job.rv)
         /\ view[w].job.rv <= ver[cur[w]] /\ view[w].job.rv \in Nat
<1>1. /\ pc[w] = "act" /\ JobSeen(w) /\ row[cur[w]].state \in Executing
  BY DEF WantsResume, Acting, Lost
<1>2. /\ cur[w] \in Runs /\ row[cur[w]].uid # 0
      /\ view[w].job.rv <= ver[cur[w]] /\ view[w].job.rv \in Nat
  BY <1>1, ActFacts DEF SafetyInv, Sound
<1> QED
  BY <1>1, <1>2 DEF IdentityInv

(* Every Job that may execute is the one whose uid the row holds. *)
LEMMA IdentityKept ==
  ASSUME SafetyInv, IdentityInv, HowRowsChange, [Next]_vars
  PROVE  IdentityBeforeExecution'
<1> SUFFICES ASSUME NEW q \in Runs, job'[q].uid # 0, ~job'[q].suspend
             PROVE  row'[q].uid = job'[q].uid
  BY DEF IdentityBeforeExecution
<1>0. TypeOK
  BY DEF SafetyInv, ExecutionInv
<1>1. CASE job'[q] = job[q] \/ Touched(q) \/ Deleted(q)
  <2>1. job[q].uid = job'[q].uid /\ ~job[q].suspend
    BY <1>1 DEF Touched, Deleted
  <2>2. row[q].uid = job[q].uid
    BY <2>1 DEF IdentityInv, IdentityBeforeExecution
  <2> QED
    BY <2>1, <2>2, SavedUidStays
<1>2. CASE Enabled(q)
  <2>1. job[q].uid # 0 /\ job'[q].uid = job[q].uid
    BY <1>2 DEF Enabled
  <2>2. row[q].uid = job[q].uid
    <3>1. CASE \E w \in Workers : Resume(w) /\ cur[w] = q /\ job[q].rv = view[w].job.rv
      <4>1. PICK w \in Workers : WantsResume(w) /\ cur[w] = q /\ job[q].rv = view[w].job.rv
        BY <3>1 DEF Resume
      <4> QED
        BY <2>1, <4>1, ResumeFacts DEF SameJob
    <3>2. CASE \E c \in LateResumes(q) : c.rv = job[q].rv
      BY <2>1, <3>2 DEF IdentityInv, SameJob
    <3> QED
      BY <1>2, <3>1, <3>2 DEF Enabled
  <2> QED
    BY <2>1, <2>2, SavedUidStays
<1>3. job'[q] # NoJob /\ ~Created(q)
  BY DEF NoJob, Created, Manifest
<1> QED
  BY <1>0, <1>1, <1>2, <1>3, JobChanges

(* A call that would enable a Job was sent for the uid that the row holds. *)
LEMMA LateIdentityKept ==
  ASSUME SafetyInv, IdentityInv, HowRowsChange, [Next]_vars, NEW q \in Runs,
         NEW c \in late', c.kind = "resume", c.run = q
  PROVE  /\ c.uid = row'[q].uid /\ c.uid # 0
         /\ job'[q].uid # 0 /\ job'[q].rv = c.rv => job'[q].uid = c.uid
<1>0. TypeOK /\ \A d \in late : d.rv <= ver[d.run] /\ d.rv \in Nat
  BY DEF SafetyInv, ExecutionInv, TypeOK, Call
<1>1. /\ c.uid = row[q].uid /\ c.uid # 0 /\ SameJob(q, c.uid, c.rv)
      /\ c.rv <= ver[q] /\ c.rv \in Nat
  <2>1. CASE c \in late
    BY <1>0, <2>1 DEF IdentityInv, LateResumes
  <2>2. CASE c \notin late
    <3>1. PICK w \in Workers :
             \/ PrepareFailed(w) /\ late' = late \cup {CallFor("secret", cur[w], NoJob)}
             \/ TimedOut(w)
      BY <1>0, <2>2, LateChanges
    <3>2. WantsResume(w) /\ c = CallFor("resume", cur[w], view[w].job)
      BY <2>2, <3>1 DEF TimedOut, CallFor
    <3> QED
      BY <3>2, ResumeFacts DEF CallFor
  <2> QED
    BY <2>1, <2>2
<1> QED
  BY <1>0, <1>1, SameJobStays, SavedUidStays

(* A pass has seen no Job, or one that the row may hold. *)
LEMMA SeenIdentityKept ==
  ASSUME SafetyInv, IdentityInv, HowRowsChange, [Next]_vars, NEW v \in Workers,
         pc'[v] \in {"read_pods", "act"}, view'[v].job.uid # 0
  PROVE  /\ row'[cur'[v]].uid \in {0, view'[v].job.uid}
         /\ job'[cur'[v]].uid # 0 /\ job'[cur'[v]].rv = view'[v].job.rv
              => job'[cur'[v]].uid = view'[v].job.uid
<1>0. /\ TypeOK /\ view \in [Workers -> [job : Job, pod : Pod]]
      /\ \A r \in Runs : job[r] \in Job
      /\ pc[v] \in LockedPc => cur[v] \in Runs
      /\ "read_pods" \in LockedPc /\ "act" \in LockedPc /\ "read_job" \in LockedPc
  BY DEF SafetyInv, ExecutionInv, TypeOK, KubeTypeOK, WorkerTypeOK, RunPc, LockedPc
<1>1. CASE Same(v)
  <2> DEFINE q == cur[v]
             n == view[v].job.rv
             u == view[v].job.uid
  <2>1. /\ cur'[v] = q /\ pc[v] \in {"read_pods", "act"} /\ pc'[v] = pc[v]
        /\ view'[v] = view[v] /\ JobSeen(v)
    BY <1>1 DEF Same, JobSeen
  <2>2. /\ q \in Runs /\ row'[q] = row[q] /\ row[q].uid \in {0, u}
        /\ SameJob(q, u, n) /\ n <= ver[q] /\ n \in Nat
    BY <1>0, <2>1, HeldRows DEF IdentityInv, SafetyInv, ExecutionInv, ViewInv, Job
  <2> HIDE DEF q, n, u
  <2>3. job'[q].uid # 0 /\ job'[q].rv = n => job'[q].uid = u
    BY <1>0, <2>2, SameJobStays
  <2> QED
    BY <2>1, <2>2, <2>3 DEF q, n, u
<1>2. CASE ReadJob(v) /\ pc'[v] = "read_pods"
  <2> DEFINE q == cur[v]
  <2>1. /\ pc[v] = "read_job" /\ q \in Runs /\ UNCHANGED kubeVars
    BY <1>0, <1>2 DEF ReadJob
  <2>2. ~Rollback(v)
    BY <1>0, <1>2, OthersSame DEF Rollback
  <2>3. /\ SameIdentity(q) /\ view'[v].job = job[q] /\ cur' = cur /\ row' = row
    BY <1>0, <1>2, <2>2 DEF ReadJob, dbVars
  <2> QED
    BY <2>1, <2>3 DEF SameIdentity, kubeVars
<1>3. CASE ReadPods(v) /\ pc'[v] = "act"
  <2>1. /\ pc[v] = "read_pods" /\ cur' = cur /\ row' = row /\ job' = job
        /\ view'[v].job = view[v].job
    BY <1>0, <1>3 DEF ReadPods, dbVars, kubeVars
  <2> QED
    BY <2>1 DEF IdentityInv, JobSeen, SameJob
<1> QED
  BY <1>0, <1>1, <1>2, <1>3, WorkerMoves

LEMMA NextIdentity ==
  ASSUME SafetyInv, RecordInv, IdentityInv, [Next]_vars
  PROVE  IdentityInv'
<1>1. HowRowsChange
  BY RowChanges
<1>2. IdentityBeforeExecution'
  BY <1>1, IdentityKept
<1>3. ASSUME NEW q \in Runs, NEW c \in LateResumes(q)'
      PROVE  /\ c.uid = row'[q].uid /\ c.uid # 0
             /\ job'[q].uid # 0 /\ job'[q].rv = c.rv => job'[q].uid = c.uid
  <2>1. c \in late' /\ c.kind = "resume" /\ c.run = q
    BY DEF LateResumes
  <2> QED
    BY <1>1, <2>1, LateIdentityKept
<1>4. ASSUME NEW v \in Workers, pc'[v] \in {"read_pods", "act"}, view'[v].job.uid # 0
      PROVE  /\ row'[cur'[v]].uid \in {0, view'[v].job.uid}
             /\ job'[cur'[v]].uid # 0 /\ job'[cur'[v]].rv = view'[v].job.rv
                  => job'[cur'[v]].uid = view'[v].job.uid
  BY <1>1, <1>4, SeenIdentityKept
<1> QED
  BY <1>2, <1>3, <1>4 DEF IdentityInv, SameJob, JobSeen

-----------------------------------------------------------------------------
(* Output and outcomes. *)

LEMMA SnapshotStep ==
  ASSUME TypeOK, [Next]_vars
  PROVE  SnapshotKept
<1> SUFFICES ASSUME NEW q \in Runs, row[q].state = "stopping", ~row[q].saved,
                    faults' = faults, late' = late
             PROVE  job'[q].deleting = job[q].deleting \/ job'[q] = NoJob
  BY DEF SnapshotKept
<1>1. ~Created(q)
  BY DEF Created, Create, WantsCreate, Acting
<1>2. ~Deleted(q)
  BY DEF Deleted, DeleteJob, WantsDelete, Acting, TERMINAL, Executing
<1> QED
  BY <1>1, <1>2, JobChanges DEF Touched, Enabled

LEMMA HistoryStep ==
  ASSUME SafetyInv, HowRowsChange
  PROVE  HistoryKept
<1> SUFFICES ASSUME NEW q \in Runs
             PROVE  /\ row'[q].output >= row[q].output
                    /\ row[q].state \in TERMINAL => row'[q].state \in {row[q].state, "deleted"}
                    /\ row[q].cleaned => row'[q].cleaned
  BY DEF HistoryKept
<1>1. row[q].output \in 0..1
  BY DEF SafetyInv, ExecutionInv, TypeOK, DbTypeOK, Row
<1>2. Admitted(q) => row[q].state \notin TERMINAL
  BY DEF Admitted, TERMINAL
<1> QED
  BY <1>1, <1>2, ARowChanges DEF Admitted, Kept, Removed, Grows

(* What a run has written is in its row before a stop deletes the Job, and *)
(* no step loses it, or the outcome, again.                                *)
THEOREM OutputAlways == Spec => OutputKept
<1>1. SafetyInv /\ RecordInv /\ [Next]_vars => [SnapshotKept /\ HistoryKept]_vars
  <2> SUFFICES ASSUME SafetyInv, RecordInv, [Next]_vars
               PROVE  SnapshotKept /\ HistoryKept
    OBVIOUS
  <2>1. TypeOK /\ HowRowsChange
    BY RowChanges DEF SafetyInv, ExecutionInv
  <2> QED
    BY <2>1, SnapshotStep, HistoryStep
<1> QED
  BY <1>1, RecordInductive, PTL DEF Spec, OutputKept

-----------------------------------------------------------------------------
(* Cleaning up. *)

(* While the row of a run that a pass holds is being created, nothing has  *)
(* been cleaned up.                                                        *)
LEMMA CreatingRows ==
  ASSUME SafetyInv, NEW w \in Workers,
         Prepare(w) \/ PrepareFailed(w) \/ Create(w)
  PROVE  /\ pc[w] \in {"prepare", "act"} /\ pc[w] \in LockedPc /\ cur[w] \in Runs
         /\ row[cur[w]] \in Row /\ ~row[cur[w]].cleaned
<1>0. ExecutionInv /\ TypeOK
  BY DEF SafetyInv, ExecutionInv
<1>1. /\ pc[w] \in {"prepare", "act"} /\ pc[w] \in LockedPc
      /\ row[cur[w]].state = "creating"
  BY <1>0 DEF Prepare, PrepareFailed, Create, WantsCreate, Acting, LockedPc, ExecutionInv, LockInv
<1>2. cur[w] \in Runs /\ row[cur[w]] \in Row
  BY <1>0, <1>1 DEF TypeOK, WorkerTypeOK, DbTypeOK, RunPc
<1>3. Sound(cur[w], row[cur[w]])
  BY <1>0, <1>2 DEF ExecutionInv, RunInv
<1> QED
  BY <1>1, <1>2, <1>3 DEF Sound, ACTIVE

(* Secrets are created where a run is prepared. *)
LEMMA SecretChanges ==
  ASSUME TypeOK, [Next]_vars, NEW q \in Runs, secret'[q]
  PROVE  \/ secret[q]
         \/ \E w \in Workers : (Prepare(w) \/ PrepareFailed(w)) /\ cur[w] = q
         \/ late # {}
<1>0. secret \in [Runs -> BOOLEAN]
  BY DEF TypeOK, KubeTypeOK
<1>1. CASE secret' = secret
  BY <1>1
<1>2. ASSUME NEW w \in Workers, Prepare(w) \/ PrepareFailed(w)
      PROVE  secret[q] \/ cur[w] = q
  <2>1. \/ secret' = secret
        \/ secret' = [secret EXCEPT ![cur[w]] = cur[w] \in SecretRuns]
    BY <1>2 DEF Prepare, PrepareFailed
  <2> QED
    BY <1>0, <2>1
<1>3. ASSUME NEW w \in Workers, Cleanup(w) PROVE secret[q]
  <2>1. secret' = [secret EXCEPT ![cur[w]] = FALSE]
    BY <1>3 DEF Cleanup
  <2> QED
    BY <1>0, <2>1
<1>4. CASE Next
  <2>1. ASSUME NEW w \in Workers,
               Request(w) \/ Looping(w) \/ Deleting(w) \/ DelAborted(w)
               \/ CreateRejected(w) \/ CallFailed(w) \/ TimedOut(w) \/ Crash(w)
        PROVE  secret' = secret
    BY <2>1 DEF Request, Start, Stop, Observe, DeleteInstance, Looping, LoopPass, LoopNext,
         Deleting, DelNext, DelCheck, DelConflict, DelRows, DelInstanceRow, DelAborted,
         CreateRejected, WriteOnly, CallFailed, TimedOut, Crash, kubeVars
  <2>2. ASSUME NEW w \in Workers, Starting(w) PROVE secret' = secret \/ Prepare(w)
    BY <2>2 DEF Starting, Build, Reserve, ReserveConflict, LockPrepare, kubeVars
  <2>3. ASSUME NEW w \in Workers, Pass(w) PROVE secret' = secret \/ Cleanup(w)
    BY <2>3 DEF Pass, Reconcile, ReadJob, ReadPods, SaveSnapshot, Cancelled, PreparationInterrupted,
         AdoptJob, Create, Resume, JobDisappeared, AwaitDeletion, JobEnded, Progress, DeleteJob,
         DeletePods, Commit, WriteOnly, kubeVars
  <2>4. ASSUME NEW r \in Runs, KubeStep(r) \/ OutsideStep(r) \/ Tick(r) PROVE secret' = secret
    BY <2>4 DEF KubeStep, Kubernetes, PodCreated, PodStarted, PodFinished, JobConcluded, JobTooLong,
         PodGone, JobGone, OutsideStep, Interference, Tick, kubeVars
  <2>5. LegacyGone => secret' = secret
    BY DEF LegacyGone, kubeVars
  <2>6. (\E c \in late : LateCall(c)) => late # {}
    OBVIOUS
  <2> QED
    BY <1>1, <1>2, <1>3, <1>4, <2>1, <2>2, <2>3, <2>4, <2>5, <2>6 DEF Next, Failure
<1> QED
  BY <1>1, <1>4 DEF vars

(* Without late calls, only the worker that holds the row of a run that is *)
(* being created adds to what it has in the cluster.                       *)
LEMMA NothingAdded ==
  ASSUME SafetyInv, [Next]_vars, late = {}, NEW q \in Runs,
         \A w \in Workers : Prepare(w) \/ PrepareFailed(w) \/ Create(w) => cur[w] # q
  PROVE  /\ job[q].uid = 0 => job'[q].uid = 0
         /\ ~secret[q] => ~secret'[q]
<1>1. TypeOK
  BY DEF SafetyInv, ExecutionInv
<1>2. job[q].uid = 0 => job'[q].uid = 0
  BY <1>1, JobChanges DEF NoJob, Touched, Created, Enabled, Deleted
<1> QED
  BY <1>1, <1>2, SecretChanges

LEMMA TidyStep ==
  ASSUME SafetyInv, TidyInv, HowRowsChange, [Next]_vars, TypeOK', lates' = 0
  PROVE  /\ late' = {}
         /\ \A q \in Runs : row'[q].cleaned => job'[q].uid = 0 /\ ~secret'[q]
         /\ \A v \in Workers :
              /\ pc'[v] \in {"read_pods", "act"} /\ view'[v].job.uid = 0
                   => job'[cur'[v]].uid = 0
              /\ pc'[v] = "commit" /\ tx'[v].cleaned
                   => job'[cur'[v]].uid = 0 /\ ~secret'[cur'[v]]
<1>0. /\ ExecutionInv /\ TypeOK /\ lates \in Nat
      /\ tx \in [Workers -> Row] /\ view \in [Workers -> [job : Job, pod : Pod]]
      /\ secret \in [Runs -> BOOLEAN]
      /\ \A v \in Workers : pc[v] \in LockedPc => cur[v] \in Runs
      /\ {"read_pods", "act", "commit"} \subseteq LockedPc
  BY DEF SafetyInv, ExecutionInv, TypeOK, KubeTypeOK, WorkerTypeOK, RunPc, LockedPc
<1>1. lates = 0 /\ late = {} /\ late' = {}
  <2>1. lates' # lates + 1
    BY <1>0
  <2> QED
    BY <1>0, <2>1, LateChanges DEF TidyInv
<1>2. \A q \in Runs : row[q].cleaned => job[q].uid = 0 /\ ~secret[q]
  BY <1>1 DEF TidyInv, CleanedIsGone
<1>3. ASSUME NEW v \in Workers
      PROVE  /\ pc[v] \in {"read_pods", "act"} /\ view[v].job.uid = 0 => job[cur[v]].uid = 0
             /\ pc[v] = "commit" /\ tx[v].cleaned => job[cur[v]].uid = 0 /\ ~secret[cur[v]]
  BY <1>1 DEF TidyInv, JobSeen
<1>4. ASSUME NEW q \in Runs, row'[q].cleaned PROVE job'[q].uid = 0 /\ ~secret'[q]
  <2>1. CASE row[q].cleaned
    <3>1. \A w \in Workers : Prepare(w) \/ PrepareFailed(w) \/ Create(w) => cur[w] # q
      BY <2>1, CreatingRows
    <3> QED
      BY <1>1, <1>2, <2>1, <3>1, NothingAdded
  <2>2. CASE ~row[q].cleaned
    <3>1. PICK w \in Workers : Commit(w) /\ cur[w] = q /\ tx[w].cleaned
      BY <1>4, <2>2, ARowChanges DEF Admitted, Kept, Removed, CommitsCleaned
    <3>2. pc[w] = "commit" /\ UNCHANGED kubeVars
      BY <3>1 DEF Commit
    <3> QED
      BY <1>3, <3>1, <3>2 DEF kubeVars
  <2> QED
    BY <2>1, <2>2
<1>5. ASSUME NEW v \in Workers, Same(v), pc[v] \in {"read_pods", "act", "commit"}
      PROVE  /\ job[cur[v]].uid = 0 => job'[cur[v]].uid = 0
             /\ ~secret[cur[v]] => ~secret'[cur[v]]
  <2>1. cur[v] \in Runs /\ pc[v] \in LockedPc
    BY <1>0, <1>5
  <2>2. ASSUME NEW w \in Workers, Prepare(w) \/ PrepareFailed(w) \/ Create(w), cur[w] = cur[v]
        PROVE  FALSE
    <3>1. w = v /\ pc[v] \in {"prepare", "act"}
      BY <1>0, <2>1, <2>2, CreatingRows, Exclusive
    <3>2. \E new : Uncommitted(v, new)
      BY <2>2, <3>1 DEF Prepare, PrepareFailed, Create
    <3>3. pc'[v] = "commit"
      BY <1>0, <3>2 DEF Uncommitted, Goto, TypeOK, WorkerTypeOK
    <3> QED
      BY <1>5, <3>1, <3>3 DEF Same
  <2> QED
    BY <1>1, <2>1, <2>2, NothingAdded
<1>6. ASSUME NEW v \in Workers, pc'[v] \in {"read_pods", "act"}, view'[v].job.uid = 0
      PROVE  job'[cur'[v]].uid = 0
  <2>1. CASE Same(v)
    BY <1>3, <1>5, <1>6, <2>1 DEF Same
  <2>2. CASE ReadJob(v) /\ pc'[v] = "read_pods"
    <3>1. ~Rollback(v) /\ UNCHANGED kubeVars
      BY <1>0, <2>2, OthersSame DEF Rollback, ReadJob
    <3> QED
      BY <1>0, <1>6, <2>2, <3>1 DEF ReadJob, kubeVars
  <2>3. CASE ReadPods(v)
    <3>1. /\ pc[v] = "read_pods" /\ cur' = cur /\ job' = job
          /\ view'[v].job = view[v].job
      BY <1>0, <2>3 DEF ReadPods, kubeVars
    <3> QED
      BY <1>3, <1>6, <3>1
  <2> QED
    BY <1>0, <1>6, <2>1, <2>2, <2>3, WorkerMoves
<1>7. ASSUME NEW v \in Workers, pc'[v] = "commit", tx'[v].cleaned
      PROVE  job'[cur'[v]].uid = 0 /\ ~secret'[cur'[v]]
  <2>1. CASE Same(v)
    BY <1>3, <1>5, <1>7, <2>1 DEF Same
  <2>2. CASE Prepare(v) \/ PrepareFailed(v) \/ Create(v)
    <3>1. row[cur[v]] \in Row /\ ~row[cur[v]].cleaned
      BY <2>2, CreatingRows
    <3>2. PICK new : Uncommitted(v, new) /\ new.cleaned = row[cur[v]].cleaned
      <4> DEFINE x == row[cur[v]]
                 n == job'[cur[v]].uid
      <4>1. \/ Uncommitted(v, [x EXCEPT !.prepared = TRUE])
            \/ Uncommitted(v, [x EXCEPT !.state = "failed"])
            \/ Uncommitted(v, [x EXCEPT !.state = "pending", !.uid = n])
        BY <2>2 DEF Prepare, PrepareFailed, Create
      <4>2. x \in Row
        BY <3>1
      <4> HIDE DEF x, n
      <4>3. /\ [x EXCEPT !.prepared = TRUE].cleaned = x.cleaned
            /\ [x EXCEPT !.state = "failed"].cleaned = x.cleaned
            /\ [x EXCEPT !.state = "pending", !.uid = n].cleaned = x.cleaned
        BY <4>2 DEF Row
      <4> QED
        BY <4>1, <4>3 DEF x
    <3> QED
      BY <1>0, <1>7, <3>1, <3>2 DEF Uncommitted
  <2>3. CASE Cleanup(v)
    <3>1. /\ pc[v] = "act" /\ view[v].job.uid = 0 /\ job' = job /\ cur' = cur
          /\ secret' = [secret EXCEPT ![cur[v]] = FALSE]
      BY <2>3 DEF Cleanup, Acting, JobSeen, Uncommitted
    <3> QED
      BY <1>0, <1>3, <3>1
  <2> QED
    BY <1>0, <1>7, <2>1, <2>2, <2>3, WorkerMoves
<1> QED
  BY <1>1, <1>4, <1>6, <1>7

LEMMA NextTidy ==
  ASSUME SafetyInv, RecordInv, TidyInv, [Next]_vars
  PROVE  TidyInv'
<1> SUFFICES ASSUME lates' = 0
             PROVE  /\ late' = {}
                    /\ CleanedIsGone'
                    /\ \A v \in Workers :
                         /\ pc'[v] \in {"read_pods", "act"} /\ ~JobSeen(v)'
                              => job'[cur'[v]].uid = 0
                         /\ pc'[v] = "commit" /\ tx'[v].cleaned
                              => job'[cur'[v]].uid = 0 /\ ~secret'[cur'[v]]
  BY DEF TidyInv
<1>1. HowRowsChange /\ SafetyInv'
  BY RowChanges, NextSafety
<1>2. TypeOK' /\ \A q \in Runs : row'[q].cleaned => pod'[q].phase = "none"
  BY <1>1 DEF SafetyInv, ExecutionInv, RunInv, Sound, Empty
<1> QED
  BY <1>1, <1>2, TidyStep DEF CleanedIsGone, JobSeen

(* Both hold at first. *)
LEMMA InitAccount == Init => IdentityInv /\ TidyInv
<1> SUFFICES ASSUME Init PROVE IdentityInv /\ TidyInv
  OBVIOUS
<1>1. /\ \A r \in Runs : job[r].uid = 0 /\ ~row[r].cleaned
      /\ \A w \in Workers : pc[w] = "idle"
      /\ late = {}
  BY DEF Init, NoJob, NewRow
<1> QED
  BY <1>1 DEF IdentityInv, TidyInv, IdentityBeforeExecution, CleanedIsGone, LateResumes

(* The inductive invariant behind the accounts: a saved uid is that of the  *)
(* run's only Job, and what a cleaned run owned is gone or has a call late. *)
THEOREM HistoryInductive == Spec => [](SafetyInv /\ HistoryInv)
<1>1. SafetyInv /\ RecordInv /\ IdentityInv /\ TidyInv /\ [Next]_vars => IdentityInv' /\ TidyInv'
  BY NextIdentity, NextTidy
<1>2. RecordInv /\ IdentityInv /\ TidyInv => HistoryInv
  BY DEF HistoryInv
<1> QED
  BY <1>1, <1>2, RecordInductive, InitAccount, PTL DEF Spec

(* Every Job that may execute is the one its row names; and if no call is  *)
(* late, nothing is left of a cleaned run.                                 *)
THEOREM Accounted == Spec => []JobsAccounted
<1>1. SafetyInv /\ HistoryInv => JobsAccounted
  <2>1. CASE lates = 0
    BY <2>1 DEF HistoryInv, IdentityInv, TidyInv, JobsAccounted
  <2>2. CASE lates # 0
    BY <2>2 DEF HistoryInv, IdentityInv, JobsAccounted, CleanedIsGone
  <2> QED
    BY <2>1, <2>2
<1> QED
  BY <1>1, HistoryInductive, PTL

-----------------------------------------------------------------------------
(* The refinement: what a step does to the slot of the run it is about. *)

(* A run's phase only moves on. *)
LEMMA PhaseMoves ==
  ASSUME SafetyInv, SafetyInv', HowRowsChange, NEW q \in Runs
  PROVE  \/ Phase(q)' = Phase(q)
         \/ Phase(q) = "new" /\ Phase(q)' = "held" /\ \E w \in Workers : Reserve(w) /\ cur[w] = q
         \/ /\ Phase(q) = "held" /\ Phase(q)' = "released" /\ pod'[q].phase \notin LIVE
            /\ row'[q] # row[q]
<1>0. /\ row[q].state \in ACTIVE \cup TERMINAL \cup {"unborn", "deleted"}
      /\ row'[q].state \in ACTIVE \cup TERMINAL \cup {"unborn", "deleted"}
  BY DEF SafetyInv, ExecutionInv, TypeOK, DbTypeOK, Row
<1>1. row'[q].state \notin ACTIVE => pod'[q].phase \notin LIVE
  BY DEF SafetyInv, ExecutionInv, RunInv, Sound, Quiet
<1>2. CASE row'[q] = row[q]
  BY <1>2 DEF Phase
<1>3. CASE Admitted(q)
  BY <1>3 DEF Admitted, Phase, ACTIVE
<1>4. CASE Kept(q)
  <2>1. /\ Phase(q) = IF row[q].state \in ACTIVE THEN "held" ELSE "released"
        /\ Phase(q)' = IF row'[q].state \in ACTIVE THEN "held" ELSE "released"
    BY <1>4 DEF Kept, Phase, Exists, ACTIVE, TERMINAL
  <2> QED
    BY <1>1, <1>2, <1>4, <2>1 DEF Kept
<1>5. CASE Removed(q)
  <2>1. Sound(q, row[q]) /\ row[q].state # "unborn"
    BY <1>5 DEF SafetyInv, ExecutionInv, RunInv, Removed, Exists, ACTIVE, TERMINAL
  <2>2. Phase(q) = "released" /\ Phase(q)' = "released"
    BY <1>5, <2>1 DEF Removed, Phase, Sound, ACTIVE, TERMINAL
  <2> QED
    BY <2>2
<1> QED
  BY <1>2, <1>3, <1>4, <1>5, ARowChanges

(* At most one run's phase moves in a step. *)
LEMMA OnePhaseMoves ==
  ASSUME SafetyInv, HowRowsChange, NEW p \in Runs, Phase(p)' # Phase(p), NEW q \in Runs, q # p
  PROVE  Phase(q)' = Phase(q)
<1>0. row \in [Runs -> Row]
  BY DEF SafetyInv, ExecutionInv, TypeOK, DbTypeOK
<1>1. row'[p] # row[p]
  BY DEF Phase
<1>2. ASSUME NEW w \in Workers, Reserve(w) PROVE row'[q] = row[q]
  BY <1>0, <1>1, <1>2 DEF Reserve
<1>3. ASSUME NEW r \in Runs, NEW new \in Row, Written(r, new) PROVE row'[q] = row[q]
  BY <1>0, <1>1, <1>3 DEF Written, Store
<1>4. ASSUME NEW w \in Workers, DelRows(w) PROVE FALSE
  <2>1. Removed(p) /\ Sound(p, row[p])
    BY <1>1, <1>4, RemovedRows DEF SafetyInv, ExecutionInv, RunInv
  <2> QED
    BY <2>1 DEF Removed, Phase, Sound, ACTIVE, TERMINAL
<1>5. ASSUME NEW w \in Workers, DelInstanceRow(w) PROVE FALSE
  BY <1>1, <1>5 DEF DelInstanceRow
<1>6. row'[q] = row[q]
  BY <1>1, <1>2, <1>3, <1>4, <1>5 DEF HowRowsChange
<1> QED
  BY <1>6 DEF Phase

(* Benchmarks begin and end one at a time, and in no step that writes rows. *)
LEMMA PodChanges ==
  ASSUME TypeOK, [Next]_vars
  PROVE  \/ \A q \in Runs : pod'[q].phase = pod[q].phase
         \/ /\ row' = row
            /\ \E r \in Runs : \A q \in Runs : q # r => pod'[q].phase = pod[q].phase
<1>0. pod \in [Runs -> Pod]
  BY DEF TypeOK, KubeTypeOK
<1>1. CASE pod' = pod
  BY <1>1
<1>2. ASSUME NEW r \in Runs, ServeDeletePod(r)
      PROVE  \A q \in Runs : pod'[q].phase = pod[q].phase
  BY <1>0, <1>2 DEF ServeDeletePod, Pod
<1>3. ASSUME NEW r \in Runs, KubeStep(r)
      PROVE  row' = row /\ \A q \in Runs : q # r => pod'[q].phase = pod[q].phase
  BY <1>0, <1>3 DEF KubeStep, Kubernetes, PodCreated, PodStarted, PodFinished, JobConcluded,
       JobTooLong, PodGone, JobGone, dbVars
<1>4. CASE Next
  <2>1. ASSUME NEW w \in Workers, \/ Request(w) \/ Looping(w) \/ Starting(w) \/ Deleting(w) \/ Failure(w)
        PROVE  pod' = pod
    <3>1. CASE Request(w) \/ Looping(w)
      BY <3>1 DEF Request, Start, Stop, Observe, DeleteInstance, Looping, LoopPass, LoopNext, kubeVars
    <3>2. CASE Starting(w) \/ PrepareFailed(w)
      BY <3>2 DEF Starting, Build, Reserve, ReserveConflict, LockPrepare, Prepare, PrepareFailed, kubeVars
    <3>3. CASE Deleting(w) \/ DelAborted(w)
      BY <3>3 DEF Deleting, DelNext, DelCheck, DelConflict, DelRows, DelInstanceRow, DelAborted, kubeVars
    <3>4. CASE CreateRejected(w) \/ CallFailed(w) \/ TimedOut(w) \/ Crash(w)
      BY <3>4 DEF CreateRejected, WriteOnly, CallFailed, TimedOut, Crash, kubeVars
    <3> QED
      BY <2>1, <3>1, <3>2, <3>3, <3>4 DEF Failure
  <2>2. ASSUME NEW w \in Workers, Pass(w) PROVE pod' = pod \/ DeletePods(w)
    BY <2>2 DEF Pass, Reconcile, ReadJob, ReadPods, SaveSnapshot, Cancelled, PreparationInterrupted,
         AdoptJob, Create, Resume, JobDisappeared, AwaitDeletion, JobEnded, Progress, DeleteJob,
         Cleanup, Commit, WriteOnly, kubeVars
  <2>3. ASSUME NEW w \in Workers, DeletePods(w) PROVE cur[w] \in Runs /\ ServeDeletePod(cur[w])
    BY <2>3 DEF DeletePods, WantsDelete, Acting, TypeOK, WorkerTypeOK, RunPc, LockedPc
  <2>4. ASSUME NEW r \in Runs, OutsideStep(r) PROVE pod' = pod \/ ServeDeletePod(r)
    BY <2>4 DEF OutsideStep, Interference
  <2>5. ASSUME NEW c \in late, LateCall(c) PROVE pod' = pod \/ (c.run \in Runs /\ ServeDeletePod(c.run))
    BY <2>5 DEF LateCall, TypeOK, Call
  <2>6. ASSUME NEW r \in Runs, Tick(r) PROVE pod' = pod
    BY <2>6 DEF Tick, kubeVars
  <2>7. LegacyGone => pod' = pod
    BY DEF LegacyGone, kubeVars
  <2>8. CASE \E w \in Workers : Pass(w)
    BY <1>1, <1>2, <2>2, <2>3, <2>8
  <2>9. CASE \/ \E r \in Runs : KubeStep(r) \/ OutsideStep(r) \/ Tick(r)
             \/ \E c \in late : LateCall(c)
    BY <1>1, <1>2, <1>3, <2>4, <2>5, <2>6, <2>9
  <2>10. CASE \/ \E w \in Workers : \/ Request(w) \/ Looping(w) \/ Starting(w)
                                    \/ Deleting(w) \/ Failure(w)
              \/ LegacyGone
    BY <1>1, <2>1, <2>7, <2>10
  <2> QED
    BY <1>4, <2>8, <2>9, <2>10 DEF Next
<1> QED
  BY <1>1, <1>4 DEF vars

LEMMA SlotStep ==
  ASSUME SafetyInv, SafetyInv', HowRowsChange, [Next]_vars
  PROVE  [Slots!Next]_(Slots!vars)
<1> DEFINE phases == [r \in Runs |-> Phase(r)]
           executes == {r \in Runs : pod[r].phase \in LIVE}
<1>0. TypeOK /\ \A r \in Runs : pod'[r].phase \in LIVE => row'[r].state \in ACTIVE
  BY DEF SafetyInv, ExecutionInv, RunInv, Sound, Quiet
<1>1. CASE /\ row' = row
           /\ \E r \in Runs : \A q \in Runs : q # r => pod'[q].phase = pod[q].phase
  <2>1. PICK r \in Runs : \A q \in Runs : q # r => pod'[q].phase = pod[q].phase
    BY <1>1
  <2>2. phases' = phases
    BY <1>1 DEF Phase
  <2>3. CASE pod'[r].phase \in LIVE
    <3>1. phases[r] = "held"
      BY <1>0, <1>1, <2>3 DEF Phase, ACTIVE
    <3>2. executes' = executes \cup {r}
      BY <2>1, <2>3
    <3>3. Slots!Begin(r)
      BY <2>2, <3>1, <3>2 DEF Slots!Begin
    <3> QED
      BY <3>3 DEF Slots!Next
  <2>4. CASE pod'[r].phase \notin LIVE
    <3>1. executes' = executes \ {r}
      BY <2>1, <2>4
    <3>2. Slots!Cease(r)
      BY <2>2, <3>1 DEF Slots!Cease
    <3> QED
      BY <3>2 DEF Slots!Next
  <2> QED
    BY <2>3, <2>4
<1>2. CASE \A q \in Runs : pod'[q].phase = pod[q].phase
  <2>1. executes' = executes
    BY <1>2
  <2>2. CASE \A q \in Runs : Phase(q)' = Phase(q)
    <3>1. phases' = phases
      BY <2>2
    <3> QED
      BY <2>1, <3>1 DEF Slots!vars
  <2>3. ASSUME NEW p \in Runs, Phase(p)' # Phase(p)
        PROVE  Slots!Next
    <3>1. \A q \in Runs : q # p => Phase(q)' = Phase(q)
      BY <2>3, OnePhaseMoves
    <3>2. phases' = [phases EXCEPT ![p] = Phase(p)']
      BY <3>1
    <3>3. CASE /\ Phase(p) = "new" /\ Phase(p)' = "held"
               /\ \E w \in Workers : Reserve(w) /\ cur[w] = p
      <4>1. ~ActiveIn(Slot(p))
        BY <3>3 DEF Reserve, CanReserve
      <4>2. \A q \in Runs : Slot(q) = Slot(p) => phases[q] # "held"
        BY <4>1 DEF ActiveIn, Phase
      <4>3. Slots!Admit(p)
        BY <2>1, <3>2, <3>3, <4>2 DEF Slots!Admit, Slots!Free
      <4> QED
        BY <4>3 DEF Slots!Next
    <3>4. CASE Phase(p) = "held" /\ Phase(p)' = "released" /\ pod'[p].phase \notin LIVE
      <4>1. Slots!Release(p)
        BY <1>2, <2>1, <3>2, <3>4 DEF Slots!Release
      <4> QED
        BY <4>1 DEF Slots!Next
    <3> QED
      BY <2>3, <3>3, <3>4, PhaseMoves
  <2> QED
    BY <2>2, <2>3
<1> QED
  BY <1>0, <1>1, <1>2, PodChanges

(* Rows, locks, Jobs and pods together implement the benchmark slot. *)
THEOREM SlotRefinement == Spec => ImplementsSlots
<1>1. Init => Slots!Init
  BY DEF Init, Slots!Init, Phase, NewRow, NoPod, LIVE
<1>2. SafetyInv /\ SafetyInv' /\ RecordInv /\ [Next]_vars => [Slots!Next]_(Slots!vars)
  BY RowChanges, SlotStep
<1> QED
  BY <1>1, <1>2, RecordInductive, PTL DEF Spec, ImplementsSlots, Slots!Spec
=============================================================================
