------------------------------- MODULE Mlflow -------------------------------
(***************************************************************************)
(* The one installation of MLflow: triton-backend/app/services/mlflow/     *)
(* installer.py, kubernetes.py and migration.py.                           *)
(*                                                                         *)
(* Installing saves the row, applies Secrets, Deployment and Service,      *)
(* waits for a pod and saves the outcome.  Upgrading applies them again,   *)
(* from what the Secrets say, waits for the rollout, and then gives every  *)
(* workspace access (Workspaces).  Both hold a lock of their process.      *)
(* Uninstalling does not: it deletes the objects one by one and then the   *)
(* row.  A task in every process upgrades an old or interrupted one every  *)
(* minute.                                                                 *)
(*                                                                         *)
(* There is one installation name.  The namespace, the pull Secret and the *)
(* PersistentVolumeClaim of old installations are left out; a Service      *)
(* holds nothing that a property speaks of.  A token is the number of its  *)
(* drawing.                                                                *)
(***************************************************************************)
EXTENDS Backend

VARIABLES
  installing,  \* the processes whose _install_lock is held
  storage,     \* the storage Secret: the profile and the version it was taken from
  gateway,     \* the gateway Secret: its token
  deployment,  \* the Deployment: gw is the token its checksum was made from, None without a gateway
  pod          \* its pod, with what it read when it started

mlflowVars == <<installing, storage, gateway, deployment, pod>>

MyLock(x) == BackendOf[x]
(* Those between acquire() and release(). *)
Holds(x)  == \/ pc[x] \in {"install_save", "install_failed", "install_forget", "upgrade_read", "apply_token",
                           "apply_storage", "apply_gateway", "apply_deployment", "apply_wait", "apply_done",
                           "upgrade_save", "upgrade_failed"}
             \/ loc[x].up /\ pc[x] \in {"enable", "enable_patch", "enable_set"}

Settings == (Profiles \X Nat) \cup {None}
MlflowTypes ==
  /\ installing \in SUBSET {BackendOf[x] : x \in Procs}
  /\ storage \in Settings /\ gateway \in Token
  /\ deployment # None => deployment \in [gw : Token]
  /\ pod # None => pod \in [gw : Token, token : Token, storage : Settings]

MlflowLabels == {"install_save", "install_failed", "install_forget", "apply_token", "apply_storage",
                 "apply_gateway", "apply_deployment", "apply_wait", "apply_done", "delete_deployment",
                 "delete_gateway", "delete_storage", "uninstall_row", "read_deployment", "read_gateway",
                 "upgrade", "upgrade_read", "upgrade_save", "upgrade_failed"}

(* One handler of a process at a time is between acquire() and release(),   *)
(* and holds the lock.                                                     *)
OneInstalls ==
  /\ \A x \in Procs : Holds(x) => BackendOf[x] \in installing
  /\ \A x, y \in Procs : Holds(x) /\ Holds(y) /\ BackendOf[x] = BackendOf[y] => x = y

MlflowInit(s) ==
  /\ installing = {}
  /\ storage = s.storage /\ gateway = s.gateway /\ deployment = s.deployment /\ pod = s.pod

Cluster  == UNCHANGED <<storage, gateway, deployment, pod>>
Release(x) == installing' = installing \ {MyLock(x)}
SetStatus(status) == mlflow' = [mlflow EXCEPT !.status = status]

-----------------------------------------------------------------------------
(* install_mlflow() *)

(* Somebody else installs in this process, or there is an installation:    *)
(* refused.                                                                *)
InstallMlflow(c) ==
  /\ Begin(c, "install")
  /\ MyLock(c) \notin installing /\ mlflow = None
  /\ \E p \in Profiles :
       /\ profiles[p].state = "live"
       /\ Goto(c, "install_save", [NoLocal EXCEPT !.p = p, !.storage = <<p, profiles[p].v>>])
  /\ installing' = installing \cup {MyLock(c)}
  /\ Cluster /\ UNCHANGED <<profiles, mlflow>>

(* The row has a fixed id: another process may have inserted it. *)
InstallSave(c) ==
  /\ At(c, "install_save")
  /\ IF mlflow = None /\ profiles[loc[c].p].state = "live"
     THEN /\ mlflow' = [profile |-> loc[c].p, status |-> "creating"]
          /\ Goto(c, "apply_token", loc[c]) /\ installing' = installing
     ELSE End(c) /\ Release(c) /\ mlflow' = mlflow
  /\ Quiet /\ Cluster /\ UNCHANGED <<profiles, fresh>>

InstallDone(c) ==
  /\ At(c, "apply_done") /\ ~loc[c].up
  /\ IF mlflow = None THEN Goto(c, "install_failed", loc[c]) /\ UNCHANGED <<mlflow, installing>>
     ELSE SetStatus("ready") /\ End(c) /\ Release(c)
  /\ Quiet /\ Cluster /\ UNCHANGED <<profiles, fresh>>

(* The failure is saved, then the row goes; the objects stay. *)
InstallFailed(c) ==
  /\ At(c, "install_failed")
  /\ IF mlflow = None THEN End(c) /\ Release(c) /\ mlflow' = mlflow
     ELSE SetStatus("failed") /\ Goto(c, "install_forget", loc[c]) /\ installing' = installing
  /\ Quiet /\ Cluster /\ UNCHANGED <<profiles, fresh>>
InstallForget(c) ==
  /\ At(c, "install_forget")
  /\ mlflow' = None /\ End(c) /\ Release(c)
  /\ Quiet /\ Cluster /\ UNCHANGED <<profiles, fresh>>

-----------------------------------------------------------------------------
(* apply_installation_resources() *)

ApplyError(x) == IF loc[x].up THEN "upgrade_failed" ELSE "install_failed"

(* _gateway_token(): the one there is, or a new one. *)
ApplyToken(x) ==
  /\ At(x, "apply_token")
  /\ IF gateway # None THEN fresh' = fresh /\ Goto(x, "apply_storage", [loc[x] EXCEPT !.tok = gateway])
     ELSE Draw /\ Goto(x, "apply_storage", [loc[x] EXCEPT !.tok = fresh])
  /\ Quiet /\ Cluster /\ UNCHANGED <<profiles, mlflow, installing>>

(* _manifests(): "the gateway configuration must exist before its pod is   *)
(* scheduled", so Secrets come first.                                      *)
ApplyStorage(x) ==
  /\ At(x, "apply_storage")
  /\ Call(x, storage' = loc[x].storage, UNCHANGED storage, "apply_gateway", ApplyError(x), loc[x])
  /\ UNCHANGED <<profiles, mlflow, fresh, installing, gateway, deployment, pod>>
ApplyGateway(x) ==
  /\ At(x, "apply_gateway")
  /\ Call(x, gateway' = loc[x].tok, UNCHANGED gateway, "apply_deployment", ApplyError(x), loc[x])
  /\ UNCHANGED <<profiles, mlflow, fresh, installing, storage, deployment, pod>>
ApplyDeployment(x) ==
  /\ At(x, "apply_deployment")
  /\ Call(x, deployment' = [gw |-> loc[x].tok], UNCHANGED deployment, "apply_wait", ApplyError(x), loc[x])
  /\ UNCHANGED <<profiles, mlflow, fresh, installing, storage, gateway, pod>>

(* _wait_for_ready_pod(); an upgrade also waits for the rollout and for    *)
(* the gateway (_wait_for_current_deployment(), _wait_for_gateway()).      *)
NoPodComes == None \in {deployment, storage, gateway}
Current == deployment # None /\ pod # None /\ pod.gw = deployment.gw
ApplyWait(x) ==
  /\ At(x, "apply_wait")
  /\ \/ /\ pod # None /\ (loc[x].up => Current /\ pod.token = gateway)
        /\ Goto(x, "apply_done", loc[x]) /\ faults' = faults
     \/ /\ Goto(x, ApplyError(x), loc[x])      \* a timeout: it may be in vain to wait
        /\ IF NoPodComes \/ (loc[x].up /\ Current /\ pod.token # gateway) THEN faults' = faults
           ELSE faults < MaxFaults /\ faults' = faults + 1
  /\ UNCHANGED <<ops, sent>> /\ Cluster /\ UNCHANGED <<profiles, mlflow, fresh, installing>>

-----------------------------------------------------------------------------
(* uninstall_mlflow(), delete_installation_resources() *)

UninstallMlflow(c) ==
  /\ Begin(c, "uninstall")
  /\ mlflow # None /\ SetStatus("deleting")
  /\ Goto(c, "delete_deployment", NoLocal)
  /\ Cluster /\ UNCHANGED <<profiles, installing>>

(* An error ends the request with the row in place. *)
DeleteDeployment(c) ==
  /\ At(c, "delete_deployment")
  /\ Call(c, deployment' = None, UNCHANGED deployment, "delete_gateway", "idle", loc[c])
  /\ UNCHANGED <<profiles, mlflow, fresh, installing, storage, gateway, pod>>
DeleteGateway(c) ==
  /\ At(c, "delete_gateway")
  /\ Call(c, gateway' = None, UNCHANGED gateway, "delete_storage", "idle", loc[c])
  /\ UNCHANGED <<profiles, mlflow, fresh, installing, storage, deployment, pod>>
DeleteStorage(c) ==
  /\ At(c, "delete_storage")
  /\ Call(c, storage' = None, UNCHANGED storage, "uninstall_row", "idle", loc[c])
  /\ UNCHANGED <<profiles, mlflow, fresh, installing, gateway, deployment, pod>>
UninstallRow(c) ==
  /\ At(c, "uninstall_row")
  /\ mlflow' = None /\ End(c) /\ Quiet
  /\ Cluster /\ UNCHANGED <<profiles, fresh, installing>>

-----------------------------------------------------------------------------
(* reconcile(), upgrade_mlflow_tracking() *)

UpgradeRequest(c) ==
  /\ Begin(c, "upgrade")
  /\ Goto(c, "upgrade", [NoLocal EXCEPT !.up = TRUE])
  /\ Cluster /\ UNCHANGED <<profiles, mlflow, installing>>

(* Only an installation without a gateway is upgraded. *)
BadReconcile_NoRetry(k) ==
  /\ k \in Reconcilers /\ At(k, "idle") /\ mlflow # None
  /\ mlflow.status # "deleting"
  /\ Goto(k, "read_deployment", [NoLocal EXCEPT !.up = TRUE])
  /\ Quiet /\ Cluster /\ UNCHANGED <<profiles, mlflow, fresh, installing>>

(* An interrupted upgrade is tried again, whatever there is. *)
Reconcile(k) ==
  /\ k \in Reconcilers /\ At(k, "idle") /\ mlflow # None
  /\ mlflow.status # "deleting"
  /\ Goto(k, IF mlflow.status = "upgrading" THEN "upgrade" ELSE "read_deployment",
          [NoLocal EXCEPT !.up = TRUE])
  /\ Quiet /\ Cluster /\ UNCHANGED <<profiles, mlflow, fresh, installing>>

(* tracking_upgrade_required() *)
ReadDeployment(k) ==
  /\ At(k, "read_deployment")
  /\ CASE deployment = None -> End(k)
       [] deployment # None /\ deployment.gw = None -> Goto(k, "upgrade", loc[k])
       [] deployment # None /\ deployment.gw # None -> Goto(k, "read_gateway", loc[k])
  /\ Quiet /\ Cluster /\ UNCHANGED <<profiles, mlflow, fresh, installing>>
ReadGateway(k) ==
  /\ At(k, "read_gateway")
  /\ IF gateway = None THEN Goto(k, "upgrade", loc[k]) ELSE End(k)
  /\ Quiet /\ Cluster /\ UNCHANGED <<profiles, mlflow, fresh, installing>>

(* What the status was is not looked at. *)
Upgrade(x) ==
  /\ At(x, "upgrade")
  /\ IF MyLock(x) \in installing \/ mlflow = None
     THEN End(x) /\ UNCHANGED <<mlflow, installing>>
     ELSE /\ installing' = installing \cup {MyLock(x)}
          /\ SetStatus("upgrading") /\ Goto(x, "upgrade_read", loc[x])
  /\ Quiet /\ Cluster /\ UNCHANGED <<profiles, fresh>>

(* upgrade_installation_resources(): the storage Secret has to be there. *)
UpgradeRead(x) ==
  /\ At(x, "upgrade_read")
  /\ IF storage = None THEN Goto(x, "upgrade_failed", loc[x])
     ELSE Goto(x, "apply_token", [loc[x] EXCEPT !.storage = storage])
  /\ Quiet /\ Cluster /\ UNCHANGED <<profiles, mlflow, fresh, installing>>

(* After the workspaces; an error leaves the status for the next attempt. *)
UpgradeDone(x) ==
  /\ At(x, "upgrade_save")
  /\ mlflow' = IF mlflow = None THEN mlflow ELSE [mlflow EXCEPT !.status = "ready"]
  /\ End(x) /\ Release(x)
  /\ Quiet /\ Cluster /\ UNCHANGED <<profiles, fresh>>
UpgradeFailed(x) ==
  /\ At(x, "upgrade_failed")
  /\ End(x) /\ Release(x)
  /\ Quiet /\ Cluster /\ UNCHANGED <<profiles, mlflow, fresh>>

-----------------------------------------------------------------------------
(* The cluster: a pod of another template is replaced, and reads the       *)
(* Secrets when it starts.                                                 *)
PodStarts ==
  /\ deployment # None /\ storage # None /\ (deployment.gw # None => gateway # None)
  /\ pod # None => pod.gw # deployment.gw
  /\ pod' = [gw |-> deployment.gw, token |-> IF deployment.gw = None THEN None ELSE gateway,
             storage |-> storage]
  /\ Quiet /\ Stay /\ UNCHANGED <<profiles, mlflow, fresh, installing, storage, gateway, deployment>>
PodStops ==
  /\ pod # None /\ deployment = None
  /\ pod' = None
  /\ Quiet /\ Stay /\ UNCHANGED <<profiles, mlflow, fresh, installing, storage, gateway, deployment>>

MlflowBegin(c) == InstallMlflow(c) \/ UninstallMlflow(c) \/ UpgradeRequest(c)
MlflowStep(x)  ==
  \/ InstallSave(x) \/ InstallDone(x) \/ InstallFailed(x) \/ InstallForget(x)
  \/ ApplyToken(x) \/ ApplyStorage(x) \/ ApplyGateway(x) \/ ApplyDeployment(x) \/ ApplyWait(x)
  \/ DeleteDeployment(x) \/ DeleteGateway(x) \/ DeleteStorage(x) \/ UninstallRow(x)
  \/ ReadDeployment(x) \/ ReadGateway(x) \/ Upgrade(x) \/ UpgradeRead(x)
  \/ UpgradeDone(x) \/ UpgradeFailed(x)
=============================================================================
