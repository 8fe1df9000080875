------------------------------ MODULE Platform ------------------------------
(***************************************************************************)
(* S3 profiles with their workflow credentials, MLflow, development        *)
(* workspaces and workflow submissions, served by the same handlers: an    *)
(* edit of a profile meets an installation that reads it, and an upgrade   *)
(* of MLflow goes through the workspaces that come and go.                 *)
(***************************************************************************)
EXTENDS S3Profiles, Mlflow, Workspaces, Workflows

vars == <<backendVars, s3Vars, mlflowVars, workspaceVars, workflowVars>>

(* The locals of a handler, and which of them its place needs.              *)
Local == [p : Profiles \cup {None}, v : Nat, c : Creds \cup {None}, known : Marks,
          todo : SUBSET (Creds \cup Workloads), err : Marks, w : Workloads \cup {None},
          keys : SUBSET Keys, missing : SUBSET Keys, tok : Nat, storage : Settings,
          up : BOOLEAN, wf : Flows \cup {None}]
Labels == {"idle"} \cup S3Labels \cup MlflowLabels \cup SpaceLabels \cup FlowLabels

OnProfile == {"update_flush", "update_commit", "profile_delete", "sync_lock", "sync_secret",
              "sync_repository", "install_save"}
OnCredential == {"credential_secret", "credential_insert", "credential_undo", "delete_repository",
                 "delete_secret", "delete_row", "sync_repository"}
OnWorkload == SpaceLabels \ {"enable"}

Fits(label, l) ==
  /\ label \in OnProfile => l.p \in Profiles
  /\ label \in OnCredential => l.c \in Creds
  /\ l.c # None => label \in OnCredential \cup {"sync_lock"}
  /\ label \in {"sync_secret", "sync_repository"} => l.todo \subseteq DOMAIN l.err /\ DOMAIN l.known = DOMAIN l.err
  /\ label = "sync_repository" => l.c \in l.todo
  /\ label \in OnWorkload => l.w \in Workloads
  /\ l.w # None => label \in OnWorkload \cup {"upgrade_failed"}
  /\ label \in SpaceLabels => l.todo \subseteq Workloads
  /\ label \in FlowLabels => l.wf \in Flows
  /\ l.wf # None => label \in FlowLabels

Handlers ==
  /\ pc \in [Procs -> Labels] /\ loc \in [Procs -> Local]
  /\ \A x \in Procs : Fits(pc[x], loc[x])

TypeOK == Handlers /\ BackendTypes /\ S3Types /\ MlflowTypes /\ WorkspaceTypes /\ WorkflowTypes

PlatformInv == TypeOK /\ OneInstalls /\ FlowInv /\ SpaceInv /\ ProfileInv

(* A seed is a state that requests have led to, with nobody at work: linked *)
(* credentials that are not marked are current, MLflow has what its types    *)
(* say, a workspace has a StatefulSet only with a row, and the pods of a     *)
(* StatefulSet have the tokens of the Secret.  An empty platform is one.     *)
AtRest(s) ==
  /\ s.profiles \in [Profiles -> ProfileRow] /\ s.mlflow \in MlflowRow \cup {None}
  /\ {s.sent, s.faults} \subseteq Nat
  /\ s.creds \in [Creds -> CredRow] /\ s.secret \in [Creds -> Token] /\ s.cmap \in [Creds -> Token]
  /\ \A r \in Creds : s.creds[r].state = "live" /\ s.creds[r].profile # None =>
       LET p == s.profiles[s.creds[r].profile]
       IN p.state = "live" /\ (s.creds[r].err = "" => {s.secret[r], s.cmap[r]} \subseteq {None, p.v})
  /\ s.storage \in Settings /\ s.gateway \in Token
  /\ s.deployment # None => s.deployment \in [gw : Token]
  /\ s.pod # None => s.pod \in [gw : Token, token : Token, storage : Settings]
  /\ s.rowOf \in SUBSET Workloads
  /\ s.tokens \in [Workloads -> [Keys -> Token] \cup {None}]
  /\ s.sts \in [Workloads -> [uid : 0..8, env : SUBSET Keys] \cup {None}]
  /\ s.wpod = [w \in Workloads |-> s.wpod[w]]
  /\ \A w \in Workloads :
       /\ s.sts[w] # None => w \in s.rowOf
       /\ s.wpod[w] # None =>
            /\ s.wpod[w].uid \in 0..8 /\ s.wpod[w].env \in SUBSET Keys
            /\ DOMAIN s.wpod[w].token = s.wpod[w].env
            /\ s.sts[w] # None /\ s.tokens[w] # None /\ s.wpod[w].uid = s.sts[w].uid =>
                 \A k \in s.wpod[w].env : s.tokens[w][k] # None /\ s.wpod[w].token[k] = s.tokens[w][k]
ASSUME SeedsAssumption == \A s \in Seeds : AtRest(s)

Init ==
  \E s \in Seeds : BackendInit(s) /\ S3Init(s) /\ MlflowInit(s) /\ WorkspaceInit(s) /\ WorkflowInit(s)

(* The process of a handler dies: locks are released, and what is not      *)
(* committed is undone.                                                    *)
Crash(x) ==
  /\ ~At(x, "idle") /\ faults < MaxFaults
  /\ faults' = faults + 1
  /\ Rollback(x) /\ Abandon(x)
  /\ installing' = IF \E y \in Procs \ {x} : BackendOf[y] = BackendOf[x] /\ Holds(y)
                   THEN installing ELSE installing \ {BackendOf[x]}
  /\ End(x)
  /\ UNCHANGED <<ops, profiles, mlflow, fresh, sent, creds, secret, cmap, storage, gateway, deployment, pod,
                 rowOf, tokens, sts, wpod, flows>>

S3(A)        == A /\ UNCHANGED <<mlflowVars, workspaceVars, workflowVars>>
Tracking(A)  == A /\ UNCHANGED <<s3Vars, workspaceVars, workflowVars>>
Workspace(A) == A /\ UNCHANGED <<s3Vars, mlflowVars, workflowVars>>
Workflow(A)  == A /\ UNCHANGED <<s3Vars, mlflowVars, workspaceVars>>

Step(x) == S3(S3Step(x)) \/ Tracking(MlflowStep(x)) \/ Workspace(WorkspaceStep(x)) \/ Workflow(WorkflowStep(x))
Clusters == \/ Tracking(PodStarts \/ PodStops)
            \/ \E w \in Workloads : Workspace(WorkspaceStarts(w) \/ WorkspaceStops(w))

Next ==
  \/ \E c \in Clients : \/ S3(S3Begin(c)) \/ Tracking(MlflowBegin(c))
                        \/ Workspace(WorkspaceBegin(c)) \/ Workflow(WorkflowBegin(c))
  \/ \E k \in Reconcilers : Tracking(Reconcile(k))
  \/ \E x \in Procs : Step(x) \/ Crash(x)
  \/ Clusters
  \/ \E w \in Workloads : Workspace(WorkspaceRestarts(w))
  \/ \E f \in Flows : Workflow(WorkflowGone(f))

Spec == Init /\ [][Next]_vars

(* A handler that runs goes on, the task is started every minute, and the  *)
(* cluster starts and replaces pods.  Nobody has to send a request.        *)
FairSpec == /\ Spec
            /\ \A x \in Procs : WF_vars(Step(x))
            /\ \A k \in Reconcilers : WF_vars(Tracking(Reconcile(k)))
            /\ WF_vars(Clusters)

-----------------------------------------------------------------------------
(* test_interrupted_upgrade_is_retried_even_with_gateway_present: an       *)
(* upgrade of MLflow that fails or dies half way is completed by the task, *)
(* or somebody uninstalls MLflow, unless it is hindered from then on: the  *)
(* storage Secret is gone, a workspace that is listed has lost its         *)
(* objects, or the pod was started between two upgrades in two processes   *)
(* and keeps the token of one behind the checksum of the other.            *)
Upgrading == mlflow # None /\ mlflow.status = "upgrading"
Hindered  == \/ storage = None \/ \E w \in rowOf : tokens[w] = None \/ sts[w] = None
             \/ Current /\ pod.token # gateway
UpgradeEnds == Upgrading ~> (~Upgrading \/ []Hindered)
=============================================================================
