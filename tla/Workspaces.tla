----------------------------- MODULE Workspaces -----------------------------
(***************************************************************************)
(* Development workspaces: triton-backend/app/services/development/        *)
(* workspaces.py and kubernetes.py, and the access to MLflow and Argo that *)
(* existing ones are given (enable_mlflow_tracking(), enable_argo_access()).*)
(*                                                                         *)
(* Creating a workspace applies a Secret with new tokens, a StatefulSet    *)
(* and a Service, and then inserts the row; deleting one removes them in   *)
(* turn and then the row.  The objects carry the owner's id and the name   *)
(* of the workspace, so a second creation addresses the same ones.  A pod  *)
(* reads its tokens from the Secret when it starts, and Triton Control     *)
(* compares what it sends with what the Secret says at that time.          *)
(*                                                                         *)
(* A Secret has two tokens here: "tracking", for MLflow, with which the    *)
(* token for deployments comes and goes, and "argo"; the one for profiles  *)
(* is never missing.  The ConfigMap with the extension, the pull Secret    *)
(* and the Ingress hold nothing a property speaks of, and neither does the *)
(* status that a request for the row refreshes.                            *)
(***************************************************************************)
EXTENDS Backend

CONSTANTS
  Workloads,  \* names of the objects: an owner and a name
  OwnerOf     \* the owner in the name

ASSUME WorkloadsAssumption == None \notin Workloads

VARIABLES
  rowOf,   \* the workloads that have a row in code_servers
  tokens,  \* the Secret: a token, or none, for every key
  sts,     \* the StatefulSet: when it was created, and the keys in its environment
  wpod,    \* its pod: of which StatefulSet, with which keys and tokens
  calm     \* history: no two handlers were at work on it at a time, and none left a creation undone

workspaceVars == <<rowOf, tokens, sts, wpod, calm>>

Keys == {"tracking", "argo"}

WorkspaceTypes ==
  /\ rowOf \in SUBSET Workloads
  /\ tokens \in [Workloads -> [Keys -> Token] \cup {None}]
  /\ sts \in [Workloads -> [uid : Nat, env : SUBSET Keys] \cup {None}]
  /\ wpod = [w \in Workloads |-> wpod[w]]
  /\ \A w \in Workloads : wpod[w] # None =>
       wpod[w].uid \in Nat /\ wpod[w].env \in SUBSET Keys /\ DOMAIN wpod[w].token = wpod[w].env
  /\ calm \in [Workloads -> BOOLEAN]

SpaceLabels == {"workspace_secret", "workspace_set", "workspace_service", "workspace_row", "drop_set",
                "drop_secret", "drop_row", "enable", "enable_patch", "enable_set"}

WorkspaceInit(s) ==
  /\ rowOf = s.rowOf /\ tokens = s.tokens /\ sts = s.sts /\ wpod = s.wpod
  /\ calm = [w \in Workloads |-> TRUE]

WObjects == UNCHANGED <<tokens, sts, wpod>>
WTables  == UNCHANGED <<profiles, mlflow>>

Busy(w)     == \E x \in Procs : loc[x].w = w
(* A handler that starts on a workload meets another one. *)
Enters(w)   == calm' = [calm EXCEPT ![w] = @ /\ ~Busy(w)]

-----------------------------------------------------------------------------
(* create_code_server(), apply_code_server_resources() *)

(* find_first_for_owner(): one workspace for each user. *)
CreateCodeServer(c) ==
  /\ Begin(c, "create_workspace")
  /\ \E w \in Workloads :
       /\ \A r \in rowOf : OwnerOf[r] # OwnerOf[w]
       /\ Enters(w)
       /\ Goto(c, "workspace_secret", [NoLocal EXCEPT !.w = w])
  /\ WObjects /\ WTables /\ UNCHANGED rowOf

Undone(c) == calm' = [calm EXCEPT ![loc[c].w] = FALSE]

(* A creation that fails leaves what it has applied. *)
Applying(c, done, not, answered) ==
  /\ Call(c, done, not, answered, "idle", loc[c])
  /\ IF faults' = faults THEN calm' = calm ELSE Undone(c)
  /\ WTables /\ UNCHANGED rowOf

(* _secret_manifest(): new tokens, whatever is there. *)
ApplyTokens(c) ==
  /\ At(c, "workspace_secret")
  /\ Applying(c, tokens' = [tokens EXCEPT ![loc[c].w] = [k \in Keys |-> fresh]], UNCHANGED tokens,
              "workspace_set")
  /\ Draw /\ UNCHANGED <<sts, wpod>>

(* _statefulset_manifest(): with all keys; a pod is replaced only if this  *)
(* changes something.                                                      *)
ApplyStatefulSet(c) ==
  LET w == loc[c].w
  IN /\ At(c, "workspace_set")
     /\ Applying(c, sts' = [sts EXCEPT ![w] = [uid |-> IF @ = None THEN fresh ELSE @.uid, env |-> Keys]],
                 UNCHANGED sts, "workspace_service")
     /\ Draw /\ UNCHANGED <<tokens, wpod>>

ApplyService(c) ==
  /\ At(c, "workspace_service")
  /\ Applying(c, UNCHANGED sts, UNCHANGED sts, "workspace_row")
  /\ UNCHANGED <<fresh, tokens, sts, wpod>>

(* Owner and name are unique: of two creations one fails. *)
InsertWorkspace(c) ==
  LET w == loc[c].w
  IN /\ At(c, "workspace_row")
     /\ rowOf' = rowOf \cup {w}
     /\ IF w \in rowOf THEN Undone(c) ELSE calm' = calm
     /\ End(c) /\ Quiet /\ WObjects /\ WTables /\ UNCHANGED fresh

-----------------------------------------------------------------------------
(* delete_code_server(), delete_code_server_resources() *)

DeleteCodeServer(c) ==
  /\ Begin(c, "delete_workspace")
  /\ \E w \in rowOf : Enters(w) /\ Goto(c, "drop_set", [NoLocal EXCEPT !.w = w])
  /\ WObjects /\ WTables /\ UNCHANGED rowOf

(* An error ends the request with the row in place. *)
DropStatefulSet(c) ==
  /\ At(c, "drop_set")
  /\ Call(c, sts' = [sts EXCEPT ![loc[c].w] = None], UNCHANGED sts, "drop_secret", "idle", loc[c])
  /\ WTables /\ UNCHANGED <<fresh, rowOf, tokens, wpod, calm>>
DropTokens(c) ==
  /\ At(c, "drop_secret")
  /\ Call(c, tokens' = [tokens EXCEPT ![loc[c].w] = None], UNCHANGED tokens, "drop_row", "idle", loc[c])
  /\ WTables /\ UNCHANGED <<fresh, rowOf, sts, wpod, calm>>
DropRow(c) ==
  /\ At(c, "drop_row")
  /\ rowOf' = rowOf \ {loc[c].w}
  /\ End(c) /\ Quiet /\ WObjects /\ WTables /\ UNCHANGED <<fresh, calm>>

-----------------------------------------------------------------------------
(* Access for existing workspaces. *)

(* The rows are listed once.  keys: what is to be enabled. *)
List(l, keys) == [l EXCEPT !.todo = rowOf, !.keys = keys]

(* upgrade_workspaces() *)
UpgradeWorkspaces(c) ==
  /\ Begin(c, "upgrade_workspaces")
  /\ Goto(c, "enable", List(NoLocal, {"argo"}))
  /\ WObjects /\ WTables /\ UNCHANGED <<rowOf, calm>>

(* The second half of upgrade_mlflow_tracking() *)
EnableTracking(x) ==
  /\ At(x, "apply_done") /\ loc[x].up
  /\ Goto(x, "enable", List(loc[x], {"tracking"}))
  /\ Quiet /\ WObjects /\ WTables /\ UNCHANGED <<fresh, rowOf, calm>>

EnableFailed(x) == IF loc[x].up THEN "upgrade_failed" ELSE "idle"
EnableDone(x) ==
  /\ At(x, "enable") /\ loc[x].todo = {}
  /\ Goto(x, IF loc[x].up THEN "upgrade_save" ELSE "idle", loc[x])
  /\ Quiet /\ WObjects /\ WTables /\ UNCHANGED <<fresh, rowOf, calm>>

(* Every token is drawn anew. *)
BadEnableRead_Rotates(x) ==
  /\ At(x, "enable")
  /\ \E w \in loc[x].todo :
       /\ Enters(w) /\ tokens[w] # None
       /\ Goto(x, "enable_patch", [loc[x] EXCEPT !.todo = @ \ {w}, !.w = w, !.missing = loc[x].keys])
  /\ Quiet /\ WObjects /\ WTables /\ UNCHANGED <<fresh, rowOf>>

(* Which tokens the Secret lacks. *)
EnableRead(x) ==
  /\ At(x, "enable")
  /\ \E w \in loc[x].todo :
       /\ Enters(w)
       /\ IF tokens[w] = None THEN Goto(x, EnableFailed(x), loc[x])
          ELSE LET missing == {k \in loc[x].keys : tokens[w][k] = None}
               IN Goto(x, IF missing = {} THEN "enable_set" ELSE "enable_patch",
                       [loc[x] EXCEPT !.todo = @ \ {w}, !.w = w, !.missing = missing])
  /\ Quiet /\ WObjects /\ WTables /\ UNCHANGED <<fresh, rowOf>>

(* They are drawn, and written without another look. *)
EnablePatch(x) ==
  LET w == loc[x].w
  IN /\ At(x, "enable_patch")
     /\ IF tokens[w] = None THEN Refused(x, UNCHANGED <<fresh, tokens>>, EnableFailed(x), loc[x])
        ELSE /\ Draw
             /\ Call(x, tokens' = [tokens EXCEPT ![w] = [k \in Keys |->
                          IF k \in loc[x].missing THEN fresh ELSE @[k]]],
                     UNCHANGED tokens, "enable_set", EnableFailed(x), loc[x])
     /\ WTables /\ UNCHANGED <<rowOf, sts, wpod, calm>>

(* The template names them from now on, and the pod is replaced. *)
EnableStatefulSet(x) ==
  LET w == loc[x].w
  IN /\ At(x, "enable_set")
     /\ IF sts[w] = None THEN Refused(x, UNCHANGED sts, EnableFailed(x), loc[x])
        ELSE Call(x, sts' = [sts EXCEPT ![w].env = @ \cup loc[x].keys], UNCHANGED sts,
                  "enable", EnableFailed(x), [loc[x] EXCEPT !.w = None])
     /\ WTables /\ UNCHANGED <<fresh, rowOf, tokens, wpod, calm>>

-----------------------------------------------------------------------------
(* The cluster.  A pod waits for the tokens its environment refers to, and *)
(* for the pod that has its name.                                          *)
WorkspaceStarts(w) ==
  /\ wpod[w] = None /\ sts[w] # None /\ tokens[w] # None
  /\ \A k \in sts[w].env : tokens[w][k] # None
  /\ wpod' = [wpod EXCEPT ![w] = [uid |-> sts[w].uid, env |-> sts[w].env,
                                  token |-> [k \in sts[w].env |-> tokens[w][k]]]]
  /\ Quiet /\ Stay /\ WTables /\ UNCHANGED <<fresh, rowOf, tokens, sts, calm>>

WorkspaceStops(w) ==
  /\ wpod[w] # None
  /\ sts[w] # None => (wpod[w].uid # sts[w].uid \/ wpod[w].env # sts[w].env)
  /\ wpod' = [wpod EXCEPT ![w] = None]
  /\ Quiet /\ Stay /\ WTables /\ UNCHANGED <<fresh, rowOf, tokens, sts, calm>>

(* A node goes, or the container dies. *)
WorkspaceRestarts(w) ==
  /\ wpod[w] # None /\ faults < MaxFaults
  /\ faults' = faults + 1
  /\ wpod' = [wpod EXCEPT ![w] = None]
  /\ Stay /\ WTables /\ UNCHANGED <<ops, sent, fresh, rowOf, tokens, sts, calm>>

(* The handler dies: a creation is left undone. *)
Creating(x) == pc[x] \in {"workspace_secret", "workspace_set", "workspace_service", "workspace_row"}
Abandon(x)  == IF Creating(x) THEN Undone(x) ELSE calm' = calm

WorkspaceBegin(c) == CreateCodeServer(c) \/ DeleteCodeServer(c) \/ UpgradeWorkspaces(c)
WorkspaceStep(x)  ==
  \/ ApplyTokens(x) \/ ApplyStatefulSet(x) \/ ApplyService(x) \/ InsertWorkspace(x)
  \/ DropStatefulSet(x) \/ DropTokens(x) \/ DropRow(x)
  \/ EnableTracking(x) \/ EnableDone(x) \/ EnableRead(x) \/ EnablePatch(x) \/ EnableStatefulSet(x)

-----------------------------------------------------------------------------
(* What a pod sends is compared with what the Secret says; a key that its  *)
(* environment lacks is not sent.                                          *)
Sends(w, k)              == wpod[w] # None /\ k \in wpod[w].env
AuthenticateWorkload(w)  == Sends(w, "tracking") => wpod[w].token["tracking"] = tokens[w]["tracking"]
AuthenticateWorkspace(w) == Sends(w, "argo") => wpod[w].token["argo"] = tokens[w]["argo"]

(* "Without rotating other credentials": a running pod of the StatefulSet  *)
(* sends the tokens that Triton Control compares with, through upgrades    *)
(* that fail half way, restarts, and a deletion and creation of the same   *)
(* name.  Only two handlers at a time, or a creation repeated after one    *)
(* that failed, can leave a pod with a token that was replaced.            *)
TokensMatch ==
  \A w \in Workloads :
    calm[w] /\ wpod[w] # None /\ sts[w] # None /\ tokens[w] # None /\ wpod[w].uid = sts[w].uid =>
      AuthenticateWorkload(w) /\ AuthenticateWorkspace(w)

-----------------------------------------------------------------------------
(* What keeps it so: while it is calm one handler is at work on a workload; *)
(* what has no row has no StatefulSet, unless it is being created, and none *)
(* while tokens are drawn or taken away; tokens that are missing stay       *)
(* missing until they are drawn, and no pod waits for them; and a           *)
(* StatefulSet that is created is younger than every pod.                   *)
SameToken(w) ==
  wpod[w] # None /\ sts[w] # None /\ tokens[w] # None /\ wpod[w].uid = sts[w].uid =>
    \A k \in wpod[w].env : tokens[w][k] # None /\ wpod[w].token[k] = tokens[w][k]

Young(w) ==
  /\ sts[w] # None => sts[w].uid < fresh
  /\ wpod[w] # None => wpod[w].uid < fresh
Alone(w) == \A x, y \in Procs : loc[x].w = w /\ loc[y].w = w => x = y
Owned(w) ==
  w \notin rowOf /\ sts[w] # None =>
    \E x \in Procs : loc[x].w = w /\ pc[x] \in {"workspace_service", "workspace_row"}
Careful(x, w) ==
  loc[x].w = w =>
    /\ pc[x] \in {"workspace_secret", "workspace_set", "drop_secret", "drop_row"} => sts[w] = None
    /\ pc[x] = "enable_patch" => \A k \in loc[x].missing : tokens[w][k] = None

SpaceAt(w) ==
  Young(w) /\ (calm[w] => Alone(w) /\ Owned(w) /\ SameToken(w) /\ \A x \in Procs : Careful(x, w))
SpaceInv == \A w \in Workloads : SpaceAt(w)
=============================================================================
