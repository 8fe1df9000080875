----------------------------- MODULE MCPlatform -----------------------------
(* Small instances of Platform for TLC. *)
EXTENDS Platform

CONSTANTS p1, p2, r1, r2, w1, w2, c1, c2, k1

MCBackendOf == [x \in Procs |-> IF x = c1 THEN "b1" ELSE "b2"]
MCOwnerOf   == [w \in Workloads |-> "owner"]

Live(v) == [state |-> "live", v |-> v]
NoRow   == [state |-> "unborn", profile |-> None, err |-> ""]
CredOf(p, err) == [state |-> "live", profile |-> p, err |-> err]

(* Nothing but two profiles, one of them still to be created. *)
Blank ==
  [ops |-> {}, profiles |-> [p \in Profiles |-> IF p = p1 THEN Live(1) ELSE [state |-> "unborn", v |-> 0]],
   mlflow |-> None, sent |-> 0, faults |-> 1,
   creds |-> [r \in Creds |-> NoRow], secret |-> [r \in Creds |-> None], cmap |-> [r \in Creds |-> None],
   storage |-> None, gateway |-> None, deployment |-> None, pod |-> None,
   rowOf |-> {}, tokens |-> [w \in Workloads |-> None], sts |-> [w \in Workloads |-> None],
   wpod |-> [w \in Workloads |-> None]]

(* Profiles with one linked credential, in sync. *)
Credentials ==
  [Blank EXCEPT !.ops = {"create_profile", "update_profile", "delete_profile", "create_credential",
                          "delete_credential", "retry_sync"},
                !.creds[r1] = CredOf(p1, ""), !.secret[r1] = 1, !.cmap[r1] = 1]
(* A profile that is used, changed and deleted. *)
Uses == [Blank EXCEPT !.ops = {"update_profile", "delete_profile", "install", "uninstall"},
                      !.faults = MaxFaults]
(* MLflow of an old version, and a workspace that has no access. *)
OldPod == [gw |-> None, token |-> None, storage |-> <<p1, 1>>]
Legacy ==
  [Blank EXCEPT !.ops = {"upgrade", "upgrade_workspaces"}, !.sent = MaxRequests - 1,
                !.mlflow = [profile |-> p1, status |-> "ready"],
                !.storage = <<p1, 1>>, !.deployment = [gw |-> None], !.pod = OldPod,
                !.rowOf = {w1}, !.tokens[w1] = [tracking |-> None, argo |-> None],
                !.sts[w1] = [uid |-> 1, env |-> {}],
                !.wpod[w1] = [uid |-> 1, env |-> {}, token |-> <<>>]]
(* MLflow comes and goes. *)
Changing == [Legacy EXCEPT !.ops = {"install", "uninstall"}, !.sent = MaxRequests - 2, !.rowOf = {}, !.sts[w1] = None,
                           !.tokens[w1] = None, !.wpod[w1] = None]
(* Workspaces come and go. *)
Working == [Legacy EXCEPT !.sent = 0, !.ops = {"create_workspace", "delete_workspace", "upgrade_workspaces"},
                          !.mlflow = None, !.deployment = None, !.pod = None, !.storage = None]
Submitting == [Blank EXCEPT !.ops = {"submit"}, !.faults = 0]

MCSeeds == {Credentials, Uses, Legacy, Changing, Working, Submitting}
=============================================================================
