------------------------------ MODULE Backend ------------------------------
(***************************************************************************)
(* What the handlers of triton-backend share in the modules S3Profiles,    *)
(* Mlflow, Workspaces and Workflows, which Platform composes: requests and *)
(* their local variables, calls to the API server that may fail or be      *)
(* carried out without an answer, processes that die, and the tables that  *)
(* more than one component reads.                                          *)
(*                                                                         *)
(* A handler runs in one of the backend processes.  Between two calls to   *)
(* the database or the API server it does what its next step says, and     *)
(* between any two of its steps others take theirs.                        *)
(***************************************************************************)
EXTENDS Naturals, Sequences, FiniteSets, TLC

CONSTANTS
  Clients,      \* each has one request under way at most
  Reconcilers,  \* the task of services/mlflow/migration.py, one in a process
  BackendOf,    \* the process a client's request or a task runs in
  Profiles,     \* ids of S3 profiles
  None,
  Seeds,        \* states to begin with, and what is requested from there on
  MaxRequests,  \* bound: requests sent
  MaxFaults     \* bound: calls that fail, processes that die, pods that restart

Procs == Clients \cup Reconcilers

ASSUME ProcsAssumption == Clients \cap Reconcilers = {} /\ DOMAIN BackendOf = Procs
ASSUME NoneAssumption == None \notin Procs \cup Profiles \cup Nat
ASSUME BoundAssumption == {MaxRequests, MaxFaults} \subseteq Nat

VARIABLES
  ops,       \* what clients request in this behaviour
  profiles,  \* the table s3_profiles: a version counts the edits
  mlflow,    \* the table mlflow: its one row
  fresh,     \* number of tokens drawn
  pc, loc,   \* what a handler does next, and its local variables
  sent, faults

backendVars == <<ops, profiles, mlflow, fresh, pc, loc, sent, faults>>

ProfileRow == [state : {"unborn", "live", "gone"}, v : Nat]
MlflowRow  == [profile : Profiles, status : {"creating", "ready", "failed", "deleting", "upgrading"}]

(* p, v: the profile and the version of it that was read; c: a credential; *)
(* known: rows of credentials the session has loaded; todo: what is left   *)
(* to do; err: what the session will write; w: a workspace; key, tok: the  *)
(* token concerned; up: an upgrade; wf: a workflow.                        *)
NoLocal == [p |-> None, v |-> 0, c |-> None, known |-> <<>>, todo |-> {}, err |-> <<>>,
            w |-> None, keys |-> {}, missing |-> {}, tok |-> 0, storage |-> None, up |-> FALSE, wf |-> None]

Token == Nat \cup {None}

BackendTypes ==
  /\ profiles \in [Profiles -> ProfileRow]
  /\ mlflow \in MlflowRow \cup {None}
  /\ {fresh, sent, faults} \subseteq Nat

BackendInit(s) ==
  /\ ops = s.ops /\ profiles = s.profiles /\ mlflow = s.mlflow /\ faults = s.faults /\ sent = s.sent
  /\ fresh = 9   \* earlier tokens have smaller numbers
  /\ pc = [x \in Procs |-> "idle"]
  /\ loc = [x \in Procs |-> NoLocal]

At(x, label)      == pc[x] = label
Goto(x, label, l) == /\ pc' = [pc EXCEPT ![x] = label]
                     /\ loc' = [loc EXCEPT ![x] = IF label = "idle" THEN NoLocal ELSE l]
End(x)            == Goto(x, "idle", NoLocal)
Stay              == UNCHANGED <<pc, loc>>

(* A client sends a request. *)
Begin(c, op) ==
  /\ c \in Clients /\ At(c, "idle") /\ op \in ops /\ sent < MaxRequests
  /\ sent' = sent + 1
  /\ UNCHANGED <<ops, fresh, faults>>

(* A step of a handler without a call that may fail. *)
Quiet == UNCHANGED <<ops, sent, faults>>

(* A call: it is answered, it fails, or its answer is lost. *)
Call(x, done, not, answered, failed, l) ==
  /\ UNCHANGED <<ops, sent>>
  /\ \/ done /\ faults' = faults /\ Goto(x, answered, l)
     \/ faults < MaxFaults /\ faults' = faults + 1 /\ (done \/ not) /\ Goto(x, failed, l)

(* A call that is refused. *)
Refused(x, not, failed, l) == Quiet /\ not /\ Goto(x, failed, l)

(* token_urlsafe() *)
Draw == fresh' = fresh + 1
=============================================================================
