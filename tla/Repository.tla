----------------------------- MODULE Repository -----------------------------
(***************************************************************************)
(* Model repositories in S3: users of the VS Code extension and of the     *)
(* backend's S3 browser change objects, one against the other and while a  *)
(* deployment synchronizes a folder of them.                               *)
(***************************************************************************)
EXTENDS S3Transfers, RepositorySync

CONSTANT Seeds \* states from which the run starts

(* Whatever is in the bucket, /staging and /models are empty. *)
ASSUME SeedsAssumption ==
  Seeds \subseteq [bucket : [Keys -> Contents \cup {None}], begun : 0..MaxRequests, faults : 0..MaxFaults,
                  mode : {"off", "init", "sidecar"}, direct : BOOLEAN]

vars == <<objectVars, transferVars, syncVars>>

TypeOK == ObjectTypes /\ TransferTypes /\ SyncTypes

Init ==
  \E s \in Seeds :
    /\ bucket = s.bucket /\ begun = s.begun /\ forgone = {}
    /\ op = [u \in Users |-> None] /\ faults = s.faults
    /\ mode = s.mode /\ direct = s.direct
    /\ staging = [n \in Names |-> None] /\ newer = {}
    /\ models = [n \in Names |-> None] /\ ready = FALSE
    /\ phase = "list" /\ todo = {}
    /\ whole = FALSE /\ triton = "waiting"

Objects(A) == A /\ UNCHANGED syncVars
Sync(A)    == A /\ UNCHANGED <<objectVars, transferVars>>

Next ==
  \/ \E u \in Users : Objects(Begin(u) \/ Work(u) \/ Stop(u) \/ AnswerLost(u))
  \/ Objects(\E k \in Keys : (BackendDelete(k) \/ \E c \in Contents : BackendPut(k, c)) /\ UNCHANGED transferVars)
  \/ Sync(Script)
  \/ Sync(TritonStarts)
  \/ ScriptRestarts /\ faults < MaxFaults /\ faults' = faults + 1 /\ UNCHANGED <<objectVars, op>>

Spec == Init /\ [][Next]_vars

(* The script runs, and is started again.  Nobody has to use the objects. *)
FairSpec == Spec /\ WF_vars(Sync(Script))
=============================================================================
