----------------------------- MODULE Workflows -----------------------------
(***************************************************************************)
(* Submissions of workflows through the Argo proxy:                        *)
(* triton-backend/app/services/workflows/proxy.py and mlflow_delegation.py.*)
(*                                                                         *)
(* Before a submission is passed on, a Secret with the owner's tokens is   *)
(* created, and the workflow's pods refer to it.  After Argo's answer the  *)
(* workflow becomes the Secret's owner; if there is none, the Secret is    *)
(* deleted.  Argo may have accepted what it seems to have failed.          *)
(*                                                                         *)
(* What a submission may say (validate_workflow()), other requests, which  *)
(* are passed on as they are, and the artifact repository that is chosen   *)
(* are left out.                                                           *)
(***************************************************************************)
EXTENDS Backend

CONSTANT Flows   \* submissions, each with its Secret

ASSUME FlowsAssumption == None \notin Flows

VARIABLE flows   \* a submission: its workflow, its Secret, and what the client was told

workflowVars == <<flows>>

(* secret: "free" has no owner; "owned" goes with the workflow. *)
NoFlow == [workflow |-> "none", secret |-> "none", told |-> "nothing"]

WorkflowTypes ==
  flows \in [Flows -> [workflow : {"none", "live", "gone"}, secret : {"none", "free", "owned"},
                       told : {"nothing", "accepted", "refused"}]]

FlowLabels == {"prepare", "send", "attach", "answer", "cleanup"}

WorkflowInit(s) == flows = [f \in Flows |-> NoFlow]

FTables == UNCHANGED <<profiles, mlflow, fresh>>
Sets(f, field, value) == flows' = [flows EXCEPT ![f][field] = value]

(* proxy_http(), prepare_submission() *)
Submit(c) ==
  /\ Begin(c, "submit")
  /\ \E f \in Flows : /\ flows[f] = NoFlow /\ \A x \in Procs : loc[x].wf # f
                      /\ Goto(c, "prepare", [NoLocal EXCEPT !.wf = f])
  /\ UNCHANGED <<profiles, mlflow, flows>>

PrepareSubmission(c) ==
  /\ At(c, "prepare")
  /\ Call(c, Sets(loc[c].wf, "secret", "free"), UNCHANGED flows, "send", "idle", loc[c])
  /\ FTables

(* Argo refuses, or accepts; an answer that is lost looks like a failure.  *)
(* When it breaks off after its header, nothing is done about the Secret.  *)
Send(c) ==
  LET f == loc[c].wf
  IN /\ At(c, "send")
     /\ \/ Call(c, Sets(f, "workflow", "live"), UNCHANGED flows, "attach", "cleanup", loc[c])
        \/ Refused(c, UNCHANGED flows, "cleanup", loc[c])
        \/ /\ faults < MaxFaults /\ faults' = faults + 1 /\ UNCHANGED <<ops, sent>>
           /\ flows' = [flows EXCEPT ![f].workflow = "live", ![f].told = "refused"]
           /\ End(c)
     /\ FTables

(* A patch that fails is passed over. *)
BadAttachOwner_Unchecked(c) ==
  /\ At(c, "attach")
  /\ Call(c, Sets(loc[c].wf, "secret", "owned"), UNCHANGED flows, "answer", "answer", loc[c])
  /\ FTables

(* attach_workflow_owner(): whether it worked decides what the client is   *)
(* told.  What has no owner any more is collected.                         *)
AttachOwner(c) ==
  LET f == loc[c].wf
      owner == IF flows[f].workflow = "live" THEN "owned" ELSE "none"
  IN /\ At(c, "attach")
     /\ Call(c, Sets(f, "secret", owner), UNCHANGED flows, "answer", "cleanup", loc[c])
     /\ FTables
Answer(c) ==
  /\ At(c, "answer")
  /\ Sets(loc[c].wf, "told", "accepted") /\ End(c)
  /\ Quiet /\ FTables

(* cleanup_secret() *)
CleanupSecret(c) ==
  LET f == loc[c].wf
  IN /\ At(c, "cleanup")
     /\ Call(c, flows' = [flows EXCEPT ![f].secret = "none", ![f].told = "refused"],
             Sets(f, "told", "refused"), "idle", "idle", loc[c])
     /\ FTables

(* A workflow goes, and what it owns goes with it. *)
WorkflowGone(f) ==
  /\ flows[f].workflow = "live"
  /\ flows' = [flows EXCEPT ![f].workflow = "gone", ![f].secret = IF @ = "owned" THEN "none" ELSE @]
  /\ Quiet /\ Stay /\ FTables

WorkflowBegin(c) == Submit(c)
WorkflowStep(c)  == PrepareSubmission(c) \/ Send(c) \/ AttachOwner(c) \/ Answer(c) \/ CleanupSecret(c)

-----------------------------------------------------------------------------
(* A submission that was answered with success has its Secret as long as   *)
(* its workflow is there; and a Secret nobody owns is left only when a     *)
(* process died or a call failed, never for a submission that was refused. *)
SubmissionsHaveTokens ==
  \A f \in Flows :
    /\ flows[f].told = "accepted" => (flows[f].workflow = "live" <=> flows[f].secret = "owned")
    /\ flows[f].told = "refused" /\ flows[f].secret # "none" => faults > 0

(* What keeps it so: one handler is at work on a submission that nobody has *)
(* been told about.                                                         *)
FlowInv ==
  /\ SubmissionsHaveTokens
  /\ \A x, y \in Procs : loc[x].wf # None /\ loc[x].wf = loc[y].wf => x = y
  /\ \A x \in Procs : loc[x].wf # None =>
       LET f == flows[loc[x].wf]
       IN /\ f.told = "nothing"
          /\ pc[x] = "prepare" => f = NoFlow
          /\ pc[x] = "answer" => (f.workflow = "live" <=> f.secret = "owned")
=============================================================================
