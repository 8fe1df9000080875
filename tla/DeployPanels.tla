---------------------------- MODULE DeployPanels ----------------------------
(* The deploy panel of the VS Code extension in the frame of the Development *)
(* page: the extension host uploads a repository, the panel's script creates *)
(* the deployment and hands its number to the page around the frame, over    *)
(* the backend and by a message.  A webview that is hidden has no script:    *)
(* what the host posts is lost; shown again it starts with a new form.       *)
EXTENDS Browser

CONSTANTS Panels,  \* deploy panels, each for a folder of its own
          Names,   \* deployment names
          Places,  \* where S3 profiles may point
          Files    \* what a folder contains

VARIABLES profile,     \* the place the S3 profile points to
          bucket,      \* [place][name][file]: the panel it came from, or None
          uploads,     \* uploads of the extension host
          script,      \* a panel's script: "form", "busy", or "hidden"
          deployments, \* [name]: a row of the backend, or None
          pending,     \* the backend's navigation target of the user, or None
          messages,    \* deploymentCreated messages on their way to the page
          handled,     \* handledDeploymentNavigationIds of the tab
          visits,      \* [name]: navigations to its instance
          spoilt       \* ghost: uploads the deployment cannot count on

panelVars == <<profile, bucket, uploads, script, deployments, pending, messages,
               handled, visits, spoilt>>

OnStudio == page.at = "studio"

-----------------------------------------------------------------------------
(* Panel and host                                                           *)

(* The command opens a panel, or shows one again.                           *)
Show(p) ==
  /\ OnStudio /\ script[p] = "hidden"
  /\ script' = [script EXCEPT ![p] = "form"]
  /\ UNCHANGED <<browserVars, profile, bucket, uploads, deployments, pending, messages,
                 handled, visits, spoilt>>

(* What a panel that is gone was uploading goes on without it.              *)
Orphaned(P) == {[u EXCEPT !.silent = @ \/ u.by \in P] : u \in uploads}

(* Hidden behind another tab, or closed; its requests end with the script.  *)
Hide(p, closed) ==
  /\ OnStudio /\ script[p] # "hidden"
  /\ script' = [script EXCEPT ![p] = "hidden"]
  /\ uploads' = Orphaned(IF closed THEN {p} ELSE {})
  /\ flights' = {f \in flights : f.kind = "consume" \/ f.of # p}
  /\ UNCHANGED <<page, acts, profile, bucket, deployments, pending, messages,
                 handled, visits, spoilt>>

(* submit: the host takes the profile as it is now and the files one by one; *)
(* the simple wizard has no deployment to create.                            *)
Submit(p, name, wizard) ==
  /\ OnStudio
  /\ IF wizard THEN UNCHANGED script
     ELSE script[p] = "form" /\ script' = [script EXCEPT ![p] = "busy"]
  /\ Act
  /\ uploads' = uploads \cup {[by |-> p, name |-> name, at |-> profile, left |-> Files,
                               silent |-> wizard]}
  /\ UNCHANGED <<page, flights, profile, bucket, deployments, pending, messages,
                 handled, visits, spoilt>>

(* A file that replaces another panel's takes it from the other's upload.   *)
PutFile(u, x) ==
  /\ u \in uploads /\ x \in u.left
  /\ bucket' = [bucket EXCEPT ![u.at][u.name][x] = u.by]
  /\ uploads' = (uploads \ {u}) \cup {[u EXCEPT !.left = @ \ {x}]}
  /\ spoilt' = spoilt \cup {v \in [by : Panels, name : {u.name}] : v.by # u.by}
  /\ UNCHANGED <<browserVars, profile, script, deployments, pending, messages, handled, visits>>

(* The error is shown where a script can show it, and the form is enabled.  *)
UploadFails(u) ==
  /\ u \in uploads /\ u.left # {}
  /\ Act
  /\ uploads' = uploads \ {u}
  /\ script' = IF ~u.silent /\ script[u.by] = "busy" THEN [script EXCEPT ![u.by] = "form"] ELSE script
  /\ UNCHANGED <<page, flights, profile, bucket, deployments, pending, messages,
                 handled, visits, spoilt>>

(* Mutant: the host does not await the upload.                              *)
BadUploaded_Early(u) ==
  /\ u \in uploads
  /\ uploads' = uploads \ {u}
  /\ flights' = IF u.silent \/ script[u.by] = "hidden" THEN flights
                ELSE Merged(Request("createDeployment", u.by, u.name))
  /\ UNCHANGED <<page, acts, profile, bucket, script, deployments, pending, messages,
                 handled, visits, spoilt>>

(* postMessage(createDeployment): whatever script is there creates it.      *)
Uploaded(u) ==
  /\ u \in uploads /\ u.left = {}
  /\ uploads' = uploads \ {u}
  /\ flights' = IF u.silent \/ script[u.by] = "hidden" THEN flights
                ELSE Merged(Request("createDeployment", u.by, u.name))
  /\ UNCHANGED <<page, acts, profile, bucket, script, deployments, pending, messages,
                 handled, visits, spoilt>>

(* The administrator edits the profile: what was uploaded is elsewhere.     *)
EditProfile(at) ==
  /\ at # profile
  /\ Act
  /\ profile' = at
  /\ spoilt' = spoilt \cup [by : Panels, name : Names]
  /\ UNCHANGED <<page, flights, bucket, uploads, script, deployments, pending, messages,
                 handled, visits>>

-----------------------------------------------------------------------------
(* The panel's requests                                                     *)

(* The backend resolves the profile; by: whose upload it is about.          *)
NewRow(p) == [at |-> profile, by |-> p]

Create(f) ==
  /\ f.kind = "createDeployment"
  /\ deployments[f.arg] = None
  /\ deployments' = [deployments EXCEPT ![f.arg] = NewRow(f.of)]
  /\ flights' = (flights \ {f}) \cup {Request("notify", f.of, f.arg)}
  /\ UNCHANGED <<page, acts, profile, bucket, uploads, script, pending, messages, handled,
                 visits, spoilt>>

(* Refused, or lost: the form is enabled again; the name may be taken now.  *)
CreateFails(f) ==
  /\ f.kind = "createDeployment"
  /\ \/ deployments[f.arg] # None /\ UNCHANGED <<acts, deployments>>
     \/ /\ Act
        /\ \/ UNCHANGED deployments
           \/ /\ deployments[f.arg] = None
              /\ deployments' = [deployments EXCEPT ![f.arg] = NewRow(f.of)]
  /\ script' = [script EXCEPT ![f.of] = IF @ = "busy" THEN "form" ELSE @]
  /\ Without(f)
  /\ UNCHANGED <<page, profile, bucket, uploads, pending, messages, handled, visits, spoilt>>

(* notifyDeploymentNavigation(), whose failure is ignored; then the message *)
(* goes to every frame around, and to the top once more.                    *)
Notify(f) ==
  /\ f.kind = "notify"
  /\ \/ pending' = f.arg /\ UNCHANGED acts
     \/ Act /\ UNCHANGED pending
  /\ messages' = messages \cup {[no |-> f.arg, copy |-> c] : c \in 1..2}
  /\ Without(f)
  /\ UNCHANGED <<page, profile, bucket, uploads, script, deployments, handled, visits, spoilt>>

-----------------------------------------------------------------------------
(* The page around the frame                                                *)

(* The frame goes with the page.                                            *)
Leaving == /\ script' = [p \in Panels |-> "hidden"]
           /\ uploads' = Orphaned(Panels)
           /\ messages' = {}

Staying == UNCHANGED <<page, handled, visits, script, uploads, messages>>

(* Mutant: no look at handledDeploymentNavigationIds.                       *)
BadNavigate_Unchecked(n) ==
  /\ handled' = handled \cup {n}
  /\ visits' = [visits EXCEPT ![n] = @ + 1]
  /\ page' = [at |-> "detail", of |-> n, no |-> 0]
  /\ Leaving

(* navigateToDeploymentInstance().                                          *)
Navigate(n) ==
  IF n \in handled THEN Staying
  ELSE /\ handled' = handled \cup {n}
       /\ visits' = [visits EXCEPT ![n] = @ + 1]
       /\ page' = [at |-> "detail", of |-> n, no |-> 0]
       /\ Leaving

(* What a frame that is gone was waiting for.                               *)
Framed(rest) == IF page' = page THEN rest ELSE {f \in rest : f.kind = "consume"}

(* handleCodeServerMessage(): the target is fetched from the backend, only  *)
(* to be cleared, before the page navigates.                                *)
Receive(m) ==
  /\ m \in messages /\ OnStudio
  /\ messages' = messages \ {m}
  /\ flights' = Merged(Request("consume", None,
                  [then |-> IF m.no \in handled THEN None ELSE m.no, copy |-> m.copy]))
  /\ UNCHANGED <<page, acts, profile, bucket, uploads, script, deployments, pending,
                 handled, visits, spoilt>>

PollNavigation ==
  /\ OnStudio
  /\ {f \in Of({"consume"}) : f.arg.copy = 0} = {}
  /\ pending # None \* a poll that finds nothing changes nothing
  /\ flights' = Merged(Request("consume", None, [then |-> None, copy |-> 0]))
  /\ UNCHANGED <<page, acts, panelVars>>

(* The request was served; its answer says where to go to, for a poll.      *)
Consume(f) ==
  /\ f.kind = "consume" /\ f.state = "sent"
  /\ flights' = Answered(f, pending)
  /\ pending' = None
  /\ UNCHANGED <<page, acts, profile, bucket, uploads, script, deployments, messages,
                 handled, visits, spoilt>>

(* Wherever the user is by now.                                             *)
Consumed(f) ==
  /\ f.kind = "consume" /\ f.state = "ok"
  /\ LET n == IF f.arg.copy = 0 THEN f.result ELSE f.arg.then
     IN IF n = None THEN Staying ELSE Navigate(n)
  /\ flights' = Framed(flights \ {f})
  /\ UNCHANGED <<acts, profile, bucket, deployments, pending, spoilt>>

ConsumeLost(f) ==
  /\ f.kind = "consume"
  /\ Act
  /\ IF f.arg.copy = 0 \/ f.arg.then = None THEN Staying
     ELSE Navigate(f.arg.then)
  /\ flights' = Framed(flights \ {f})
  /\ UNCHANGED <<profile, bucket, deployments, pending, spoilt>>

(* The user goes elsewhere and comes back.                                  *)
LeaveStudio ==
  /\ OnStudio
  /\ Route("list", None)
  /\ Leaving
  /\ flights' = Of({"consume"})
  /\ UNCHANGED <<profile, bucket, deployments, pending, handled, visits, spoilt>>

OpenStudio ==
  /\ ~OnStudio
  /\ Route("studio", None)
  /\ UNCHANGED <<flights, panelVars>>

-----------------------------------------------------------------------------
PanelInit ==
  /\ page = [at |-> "studio", of |-> None, no |-> 0]
  /\ flights = {}
  /\ acts = 0
  /\ profile \in Places
  /\ bucket = [a \in Places |-> [n \in Names |-> [x \in Files |-> None]]]
  /\ uploads = {}
  /\ script = [p \in Panels |-> "form"]
  /\ deployments = [n \in Names |-> None]
  /\ pending = None
  /\ messages = {}
  /\ handled = {}
  /\ visits = [n \in Names |-> 0]
  /\ spoilt = {}

PanelUser ==
  \/ \E p \in Panels :
       \/ Show(p)
       \/ \E closed \in BOOLEAN : Hide(p, closed)
       \/ \E name \in Names, wizard \in BOOLEAN : Submit(p, name, wizard)
  \/ \E at \in Places : EditProfile(at)
  \/ \E u \in uploads : UploadFails(u) \/ Uploaded(u) \/ \E x \in Files : PutFile(u, x)
  \/ \E m \in messages : Receive(m)
  \/ PollNavigation \/ LeaveStudio \/ OpenStudio

PanelAnswers(f) ==
  \/ Create(f) \/ CreateFails(f) \/ Notify(f) \/ Consume(f) \/ Consumed(f) \/ ConsumeLost(f)

PanelNext == PanelUser \/ \E f \in flights : PanelAnswers(f)
=============================================================================
