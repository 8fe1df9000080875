----------------------------- MODULE MlflowPage -----------------------------
(* The MLflow page: it shows an installation and its frame, installs and    *)
(* uninstalls, and asks every five seconds for an installation that is not  *)
(* ready.  Each load writes what it was told, whatever others have written. *)
EXTENDS Browser

CONSTANTS MaxAttempts  \* of recoverInstallStatus()

ASSUME StatesAssumption == None \notin {"none", "creating", "ready", "deleting"}

VARIABLES installed,  \* at the server: "none", "creating", "ready" or half deleted
          told,       \* status, or None
          framed,     \* frameUrl is set
          covered,    \* loading: the page is hidden
          tasks,      \* "installing", "uninstalling", both or neither
          attempts,   \* of recoverInstallStatus()
          outdated,   \* ghost: the server has changed since it was asked
          unframed    \* ghost: one load has removed the frame of another

mlflowVars == <<installed, told, framed, covered, tasks, attempts, outdated, unframed>>

OnMlflow == page.at = "mlflow"

(* by: what waits for the request; current: nothing has changed since it    *)
(* was served, but for the end of an installation, which is polled.  What   *)
(* the server writes overtakes what it has told others before.              *)
AskMlflow(kind, by) == Request(kind, None, [by |-> by, current |-> TRUE])
Overtaken(open) == {IF f.state = "ok" THEN [f EXCEPT !.arg.current = FALSE] ELSE f : f \in open}
Rewritten(f, result) ==
  Overtaken(flights \ {f}) \cup
  (IF f.heard THEN {[f EXCEPT !.state = "ok", !.result = result]} ELSE {})
Abandoned == {[f EXCEPT !.heard = FALSE] : f \in {g \in Of({"install", "uninstall"}) : g.state = "sent"}}

-----------------------------------------------------------------------------
(* The server                                                               *)

Unknown(to) == installed' = to /\ outdated' = TRUE

(* Other users, and a pod that is restarted or goes with its Deployment.    *)
OthersChange ==
  /\ Act
  /\ \/ installed = "none" /\ Unknown("creating")
     \/ installed # "none" /\ \E to \in {"none", "deleting"} : Unknown(to)
     \/ installed = "ready" /\ Unknown("creating")
  /\ flights' = Overtaken(flights)
  /\ UNCHANGED <<page, told, framed, covered, tasks, attempts, unframed>>

(* A pod is ready, or the installation has waited in vain and is removed.   *)
InstallationEnds ==
  /\ installed = "creating"
  /\ \/ installed' = "ready" /\ UNCHANGED acts
     \/ installed' = "none" /\ Act
  /\ UNCHANGED <<page, flights, told, framed, covered, tasks, attempts, outdated, unframed>>

(* get_mlflow_status(): to the page what is half deleted is not ready.      *)
Status == IF installed = "deleting" THEN "creating" ELSE installed

ServeMlflow(f) ==
  /\ Sent(f, {"mlflow", "s3Profiles"})
  /\ flights' = Answered(f, Status)
  /\ UNCHANGED <<page, acts, mlflowVars>>

(* Refused where there is an installation, or it has failed.                *)
ServeInstall(f) ==
  /\ Sent(f, {"install"})
  /\ \/ /\ installed = "none"
        /\ installed' = "creating" /\ outdated' = (outdated \/ ~f.heard)
        /\ flights' = Rewritten(f, "creating")
        /\ UNCHANGED acts
     \/ /\ IF installed = "none" THEN Act ELSE UNCHANGED acts
        /\ flights' = Answered(f, None)
        /\ UNCHANGED <<installed, outdated>>
  /\ UNCHANGED <<page, told, framed, covered, tasks, attempts, unframed>>

(* uninstall_mlflow(): there is nothing to delete, or everything is         *)
(* deleted, or the cluster fails: at the Deployment, which goes on, or      *)
(* after it.  The row stays then, and the page is told of an error.         *)
ServeUninstall(f) ==
  /\ Sent(f, {"uninstall"})
  /\ \/ /\ installed = "none"
        /\ flights' = Answered(f, None)
        /\ UNCHANGED <<acts, installed, outdated>>
     \/ /\ installed # "none"
        /\ installed' = "none" /\ outdated' = (outdated \/ ~f.heard)
        /\ flights' = Rewritten(f, "none")
        /\ UNCHANGED acts
     \/ /\ installed # "none" /\ Act
        /\ flights' = Answered(f, None)
        /\ UNCHANGED <<installed, outdated>>
     \/ /\ installed # "none" /\ Act
        /\ Unknown("deleting")
        /\ flights' = Rewritten(f, None)
  /\ UNCHANGED <<page, told, framed, covered, tasks, attempts, unframed>>

-----------------------------------------------------------------------------
(* The page                                                                 *)

OpenMlflow ==
  /\ Route("mlflow", None)
  /\ flights' = Abandoned \cup {AskMlflow("mlflow", "page")}
  /\ told' = None /\ framed' = FALSE /\ unframed' = FALSE /\ covered' = TRUE
  /\ tasks' = {} /\ attempts' = 0
  /\ UNCHANGED <<installed, outdated>>

LeaveMlflow ==
  /\ OnMlflow
  /\ Route("list", None)
  /\ flights' = Abandoned
  /\ told' = None /\ framed' = FALSE /\ unframed' = FALSE /\ covered' = FALSE
  /\ tasks' = {} /\ attempts' = 0
  /\ UNCHANGED <<installed, outdated>>

(* A load has ended: what has waited for it goes on.  A recovery tries      *)
(* again until it finds an installation.                                    *)
LoadEnds(open, by) ==
  LET again == by = "recover" /\ told' \in {None, "none"} /\ attempts < MaxAttempts
  IN /\ flights' = IF again THEN open \cup {AskMlflow("mlflow", "recover")} ELSE open
     /\ attempts' = IF again THEN attempts + 1 ELSE IF by = "recover" THEN 0 ELSE attempts
     /\ covered' = (covered /\ by \notin {"page", "install"})
     /\ tasks' = IF by = "install" \/ (by = "recover" /\ ~again) THEN tasks \ {"installing"} ELSE tasks

(* Where there is no installation the profiles are loaded, too, and until   *)
(* they are there the frame stays.                                          *)
MlflowAnswered(f) ==
  /\ Answers(f, {"mlflow"})
  /\ told' = f.result
  /\ outdated' = ~f.arg.current
  /\ IF f.result = "none"
     THEN /\ flights' = (flights \ {f}) \cup {AskMlflow("s3Profiles", f.arg.by)}
          /\ UNCHANGED <<framed, unframed, covered, tasks, attempts>>
     ELSE /\ framed' = (f.result = "ready") /\ unframed' = FALSE
          /\ LoadEnds(flights \ {f}, f.arg.by)
  /\ UNCHANGED <<page, acts, installed>>

(* A load that comes to its end late removes the frame of another one.      *)
ProfilesAnswered(f) ==
  /\ Answers(f, {"s3Profiles"}) /\ f.arg.by # "uninstall"
  /\ framed' = FALSE /\ unframed' = (unframed \/ framed)
  /\ told' = told
  /\ LoadEnds(flights \ {f}, f.arg.by)
  /\ UNCHANGED <<page, acts, installed, outdated>>

LoadFails(f) ==
  /\ f.kind \in {"mlflow", "s3Profiles"} /\ f.arg.by # "uninstall"
  /\ Act
  /\ told' = None /\ framed' = FALSE
  /\ LoadEnds(flights \ {f}, f.arg.by)
  /\ UNCHANGED <<page, installed, outdated, unframed>>

(* Asks for an installation that is not ready: at every tick, or at once.   *)
PollMlflow ==
  /\ told = "creating" /\ Room
  /\ flights' = flights \cup {AskMlflow("mlflow", "poll")}
  /\ UNCHANGED <<page, acts, mlflowVars>>

ReloadMlflow ==
  /\ told = "creating" /\ ~covered
  /\ Act
  /\ flights' = flights \cup {AskMlflow("mlflow", "page")}
  /\ covered' = TRUE
  /\ UNCHANGED <<page, installed, told, framed, tasks, attempts, outdated, unframed>>

(* Of one that is ready only the frame is loaded again.                     *)
ReopenFrame ==
  /\ told = "ready" /\ ~covered
  /\ framed' = TRUE /\ unframed' = FALSE
  /\ UNCHANGED <<browserVars, installed, told, covered, tasks, attempts, outdated>>

-----------------------------------------------------------------------------
Install ==
  /\ told = "none" /\ "installing" \notin tasks /\ ~covered
  /\ Act
  /\ flights' = flights \cup {AskMlflow("install", "page")}
  /\ tasks' = tasks \cup {"installing"}
  /\ UNCHANGED <<page, installed, told, framed, covered, attempts, outdated, unframed>>

InstallAnswered(f) ==
  /\ Answers(f, {"install"}) /\ f.result # None
  /\ told' = "creating" /\ covered' = TRUE
  /\ outdated' = ~f.arg.current
  /\ flights' = (flights \ {f}) \cup {AskMlflow("mlflow", "install")}
  /\ UNCHANGED <<page, acts, installed, framed, tasks, attempts, unframed>>

InstallRefused(f) ==
  /\ Answers(f, {"install"}) /\ f.result = None
  /\ tasks' = tasks \ {"installing"}
  /\ Without(f)
  /\ UNCHANGED <<page, acts, installed, told, framed, covered, attempts, outdated, unframed>>

(* The request may still reach the server.                                  *)
Lose(f) ==
  (flights \ {f}) \cup (IF f.state = "sent" THEN {[f EXCEPT !.heard = FALSE]} ELSE {})

(* Mutant: a lost connection is an error like others.                       *)
BadInstallLost_GivesUp(f) ==
  /\ f.kind = "install" /\ f.heard
  /\ Act
  /\ flights' = Lose(f)
  /\ tasks' = tasks \ {"installing"}
  /\ UNCHANGED <<page, installed, told, framed, covered, attempts, outdated, unframed>>

InstallLost(f) ==
  /\ f.kind = "install" /\ f.heard
  /\ Act
  /\ flights' = Lose(f) \cup {AskMlflow("mlflow", "recover")}
  /\ attempts' = 1
  /\ UNCHANGED <<page, installed, told, framed, covered, tasks, outdated, unframed>>

Uninstall ==
  /\ told \in {"creating", "ready"} /\ "uninstalling" \notin tasks /\ ~covered
  /\ Act
  /\ flights' = flights \cup {AskMlflow("uninstall", "page")}
  /\ tasks' = tasks \cup {"uninstalling"}
  /\ UNCHANGED <<page, installed, told, framed, covered, attempts, outdated, unframed>>

UninstallAnswered(f) ==
  /\ Answers(f, {"uninstall"}) /\ f.result # None
  /\ told' = "none" /\ framed' = FALSE
  /\ outdated' = ~f.arg.current
  /\ flights' = (flights \ {f}) \cup {AskMlflow("s3Profiles", "uninstall")}
  /\ UNCHANGED <<page, acts, installed, covered, tasks, attempts, unframed>>

(* Whatever the server has deleted before, the page goes on as if nothing   *)
(* had been.                                                                *)
UninstallRefused(f) ==
  /\ Answers(f, {"uninstall"}) /\ f.result = None
  /\ tasks' = tasks \ {"uninstalling"}
  /\ Without(f)
  /\ UNCHANGED <<page, acts, installed, told, framed, covered, attempts, outdated, unframed>>

UninstallEnds(f) ==
  /\ Answers(f, {"s3Profiles"}) /\ f.arg.by = "uninstall"
  /\ tasks' = tasks \ {"uninstalling"}
  /\ Without(f)
  /\ UNCHANGED <<page, acts, installed, told, framed, covered, attempts, outdated, unframed>>

(* The deletion or the load of the profiles after it; what the server made  *)
(* of the deletion stays unknown.                                           *)
UninstallFails(f) ==
  /\ f.kind = "uninstall" \/ (f.kind = "s3Profiles" /\ f.arg.by = "uninstall")
  /\ f.heard
  /\ Act
  /\ flights' = Lose(f)
  /\ tasks' = tasks \ {"uninstalling"}
  /\ outdated' = (outdated \/ (f.kind = "uninstall" /\ f.state = "ok" /\ f.result # None))
  /\ UNCHANGED <<page, installed, told, framed, covered, attempts, unframed>>

-----------------------------------------------------------------------------
MlflowInit ==
  /\ installed \in {"none", "creating", "ready"}
  /\ told = None /\ framed = FALSE /\ covered = FALSE
  /\ tasks = {} /\ attempts = 0 /\ outdated = FALSE /\ unframed = FALSE
  /\ page = [at |-> "list", of |-> None, no |-> 0] /\ flights = {} /\ acts = 0

MlflowNext ==
  \/ OthersChange \/ InstallationEnds
  \/ OpenMlflow \/ LeaveMlflow \/ PollMlflow \/ ReloadMlflow \/ ReopenFrame
  \/ Install \/ Uninstall
  \/ \E f \in flights :
       \/ ServeMlflow(f) \/ ServeInstall(f) \/ ServeUninstall(f)
       \/ MlflowAnswered(f) \/ ProfilesAnswered(f) \/ LoadFails(f)
       \/ InstallAnswered(f) \/ InstallRefused(f) \/ InstallLost(f)
       \/ UninstallAnswered(f) \/ UninstallRefused(f) \/ UninstallEnds(f) \/ UninstallFails(f)
=============================================================================
