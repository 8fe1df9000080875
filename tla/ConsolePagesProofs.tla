------------------------ MODULE ConsolePagesProofs ------------------------
(* Theorems about the pages Console follows: what the MLflow page, the forms *)
(* of settings, endpoints and new deployments, and the pages of an instance, *)
(* of its models' inference, files and configurations show is what the       *)
(* server has of what they were opened for; for any number of instances,     *)
(* models, files, requests and answers.                                      *)
EXTENDS ConsoleProofs

-----------------------------------------------------------------------------
(* The MLflow page: a request comes for whatever waits, and for whatever the *)
(* page is not right about.                                                  *)

MlflowState == {"none", "creating", "ready", "deleting"}
MlflowArg == [by : {"page", "poll", "install", "recover", "uninstall"}, current : BOOLEAN]
MlflowRequest ==
  [kind : {"mlflow", "s3Profiles", "install", "uninstall"}, of : {None}, arg : MlflowArg,
   state : {"sent", "ok"}, result : MlflowState \cup {None}, heard : BOOLEAN]

(* A load of the page, not the one after a deletion; it is always heard of.  *)
LoadsPage(f) == f.kind = "mlflow" \/ (f.kind = "s3Profiles" /\ f.arg.by # "uninstall")
Installs(f) == f.kind = "install" \/ (f.kind \in {"mlflow", "s3Profiles"} /\ f.arg.by \in {"install", "recover"})
Uninstalls(f) == f.kind = "uninstall" \/ (f.kind = "s3Profiles" /\ f.arg.by = "uninstall")
Covers(f) == f.kind \in {"mlflow", "s3Profiles"} /\ f.arg.by \in {"page", "install"}
Corrects(f) == \/ f.kind = "mlflow"
               \/ f.kind = "install" /\ f.state = "ok" /\ f.result # None
               \/ f.kind = "uninstall" /\ f.state = "ok" /\ f.result # None

MlflowTypes ==
  /\ installed \in MlflowState /\ told \in MlflowState \cup {None}
  /\ framed \in BOOLEAN /\ covered \in BOOLEAN /\ outdated \in BOOLEAN /\ unframed \in BOOLEAN
  /\ tasks \subseteq {"installing", "uninstalling"}
  /\ flights \subseteq MlflowRequest
  /\ \A f \in flights : /\ f.kind = "mlflow" => f.arg.by # "uninstall"
                        /\ LoadsPage(f) => f.heard

AnswersRight ==
  \A f \in flights : f.state = "ok" /\ f.arg.current =>
    /\ f.kind = "mlflow" => f.result \in {"creating", installed}
    /\ f.kind = "uninstall" /\ f.result # None => installed = "none"

Waits ==
  /\ "installing" \in tasks => \E f \in flights : f.heard /\ Installs(f)
  /\ "uninstalling" \in tasks => \E f \in flights : f.heard /\ Uninstalls(f)
  /\ covered => \E f \in flights : f.heard /\ Covers(f)

ToldRight == outdated \/ told \in {None, "creating", installed} \/ \E f \in flights : f.heard /\ Corrects(f)

FrameRight ==
  /\ told = "ready" => framed \/ unframed
  /\ framed => told = "ready" \/ \E f \in flights : f.heard /\ LoadsPage(f)

MlflowInv == MlflowTypes /\ AnswersRight /\ Waits /\ ToldRight /\ FrameRight

LEMMA MlflowAsked ==
  ASSUME NEW kind \in {"mlflow", "s3Profiles", "install", "uninstall"},
         NEW by \in {"page", "poll", "install", "recover", "uninstall"}
  PROVE  LET r == AskMlflow(kind, by)
         IN /\ r \in MlflowRequest /\ r.kind = kind /\ r.arg.by = by /\ r.heard /\ r.state = "sent"
<1>1. [by |-> by, current |-> TRUE] \in MlflowArg /\ [by |-> by, current |-> TRUE].by = by
  BY DEF MlflowArg
<1>2. None \in MlflowState \cup {None} /\ None \in {None}
  OBVIOUS
<1> QED BY <1>1, <1>2 DEF AskMlflow, Request, MlflowRequest

(* A flight as the server's next write, its answer or an unsubscription      *)
(* leaves it.                                                                *)
Alike(f, h) == h.kind = f.kind /\ h.arg.by = f.arg.by
LEMMA MlflowKinds ==
  ASSUME NEW f \in MlflowRequest, NEW h \in MlflowRequest, Alike(f, h)
  PROVE  /\ LoadsPage(h) <=> LoadsPage(f)
         /\ Installs(h) <=> Installs(f)
         /\ Uninstalls(h) <=> Uninstalls(f)
         /\ Covers(h) <=> Covers(f)
BY DEF Alike, LoadsPage, Installs, Uninstalls, Covers

LEMMA AnsweredRequest ==
  ASSUME NEW f \in MlflowRequest, NEW answer \in MlflowState \cup {None}
  PROVE  LET h == [f EXCEPT !.state = "ok", !.result = answer]
         IN /\ h \in MlflowRequest /\ Alike(f, h) /\ h.heard = f.heard /\ h.state = "ok" /\ h.result = answer
            /\ h.arg = f.arg
BY DEF MlflowRequest, Alike

LEMMA OvertakenRequest ==
  ASSUME NEW f \in MlflowRequest
  PROVE  LET h == [f EXCEPT !.arg.current = FALSE]
         IN /\ h \in MlflowRequest /\ Alike(f, h) /\ h.heard = f.heard /\ h.state = f.state /\ h.result = f.result
            /\ ~h.arg.current
<1> DEFINE a == [f.arg EXCEPT !.current = FALSE]
<1>1. f.arg \in MlflowArg
  BY DEF MlflowRequest
<1>2. a \in MlflowArg /\ a.by = f.arg.by /\ ~a.current
  BY <1>1 DEF MlflowArg
<1>3. [f EXCEPT !.arg.current = FALSE] = [f EXCEPT !.arg = a]
  BY <1>1 DEF MlflowRequest
<1> HIDE DEF a
<1> QED BY <1>2, <1>3 DEF MlflowRequest, Alike

LEMMA UnheardMlflow ==
  ASSUME NEW f \in MlflowRequest
  PROVE  LET h == [f EXCEPT !.heard = FALSE]
         IN h \in MlflowRequest /\ Alike(f, h) /\ ~h.heard /\ h.state = f.state /\ h.arg = f.arg
BY DEF MlflowRequest, Alike

(* After a write of the server every answer before it is overtaken, and      *)
(* nothing else about the requests has changed.                              *)
CameFrom(f, h) ==
  /\ h \in MlflowRequest /\ Alike(f, h) /\ h.heard = f.heard /\ h.state = f.state /\ h.result = f.result
  /\ h.state = "ok" => ~h.arg.current
LEMMA OvertakenFlights ==
  ASSUME NEW open, open \subseteq MlflowRequest
  PROVE  /\ \A h \in Overtaken(open) : \E f \in open : CameFrom(f, h)
         /\ \A f \in open : \E h \in Overtaken(open) : CameFrom(f, h)
<1> DEFINE H(f) == IF f.state = "ok" THEN [f EXCEPT !.arg.current = FALSE] ELSE f
<1>1. ASSUME NEW f \in open PROVE CameFrom(f, H(f))
  BY OvertakenRequest DEF CameFrom, Alike
<1>2. Overtaken(open) = {H(f) : f \in open}
  BY DEF Overtaken
<1> HIDE DEF H
<1> QED BY <1>1, <1>2
(* The server.                                                               *)
LEMMA OthersKeep == MlflowInv /\ OthersChange => MlflowInv'
<1> SUFFICES ASSUME MlflowInv, OthersChange PROVE MlflowInv'
  OBVIOUS
<1>1. /\ installed' \in MlflowState /\ outdated' = TRUE /\ flights' = Overtaken(flights)
      /\ UNCHANGED <<page, told, framed, covered, tasks, attempts, unframed>>
  BY DEF OthersChange, Unknown, MlflowState
<1>2. flights \subseteq MlflowRequest
  BY DEF MlflowInv, MlflowTypes
<1>3. \A h \in flights' : \E f \in flights : CameFrom(f, h)
  BY <1>1, <1>2, OvertakenFlights
<1>4. \A f \in flights : \E h \in flights' : CameFrom(f, h)
  BY <1>1, <1>2, OvertakenFlights
<1>5. MlflowTypes'
  BY <1>1, <1>3 DEF MlflowInv, MlflowTypes, CameFrom, Alike, LoadsPage
<1>6. AnswersRight'
  BY <1>3 DEF AnswersRight, CameFrom
<1>7. Waits' /\ ToldRight' /\ FrameRight'
  BY <1>1, <1>4 DEF MlflowInv, Waits, ToldRight, FrameRight, CameFrom, Alike, Installs, Uninstalls, Covers, LoadsPage
<1> QED BY <1>5, <1>6, <1>7 DEF MlflowInv

LEMMA InstallationEndsKeeps == MlflowInv /\ InstallationEnds => MlflowInv'
<1> SUFFICES ASSUME MlflowInv, InstallationEnds PROVE MlflowInv'
  OBVIOUS
<1>1. /\ installed = "creating" /\ installed' \in {"ready", "none"}
      /\ UNCHANGED <<flights, told, framed, covered, tasks, outdated, unframed>>
  BY DEF InstallationEnds
<1>2. MlflowTypes'
  BY <1>1 DEF MlflowInv, MlflowTypes, MlflowState
<1>3. AnswersRight'
  BY <1>1 DEF MlflowInv, AnswersRight
<1>4. Waits' /\ ToldRight' /\ FrameRight'
  BY <1>1 DEF MlflowInv, Waits, ToldRight, FrameRight
<1> QED BY <1>2, <1>3, <1>4 DEF MlflowInv

(* An answer that writes nothing: what the server says of itself, or a       *)
(* refusal.                                                                  *)
LEMMA AnswersKeep ==
  ASSUME MlflowInv, NEW f \in flights, NEW answer \in MlflowState \cup {None}, f.state = "sent",
         f.kind \in {"install", "uninstall"} => answer = None,
         f.kind = "mlflow" => answer \in {"creating", installed},
         flights' = Answered(f, answer), UNCHANGED <<installed, told, framed, covered, tasks, outdated, unframed>>
  PROVE  MlflowInv'
<1> DEFINE h == [f EXCEPT !.state = "ok", !.result = answer]
<1>1. f \in MlflowRequest
  BY DEF MlflowInv, MlflowTypes
<1>2. h \in MlflowRequest /\ Alike(f, h) /\ h.heard = f.heard /\ h.result = answer
  BY <1>1, AnsweredRequest
<1>3. flights' = (flights \ {f}) \cup (IF f.heard THEN {h} ELSE {})
  BY DEF Answered
<1> HIDE DEF h
<1>4. MlflowTypes'
  BY <1>2, <1>3 DEF MlflowInv, MlflowTypes, Alike, LoadsPage
<1>5. AnswersRight'
  BY <1>2, <1>3 DEF MlflowInv, AnswersRight, Alike
<1>6. Waits' /\ ToldRight' /\ FrameRight'
  BY <1>2, <1>3 DEF MlflowInv, Waits, ToldRight, FrameRight, Alike, Installs, Uninstalls, Covers, LoadsPage, Corrects
<1> QED BY <1>4, <1>5, <1>6 DEF MlflowInv

LEMMA ServeMlflowKeeps == ASSUME MlflowInv, NEW f \in flights, ServeMlflow(f) PROVE MlflowInv'
<1>1. Status \in MlflowState /\ Status \in {"creating", installed}
  BY DEF Status, MlflowInv, MlflowTypes, MlflowState
<1>2. /\ f.kind \in {"mlflow", "s3Profiles"} /\ f.state = "sent" /\ flights' = Answered(f, Status)
      /\ UNCHANGED <<installed, told, framed, covered, tasks, outdated, unframed>>
  BY DEF ServeMlflow, Sent, mlflowVars
<1> QED BY <1>1, <1>2, AnswersKeep

LEMMA WritesKeep ==
  ASSUME MlflowInv, NEW f \in flights, NEW to \in MlflowState, NEW answer \in {to, None},
         f.kind \in {"install", "uninstall"}, f.state = "sent", f.kind = "uninstall" /\ answer # None => to = "none",
         flights' = Rewritten(f, answer), installed' = to,
         outdated' = (outdated \/ ~f.heard \/ answer = None),
         UNCHANGED <<told, framed, covered, tasks, unframed>>
  PROVE  MlflowInv'
<1> DEFINE h == [f EXCEPT !.state = "ok", !.result = answer]
           open == flights \ {f}
<1>1. f \in MlflowRequest /\ open \subseteq MlflowRequest
  BY DEF MlflowInv, MlflowTypes
<1>2. /\ h \in MlflowRequest /\ Alike(f, h) /\ h.heard = f.heard /\ h.result = answer /\ h.state = "ok"
  BY <1>1, AnsweredRequest
<1>3. flights' = Overtaken(open) \cup (IF f.heard THEN {h} ELSE {})
  BY DEF Rewritten
<1>4. \A g \in Overtaken(open) : \E e \in open : CameFrom(e, g)
  BY <1>1, OvertakenFlights
<1>5. \A e \in open : \E g \in Overtaken(open) : CameFrom(e, g)
  BY <1>1, OvertakenFlights
<1>6. f.heard /\ answer # None => Corrects(h)
  BY <1>2, StatesAssumption DEF Corrects, Alike, MlflowState
<1> HIDE DEF h
<1>7. \A g \in flights' : \E e \in flights : g \in MlflowRequest /\ Alike(e, g) /\ g.heard = e.heard
  <2>1. ASSUME NEW g \in Overtaken(open)
        PROVE  \E e \in flights : g \in MlflowRequest /\ Alike(e, g) /\ g.heard = e.heard
    <3>1. PICK e \in open : CameFrom(e, g)
      BY <1>4
    <3> QED BY <3>1 DEF CameFrom
  <2> QED BY <1>2, <1>3, <2>1
<1>8. \A e \in flights : e.heard => \E g \in flights' : g \in MlflowRequest /\ Alike(e, g) /\ g.heard
  BY <1>2, <1>3, <1>5 DEF CameFrom
<1>9. MlflowTypes'
  <2>1. flights' \subseteq MlflowRequest
    BY <1>7
  <2>2. \A g \in flights' : (g.kind = "mlflow" => g.arg.by # "uninstall") /\ (LoadsPage(g) => g.heard)
    BY <1>7 DEF MlflowInv, MlflowTypes, Alike, LoadsPage
  <2>3. outdated' \in BOOLEAN
    BY <1>1 DEF MlflowInv, MlflowTypes, MlflowRequest
  <2> QED BY <2>1, <2>2, <2>3 DEF MlflowInv, MlflowTypes
<1>10. AnswersRight'
  BY <1>2, <1>3, <1>4 DEF AnswersRight, CameFrom, Alike
<1>11. Waits'
  BY <1>8 DEF MlflowInv, Waits, Alike, Installs, Uninstalls, Covers
<1>12. ToldRight'
  BY <1>2, <1>3, <1>6 DEF ToldRight
<1>13. FrameRight'
  BY <1>8 DEF MlflowInv, FrameRight, Alike, LoadsPage
<1> QED BY <1>9, <1>10, <1>11, <1>12, <1>13 DEF MlflowInv

LEMMA ServeInstallKeeps == ASSUME MlflowInv, NEW f \in flights, ServeInstall(f) PROVE MlflowInv'
<1>0. f.kind = "install" /\ f.state = "sent" /\ UNCHANGED <<told, framed, covered, tasks, unframed>>
  BY DEF ServeInstall, Sent
<1>1. CASE installed' = "creating" /\ outdated' = (outdated \/ ~f.heard) /\ flights' = Rewritten(f, "creating")
  <2>1. "creating" \in MlflowState /\ "creating" # None
    BY StatesAssumption DEF MlflowState
  <2> QED BY <1>0, <1>1, <2>1, WritesKeep
<1>2. CASE flights' = Answered(f, None) /\ UNCHANGED <<installed, outdated>>
  BY <1>0, <1>2, AnswersKeep
<1> QED BY <1>1, <1>2 DEF ServeInstall

LEMMA ServeUninstallKeeps == ASSUME MlflowInv, NEW f \in flights, ServeUninstall(f) PROVE MlflowInv'
<1>0. f.kind = "uninstall" /\ f.state = "sent" /\ UNCHANGED <<told, framed, covered, tasks, unframed>>
  BY DEF ServeUninstall, Sent
<1>1. CASE installed' = "none" /\ outdated' = (outdated \/ ~f.heard) /\ flights' = Rewritten(f, "none")
  <2>1. "none" \in MlflowState /\ "none" # None
    BY StatesAssumption DEF MlflowState
  <2> QED BY <1>0, <1>1, <2>1, WritesKeep
<1>2. CASE flights' = Answered(f, None) /\ UNCHANGED <<installed, outdated>>
  BY <1>0, <1>2, AnswersKeep
<1>3. CASE installed' = "deleting" /\ outdated' = TRUE /\ flights' = Rewritten(f, None)
  <2>1. "deleting" \in MlflowState
    BY DEF MlflowState
  <2>2. outdated' = (outdated \/ ~f.heard \/ None = None)
    BY <1>3
  <2> QED BY <1>0, <1>3, <2>1, <2>2, WritesKeep
<1> QED BY <1>1, <1>2, <1>3 DEF ServeUninstall, Unknown

(* The page.                                                                 *)
LEMMA TurnsKeep == MlflowInv /\ (OpenMlflow \/ LeaveMlflow) => MlflowInv'
<1> SUFFICES ASSUME MlflowInv, OpenMlflow \/ LeaveMlflow PROVE MlflowInv'
  OBVIOUS
<1>1. PICK r : /\ r \in MlflowRequest /\ r.kind = "mlflow" /\ r.arg.by = "page" /\ r.heard /\ r.state = "sent"
               /\ r = AskMlflow("mlflow", "page")
  BY MlflowAsked
<1>2. /\ told' = None /\ framed' = FALSE /\ unframed' = FALSE /\ tasks' = {}
      /\ covered' \in BOOLEAN /\ (covered' => r \in flights')
      /\ Abandoned \subseteq flights' /\ flights' \subseteq Abandoned \cup {r} /\ UNCHANGED <<installed, outdated>>
  BY <1>1 DEF OpenMlflow, LeaveMlflow
<1>3. \A h \in Abandoned : /\ h \in MlflowRequest /\ h.kind \in {"install", "uninstall"} /\ h.state = "sent"
  <2>1. ASSUME NEW f \in flights, f.kind \in {"install", "uninstall"}, f.state = "sent"
        PROVE  LET h == [f EXCEPT !.heard = FALSE]
               IN h \in MlflowRequest /\ h.kind \in {"install", "uninstall"} /\ h.state = "sent"
    BY <2>1, UnheardMlflow DEF MlflowInv, MlflowTypes, Alike
  <2> QED BY <2>1 DEF Abandoned, Of
<1>4. MlflowTypes'
  <2>1. \A g \in flights' : g \in MlflowRequest /\ (g.kind \in {"mlflow", "s3Profiles"} => g = r)
    BY <1>1, <1>2, <1>3
  <2>2. \A g \in flights' : (g.kind = "mlflow" => g.arg.by # "uninstall") /\ (LoadsPage(g) => g.heard)
    BY <1>1, <2>1 DEF LoadsPage
  <2>3. told' \in MlflowState \cup {None} /\ framed' \in BOOLEAN /\ unframed' \in BOOLEAN
        /\ tasks' \subseteq {"installing", "uninstalling"}
    BY <1>2
  <2> QED BY <1>2, <2>1, <2>2, <2>3 DEF MlflowInv, MlflowTypes
<1>5. AnswersRight'
  BY <1>1, <1>2, <1>3 DEF AnswersRight
<1>6. Waits'
  BY <1>1, <1>2 DEF Waits, Covers
<1>7. ToldRight' /\ FrameRight'
  BY <1>2, StatesAssumption DEF ToldRight, FrameRight
<1> QED BY <1>4, <1>5, <1>6, <1>7 DEF MlflowInv

LEMMA AsksKeep ==
  ASSUME MlflowInv, PollMlflow \/ ReloadMlflow \/ Install \/ Uninstall
  PROVE  MlflowInv'
<1>1. PICK r : /\ r \in MlflowRequest /\ r.heard /\ r.state = "sent" /\ flights' = flights \cup {r}
               /\ r.kind = "mlflow" => r.arg.by # "uninstall"
               /\ covered' \in BOOLEAN /\ tasks' \subseteq {"installing", "uninstalling"}
               /\ covered' => covered \/ Covers(r)
               /\ "installing" \in tasks' => "installing" \in tasks \/ Installs(r)
               /\ "uninstalling" \in tasks' => "uninstalling" \in tasks \/ Uninstalls(r)
               /\ UNCHANGED <<installed, told, framed, outdated, unframed>>
  <2>1. covered \in BOOLEAN /\ tasks \subseteq {"installing", "uninstalling"}
    BY DEF MlflowInv, MlflowTypes
  <2>2. CASE PollMlflow
    BY <2>1, <2>2, MlflowAsked DEF PollMlflow, mlflowVars
  <2>3. CASE ReloadMlflow
    BY <2>1, <2>3, MlflowAsked DEF ReloadMlflow, Covers
  <2>4. CASE Install
    BY <2>1, <2>4, MlflowAsked DEF Install, Installs
  <2>5. CASE Uninstall
    BY <2>1, <2>5, MlflowAsked DEF Uninstall, Uninstalls
  <2> QED BY <2>2, <2>3, <2>4, <2>5
<1>2. MlflowTypes'
  BY <1>1 DEF MlflowInv, MlflowTypes
<1>3. AnswersRight'
  BY <1>1 DEF MlflowInv, AnswersRight
<1>4. Waits' /\ ToldRight' /\ FrameRight'
  BY <1>1 DEF MlflowInv, Waits, ToldRight, FrameRight
<1> QED BY <1>2, <1>3, <1>4 DEF MlflowInv

LEMMA ReopenFrameKeeps == MlflowInv /\ ReopenFrame => MlflowInv'
<1> SUFFICES ASSUME MlflowInv, ReopenFrame PROVE MlflowInv'
  OBVIOUS
<1>1. /\ told = "ready" /\ framed' = TRUE /\ unframed' = FALSE
      /\ UNCHANGED <<flights, installed, told, covered, tasks, outdated>>
  BY DEF ReopenFrame, browserVars
<1>2. MlflowTypes' /\ AnswersRight'
  BY <1>1 DEF MlflowInv, MlflowTypes, AnswersRight
<1>3. Waits' /\ ToldRight' /\ FrameRight'
  BY <1>1 DEF MlflowInv, Waits, ToldRight, FrameRight
<1> QED BY <1>2, <1>3 DEF MlflowInv

(* A load ends, and what waited for it goes on, or it is followed by another *)
(* one.                                                                      *)
LEMMA LoadsEnd ==
  ASSUME MlflowInv, NEW f \in flights, LoadsPage(f), LoadEnds(flights \ {f}, f.arg.by), installed' = installed,
         told' \in MlflowState \cup {None}, framed' \in BOOLEAN, outdated' \in BOOLEAN, unframed' \in BOOLEAN,
         outdated' \/ told' \in {None, "creating", installed} \/ (told' = told /\ ~outdated /\ f.kind = "s3Profiles"),
         told' = "ready" => framed' \/ unframed', framed' => told' = "ready"
  PROVE  MlflowInv'
<1>1. PICK r : /\ r \in MlflowRequest /\ r.kind = "mlflow" /\ r.arg.by = "recover" /\ r.heard /\ r.state = "sent"
               /\ r = AskMlflow("mlflow", "recover")
  BY MlflowAsked
<1> DEFINE again == f.arg.by = "recover" /\ told' \in {None, "none"} /\ attempts < MaxAttempts
<1>2. /\ flights' = IF again THEN (flights \ {f}) \cup {r} ELSE flights \ {f}
      /\ covered' = (covered /\ f.arg.by \notin {"page", "install"})
      /\ tasks' = IF f.arg.by = "install" \/ (f.arg.by = "recover" /\ ~again) THEN tasks \ {"installing"} ELSE tasks
      /\ again => f.arg.by = "recover"
  BY <1>1 DEF LoadEnds
<1> HIDE DEF again
<1>3. MlflowTypes'
  BY <1>1, <1>2 DEF MlflowInv, MlflowTypes
<1>4. AnswersRight'
  BY <1>1, <1>2 DEF MlflowInv, AnswersRight
<1>5. f.kind \in {"mlflow", "s3Profiles"} /\ f.arg.by # "uninstall"
  BY DEF LoadsPage, MlflowInv, MlflowTypes
<1>6. ("installing" \in tasks => \E g \in flights : g.heard /\ Installs(g))'
  <2>1. Installs(r)
    BY <1>1 DEF Installs
  <2>2. Installs(f) => f.arg.by \in {"install", "recover"}
    BY <1>5 DEF Installs
  <2> QED BY <1>1, <1>2, <2>1, <2>2 DEF MlflowInv, Waits
<1>7. ("uninstalling" \in tasks => \E g \in flights : g.heard /\ Uninstalls(g))'
  <2>1. ~Uninstalls(f)
    BY <1>5 DEF Uninstalls
  <2> QED BY <1>2, <2>1 DEF MlflowInv, Waits
<1>8. (covered => \E g \in flights : g.heard /\ Covers(g))'
  <2>1. Covers(f) => f.arg.by \in {"page", "install"}
    BY DEF Covers
  <2> QED BY <1>2, <2>1 DEF MlflowInv, Waits
<1>9. Waits'
  BY <1>6, <1>7, <1>8 DEF Waits
<1>10. ToldRight'
  BY <1>2 DEF MlflowInv, ToldRight, Corrects
<1>11. FrameRight'
  BY DEF FrameRight
<1> QED BY <1>3, <1>4, <1>9, <1>10, <1>11 DEF MlflowInv

LEMMA LoadAnswersKeep ==
  ASSUME MlflowInv, NEW f \in flights, MlflowAnswered(f) \/ ProfilesAnswered(f) \/ LoadFails(f)
  PROVE  MlflowInv'
<1>0. /\ f \in MlflowRequest /\ framed \in BOOLEAN /\ outdated \in BOOLEAN /\ unframed \in BOOLEAN
      /\ told \in MlflowState \cup {None}
      /\ f.arg \in MlflowArg
  BY DEF MlflowInv, MlflowTypes, MlflowRequest
<1>1. ASSUME MlflowAnswered(f) PROVE MlflowInv'
  <2>1. /\ f.kind = "mlflow" /\ f.state = "ok" /\ told' = f.result /\ outdated' = ~f.arg.current /\ installed' = installed
        /\ LoadsPage(f) /\ f.heard /\ f.arg.by # "uninstall"
    BY <1>1 DEF MlflowAnswered, Answers, LoadsPage, MlflowInv, MlflowTypes
  <2>2. /\ told' \in MlflowState \cup {None} /\ outdated' \in BOOLEAN
        /\ outdated' \/ told' \in {"creating", installed}
    BY <1>0, <2>1 DEF MlflowInv, AnswersRight, MlflowRequest, MlflowArg
  <2>3. CASE f.result # "none"
    <3>1. framed' = (f.result = "ready") /\ unframed' = FALSE /\ LoadEnds(flights \ {f}, f.arg.by)
      BY <1>1, <2>3 DEF MlflowAnswered
    <3> QED BY <2>1, <2>2, <3>1, LoadsEnd
  <2>4. CASE f.result = "none"
    <3>1. PICK r : /\ r \in MlflowRequest /\ r.kind = "s3Profiles" /\ r.arg.by = f.arg.by /\ r.heard /\ r.state = "sent"
                   /\ r = AskMlflow("s3Profiles", f.arg.by)
      BY <1>0, MlflowAsked DEF MlflowArg
    <3>2. flights' = (flights \ {f}) \cup {r} /\ UNCHANGED <<framed, unframed, covered, tasks>>
      BY <1>1, <2>4, <3>1 DEF MlflowAnswered
    <3>3. MlflowTypes'
      BY <2>1, <2>2, <3>1, <3>2 DEF MlflowInv, MlflowTypes
    <3>4. AnswersRight'
      BY <2>1, <3>1, <3>2 DEF MlflowInv, AnswersRight
    <3>5. Waits'
      BY <2>1, <3>1, <3>2 DEF MlflowInv, Waits, Installs, Uninstalls, Covers
    <3>6. ToldRight' /\ FrameRight'
      BY <2>1, <2>2, <2>4, <3>1, <3>2 DEF ToldRight, FrameRight, LoadsPage
    <3> QED BY <3>3, <3>4, <3>5, <3>6 DEF MlflowInv
  <2> QED BY <2>3, <2>4
<1>2. ASSUME ProfilesAnswered(f) PROVE MlflowInv'
  <2>1. /\ f.kind = "s3Profiles" /\ LoadsPage(f) /\ told' = told /\ framed' = FALSE /\ unframed' = (unframed \/ framed)
        /\ installed' = installed /\ outdated' = outdated /\ LoadEnds(flights \ {f}, f.arg.by)
    BY <1>2 DEF ProfilesAnswered, Answers, LoadsPage
  <2>2. told = "ready" => framed \/ unframed
    BY DEF MlflowInv, FrameRight
  <2>3. outdated \/ told \in {None, "creating", installed} \/ (told' = told /\ ~outdated /\ f.kind = "s3Profiles")
    BY <2>1
  <2> QED BY <1>0, <2>1, <2>2, <2>3, LoadsEnd
<1>3. ASSUME LoadFails(f) PROVE MlflowInv'
  <2>1. /\ LoadsPage(f) /\ told' = None /\ framed' = FALSE /\ outdated' = outdated
        /\ installed' = installed /\ unframed' = unframed
        /\ LoadEnds(flights \ {f}, f.arg.by)
    BY <1>3 DEF LoadFails, LoadsPage
  <2>2. told' # "ready"
    BY <2>1, StatesAssumption
  <2> QED BY <1>0, <2>1, <2>2, LoadsEnd
<1> QED BY <1>1, <1>2, <1>3

(* Installing and uninstalling: a request follows, or nothing waits.         *)
LEMMA InstallAnsweredKeeps == ASSUME MlflowInv, NEW f \in flights, InstallAnswered(f) PROVE MlflowInv'
<1>1. PICK r : /\ r \in MlflowRequest /\ r.kind = "mlflow" /\ r.arg.by = "install" /\ r.heard /\ r.state = "sent"
               /\ r = AskMlflow("mlflow", "install")
  BY MlflowAsked
<1>2. /\ f.kind = "install" /\ told' = "creating" /\ covered' = TRUE /\ outdated' = ~f.arg.current
      /\ flights' = (flights \ {f}) \cup {r} /\ UNCHANGED <<installed, framed, unframed, tasks>>
  BY <1>1 DEF InstallAnswered, Answers
<1>3. MlflowTypes'
  BY <1>1, <1>2 DEF MlflowInv, MlflowTypes, MlflowState
<1>4. AnswersRight'
  BY <1>1, <1>2 DEF MlflowInv, AnswersRight
<1>5. Waits'
  BY <1>1, <1>2 DEF MlflowInv, Waits, Installs, Uninstalls, Covers
<1>6. ToldRight' /\ FrameRight'
  BY <1>1, <1>2 DEF ToldRight, FrameRight, LoadsPage
<1> QED BY <1>3, <1>4, <1>5, <1>6 DEF MlflowInv

LEMMA LostRequest ==
  ASSUME MlflowInv, NEW f \in flights
  PROVE  \A g \in Lose(f) : \/ g \in flights \ {f}
                            \/ g \in MlflowRequest /\ Alike(f, g) /\ ~g.heard /\ g.state = "sent"
<1>1. f \in MlflowRequest
  BY DEF MlflowInv, MlflowTypes
<1> QED BY <1>1, UnheardMlflow DEF Lose

LEMMA InstallLostKeeps == ASSUME MlflowInv, NEW f \in flights, InstallLost(f) PROVE MlflowInv'
<1>1. PICK r : /\ r \in MlflowRequest /\ r.kind = "mlflow" /\ r.arg.by = "recover" /\ r.heard /\ r.state = "sent"
               /\ r = AskMlflow("mlflow", "recover")
  BY MlflowAsked
<1>2. /\ f.kind = "install" /\ flights' = Lose(f) \cup {r}
      /\ UNCHANGED <<installed, told, framed, unframed, covered, tasks, outdated>>
  BY <1>1 DEF InstallLost
<1>3. \A g \in flights' : \/ g \in flights \ {f} \/ g = r
                          \/ g \in MlflowRequest /\ g.kind = "install" /\ g.state = "sent"
  BY <1>2, LostRequest DEF Alike
<1>4. flights \ {f} \subseteq flights' /\ r \in flights'
  BY <1>2 DEF Lose
<1>5. MlflowTypes'
  BY <1>1, <1>2, <1>3 DEF MlflowInv, MlflowTypes, LoadsPage
<1>6. AnswersRight'
  BY <1>1, <1>2, <1>3 DEF MlflowInv, AnswersRight
<1>7. Waits'
  BY <1>1, <1>2, <1>4 DEF MlflowInv, Waits, Installs, Uninstalls, Covers
<1>8. ToldRight' /\ FrameRight'
  BY <1>1, <1>2, <1>4 DEF MlflowInv, ToldRight, FrameRight, LoadsPage, Corrects
<1> QED BY <1>5, <1>6, <1>7, <1>8 DEF MlflowInv

LEMMA InstallRefusedKeeps == ASSUME MlflowInv, NEW f \in flights, InstallRefused(f) PROVE MlflowInv'
<1>1. /\ f.kind = "install" /\ f.result = None /\ tasks' = tasks \ {"installing"} /\ flights' = flights \ {f}
      /\ UNCHANGED <<installed, told, framed, unframed, covered, outdated>>
  BY DEF InstallRefused, Answers, Without
<1>2. MlflowTypes' /\ AnswersRight'
  BY <1>1 DEF MlflowInv, MlflowTypes, AnswersRight
<1>3. Waits' /\ ToldRight' /\ FrameRight'
  BY <1>1 DEF MlflowInv, Waits, ToldRight, FrameRight, Installs, Uninstalls, Covers, LoadsPage, Corrects
<1> QED BY <1>2, <1>3 DEF MlflowInv

LEMMA UninstallAnsweredKeeps == ASSUME MlflowInv, NEW f \in flights, UninstallAnswered(f) PROVE MlflowInv'
<1>1. PICK r : /\ r \in MlflowRequest /\ r.kind = "s3Profiles" /\ r.arg.by = "uninstall" /\ r.heard /\ r.state = "sent"
               /\ r = AskMlflow("s3Profiles", "uninstall")
  BY MlflowAsked
<1>2. /\ f.kind = "uninstall" /\ f.state = "ok" /\ f.result # None
      /\ told' = "none" /\ framed' = FALSE /\ outdated' = ~f.arg.current
      /\ flights' = (flights \ {f}) \cup {r} /\ UNCHANGED <<installed, unframed, covered, tasks>>
  BY <1>1 DEF UninstallAnswered, Answers
<1>3. f.arg.current => installed = "none"
  BY <1>2 DEF MlflowInv, AnswersRight
<1>4. MlflowTypes'
  BY <1>1, <1>2 DEF MlflowInv, MlflowTypes, MlflowState
<1>5. AnswersRight'
  BY <1>1, <1>2 DEF MlflowInv, AnswersRight
<1>6. Waits'
  BY <1>1, <1>2 DEF MlflowInv, Waits, Installs, Uninstalls, Covers
<1>7. ToldRight' /\ FrameRight'
  BY <1>2, <1>3 DEF ToldRight, FrameRight
<1> QED BY <1>4, <1>5, <1>6, <1>7 DEF MlflowInv

LEMMA UninstallEndsKeeps ==
  ASSUME MlflowInv, NEW f \in flights, UninstallRefused(f) \/ UninstallEnds(f) \/ UninstallFails(f)
  PROVE  MlflowInv'
<1>1. /\ f.kind = "uninstall" \/ (f.kind = "s3Profiles" /\ f.arg.by = "uninstall")
      /\ tasks' = tasks \ {"uninstalling"} /\ flights \ {f} \subseteq flights'
      /\ outdated' = (outdated \/ (f.kind = "uninstall" /\ f.state = "ok" /\ f.result # None))
      /\ UNCHANGED <<installed, told, framed, unframed, covered>>
  <2>1. outdated \in BOOLEAN
    BY DEF MlflowInv, MlflowTypes
  <2>2. CASE UninstallEnds(f)
    BY <2>1, <2>2 DEF UninstallEnds, Answers, Without
  <2>3. CASE UninstallFails(f)
    BY <2>3 DEF UninstallFails, Lose
  <2>4. CASE UninstallRefused(f)
    BY <2>1, <2>4 DEF UninstallRefused, Answers, Without
  <2> QED BY <2>2, <2>3, <2>4
<1>2. \A g \in flights' : \/ g \in flights \ {f}
                          \/ g \in MlflowRequest /\ Alike(f, g) /\ g.state = "sent"
  BY LostRequest DEF UninstallEnds, UninstallRefused, UninstallFails, Without
<1>3. MlflowTypes'
  BY <1>1, <1>2 DEF MlflowInv, MlflowTypes, LoadsPage, Alike
<1>4. AnswersRight'
  BY <1>1, <1>2 DEF MlflowInv, AnswersRight
<1>5. Waits' /\ ToldRight' /\ FrameRight'
  BY <1>1 DEF MlflowInv, Waits, ToldRight, FrameRight, Installs, Uninstalls, Covers, LoadsPage, Corrects
<1> QED BY <1>3, <1>4, <1>5 DEF MlflowInv

LEMMA MlflowStarts == MlflowInit => MlflowInv
<1> SUFFICES ASSUME MlflowInit PROVE MlflowInv
  OBVIOUS
<1>1. MlflowTypes
  BY DEF MlflowInit, MlflowTypes, MlflowState
<1> QED BY <1>1, StatesAssumption DEF MlflowInit, MlflowInv, AnswersRight, Waits, ToldRight, FrameRight

LEMMA MlflowStep ==
  MlflowInv /\ (MlflowNext \/ UNCHANGED <<browserVars, mlflowVars>>) => MlflowInv'
<1>1. MlflowInv /\ UNCHANGED <<browserVars, mlflowVars>> => MlflowInv'
  BY DEF browserVars, mlflowVars, MlflowInv, MlflowTypes, AnswersRight, Waits, ToldRight, FrameRight
<1>2. MlflowInv /\ MlflowNext => MlflowInv'
  BY OthersKeep, InstallationEndsKeeps, ServeMlflowKeeps, ServeInstallKeeps, ServeUninstallKeeps, TurnsKeep, AsksKeep,
     ReopenFrameKeeps,
     LoadAnswersKeep, InstallAnsweredKeeps, InstallLostKeeps, InstallRefusedKeeps, UninstallAnsweredKeeps,
     UninstallEndsKeeps DEF MlflowNext
<1> QED BY <1>1, <1>2

LEMMA MlflowAtRest ==
  MlflowInv /\ ~outdated /\ (\A f \in flights : ~f.heard) =>
    /\ tasks = {} /\ ~covered
    /\ told \in {None, "creating", installed}
    /\ framed => told = "ready"
    /\ told = "ready" => framed \/ unframed
BY DEF MlflowInv, MlflowTypes, Waits, ToldRight, FrameRight


(* The Profile page shows the newest state of the runs it was told of, and   *)
(* the MLflow page at rest the installation as the server has it or one it   *)
(* still polls, with a frame where that is ready, however loads, polls,      *)
(* recoveries and lost answers cross; but for what the page was not told of  *)
(* and for a frame that an earlier load of its own removed.  For any number  *)
(* of requests (profile page, mlflow page, installer.py).                    *)
THEOREM NewestStaysShown == Spec => []NewestIsShown
<1> DEFINE Inv == /\ area = "profile" => ProfileInv
                  /\ area = "mlflow" => MlflowInv
<1>1. Init => Inv
  BY AreaInits, ProfileStarts, MlflowStarts DEF AreaInit
<1>2. Inv /\ [Next]_vars => Inv'
  BY AreaSteps, ProfileStep, MlflowStep DEF AreaStep
<1>3. Inv => NewestIsShown
  BY MlflowAtRest DEF ProfileInv, InOrder, NewestIsShown
<1> QED
  BY <1>1, <1>2, <1>3, PTL DEF Spec

-----------------------------------------------------------------------------
(* The settings: nothing that is under way contradicts what a save of this   *)
(* visit will bring.                                                         *)

SettingValue == Email \cup Providers \cup {None, Blank, "off", "default", "deny", "secret"}
SettingsRequest ==
  [kind : {"settings", "saveSettings", "testEmail"}, of : Sections, arg : [what : SettingValue, visit : Nat],
   state : {"sent", "ok"}, result : SettingValue, heard : BOOLEAN]

SettingsTypes ==
  /\ acts \in Nat /\ page \in [at : {"list", "settings", "provider"}, of : Sections \cup {None}, no : Nat]
  /\ OnSettings => page.of \in Sections
  /\ kept \in [Sections -> SettingValue] /\ form \in SettingValue
  /\ stale \in BOOLEAN
  /\ flights \subseteq SettingsRequest
  /\ \A f \in flights : f.kind = "settings" \/ f.state = "ok" => f.heard

(* Who waits for a test message is on the page of the e-mail settings.       *)
TestsHere == \A f \in flights : f.kind = "testEmail" => f.of = "email" /\ (f.heard => InSection("email"))

Saving(f) == f.kind = "saveSettings" /\ f.of = page.of
Reading(f) == f.heard /\ f.kind \in {"settings", "testEmail"} /\ f.of = page.of

OneSave ==
  \A f \in flights : Saving(f) =>
    /\ f.heard /\ f.arg.visit = page.no /\ "save" \in flags
    /\ \A g \in flights : ~Reading(g) /\ (Saving(g) => g = f)

AnswersKept ==
  \A f \in flights :
    /\ f.state = "ok" /\ f.of = page.of /\ f.kind # "testEmail" => f.result = kept[f.of]
    /\ f.heard /\ f.kind = "testEmail" => f.arg.what = kept["email"]

SavedKept == saved \in {None, kept[page.of]} \/ \E f \in flights : Saving(f) /\ f.state = "ok"

TestedKept == tested # None /\ tested.known => tested.with = tested.meant

SettingsInv ==
  /\ SettingsTypes /\ TestsHere /\ TestedKept
  /\ OnSettings /\ ~stale => OneSave /\ AnswersKept /\ SavedKept

LEMMA SettingAsked ==
  ASSUME NEW kind \in {"settings", "saveSettings", "testEmail"}, NEW of \in Sections, NEW what \in SettingValue,
         NEW visit \in Nat
  PROVE  LET r == Request(kind, of, [what |-> what, visit |-> visit])
         IN /\ r \in SettingsRequest /\ r.kind = kind /\ r.of = of /\ r.arg.what = what /\ r.arg.visit = visit
            /\ r.heard /\ r.state = "sent"
<1>1. None \in SettingValue
  BY DEF SettingValue
<1> QED BY <1>1 DEF Request, SettingsRequest

LEMMA SettingAnswered ==
  ASSUME NEW f \in SettingsRequest, NEW answer \in SettingValue
  PROVE  LET h == [f EXCEPT !.state = "ok", !.result = answer]
         IN /\ h \in SettingsRequest /\ h.kind = f.kind /\ h.of = f.of /\ h.arg = f.arg /\ h.heard = f.heard
            /\ h.state = "ok" /\ h.result = answer
BY DEF SettingsRequest

LEMMA SettingUpdated ==
  ASSUME NEW s \in Sections, NEW v, UpdateSettings(s, v)
  PROVE  kept' = [kept EXCEPT ![s] = v]
BY DEF Sections, UpdateSettings, UpdateEmail, UpdateOidc, UpdatePolicy, UpdateRegistry

LEMMA DraftValues == \A s \in Sections : Drafts(s) \subseteq SettingValue
BY DEF Sections, Drafts, SettingValue, Email

LEMMA OpenSettingsKeeps == ASSUME SettingsInv, NEW s \in Sections, OpenSettings(s) PROVE SettingsInv'
<1>1. PICK r : /\ r \in SettingsRequest /\ r.kind = "settings" /\ r.heard /\ r.state = "sent"
               /\ flights' = (flights \ Of({"settings"})) \cup {r}
  <2>1. page' = [at |-> "settings", of |-> s, no |-> acts'] /\ acts' \in Nat
    BY DEF OpenSettings, Route, Act, SettingsInv, SettingsTypes
  <2>2. AskSettings("settings", None) = Request("settings", s, [what |-> None, visit |-> acts'])
    BY <2>1 DEF AskSettings
  <2>3. None \in SettingValue
    BY DEF SettingValue
  <2> QED BY <2>1, <2>2, <2>3, SettingAsked DEF OpenSettings
<1>2. /\ ~OnSettings /\ page' = [at |-> "settings", of |-> s, no |-> acts'] /\ acts' \in Nat
      /\ form' \in {Blank, None} /\ saved' = None /\ UNCHANGED <<kept, tested>>
      /\ stale' = (\E f \in Of({"saveSettings"}) : f.of = s)
  BY DEF OpenSettings, Route, Act, SettingsInv, SettingsTypes
<1>3. \A f \in flights' : f = r \/ (f \in flights /\ f.kind # "settings")
  BY <1>1 DEF Of
<1>4. SettingsTypes'
  <2>1. page' \in [at : {"list", "settings", "provider"}, of : Sections \cup {None}, no : Nat] /\ page'.of \in Sections
    BY <1>2
  <2>2. form' \in SettingValue
    BY <1>2 DEF SettingValue
  <2>3. stale' \in BOOLEAN
    BY <1>2
  <2>4. /\ flights' \subseteq SettingsRequest
        /\ \A f \in flights' : f.kind = "settings" \/ f.state = "ok" => f.heard
    BY <1>1, <1>3 DEF SettingsInv, SettingsTypes
  <2> QED BY <1>2, <2>1, <2>2, <2>3, <2>4 DEF SettingsInv, SettingsTypes
<1>5. \A f \in flights : f.kind = "testEmail" => f.of = "email" /\ ~f.heard
  BY <1>2 DEF SettingsInv, TestsHere, InSection
<1>6. TestsHere' /\ TestedKept'
  BY <1>1, <1>2, <1>3, <1>5 DEF SettingsInv, TestsHere, TestedKept
<1>7. ASSUME ~stale' PROVE OneSave' /\ AnswersKept' /\ SavedKept'
  <2>1. \A f \in flights' : f.kind = "saveSettings" => f.of # page'.of
    BY <1>1, <1>2, <1>3, <1>7 DEF Of
  <2>2. OneSave'
    BY <2>1 DEF OneSave, Saving
  <2>3. \A f \in flights' : f.kind = "testEmail" => ~f.heard
    BY <1>1, <1>3, <1>5
  <2>4. \A f \in flights' : f.kind \in {"settings", "saveSettings", "testEmail"}
    BY <1>4 DEF SettingsTypes, SettingsRequest
  <2>5. \A f \in flights' : f.kind = "settings" => f.state = "sent"
    BY <1>1, <1>3
  <2>6. AnswersKept'
    BY <2>1, <2>3, <2>4, <2>5 DEF AnswersKept
  <2> QED BY <1>2, <2>2, <2>6 DEF SavedKept
<1> QED BY <1>4, <1>6, <1>7 DEF SettingsInv

LEMMA LeaveSettingsKeeps == SettingsInv /\ LeaveSettings => SettingsInv'
<1> SUFFICES ASSUME SettingsInv, LeaveSettings PROVE SettingsInv'
  OBVIOUS
<1> DEFINE K == {"settings", "saveSettings", "testEmail"}
<1>1. /\ page' = [at |-> "list", of |-> None, no |-> acts'] /\ acts' \in Nat /\ UNCHANGED <<kept, form, saved, tested, stale>>
      /\ flights' = {f \in flights : f.of = "oidc"} \cup {f \in Unheard(K) : f.of # "oidc"}
  BY DEF LeaveSettings, Route, Act, SettingsInv, SettingsTypes
<1>2. ASSUME NEW g \in flights, g.kind \in Writes /\ g.state = "sent"
      PROVE  LET h == [g EXCEPT !.heard = FALSE]
             IN h \in SettingsRequest /\ h.kind = g.kind /\ h.kind # "settings" /\ h.of = g.of /\ ~h.heard /\ h.state = "sent"
  BY <1>2 DEF SettingsInv, SettingsTypes, SettingsRequest, Writes
<1>3. \A f \in flights : f.kind \in K
  BY DEF SettingsInv, SettingsTypes, SettingsRequest
<1>4. \A f \in flights' : \/ f \in flights /\ f.of = "oidc"
                          \/ /\ f \in SettingsRequest /\ f.kind # "settings" /\ ~f.heard /\ f.state = "sent"
                             /\ f.kind = "testEmail" => f.of = "email"
  <2>1. \A f \in Unheard(K) : \E g \in flights : g.kind \in Writes /\ g.state = "sent" /\ f = [g EXCEPT !.heard = FALSE]
    BY <1>3 DEF Unheard, Of
  <2>2. ASSUME NEW f \in Unheard(K)
        PROVE  /\ f \in SettingsRequest /\ f.kind # "settings" /\ ~f.heard /\ f.state = "sent"
               /\ f.kind = "testEmail" => f.of = "email"
    <3>1. PICK g \in flights : g.kind \in Writes /\ g.state = "sent" /\ f = [g EXCEPT !.heard = FALSE]
      BY <2>1
    <3> QED BY <1>2, <3>1 DEF SettingsInv, TestsHere
  <2> QED BY <1>1, <2>2
<1> HIDE DEF K
<1>5. SettingsTypes'
  <2>1. page' \in [at : {"list", "settings", "provider"}, of : Sections \cup {None}, no : Nat] /\ ~OnSettings'
    BY <1>1 DEF OnSettings
  <2> QED BY <1>1, <1>4, <2>1 DEF SettingsInv, SettingsTypes
<1>6. TestsHere' /\ TestedKept'
  BY <1>1, <1>4 DEF SettingsInv, TestsHere, TestedKept
<1> QED BY <1>1, <1>5, <1>6 DEF SettingsInv, OnSettings

LEMMA TypeSettingKeeps ==
  ASSUME SettingsInv, NEW d, d \in Drafts(page.of), TypeSetting(d)
  PROVE  SettingsInv'
<1>1. d \in SettingValue
  BY DraftValues DEF TypeSetting, SettingsInv, SettingsTypes
<1>2. form' = d /\ UNCHANGED <<acts, page, flights, kept, saved, flags, tested, stale>>
  BY DEF TypeSetting, browserVars
<1> QED BY <1>1, <1>2 DEF SettingsInv, SettingsTypes, OnSettings, TestsHere, InSection, TestedKept, OneSave, Saving, Reading,
           AnswersKept, SavedKept

LEMMA AskSaveKeeps ==
  ASSUME SettingsInv, OnSettings, "save" \notin flags, NEW value \in SettingValue, AskSave(value)
  PROVE  SettingsInv'
<1>1. page \in [at : {"list", "settings", "provider"}, of : Sections \cup {None}, no : Nat] /\ page.of \in Sections
  BY DEF SettingsInv, SettingsTypes
<1>2. PICK r : /\ r \in SettingsRequest /\ r.kind = "saveSettings" /\ r.heard /\ r.state = "sent"
               /\ r.of = page.of /\ r.arg.visit = page.no /\ flights' = flights \cup {r}
  <2>1. AskSettings("saveSettings", value) = Request("saveSettings", page.of, [what |-> value, visit |-> page.no])
    BY DEF AskSave, AskSettings
  <2> QED BY <1>1, <2>1, SettingAsked DEF AskSave, Merged
<1>3. /\ acts' \in Nat /\ UNCHANGED <<page, kept, form, saved, tested>> /\ flags' = flags \cup {"save"}
      /\ stale' = (stale \/ \E f \in Awaited({"settings", "testEmail"}) : f.of = page.of)
  BY DEF AskSave, Act, SettingsInv, SettingsTypes
<1>4. SettingsTypes' /\ TestsHere' /\ TestedKept'
  BY <1>2, <1>3 DEF SettingsInv, SettingsTypes, OnSettings, TestsHere, InSection, TestedKept
<1>5. ASSUME ~stale' PROVE OneSave' /\ AnswersKept' /\ SavedKept'
  <2>1. ~stale /\ \A f \in flights : ~Reading(f) /\ ~Saving(f)
    BY <1>3, <1>5 DEF SettingsInv, OneSave, Awaited, Of, Reading
  <2>2. OneSave'
    BY <1>2, <1>3, <2>1 DEF OneSave, Saving, Reading
  <2>3. AnswersKept'
    BY <1>2, <1>3, <2>1 DEF SettingsInv, AnswersKept
  <2>4. SavedKept'
    BY <1>2, <1>3, <2>1 DEF SettingsInv, SavedKept
  <2> QED BY <2>2, <2>3, <2>4
<1> QED BY <1>4, <1>5 DEF SettingsInv

LEMMA SavesKeep ==
  SettingsInv /\ (SaveOidc \/ SaveEmail \/ SavePolicy \/ SaveRegistry) => SettingsInv'
<1> SUFFICES ASSUME SettingsInv, SaveOidc \/ SaveEmail \/ SavePolicy \/ SaveRegistry PROVE SettingsInv'
  OBVIOUS
<1>1. OnSettings /\ "save" \notin flags /\ (AskSave(form) \/ AskSave(Blank))
  BY DEF SaveOidc, SaveEmail, SavePolicy, SaveRegistry, InSection
<1>2. form \in SettingValue /\ Blank \in SettingValue
  BY DEF SettingsInv, SettingsTypes, SettingValue
<1> QED BY <1>1, <1>2, AskSaveKeeps

(* With no flag set no save is under way, and what is shown for saved is.    *)
LEMMA ReadsKeep == SettingsInv /\ (ReloadPolicy \/ SendTestEmail) => SettingsInv'
<1> SUFFICES ASSUME SettingsInv, ReloadPolicy \/ SendTestEmail PROVE SettingsInv'
  OBVIOUS
<1>1. /\ page \in [at : {"list", "settings", "provider"}, of : Sections \cup {None}, no : Nat] /\ page.of \in Sections
      /\ OnSettings /\ form \in SettingValue /\ None \in SettingValue
  BY DEF SettingsInv, SettingsTypes, ReloadPolicy, SendTestEmail, InSection, SettingValue
<1>2. /\ acts' \in Nat /\ flags = {} /\ UNCHANGED <<page, kept, form, saved, tested, stale>>
  BY DEF ReloadPolicy, SendTestEmail, CanSendTestEmail, Act, SettingsInv, SettingsTypes
<1>3. PICK r : /\ r \in SettingsRequest /\ r.kind \in {"settings", "testEmail"} /\ r.heard /\ r.state = "sent"
               /\ r.kind = "testEmail" => r.arg.what = saved /\ saved # None /\ r.of = "email" /\ page.of = "email"
               /\ flights' = flights \cup {r}
  <2>1. CASE ReloadPolicy
    <3>1. flights' = flights \cup {Request("settings", page.of, [what |-> None, visit |-> page.no])}
      BY <2>1 DEF ReloadPolicy, AskSettings, Merged
    <3> QED BY <1>1, <3>1, SettingAsked
  <2>2. CASE SendTestEmail
    <3>1. flights' = flights \cup {Request("testEmail", page.of, [what |-> form, visit |-> page.no])}
      BY <2>2 DEF SendTestEmail, AskSettings, Merged
    <3>2. saved # None /\ form = saved /\ page.of = "email"
      BY <2>2 DEF SendTestEmail, CanSendTestEmail, Unsaved, InSection
    <3> QED BY <1>1, <3>1, <3>2, SettingAsked
  <2> QED BY <2>1, <2>2
<1>4. SettingsTypes' /\ TestsHere' /\ TestedKept'
  BY <1>1, <1>2, <1>3 DEF SettingsInv, SettingsTypes, OnSettings, TestsHere, InSection, TestedKept
<1>5. ASSUME ~stale PROVE OneSave' /\ AnswersKept' /\ SavedKept'
  <2>1. \A f \in flights : ~Saving(f)
    BY <1>1, <1>2, <1>5 DEF SettingsInv, OneSave
  <2>2. saved \in {None, kept[page.of]}
    BY <1>1, <1>5, <2>1 DEF SettingsInv, SavedKept
  <2>3. OneSave'
    BY <1>2, <1>3, <2>1 DEF OneSave, Saving
  <2>4. AnswersKept'
    BY <1>1, <1>2, <1>3, <1>5, <2>2 DEF SettingsInv, AnswersKept
  <2>5. SavedKept'
    BY <1>2, <2>2 DEF SavedKept
  <2> QED BY <2>3, <2>4, <2>5
<1> QED BY <1>2, <1>4, <1>5 DEF SettingsInv

(* The server.                                                               *)
LEMMA SettingsServed ==
  ASSUME SettingsInv, NEW f \in flights, NEW answer \in SettingValue, flights' = Answered(f, answer), f.state = "sent",
         UNCHANGED <<page, acts, form, saved, flags, stale>>, TestedKept',
         \/ kept' = kept /\ (f.kind = "testEmail" \/ (f.kind = "settings" /\ answer = kept[f.of]))
         \/ f.kind = "saveSettings" /\ kept' = [kept EXCEPT ![f.of] = answer]
  PROVE  SettingsInv'
<1> DEFINE h == [f EXCEPT !.state = "ok", !.result = answer]
<1>1. f \in SettingsRequest /\ kept \in [Sections -> SettingValue] /\ f.of \in Sections
  BY DEF SettingsInv, SettingsTypes, SettingsRequest
<1>2. /\ h \in SettingsRequest /\ h.kind = f.kind /\ h.of = f.of /\ h.arg = f.arg /\ h.heard = f.heard
      /\ h.state = "ok" /\ h.result = answer
  BY <1>1, SettingAnswered
<1>3. flights' = (flights \ {f}) \cup (IF f.heard THEN {h} ELSE {})
  BY DEF Answered
<1> HIDE DEF h
<1>4. kept' \in [Sections -> SettingValue] /\ \A s \in Sections : s # f.of => kept'[s] = kept[s]
  BY <1>1
<1>5. SettingsTypes' /\ TestsHere'
  BY <1>2, <1>3, <1>4 DEF SettingsInv, SettingsTypes, OnSettings, TestsHere, InSection
<1>6. ASSUME OnSettings, ~stale PROVE OneSave' /\ AnswersKept' /\ SavedKept'
  <2>1. OneSave /\ AnswersKept /\ SavedKept /\ page.of \in Sections
    BY <1>6 DEF SettingsInv, SettingsTypes
  <2>2. OneSave'
    BY <1>2, <1>3, <2>1 DEF OneSave, Saving, Reading
  <2>3. CASE f.kind # "saveSettings"
    <3>1. kept' = kept /\ (f.kind = "settings" => answer = kept[f.of])
      BY <2>3
    <3>2. AnswersKept'
      BY <1>2, <1>3, <2>1, <2>3, <3>1 DEF AnswersKept
    <3>3. SavedKept'
      BY <1>2, <1>3, <2>1, <2>3, <3>1 DEF SavedKept, Saving
    <3> QED BY <2>2, <3>2, <3>3
  <2>4. CASE f.kind = "saveSettings" /\ f.of # page.of
    <3>1. kept'[page.of] = kept[page.of]
      BY <1>4, <2>1, <2>4
    <3>2. \A g \in flights : g.heard /\ g.kind = "testEmail" => page.of = "email" /\ kept'["email"] = kept["email"]
      BY <2>4, <3>1 DEF SettingsInv, TestsHere, InSection
    <3>3. AnswersKept'
      BY <1>2, <1>3, <2>1, <2>4, <3>1, <3>2 DEF AnswersKept
    <3>4. SavedKept'
      BY <1>2, <1>3, <2>1, <2>4, <3>1 DEF SavedKept, Saving
    <3> QED BY <2>2, <3>3, <3>4
  <2>5. CASE f.kind = "saveSettings" /\ f.of = page.of
    <3>1. kept'[page.of] = answer
      BY <1>1, <2>5
    <3>2. f.heard /\ \A g \in flights : ~Reading(g) /\ (Saving(g) => g = f)
      BY <2>1, <2>5 DEF OneSave, Saving
    <3>3. \A g \in flights' : g = h \/ (g \in flights /\ g # f)
      BY <1>3
    <3>4. \A g \in flights : /\ g.kind = "settings" => g.heard
                            /\ g.kind \in {"settings", "saveSettings", "testEmail"}
                            /\ g.kind = "testEmail" /\ g.heard => g.of = page.of
      BY DEF SettingsInv, SettingsTypes, SettingsRequest, TestsHere, InSection
    <3>5. \A g \in flights' : g = h \/ (g.of # page.of \/ (g.kind = "testEmail" /\ ~g.heard))
      <4>1. ASSUME NEW g \in flights', g # h PROVE g.of # page.of \/ (g.kind = "testEmail" /\ ~g.heard)
        <5>1. g \in flights /\ g # f /\ ~Reading(g) /\ ~Saving(g)
          BY <3>2, <3>3, <4>1
        <5>2. /\ g.kind \in {"settings", "saveSettings", "testEmail"} /\ g.heard \in BOOLEAN
              /\ g.kind = "settings" => g.heard
          BY <5>1 DEF SettingsInv, SettingsTypes, SettingsRequest
        <5>3. ~(g.heard /\ g.kind \in {"settings", "testEmail"} /\ g.of = page.of)
          BY <5>1 DEF Reading
        <5>4. ~(g.kind = "saveSettings" /\ g.of = page.of)
          BY <5>1 DEF Saving
        <5> QED BY <5>2, <5>3, <5>4
      <4> QED BY <4>1
    <3>6. \A g \in flights' : g = h \/ ~(g.kind = "testEmail" /\ g.heard)
      BY <3>3, <3>4, <3>5
    <3>7. AnswersKept'
      <4>1. ASSUME NEW g \in flights', g.state = "ok", g.of = page.of, g.kind # "testEmail" PROVE g.result = kept'[g.of]
        BY <1>2, <3>1, <3>5, <4>1
      <4>2. ASSUME NEW g \in flights', g.heard, g.kind = "testEmail" PROVE FALSE
        BY <1>2, <2>5, <3>6, <4>2
      <4> QED BY <4>1, <4>2 DEF AnswersKept
    <3>8. SavedKept'
      BY <1>2, <1>3, <2>5, <3>2 DEF SavedKept, Saving
    <3> QED BY <2>2, <3>7, <3>8
  <2> QED BY <2>3, <2>4, <2>5
<1> QED BY <1>5, <1>6 DEF SettingsInv, OnSettings

LEMMA ServersKeep ==
  ASSUME SettingsInv, NEW f \in flights, ServeSettings(f) \/ ServeSave(f) \/ ServeTest(f)
  PROVE  SettingsInv'
<1>1. /\ f.of \in Sections /\ f.arg.what \in SettingValue /\ kept \in [Sections -> SettingValue]
      /\ None \in SettingValue /\ TestedKept
  BY DEF SettingsInv, SettingsTypes, SettingsRequest, SettingValue
<1>2. CASE ServeSettings(f)
  BY <1>1, <1>2, SettingsServed DEF ServeSettings, Sent, settingsVars, TestedKept
<1>3. CASE ServeSave(f)
  BY <1>1, <1>3, SettingsServed, SettingUpdated DEF ServeSave, Sent, TestedKept
<1>4. CASE ServeTest(f)
  <2>1. tested' = [with |-> kept["email"], meant |-> f.arg.what, known |-> ~stale /\ f.heard] /\ f.kind = "testEmail"
    BY <1>4 DEF ServeTest, Sent
  <2>2. ~stale /\ f.heard => kept["email"] = f.arg.what
    BY <2>1 DEF SettingsInv, AnswersKept, TestsHere, InSection
  <2>3. TestedKept'
    BY <2>1, <2>2 DEF TestedKept
  <2> QED BY <1>1, <1>4, <2>1, <2>3, SettingsServed DEF ServeTest, Sent
<1> QED BY <1>2, <1>3, <1>4

LEMMA OthersSaveKeep ==
  ASSUME SettingsInv, NEW s \in Sections, NEW v \in Drafts(s), OthersSave(s, v)
  PROVE  SettingsInv'
<1>1. v \in SettingValue /\ kept \in [Sections -> SettingValue]
  BY DraftValues DEF SettingsInv, SettingsTypes
<1>2. /\ kept' = [kept EXCEPT ![s] = v] /\ stale' = (stale \/ InSection(s)) /\ acts' \in Nat
      /\ UNCHANGED <<page, flights, form, saved, flags, tested>>
  BY SettingUpdated DEF OthersSave, Act, SettingsInv, SettingsTypes
<1>3. kept' \in [Sections -> SettingValue] /\ \A t \in Sections : t # s => kept'[t] = kept[t]
  BY <1>1, <1>2
<1>4. SettingsTypes' /\ TestsHere' /\ TestedKept'
  BY <1>2, <1>3 DEF SettingsInv, SettingsTypes, OnSettings, TestsHere, InSection, TestedKept
<1>5. ASSUME OnSettings, ~stale' PROVE OneSave' /\ AnswersKept' /\ SavedKept'
  <2>1. OneSave /\ AnswersKept /\ SavedKept /\ page.of \in Sections /\ page.of # s
    BY <1>2, <1>5 DEF SettingsInv, SettingsTypes, InSection
  <2>2. kept'[page.of] = kept[page.of]
    BY <1>3, <2>1
  <2>3. \A g \in flights : g.heard /\ g.kind = "testEmail" => page.of = "email" /\ kept'["email"] = kept["email"]
    BY <2>2 DEF SettingsInv, TestsHere, InSection
  <2>4. OneSave'
    BY <1>2, <2>1 DEF OneSave, Saving, Reading
  <2>5. AnswersKept'
    BY <1>2, <2>1, <2>2, <2>3 DEF AnswersKept
  <2>6. SavedKept'
    BY <1>2, <2>1, <2>2 DEF SavedKept, Saving
  <2> QED BY <2>4, <2>5, <2>6
<1> QED BY <1>2, <1>4, <1>5 DEF SettingsInv, OnSettings

(* What the page is filled with is what it was told, or nothing.             *)
LEMMA Refills ==
  ASSUME NEW s \in Sections, NEW v \in SettingValue, NEW wasSaving \in BOOLEAN, form \in SettingValue, Refill(s, v, wasSaving)
  PROVE  form' \in SettingValue /\ saved' \in {None, v}
<1>1. Blank \in SettingValue /\ Corrected(v) \in SettingValue
  BY DEF SettingValue, Corrected, Email
<1> QED BY <1>1 DEF Refill, ApplyEmail, SnapshotOf, Sections

LEMMA SettingsAnswersKeep ==
  ASSUME SettingsInv, NEW f \in flights, SettingsLoaded(f) \/ SettingsSaved(f)
  PROVE  SettingsInv'
<1>1. f.of \in Sections /\ f.result \in SettingValue /\ form \in SettingValue
  BY DEF SettingsInv, SettingsTypes, SettingsRequest
<1>2. /\ f.kind \in {"settings", "saveSettings"} /\ f.state = "ok" /\ flights' = flights \ {f}
      /\ UNCHANGED <<page, acts, kept, tested, stale>>
  BY DEF SettingsLoaded, SettingsSaved, Answers, Without
<1>3. IF Addressed(f) THEN form' \in SettingValue /\ saved' \in {None, f.result}
      ELSE UNCHANGED <<form, saved>>
  BY <1>1, Refills DEF SettingsLoaded, SettingsSaved
<1>4. (f.kind = "saveSettings" /\ Addressed(f)) \/ flags \ {"load", "test"} \subseteq flags'
  BY DEF SettingsLoaded, SettingsSaved, Answers
<1>5. SettingsTypes' /\ TestsHere' /\ TestedKept'
  BY <1>1, <1>2, <1>3 DEF SettingsInv, SettingsTypes, OnSettings, TestsHere, InSection, TestedKept
<1>6. ASSUME OnSettings, ~stale PROVE OneSave' /\ AnswersKept' /\ SavedKept'
  <2>1. OneSave /\ AnswersKept /\ SavedKept
    BY <1>6 DEF SettingsInv
  <2>2. AnswersKept'
    BY <1>2, <2>1 DEF AnswersKept
  <2>3. Addressed(f) => f.of = page.of /\ f.result = kept[page.of]
    BY <1>2, <2>1 DEF Addressed, AnswersKept
  <2>4. Saving(f) => Addressed(f)
    BY <1>6, <2>1 DEF OneSave, Saving, Addressed
  <2>5. OneSave'
    <3>1. ASSUME NEW g \in flights', Saving(g) PROVE "save" \in flags'
      <4>1. f # g /\ ~Saving(f)
        BY <1>2, <2>1, <3>1 DEF OneSave
      <4>2. ~(f.kind = "saveSettings" /\ Addressed(f))
        BY <2>3, <4>1 DEF Saving
      <4> QED BY <1>2, <1>4, <2>1, <3>1, <4>2 DEF OneSave
    <3> QED BY <1>2, <2>1, <3>1 DEF OneSave, Saving, Reading
  <2>6. SavedKept'
    BY <1>2, <1>3, <2>1, <2>3, <2>4 DEF SavedKept, Saving
  <2> QED BY <2>2, <2>5, <2>6
<1> QED BY <1>2, <1>5, <1>6 DEF SettingsInv, OnSettings

LEMMA TestSentKeeps == ASSUME SettingsInv, NEW f \in flights, TestSent(f) PROVE SettingsInv'
<1>1. f \in SettingsRequest /\ None \in SettingValue /\ "email" \in Sections
  BY DEF SettingsInv, SettingsTypes, SettingValue, Sections
<1>2. PICK r : /\ r \in SettingsRequest /\ r.kind = "settings" /\ r.of = "email" /\ r.heard /\ r.state = "sent"
               /\ flights' = (flights \ {f}) \cup {r}
  <2>1. LET r == Request("settings", "email", f.arg)
        IN r \in SettingsRequest /\ r.kind = "settings" /\ r.of = "email" /\ r.heard /\ r.state = "sent"
    BY <1>1 DEF Request, SettingsRequest
  <2> QED BY <2>1 DEF TestSent
<1>3. /\ f.kind = "testEmail" /\ f.state = "ok" /\ UNCHANGED <<page, acts, kept, form, saved, flags, tested, stale>>
  BY DEF TestSent, Answers, settingsVars
<1>4. f.heard /\ f.of = "email" /\ InSection("email")
  BY <1>3 DEF SettingsInv, SettingsTypes, TestsHere
<1>5. SettingsTypes' /\ TestsHere' /\ TestedKept'
  BY <1>2, <1>3 DEF SettingsInv, SettingsTypes, OnSettings, TestsHere, InSection, TestedKept
<1>6. ASSUME ~stale PROVE OneSave' /\ AnswersKept' /\ SavedKept'
  <2>1. OneSave /\ AnswersKept /\ SavedKept
    BY <1>4, <1>6 DEF SettingsInv, InSection
  <2>2. \A g \in flights : ~Saving(g)
    BY <1>3, <1>4, <2>1 DEF OneSave, Reading, InSection
  <2>3. OneSave' /\ AnswersKept' /\ SavedKept'
    BY <1>2, <1>3, <2>1, <2>2 DEF OneSave, AnswersKept, SavedKept, Saving
  <2> QED BY <2>3
<1> QED BY <1>3, <1>5, <1>6 DEF SettingsInv

LEMMA RedirectedKeeps == ASSUME SettingsInv, NEW f \in flights, Redirected(f) PROVE SettingsInv'
<1>1. /\ page' = [page EXCEPT !.at = "provider"] /\ flights' = {} /\ UNCHANGED <<acts, kept, form, saved, tested, stale>>
  BY DEF Redirected
<1>2. page' \in [at : {"list", "settings", "provider"}, of : Sections \cup {None}, no : Nat] /\ ~OnSettings'
  BY <1>1 DEF SettingsInv, SettingsTypes, OnSettings
<1> QED BY <1>1, <1>2 DEF SettingsInv, SettingsTypes, TestsHere, TestedKept

LEMMA SettingsFailKeeps == ASSUME SettingsInv, NEW f \in flights, SettingsFail(f) PROVE SettingsInv'
<1>1. f.of \in Sections /\ f.arg.what \in SettingValue /\ kept \in [Sections -> SettingValue] /\ stale \in BOOLEAN
  BY DEF SettingsInv, SettingsTypes, SettingsRequest
<1>2. /\ f.state = "sent" /\ flights' = flights \ {f} /\ acts' \in Nat /\ UNCHANGED <<page, form, saved, tested>>
      /\ UNCHANGED <<kept, stale>> \/ (kept' = [kept EXCEPT ![f.of] = f.arg.what] /\ stale' = TRUE)
  BY <1>1, SettingUpdated DEF SettingsFail, Sent, Without, Act, SettingsInv, SettingsTypes
<1>3. kept' \in [Sections -> SettingValue] /\ stale' \in BOOLEAN
  BY <1>1, <1>2
<1>4. (f.kind = "saveSettings" /\ f.of = page.of) \/ flags \ {"load", "test"} \subseteq flags'
  BY DEF SettingsFail, Addressed
<1>5. SettingsTypes' /\ TestsHere' /\ TestedKept'
  BY <1>2, <1>3 DEF SettingsInv, SettingsTypes, OnSettings, TestsHere, InSection, TestedKept
<1>6. ASSUME OnSettings, ~stale' PROVE OneSave' /\ AnswersKept' /\ SavedKept'
  <2>1. OneSave /\ AnswersKept /\ SavedKept /\ UNCHANGED kept
    BY <1>2, <1>6 DEF SettingsInv
  <2>2. AnswersKept'
    BY <1>2, <2>1 DEF AnswersKept
  <2>3. OneSave'
    <3>1. ASSUME NEW g \in flights', Saving(g) PROVE "save" \in flags'
      <4>1. f # g /\ ~Saving(f)
        BY <1>2, <2>1, <3>1 DEF OneSave
      <4> QED BY <1>2, <1>4, <2>1, <3>1, <4>1 DEF OneSave, Saving
    <3> QED BY <1>2, <2>1, <3>1 DEF OneSave, Saving, Reading
  <2>4. SavedKept'
    BY <1>2, <2>1 DEF SavedKept, Saving
  <2> QED BY <2>2, <2>3, <2>4
<1> QED BY <1>2, <1>5, <1>6 DEF SettingsInv, OnSettings

LEMMA SettingsStarts == SettingsInit => SettingsInv
<1> SUFFICES ASSUME SettingsInit PROVE SettingsInv
  OBVIOUS
<1>1. PICK e \in {"disabled", "smtp", "port465"}, o \in {"off"} \cup Providers :
        kept = [s \in Sections |-> CASE s = "email" -> e [] s = "oidc" -> o
                                     [] s = "policy" -> "default" [] s = "registry" -> Blank]
  BY DEF SettingsInit
<1>2. e \in SettingValue /\ o \in SettingValue /\ "default" \in SettingValue /\ Blank \in SettingValue /\ None \in SettingValue
  BY DEF SettingValue, Email
<1>3. kept \in [Sections -> SettingValue]
  BY <1>1, <1>2 DEF Sections
<1>4. SettingsTypes /\ ~OnSettings
  BY <1>2, <1>3 DEF SettingsInit, SettingsTypes, OnSettings
<1> QED BY <1>4 DEF SettingsInit, SettingsInv, TestsHere, TestedKept

LEMMA SettingsStep ==
  SettingsInv /\ (SettingsNext \/ UNCHANGED <<browserVars, settingsVars>>) => SettingsInv'
<1>1. SettingsInv /\ UNCHANGED <<browserVars, settingsVars>> => SettingsInv'
  BY DEF browserVars, settingsVars, SettingsInv, SettingsTypes, OnSettings, TestsHere, InSection, TestedKept, OneSave, Saving, Reading,
         AnswersKept, SavedKept
<1>2. SettingsInv /\ SettingsNext => SettingsInv'
  BY OpenSettingsKeeps, LeaveSettingsKeeps, TypeSettingKeeps, SavesKeep, ReadsKeep, ServersKeep, OthersSaveKeep,
     SettingsAnswersKeep, TestSentKeeps, RedirectedKeeps, SettingsFailKeeps DEF SettingsNext
<1> QED BY <1>1, <1>2

LEMMA SettingsMatch ==
  SettingsInv =>
    /\ OnSettings /\ ~stale /\ (\A f \in flights : ~(f.heard /\ f.of = page.of)) => saved \in {None, kept[page.of]}
    /\ tested # None /\ tested.known => tested.with = tested.meant
BY DEF SettingsInv, SettingsTypes, SavedKept, Saving, TestedKept

-----------------------------------------------------------------------------
(* The endpoint form: one request for the endpoint at a time, and what is    *)
(* shown and asked for follows the server's rules.                           *)

EndpointHost == [name : HostNames, domain : {"base", "former"}]
Endpoint == [scheme : {"internal", "http", "https"}, host : EndpointHost \cup {None}, auth : BOOLEAN]
Rules == [http : BOOLEAN, ingress : BOOLEAN]
Forms == [scheme : {"internal", "http", "https"}, name : HostNames \cup {None}, auth : BOOLEAN,
          creds : {"keep", "new", "malformed", "unpaired"}]
AccessRequest ==
  [kind : {"access", "policy", "saveAccess"}, of : {None}, arg : Forms \cup {None},
   state : {"sent", "ok"}, result : Endpoint \cup Rules \cup {None}, heard : BOOLEAN]

AccessTypes ==
  /\ endpoint \in Endpoint /\ (endpoint.scheme = "internal" => endpoint.host = None)
  /\ exposure \in Rules
  /\ access \in [shown : Endpoint \cup {None}, policy : Rules, busy : BOOLEAN]
  /\ superseded \in BOOLEAN
  /\ flights \subseteq AccessRequest
  /\ \A f \in flights : /\ f.kind = "saveAccess" => f.arg \in Edits
                        /\ f.state = "ok" => f.result \in (IF f.kind = "policy" THEN Rules ELSE Endpoint)

OfEndpoint(f) == f.kind \in {"access", "saveAccess"}
Left == ~OnPanels => \A f \in flights : f.kind = "saveAccess"

OneForEndpoint ==
  /\ \A f \in flights : f.kind = "saveAccess" => f.heard
  /\ \A f \in flights : OfEndpoint(f) => access.busy /\ \A g \in flights : OfEndpoint(g) => g = f

Known ==
  /\ access.policy \in {NoPolicy, exposure}
  /\ access.shown \in {None, endpoint} \/ \E f \in flights : f.kind = "saveAccess" /\ f.state = "ok"
  /\ \A f \in flights :
       /\ f.state = "ok" => f.result = (IF f.kind = "policy" THEN exposure ELSE endpoint)
       /\ f.state = "sent" /\ f.kind = "saveAccess" => Permitted(f.arg, endpoint)

AccessInv == AccessTypes /\ Left /\ (OnPanels /\ ~superseded => OneForEndpoint /\ Known)

LEMMA EditsAreForms == Edits \subseteq Forms
<1>1. [scheme |-> "internal", name |-> None, auth |-> FALSE, creds |-> "keep"] \in Forms
  BY DEF Forms
<1>2. [scheme : {"http", "https"}, name : HostNames, auth : BOOLEAN,
       creds : {"keep", "new", "malformed", "unpaired"}] \subseteq Forms
  BY DEF Forms
<1> QED BY <1>1, <1>2 DEF Edits

LEMMA AccessAsked ==
  ASSUME NEW kind \in {"access", "policy", "saveAccess"}, NEW arg \in Forms \cup {None}
  PROVE  LET r == Request(kind, None, arg)
         IN r \in AccessRequest /\ r.kind = kind /\ r.arg = arg /\ r.heard /\ r.state = "sent"
<1>1. None \in Endpoint \cup Rules \cup {None} /\ None \in {None}
  OBVIOUS
<1> QED BY <1>1 DEF Request, AccessRequest

LEMMA AccessAnswered ==
  ASSUME NEW f \in AccessRequest, NEW answer \in Endpoint \cup Rules
  PROVE  LET h == [f EXCEPT !.state = "ok", !.result = answer]
         IN /\ h \in AccessRequest /\ h.kind = f.kind /\ h.arg = f.arg /\ h.heard = f.heard
            /\ h.state = "ok" /\ h.result = answer
BY DEF AccessRequest

LEMMA GrantedEndpoint ==
  ASSUME AccessTypes, NEW d \in Edits
  PROVE  Granted(d) \in Endpoint /\ (Granted(d).scheme = "internal" => Granted(d).host = None)
<1>1. CASE ~External(d)
  BY <1>1 DEF Granted, Internal, Endpoint
<1>2. CASE External(d)
  <2>1. d.scheme \in {"http", "https"} /\ d.name \in HostNames /\ d.auth \in BOOLEAN
    BY <1>2 DEF Edits, External
  <2>2. Host(d.name, "base") \in EndpointHost
    BY <2>1 DEF Host, EndpointHost
  <2>3. endpoint.host \in EndpointHost \cup {None}
    BY DEF AccessTypes, Endpoint
  <2>4. Resolved(d.name, endpoint) \in EndpointHost
    BY <2>2, <2>3 DEF Resolved
  <2> QED BY <1>2, <2>1, <2>4 DEF Granted, Endpoint
<1> QED BY <1>1, <1>2

(* What the form lets through breaks none of the rules it shares with the    *)
(* server.                                                                   *)
LEMMA ValidIsPermitted ==
  ASSUME NEW d \in Edits, NEW p \in {NoPolicy, exposure}, NEW e, Valid(d, p, e)
  PROVE  Permitted(d, e)
BY DEF Valid, Permitted, PolicyAllows, CredentialsGiven, NoPolicy, External

LEMMA OpenAccessKeeps == AccessInv /\ OpenAccess => AccessInv'
<1> SUFFICES ASSUME AccessInv, OpenAccess PROVE AccessInv'
  OBVIOUS
<1> DEFINE r1 == Request("access", None, None)
           r2 == Request("policy", None, None)
<1>1. /\ r1 \in AccessRequest /\ r1.kind = "access" /\ r1.heard /\ r1.state = "sent"
      /\ r2 \in AccessRequest /\ r2.kind = "policy" /\ r2.heard /\ r2.state = "sent"
  BY AccessAsked
<1>2. /\ ~OnPanels /\ flights' = flights \cup {r1, r2} /\ superseded' = (Of({"saveAccess"}) # {})
      /\ access' = [shown |-> None, policy |-> NoPolicy, busy |-> TRUE] /\ UNCHANGED <<endpoint, exposure>> /\ OnPanels'
  BY DEF OpenAccess, Route, OnPanels
<1> HIDE DEF r1, r2
<1>3. access' \in [shown : Endpoint \cup {None}, policy : Rules, busy : BOOLEAN]
  BY <1>2 DEF NoPolicy, Rules
<1>4. AccessTypes'
  BY <1>1, <1>2, <1>3 DEF AccessInv, AccessTypes
<1>5. Left'
  BY <1>2 DEF Left
<1>6. ASSUME ~superseded' PROVE OneForEndpoint' /\ Known'
  <2>1. flights' = {r1, r2}
    BY <1>2, <1>6 DEF AccessInv, Left, Of
  <2> QED BY <1>1, <1>2, <2>1 DEF OneForEndpoint, Known, OfEndpoint
<1> QED BY <1>4, <1>5, <1>6 DEF AccessInv

LEMMA LeaveAccessKeeps == AccessInv /\ LeavePanels => AccessInv'
<1> SUFFICES ASSUME AccessInv, LeavePanels PROVE AccessInv'
  OBVIOUS
<1> DEFINE K == {"modelConfig", "logs", "access", "policy", "saveAccess", "profiles"}
<1>1. flights' = Unheard(K) /\ UNCHANGED <<endpoint, exposure, access, superseded>> /\ ~OnPanels'
  BY DEF LeavePanels, Route, OnPanels, detailVars, accessVars
<1>2. \A f \in flights : f.kind \in K
  BY DEF AccessInv, AccessTypes, AccessRequest
<1>3. \A f \in flights' : \E g \in flights : g.kind \in Writes /\ g.state = "sent" /\ f = [g EXCEPT !.heard = FALSE]
  BY <1>1, <1>2 DEF Unheard, Of
<1>4. ASSUME NEW f \in flights'
      PROVE  f \in AccessRequest /\ f.kind = "saveAccess" /\ f.arg \in Edits /\ f.state = "sent"
  <2>1. PICK g \in flights : g.kind \in Writes /\ g.state = "sent" /\ f = [g EXCEPT !.heard = FALSE]
    BY <1>3, <1>4
  <2>2. g \in AccessRequest /\ g.kind = "saveAccess" /\ g.arg \in Edits
    BY <2>1 DEF AccessInv, AccessTypes, AccessRequest, Writes
  <2> QED BY <2>1, <2>2 DEF AccessRequest
<1> QED BY <1>1, <1>4 DEF AccessInv, AccessTypes, Left

LEMMA SaveAccessKeeps == ASSUME AccessInv, NEW d \in Edits, SaveAccess(d) PROVE AccessInv'
<1>1. PICK r : /\ r \in AccessRequest /\ r.kind = "saveAccess" /\ r.arg = d /\ r.heard /\ r.state = "sent"
               /\ r = Request("saveAccess", None, d)
  BY EditsAreForms, AccessAsked
<1>2. /\ OnPanels /\ access.shown # None /\ ~access.busy /\ Valid(d, access.policy, access.shown)
      /\ access' = [access EXCEPT !.busy = TRUE] /\ flights' = flights \cup {r}
      /\ UNCHANGED <<page, endpoint, exposure, superseded>>
  BY <1>1 DEF SaveAccess, Merged
<1>3. /\ access' \in [shown : Endpoint \cup {None}, policy : Rules, busy : BOOLEAN]
      /\ access'.shown = access.shown /\ access'.policy = access.policy /\ access'.busy
  BY <1>2 DEF AccessInv, AccessTypes
<1>4. AccessTypes' /\ Left'
  BY <1>1, <1>2, <1>3 DEF AccessInv, AccessTypes, Left, OnPanels
<1>5. ASSUME ~superseded PROVE OneForEndpoint' /\ Known'
  <2>1. \A f \in flights : ~OfEndpoint(f)
    BY <1>2, <1>5 DEF AccessInv, OneForEndpoint
  <2>2. access.shown = endpoint /\ access.policy \in {NoPolicy, exposure}
    BY <1>2, <1>5, <2>1 DEF AccessInv, Known, OfEndpoint
  <2>3. Permitted(d, endpoint)
    BY <1>2, <2>2, ValidIsPermitted
  <2>4. Permitted(d, endpoint)'
    BY <1>2, <2>3 DEF Permitted, PolicyAllows
  <2>5. OneForEndpoint'
    BY <1>1, <1>2, <1>3, <2>1 DEF OneForEndpoint, OfEndpoint
  <2>6. Known'
    BY <1>1, <1>2, <1>3, <1>5, <2>1, <2>2, <2>4 DEF AccessInv, Known, OfEndpoint
  <2> QED BY <2>5, <2>6
<1> QED BY <1>2, <1>4, <1>5 DEF AccessInv

LEMMA ServeAccessKeeps == ASSUME AccessInv, NEW f \in flights, ServeAccess(f) PROVE AccessInv'
<1> DEFINE answer == IF f.kind = "access" THEN endpoint ELSE exposure
           h == [f EXCEPT !.state = "ok", !.result = answer]
<1>1. f \in AccessRequest /\ endpoint \in Endpoint /\ exposure \in Rules
  BY DEF AccessInv, AccessTypes
<1>2. /\ h \in AccessRequest /\ h.kind = f.kind /\ h.arg = f.arg /\ h.heard = f.heard
      /\ h.state = "ok" /\ h.result = answer
  <2>1. answer \in Endpoint \cup Rules
    BY <1>1
  <2> HIDE DEF answer
  <2> QED BY <1>1, <2>1, AccessAnswered
<1>3. /\ f.kind \in {"access", "policy"} /\ f.state = "sent" /\ flights' = (flights \ {f}) \cup (IF f.heard THEN {h} ELSE {})
      /\ UNCHANGED <<page, endpoint, exposure, access, superseded>>
  BY DEF ServeAccess, Sent, Answered, detailVars, accessVars
<1>4. answer = (IF f.kind = "policy" THEN exposure ELSE endpoint)
  BY <1>3
<1> HIDE DEF answer, h
<1>5. AccessTypes' /\ Left'
  BY <1>1, <1>2, <1>3, <1>4 DEF AccessInv, AccessTypes, Left, OnPanels
<1>6. ASSUME OnPanels, ~superseded PROVE OneForEndpoint' /\ Known'
  <2>1. OneForEndpoint /\ Known
    BY <1>6 DEF AccessInv
  <2>2. OneForEndpoint'
    BY <1>2, <1>3, <2>1 DEF OneForEndpoint, OfEndpoint
  <2>3. Known'
    BY <1>2, <1>3, <1>4, <2>1 DEF Known, Permitted, PolicyAllows
  <2> QED BY <2>2, <2>3
<1> QED BY <1>3, <1>5, <1>6 DEF AccessInv, OnPanels

LEMMA UpdateAccessKeeps == ASSUME AccessInv, NEW f \in flights, UpdateAccess(f) PROVE AccessInv'
<1>1. f \in AccessRequest /\ f.kind = "saveAccess" /\ f.arg \in Edits /\ f.state = "sent"
  BY DEF AccessInv, AccessTypes, UpdateAccess, Sent
<1>2. PICK e : e = Granted(f.arg) /\ e \in Endpoint /\ (e.scheme = "internal" => e.host = None)
  BY <1>1, GrantedEndpoint DEF AccessInv
<1> DEFINE h == [f EXCEPT !.state = "ok", !.result = e]
<1>3. /\ h \in AccessRequest /\ h.kind = f.kind /\ h.arg = f.arg /\ h.heard = f.heard
      /\ h.state = "ok" /\ h.result = e
  <2>1. e \in Endpoint \cup Rules
    BY <1>2
  <2> QED BY <1>1, <2>1, AccessAnswered
<1>4. /\ endpoint' = e /\ flights' = (flights \ {f}) \cup (IF f.heard THEN {h} ELSE {})
      /\ UNCHANGED <<page, exposure, access, superseded>>
  BY <1>2 DEF UpdateAccess, Answered
<1> HIDE DEF h
<1>5. AccessTypes' /\ Left'
  BY <1>1, <1>2, <1>3, <1>4 DEF AccessInv, AccessTypes, Left, OnPanels
<1>6. ASSUME OnPanels, ~superseded PROVE OneForEndpoint' /\ Known'
  <2>1. OneForEndpoint /\ Known
    BY <1>6 DEF AccessInv
  <2>2. f.heard /\ \A g \in flights : OfEndpoint(g) => g = f
    BY <1>1, <2>1 DEF OneForEndpoint, OfEndpoint
  <2>3. \A g \in flights' : g = h \/ (g \in flights /\ g.kind = "policy")
    BY <1>4, <2>2 DEF AccessInv, AccessTypes, AccessRequest, OfEndpoint
  <2>4. OneForEndpoint'
    BY <1>1, <1>3, <1>4, <2>1, <2>2, <2>3 DEF OneForEndpoint, OfEndpoint
  <2>5. h \in flights'
    BY <1>4, <2>2
  <2>6. Known'
    BY <1>1, <1>3, <1>4, <2>1, <2>3, <2>5 DEF Known
  <2> QED BY <2>4, <2>6
<1> QED BY <1>4, <1>5, <1>6 DEF AccessInv, OnPanels

LEMMA AccessAnswersKeep ==
  ASSUME AccessInv, NEW f \in flights, AccessShown(f) \/ PolicyShown(f)
  PROVE  AccessInv'
<1>1. f \in AccessRequest /\ access \in [shown : Endpoint \cup {None}, policy : Rules, busy : BOOLEAN]
  BY DEF AccessInv, AccessTypes
<1>2. f.state = "ok" /\ flights' = flights \ {f} /\ UNCHANGED <<page, endpoint, exposure, superseded>>
  BY DEF AccessShown, PolicyShown, Answers, Without
<1>3. CASE AccessShown(f)
  <2>1. OfEndpoint(f) /\ access' = [access EXCEPT !.shown = f.result, !.busy = FALSE] /\ f.result \in Endpoint
    BY <1>2, <1>3 DEF AccessShown, Answers, OfEndpoint, AccessInv, AccessTypes
  <2>2. /\ access' \in [shown : Endpoint \cup {None}, policy : Rules, busy : BOOLEAN]
        /\ access'.shown = f.result /\ access'.policy = access.policy
    BY <1>1, <2>1
  <2>3. AccessTypes' /\ Left'
    BY <1>2, <2>2 DEF AccessInv, AccessTypes, Left, OnPanels
  <2>4. ASSUME OnPanels, ~superseded PROVE OneForEndpoint' /\ Known'
    <3>1. OneForEndpoint /\ Known
      BY <2>4 DEF AccessInv
    <3>2. (\A g \in flights' : ~OfEndpoint(g)) /\ f.result = endpoint
      BY <1>2, <2>1, <3>1 DEF OneForEndpoint, Known, OfEndpoint
    <3>3. OneForEndpoint'
      BY <3>2 DEF OneForEndpoint, OfEndpoint
    <3>4. Known'
      BY <1>2, <2>2, <3>1, <3>2 DEF Known, OfEndpoint
    <3> QED BY <3>3, <3>4
  <2> QED BY <1>2, <2>3, <2>4 DEF AccessInv, OnPanels
<1>4. CASE PolicyShown(f)
  <2>1. f.kind = "policy" /\ access' = [access EXCEPT !.policy = f.result] /\ f.result \in Rules
    BY <1>2, <1>4 DEF PolicyShown, Answers, AccessInv, AccessTypes
  <2>2. /\ access' \in [shown : Endpoint \cup {None}, policy : Rules, busy : BOOLEAN]
        /\ access'.shown = access.shown /\ access'.policy = f.result /\ access'.busy = access.busy
    BY <1>1, <2>1
  <2>3. AccessTypes' /\ Left'
    BY <1>2, <2>2 DEF AccessInv, AccessTypes, Left, OnPanels
  <2>4. ASSUME OnPanels, ~superseded PROVE OneForEndpoint' /\ Known'
    <3>1. OneForEndpoint /\ Known
      BY <2>4 DEF AccessInv
    <3>2. OneForEndpoint'
      BY <1>2, <2>2, <3>1 DEF OneForEndpoint, OfEndpoint
    <3>3. Known'
      BY <1>2, <2>1, <2>2, <3>1 DEF Known, Permitted, PolicyAllows
    <3> QED BY <3>2, <3>3
  <2> QED BY <1>2, <2>3, <2>4 DEF AccessInv, OnPanels
<1> QED BY <1>3, <1>4

LEMMA AccessFailsKeeps == ASSUME AccessInv, NEW f \in flights, AccessFails(f) PROVE AccessInv'
<1>1. f \in AccessRequest /\ access \in [shown : Endpoint \cup {None}, policy : Rules, busy : BOOLEAN]
  BY DEF AccessInv, AccessTypes
<1>2. /\ f.state = "sent" /\ flights' = flights \ {f} /\ UNCHANGED <<page, exposure>>
      /\ \/ UNCHANGED <<endpoint, superseded>>
         \/ f.kind = "saveAccess" /\ endpoint' = Granted(f.arg) /\ superseded' = TRUE
      /\ access' = IF f.kind = "policy" \/ ~f.heard THEN access ELSE [access EXCEPT !.busy = FALSE]
  BY DEF AccessFails, Sent, Without
<1>3. /\ access' \in [shown : Endpoint \cup {None}, policy : Rules, busy : BOOLEAN]
      /\ access'.shown = access.shown /\ access'.policy = access.policy
      /\ access'.busy = access.busy \/ OfEndpoint(f)
  BY <1>1, <1>2 DEF OfEndpoint, AccessRequest
<1>4. endpoint' \in Endpoint /\ (endpoint'.scheme = "internal" => endpoint'.host = None) /\ superseded' \in BOOLEAN
  BY <1>2, GrantedEndpoint DEF AccessInv, AccessTypes
<1>5. AccessTypes' /\ Left'
  BY <1>2, <1>3, <1>4 DEF AccessInv, AccessTypes, Left, OnPanels
<1>6. ASSUME OnPanels, ~superseded' PROVE OneForEndpoint' /\ Known'
  <2>1. OneForEndpoint /\ Known /\ UNCHANGED endpoint
    BY <1>2, <1>6 DEF AccessInv
  <2>2. OneForEndpoint'
    BY <1>2, <1>3, <2>1 DEF OneForEndpoint, OfEndpoint
  <2>3. Known'
    BY <1>2, <1>3, <2>1 DEF Known, Permitted, PolicyAllows
  <2> QED BY <2>2, <2>3
<1> QED BY <1>2, <1>5, <1>6 DEF AccessInv, OnPanels

LEMMA OthersExposeKeep == AccessInv /\ OthersExpose => AccessInv'
<1> SUFFICES ASSUME AccessInv, OthersExpose PROVE AccessInv'
  OBVIOUS
<1>1. superseded' = TRUE /\ UNCHANGED <<page, flights, access>>
  BY DEF OthersExpose
<1>2. exposure' \in Rules
  BY DEF OthersExpose, AccessInv, AccessTypes, Rules
<1>3. endpoint' \in Endpoint /\ (endpoint'.scheme = "internal" => endpoint'.host = None)
  BY GrantedEndpoint DEF OthersExpose, AccessInv, AccessTypes
<1> QED BY <1>1, <1>2, <1>3 DEF AccessInv, AccessTypes, Left, OnPanels

LEMMA AccessStarts == AccessInit => AccessInv
<1> SUFFICES ASSUME AccessInit PROVE AccessInv
  OBVIOUS
<1>1. Internal \in Endpoint /\ Internal.host = None
  BY DEF Internal, Endpoint
<1>2. ASSUME NEW e \in Ingresses({"base", "former"}) PROVE e \in Endpoint /\ e.scheme # "internal"
  BY <1>2 DEF Ingresses, Host, Endpoint, EndpointHost
<1>3. NoPolicy \in Rules
  BY DEF NoPolicy, Rules
<1>4. AccessTypes
  BY <1>1, <1>2, <1>3 DEF AccessInit, AccessTypes, Rules
<1> QED BY <1>4 DEF AccessInit, AccessInv, Left, OnPanels

LEMMA AccessStep ==
  AccessInv /\ (AccessNext \/ UNCHANGED <<browserVars, detailVars>>) => AccessInv'
<1>1. AccessInv /\ UNCHANGED <<browserVars, detailVars>> => AccessInv'
  BY DEF browserVars, detailVars, accessVars, AccessInv, AccessTypes, Left, OnPanels, OneForEndpoint, OfEndpoint, Known,
         Permitted, PolicyAllows
<1>2. AccessInv /\ AccessNext => AccessInv'
  BY OpenAccessKeeps, LeaveAccessKeeps, SaveAccessKeeps, ServeAccessKeeps, UpdateAccessKeeps, AccessAnswersKeep,
     AccessFailsKeeps, OthersExposeKeep DEF AccessNext
<1> QED BY <1>1, <1>2

LEMMA AccessMatches ==
  AccessInv /\ OnPanels /\ ~superseded =>
    /\ access.shown \in {None, endpoint} \/ Awaited({"saveAccess"}) # {}
    /\ \A f \in Awaited({"saveAccess"}) : f.state = "sent" => Permitted(f.arg, endpoint)
BY DEF AccessInv, OneForEndpoint, Known, Awaited, Of

-----------------------------------------------------------------------------
(* A new deployment: what the page offers is what the server has.            *)

DraftRequest ==
  [kind : {"profiles", "policy", "createDeployment"}, of : Profiles \cup {None},
   arg : [form : Edits, on : Nat, well : BOOLEAN] \cup {None}, state : {"sent", "ok"},
   result : (SUBSET Profiles) \cup Rules \cup {None}, heard : BOOLEAN]

DraftTypes ==
  /\ acts \in Nat /\ page \in [at : {"list", "panels", "instance"}, of : {None}, no : Nat]
  /\ exposure \in Rules /\ offered \subseteq Profiles
  /\ draft \in [profiles : SUBSET Profiles, policy : Rules, deploying : BOOLEAN]
  /\ superseded \in BOOLEAN
  /\ flights \subseteq DraftRequest
  /\ \A f \in flights : /\ f.kind = "createDeployment" => f.of \in Profiles /\ f.arg \in [form : Edits, on : Nat, well : BOOLEAN]
                        /\ f.state = "ok" /\ f.kind = "profiles" => f.result \in SUBSET Profiles
                        /\ f.state = "ok" /\ f.kind = "policy" => f.result \in Rules
  /\ ~OnPanels => \A f \in flights : f.kind = "createDeployment"

Offered ==
  /\ draft.profiles \in {{}, offered} /\ draft.policy \in {NoPolicy, exposure}
  /\ \A f \in flights :
       /\ f.state = "ok" /\ f.kind = "profiles" => f.result = offered
       /\ f.state = "ok" /\ f.kind = "policy" => f.result = exposure
       /\ f.state = "sent" /\ f.kind = "createDeployment" => DeploymentPermitted(f.of, f.arg.form)

DraftInv == DraftTypes /\ (~superseded => Offered)

LEMMA DraftAsked ==
  ASSUME NEW kind \in {"profiles", "policy", "createDeployment"}, NEW of \in Profiles \cup {None},
         NEW arg \in [form : Edits, on : Nat, well : BOOLEAN] \cup {None}
  PROVE  LET r == Request(kind, of, arg)
         IN r \in DraftRequest /\ r.kind = kind /\ r.of = of /\ r.arg = arg /\ r.heard /\ r.state = "sent"
<1>1. None \in (SUBSET Profiles) \cup Rules \cup {None}
  OBVIOUS
<1> QED BY <1>1 DEF Request, DraftRequest

LEMMA DraftAnswered ==
  ASSUME NEW f \in DraftRequest, NEW answer \in (SUBSET Profiles) \cup Rules \cup {None}
  PROVE  LET h == [f EXCEPT !.state = "ok", !.result = answer]
         IN /\ h \in DraftRequest /\ h.kind = f.kind /\ h.of = f.of /\ h.arg = f.arg /\ h.heard = f.heard
            /\ h.state = "ok" /\ h.result = answer
BY DEF DraftRequest

LEMMA OpenDraftKeeps == DraftInv /\ OpenDraft => DraftInv'
<1> SUFFICES ASSUME DraftInv, OpenDraft PROVE DraftInv'
  OBVIOUS
<1> DEFINE r1 == Request("profiles", None, None)
           r2 == Request("policy", None, None)
<1>1. /\ r1 \in DraftRequest /\ r1.kind = "profiles" /\ r1.state = "sent"
      /\ r2 \in DraftRequest /\ r2.kind = "policy" /\ r2.state = "sent"
  BY DraftAsked
<1>2. /\ ~OnPanels /\ flights' = flights \cup {r1, r2} /\ superseded' = (Of({"createDeployment"}) # {})
      /\ draft' = [profiles |-> {}, policy |-> NoPolicy, deploying |-> FALSE] /\ UNCHANGED <<exposure, offered>>
      /\ page' = [at |-> "panels", of |-> None, no |-> acts'] /\ acts' \in Nat
  BY DEF OpenDraft, NewDraft, Route, Act, DraftInv, DraftTypes
<1> HIDE DEF r1, r2
<1>3. draft' \in [profiles : SUBSET Profiles, policy : Rules, deploying : BOOLEAN]
  BY <1>2 DEF NoPolicy, Rules
<1>4. page' \in [at : {"list", "panels", "instance"}, of : {None}, no : Nat] /\ OnPanels'
  BY <1>2 DEF OnPanels
<1>5. DraftTypes'
  BY <1>1, <1>2, <1>3, <1>4 DEF DraftInv, DraftTypes
<1>6. ASSUME ~superseded' PROVE Offered'
  <2>1. flights' = {r1, r2}
    BY <1>2, <1>6 DEF DraftInv, DraftTypes, Of
  <2> QED BY <1>1, <1>2, <2>1 DEF Offered
<1> QED BY <1>5, <1>6 DEF DraftInv

(* Leaving for the list or for the new instance: only creations stay.        *)
LEMMA OnlyCreations ==
  ASSUME DraftInv, NEW K, {"profiles", "policy"} \subseteq K, "createDeployment" \notin K
  PROVE  Unheard(K) \subseteq {f \in flights : f.kind = "createDeployment"}
<1>1. \A f \in flights : f.kind \in {"profiles", "policy", "createDeployment"}
  BY DEF DraftInv, DraftTypes, DraftRequest
<1>2. \A f \in Of(K) : f.kind \notin Writes
  BY <1>1 DEF Of, Writes
<1> QED BY <1>1, <1>2 DEF Unheard, Of

LEMMA DraftLeft ==
  ASSUME DraftInv, flights' \subseteq {f \in flights : f.kind = "createDeployment"}, acts' \in Nat,
         page' \in [at : {"list", "panels", "instance"}, of : {None}, no : Nat], UNCHANGED <<exposure, offered, superseded>>,
         draft' \in [profiles : SUBSET Profiles, policy : Rules, deploying : BOOLEAN],
         draft'.profiles = draft.profiles, draft'.policy = draft.policy
  PROVE  DraftInv'
<1>1. DraftTypes'
  BY DEF DraftInv, DraftTypes
<1>2. ~superseded => Offered'
  BY DEF DraftInv, Offered, DeploymentPermitted, Permitted, PolicyAllows
<1> QED BY <1>1, <1>2 DEF DraftInv

LEMMA LeaveDraftKeeps == DraftInv /\ LeavePanels => DraftInv'
<1> SUFFICES ASSUME DraftInv, LeavePanels PROVE DraftInv'
  OBVIOUS
<1>1. /\ flights' = Unheard({"modelConfig", "logs", "access", "policy", "saveAccess", "profiles"})
      /\ page' = [at |-> "list", of |-> None, no |-> acts'] /\ acts' \in Nat
      /\ UNCHANGED <<exposure, offered, superseded, draft>>
  BY DEF LeavePanels, Route, Act, detailVars, accessVars, draftVars, DraftInv, DraftTypes
<1>2. page' \in [at : {"list", "panels", "instance"}, of : {None}, no : Nat]
  BY <1>1
<1> QED BY <1>1, <1>2, OnlyCreations, DraftLeft DEF DraftInv, DraftTypes

LEMMA DeployKeeps ==
  ASSUME DraftInv, NEW p \in Profiles, NEW d \in Edits, NEW well \in BOOLEAN, Deploy(p, d, well)
  PROVE  DraftInv'
<1>1. page.no \in Nat /\ draft \in [profiles : SUBSET Profiles, policy : Rules, deploying : BOOLEAN]
  BY DEF DraftInv, DraftTypes
<1>2. [form |-> d, on |-> page.no, well |-> well] \in [form : Edits, on : Nat, well : BOOLEAN]
  BY <1>1
<1>3. PICK r : /\ r \in DraftRequest /\ r.kind = "createDeployment" /\ r.of = p
               /\ r.arg = [form |-> d, on |-> page.no, well |-> well] /\ r.state = "sent" /\ flights' = flights \cup {r}
  BY <1>2, DraftAsked DEF Deploy, Merged
<1>4. /\ draft' = [draft EXCEPT !.deploying = TRUE] /\ CanDeploy(p, d) /\ acts' \in Nat /\ OnPanels
      /\ UNCHANGED <<page, exposure, offered, superseded>>
  BY DEF Deploy, Act, accessVars, DraftInv, DraftTypes
<1>5. /\ draft' \in [profiles : SUBSET Profiles, policy : Rules, deploying : BOOLEAN]
      /\ draft'.profiles = draft.profiles /\ draft'.policy = draft.policy
  BY <1>1, <1>4
<1>6. DraftTypes'
  BY <1>2, <1>3, <1>4, <1>5 DEF DraftInv, DraftTypes, OnPanels
<1>7. ASSUME ~superseded PROVE Offered'
  <2>1. p \in offered /\ draft.policy \in {NoPolicy, exposure} /\ Valid(d, draft.policy, Internal)
    BY <1>4, <1>7 DEF DraftInv, Offered, CanDeploy
  <2>2. DeploymentPermitted(p, d)
    BY <2>1, ValidIsPermitted DEF DeploymentPermitted
  <2>3. r.state = "sent" /\ r.kind = "createDeployment" => DeploymentPermitted(r.of, r.arg.form)
    BY <1>3, <2>2
  <2> QED BY <1>3, <1>4, <1>5, <1>7, <2>3 DEF DraftInv, Offered, DeploymentPermitted, Permitted, PolicyAllows
<1> QED BY <1>4, <1>6, <1>7 DEF DraftInv

LEMMA DraftServed == ASSUME DraftInv, NEW f \in flights, ServeDraft(f) \/ CreateDeployment(f) PROVE DraftInv'
<1> DEFINE answer == IF f.kind = "createDeployment" THEN None ELSE IF f.kind = "profiles" THEN offered ELSE exposure
           h == [f EXCEPT !.state = "ok", !.result = answer]
<1>1. f \in DraftRequest /\ offered \subseteq Profiles /\ exposure \in Rules
  BY DEF DraftInv, DraftTypes
<1>2. /\ h \in DraftRequest /\ h.kind = f.kind /\ h.of = f.of /\ h.arg = f.arg /\ h.state = "ok" /\ h.result = answer
  <2>1. answer \in (SUBSET Profiles) \cup Rules \cup {None}
    BY <1>1
  <2> HIDE DEF answer
  <2> QED BY <1>1, <2>1, DraftAnswered
<1>3. /\ f.kind \in {"profiles", "policy", "createDeployment"} /\ flights' = (flights \ {f}) \cup (IF f.heard THEN {h} ELSE {})
      /\ UNCHANGED <<page, acts, exposure, offered, superseded, draft>>
  BY DEF ServeDraft, CreateDeployment, Sent, Answered, detailVars, accessVars, draftVars
<1>4. (h.kind = "profiles" => h.result = offered) /\ (h.kind = "policy" => h.result = exposure)
  BY <1>2, <1>3
<1> HIDE DEF answer, h
<1>5. DraftTypes'
  BY <1>1, <1>2, <1>3, <1>4 DEF DraftInv, DraftTypes, OnPanels
<1>6. ASSUME ~superseded PROVE Offered'
  BY <1>2, <1>3, <1>4, <1>6 DEF DraftInv, Offered, DeploymentPermitted, Permitted, PolicyAllows
<1> QED BY <1>3, <1>5, <1>6 DEF DraftInv

LEMMA DraftShownKeeps == ASSUME DraftInv, NEW f \in flights, DraftShown(f) PROVE DraftInv'
<1>1. draft \in [profiles : SUBSET Profiles, policy : Rules, deploying : BOOLEAN]
  BY DEF DraftInv, DraftTypes
<1>2. /\ f.kind \in {"profiles", "policy"} /\ f.state = "ok" /\ flights' = flights \ {f}
      /\ draft' = IF f.kind = "profiles" THEN [draft EXCEPT !.profiles = f.result]
                  ELSE [draft EXCEPT !.policy = f.result]
      /\ UNCHANGED <<page, acts, exposure, offered, superseded>>
  BY DEF DraftShown, Answers, Without, accessVars
<1>3. (f.kind = "profiles" => f.result \in SUBSET Profiles) /\ (f.kind = "policy" => f.result \in Rules)
  BY <1>2 DEF DraftInv, DraftTypes
<1>4. /\ draft' \in [profiles : SUBSET Profiles, policy : Rules, deploying : BOOLEAN]
      /\ draft'.profiles = (IF f.kind = "profiles" THEN f.result ELSE draft.profiles)
      /\ draft'.policy = (IF f.kind = "policy" THEN f.result ELSE draft.policy)
  BY <1>1, <1>2, <1>3
<1>5. DraftTypes'
  BY <1>2, <1>4 DEF DraftInv, DraftTypes, OnPanels
<1>6. ASSUME ~superseded PROVE Offered'
  <2>1. draft'.profiles \in {{}, offered} /\ draft'.policy \in {NoPolicy, exposure}
    BY <1>2, <1>4, <1>6 DEF DraftInv, Offered
  <2> QED BY <1>2, <1>6, <2>1 DEF DraftInv, Offered, DeploymentPermitted, Permitted, PolicyAllows
<1> QED BY <1>2, <1>5, <1>6 DEF DraftInv

LEMMA DraftEndsKeep == ASSUME DraftInv, NEW f \in flights, DeploymentShown(f) \/ DraftFails(f) PROVE DraftInv'
<1>1. /\ draft \in [profiles : SUBSET Profiles, policy : Rules, deploying : BOOLEAN] /\ acts \in Nat
      /\ page \in [at : {"list", "panels", "instance"}, of : {None}, no : Nat]
  BY DEF DraftInv, DraftTypes
<1>2. /\ draft' \in [profiles : SUBSET Profiles, policy : Rules, deploying : BOOLEAN]
      /\ draft'.profiles = draft.profiles /\ draft'.policy = draft.policy
  BY <1>1 DEF DeploymentShown, DraftFails, Deployable
<1>3. CASE DeploymentShown(f)
  <2>1. /\ page' = [page EXCEPT !.at = "instance"] /\ flights' = Unheard({"profiles", "policy"}) \ {f}
        /\ UNCHANGED <<acts, exposure, offered, superseded>>
    BY <1>3 DEF DeploymentShown, accessVars
  <2>2. page' \in [at : {"list", "panels", "instance"}, of : {None}, no : Nat]
    BY <1>1, <2>1
  <2>3. flights' \subseteq {g \in flights : g.kind = "createDeployment"}
    BY <2>1, OnlyCreations
  <2> QED BY <1>1, <1>2, <2>1, <2>2, <2>3, DraftLeft
<1>4. CASE DraftFails(f)
  <2>1. flights' = flights \ {f} /\ UNCHANGED <<page, exposure, offered, superseded>> /\ acts' \in Nat
    BY <1>1, <1>4 DEF DraftFails, Without, Act, accessVars
  <2>2. DraftTypes'
    BY <1>2, <2>1 DEF DraftInv, DraftTypes, OnPanels
  <2>3. ASSUME ~superseded PROVE Offered'
    BY <1>2, <2>1, <2>3 DEF DraftInv, Offered, DeploymentPermitted, Permitted, PolicyAllows
  <2> QED BY <2>1, <2>2, <2>3 DEF DraftInv
<1> QED BY <1>3, <1>4

LEMMA OthersWithdrawKeep == DraftInv /\ OthersWithdraw => DraftInv'
<1> SUFFICES ASSUME DraftInv, OthersWithdraw PROVE DraftInv'
  OBVIOUS
<1>1. superseded' = TRUE /\ acts' \in Nat /\ UNCHANGED <<page, flights, draft>>
  BY DEF OthersWithdraw, Act, DraftInv, DraftTypes
<1>2. exposure' \in Rules /\ offered' \subseteq Profiles
  BY DEF OthersWithdraw, DraftInv, DraftTypes, Rules
<1> QED BY <1>1, <1>2 DEF DraftInv, DraftTypes, OnPanels

LEMMA DraftStarts == DraftInit => DraftInv
<1> SUFFICES ASSUME DraftInit PROVE DraftInv
  OBVIOUS
<1>1. DraftTypes
  BY DEF DraftInit, DraftTypes, NewDraft, NoPolicy, Rules
<1> QED BY <1>1 DEF DraftInit, DraftInv, Offered, NewDraft

LEMMA DraftStep ==
  DraftInv /\ (DraftNext \/ UNCHANGED <<browserVars, detailVars>>) => DraftInv'
<1>1. DraftInv /\ UNCHANGED <<browserVars, detailVars>> => DraftInv'
  BY DEF browserVars, detailVars, accessVars, draftVars, DraftInv, DraftTypes, OnPanels, Offered,
         DeploymentPermitted, Permitted, PolicyAllows
<1>2. DraftInv /\ DraftNext => DraftInv'
  BY OpenDraftKeeps, LeaveDraftKeeps, DeployKeeps, DraftServed, DraftShownKeeps, DraftEndsKeep, OthersWithdrawKeep DEF DraftNext
<1> QED BY <1>1, <1>2

LEMMA DraftMatches ==
  DraftInv /\ ~superseded =>
    \A f \in Of({"createDeployment"}) : f.state = "sent" => DeploymentPermitted(f.of, f.arg.form)
BY DEF DraftInv, Offered, Of


(* A form at rest shows what the server has, and what the endpoint form and  *)
(* the one of a new deployment let through keeps the rules they share with   *)
(* the server (those of how a text is written only the server knows), as     *)
(* long as nobody else has written and no answer got lost; for any number of *)
(* visits, requests, hosts and profiles (settings, endpoint and deployment   *)
(* pages, validate_access(), validate_endpoint_policy(),                     *)
(* resolve_profile_request()).                                               *)
THEOREM FormsMatch == Spec => []FormsMatchServer
<1> DEFINE Inv == /\ area = "settings" => SettingsInv
                  /\ area = "access" => AccessInv
                  /\ area = "deploy" => DraftInv
<1>1. Init => Inv
  BY AreaInits, SettingsStarts, AccessStarts, DraftStarts DEF AreaInit
<1>2. Inv /\ [Next]_vars => Inv'
  BY AreaSteps, SettingsStep, AccessStep, DraftStep DEF AreaStep
<1>3. Inv => FormsMatchServer
  BY SettingsMatch, AccessMatches, DraftMatches DEF FormsMatchServer
<1> QED
  BY <1>1, <1>2, <1>3, PTL DEF Spec

-----------------------------------------------------------------------------
(* The page of an instance: of which one its answers can be.                 *)

InstanceKinds == {"list", "load", "supplement", "create", "deleteRow", "deleteDeployment", "modelAction"} \cup Partials
Whole(s) == s = [id |-> s.id, connOf |-> s.connOf, conn |-> s.conn, s3Of |-> s.s3Of, s3 |-> s.s3]

Sheet(f) == f = [kind |-> f.kind, of |-> f.of, arg |-> f.arg, state |-> f.state, result |-> f.result, heard |-> f.heard]

Placed ==
  /\ OnDetail => page.of \in Ids
  /\ shown # None => Whole(shown)
Awaiting ==
  \A f \in flights : /\ Sheet(f) /\ f.kind \in InstanceKinds
                     /\ f.kind \in {"load", "supplement"} \/ f.state = "ok" => f.heard
                     /\ f.state = "ok" => f.kind \in {"load", "supplement"} \cup Partials
InstanceTypes == Placed /\ Awaiting

(* Loads and what follows them are of the page; a partial is, unless it met  *)
(* the page of another instance.                                             *)
AnswersOwn ==
  OnDetail => \A f \in flights :
    /\ f.kind \in {"load", "supplement"} => f.of = page.of
    /\ f.kind \in Partials /\ f.heard => crossed \/ f.of = page.of

ShownOwn ==
  OnDetail /\ shown # None =>
    /\ shown.id = page.of
    /\ crossed \/ (shown.connOf = page.of /\ shown.s3Of = page.of)

InstanceInv == InstanceTypes /\ AnswersOwn /\ ShownOwn

(* Requests whose answers nobody waits for any more.                         *)
LEMMA UnheardOnes ==
  ASSUME NEW kinds, NEW g \in Unheard(kinds), \A f \in flights : Sheet(f)
  PROVE  \/ g \in flights /\ g.kind \notin kinds
         \/ /\ Sheet(g) /\ g.kind \in kinds \cap Writes /\ ~g.heard /\ g.state = "sent"
            /\ \E f \in flights : f.kind = g.kind /\ f.of = g.of /\ f.arg = g.arg /\ f.result = g.result
<1>1. CASE g \in flights \ Of(kinds)
  BY <1>1 DEF Of
<1>2. ASSUME NEW f \in Of(kinds), f.kind \in Writes, f.state = "sent", g = [f EXCEPT !.heard = FALSE]
      PROVE  /\ Sheet(g) /\ g.kind \in kinds \cap Writes /\ ~g.heard /\ g.state = "sent"
             /\ f \in flights /\ f.kind = g.kind /\ f.of = g.of /\ f.arg = g.arg /\ f.result = g.result
  <2>1. Sheet(f) /\ f \in flights /\ f.kind \in kinds
    BY <1>2 DEF Of
  <2>2. g = [kind |-> f.kind, of |-> f.of, arg |-> f.arg, state |-> f.state, result |-> f.result, heard |-> FALSE]
    BY <1>2, <2>1 DEF Sheet
  <2> QED BY <1>2, <2>1, <2>2 DEF Sheet
<1> QED BY <1>1, <1>2 DEF Unheard

(* An answer on its way.                                                     *)
LEMMA AnsweredOnes ==
  ASSUME NEW f \in flights, NEW result, NEW g \in Answered(f, result), Sheet(f)
  PROVE  \/ g \in flights /\ g # f
         \/ /\ Sheet(g) /\ f.heard /\ g.heard /\ g.state = "ok" /\ g.result = result
            /\ g.kind = f.kind /\ g.of = f.of /\ g.arg = f.arg
BY DEF Answered, Sheet

LEMMA AsksWhole ==
  ASSUME NEW kind, NEW of, NEW arg
  PROVE  /\ Sheet(Request(kind, of, arg)) /\ Request(kind, of, arg).kind = kind /\ Request(kind, of, arg).of = of
         /\ Request(kind, of, arg).arg = arg /\ Request(kind, of, arg).state = "sent"
         /\ Request(kind, of, arg).heard /\ Request(kind, of, arg).result = None
BY DEF Request, Sheet

(* Requests of before, some of them not heard of any more, and one more.     *)
From(f) ==
  \/ f \in flights
  \/ /\ Sheet(f) /\ f.kind \in Writes /\ ~f.heard /\ f.state = "sent"
     /\ \E g \in flights : f.kind = g.kind
Sends(kind, of) == \A f \in flights' : From(f) \/ (\E arg : f = Request(kind, of, arg))

LEMMA SwitchedSends ==
  ASSUME InstanceTypes, NEW kind, NEW of, NEW arg, flights' = Switched(Request(kind, of, arg))
  PROVE  Sends(kind, of)
BY UnheardOnes DEF Switched, Sends, From, InstanceTypes, Placed, Awaiting

(* What is sent by the page is about what it was opened for.                 *)
LEMMA SendsOwn ==
  ASSUME InstanceInv, UNCHANGED <<page, shown, crossed>>,
         NEW kind \in InstanceKinds, NEW of, Sends(kind, of),
         kind \in Partials \cup {"load", "supplement"} /\ OnDetail => of = page.of
  PROVE  InstanceInv'
<1>1. InstanceTypes'
  <2>1. ASSUME NEW f \in flights' PROVE /\ Sheet(f) /\ f.kind \in InstanceKinds
                                        /\ f.kind \in {"load", "supplement"} \/ f.state = "ok" => f.heard
                                        /\ f.state = "ok" => f.kind \in {"load", "supplement"} \cup Partials
    <3>1. CASE From(f)
      BY <3>1 DEF From, InstanceInv, InstanceTypes, Placed, Awaiting, Writes
    <3>2. CASE \E arg : f = Request(kind, of, arg)
      BY <3>2, AsksWhole
    <3> QED BY <3>1, <3>2 DEF Sends
  <2>2. OnDetail' => page'.of \in Ids
    BY DEF InstanceInv, InstanceTypes, Placed, Awaiting, OnDetail
  <2>3. shown' # None => Whole(shown)'
    BY DEF InstanceInv, InstanceTypes, Placed, Awaiting, Whole
  <2>4. \A g \in flights' : /\ Sheet(g) /\ g.kind \in InstanceKinds
                            /\ g.kind \in {"load", "supplement"} \/ g.state = "ok" => g.heard
                            /\ g.state = "ok" => g.kind \in {"load", "supplement"} \cup Partials
    BY <2>1
  <2>5. Placed'
    BY <2>2, <2>3 DEF Placed
  <2>6. Awaiting'
    BY <2>4 DEF Awaiting
  <2> QED BY <2>5, <2>6 DEF InstanceTypes
<1>2. AnswersOwn'
  <2> SUFFICES ASSUME OnDetail, NEW f \in flights'
               PROVE  /\ f.kind \in {"load", "supplement"} => f.of = page.of
                      /\ f.kind \in Partials /\ f.heard => crossed \/ f.of = page.of
    BY DEF AnswersOwn, OnDetail
  <2>1. CASE From(f)
    BY <2>1 DEF From, InstanceInv, AnswersOwn, Writes
  <2>2. CASE \E arg : f = Request(kind, of, arg)
    BY <2>2, AsksWhole
  <2> QED BY <2>1, <2>2 DEF Sends
<1> QED BY <1>1, <1>2 DEF InstanceInv, ShownOwn, OnDetail

(* Away from the page nothing is shown of an instance.                       *)
LEMMA AwayKeeps ==
  ASSUME InstanceInv, ~OnDetail', shown' \in {shown, None}, NEW kind \in InstanceKinds, NEW of, Sends(kind, of)
  PROVE  InstanceInv'
<1>1. ASSUME NEW f \in flights' PROVE /\ Sheet(f) /\ f.kind \in InstanceKinds
                                      /\ f.kind \in {"load", "supplement"} \/ f.state = "ok" => f.heard
                                      /\ f.state = "ok" => f.kind \in {"load", "supplement"} \cup Partials
  <2>1. CASE From(f)
    BY <2>1 DEF From, InstanceInv, InstanceTypes, Placed, Awaiting, Writes
  <2>2. CASE \E arg : f = Request(kind, of, arg)
    BY <2>2, AsksWhole
  <2> QED BY <2>1, <2>2 DEF Sends
<1> QED BY <1>1 DEF InstanceInv, InstanceTypes, Placed, Awaiting, AnswersOwn, ShownOwn


LEMMA InstanceStarts == InstanceInit => InstanceInv
<1> SUFFICES ASSUME InstanceInit PROVE InstanceInv
  OBVIOUS
<1>1. PICK i \in Ids : page = [at |-> "detail", of |-> i, no |-> 0] /\ flights = {Request("load", i, None)} /\ shown = None
  BY DEF InstanceInit
<1> QED BY <1>1, AsksWhole DEF InstanceInv, InstanceTypes, Placed, Awaiting, AnswersOwn, ShownOwn, OnDetail, InstanceKinds, Partials

LEMMA OpenDetailKeeps ==
  ASSUME InstanceInv, NEW i \in Ids, OpenDetail(i)
  PROVE  InstanceInv'
<1> DEFINE K == {"load", "supplement"}
           r == Request("load", i, None)
<1>1. /\ flights' = Unheard(K) \cup {r} /\ shown' = None /\ OnDetail' /\ page'.of = i
      /\ crossed' = (\E f \in Awaited(Partials) : f.of # i)
  BY DEF OpenDetail, Route, OnDetail
<1>2. Sheet(r) /\ r.kind = "load" /\ r.of = i /\ r.heard /\ r.state = "sent"
  BY AsksWhole
<1> HIDE DEF r
<1>3. ASSUME NEW f \in flights', f # r
      PROVE  f \in flights /\ f.kind \notin K
  <2>1. f \in Unheard(K)
    BY <1>1, <1>3
  <2> QED BY <2>1, UnheardOnes DEF InstanceInv, InstanceTypes, Placed, Awaiting, Writes
<1>4. InstanceTypes'
  BY <1>1, <1>2, <1>3 DEF InstanceInv, InstanceTypes, Placed, Awaiting, InstanceKinds
<1>5. AnswersOwn'
  <2>1. ASSUME NEW f \in flights', f # r, f.kind \in Partials, f.heard, ~crossed' PROVE f.of = i
    BY <1>1, <1>3, <2>1 DEF Awaited, Of
  <2> QED BY <1>1, <1>2, <1>3, <2>1 DEF AnswersOwn, Partials
<1> QED BY <1>1, <1>4, <1>5 DEF InstanceInv, ShownOwn

(* The list, and the dialogs.                                                *)
LEMMA ElsewhereKeeps ==
  ASSUME InstanceInv,
         OpenList \/ PollList \/ (\E i \in Ids : DeleteInstance(i) \/ CreateInstance(i))
           \/ OpenConnection \/ CloseConnection \/ PollDetail \/ DeleteDeployment \/ ActOnModel
  PROVE  InstanceInv'
<1>a. InstanceTypes
  BY DEF InstanceInv
<1>1. CASE OpenList
  <2>1. Sends("list", None) /\ ~OnDetail' /\ shown' = shown
    BY <1>1, <1>a, SwitchedSends DEF OpenList, Route, OnDetail
  <2> QED BY <2>1, AwayKeeps DEF InstanceKinds
<1>2. CASE PollList
  <2>1. Sends("list", None) /\ UNCHANGED <<page, shown, crossed>>
    BY <1>2, <1>a, SwitchedSends DEF PollList, instanceVars
  <2> QED BY <2>1, SendsOwn DEF InstanceKinds, Partials
<1>3. ASSUME NEW i \in Ids, DeleteInstance(i) PROVE InstanceInv'
  <2>1. Sends("deleteRow", i) /\ UNCHANGED <<page, shown, crossed>>
    BY <1>3, <1>a, SwitchedSends DEF DeleteInstance, instanceVars
  <2> QED BY <2>1, SendsOwn DEF InstanceKinds, Partials
<1>4. ASSUME NEW i \in Ids, CreateInstance(i) PROVE InstanceInv'
  <2>1. Sends("create", i) /\ UNCHANGED <<page, shown, crossed>>
    BY <1>4, <1>a, SwitchedSends DEF CreateInstance, instanceVars
  <2> QED BY <2>1, SendsOwn DEF InstanceKinds, Partials
<1>5. CASE OpenConnection \/ CloseConnection
  BY <1>5 DEF OpenConnection, CloseConnection, browserVars, InstanceInv, InstanceTypes, Placed, Awaiting, AnswersOwn, ShownOwn, OnDetail, Whole
<1>6. CASE PollDetail
  <2>1. Sends("refresh", page.of) /\ UNCHANGED <<page, shown, crossed>>
    BY <1>6 DEF PollDetail, instanceVars, Merged, Sends, From
  <2> QED BY <2>1, SendsOwn DEF InstanceKinds, Partials
<1>7. CASE DeleteDeployment
  <2>1. Sends("deleteDeployment", shown.id) /\ UNCHANGED <<page, shown, crossed>>
    BY <1>7 DEF DeleteDeployment, Merged, Sends, From
  <2> QED BY <2>1, SendsOwn DEF InstanceKinds, Partials
<1>8. CASE ActOnModel
  <2>1. Sends("modelAction", page.of) /\ UNCHANGED <<page, shown, crossed>>
    BY <1>8 DEF ActOnModel, instanceVars, Merged, Sends, From
  <2> QED BY <2>1, SendsOwn DEF InstanceKinds, Partials
<1> QED BY <1>1, <1>2, <1>3, <1>4, <1>5, <1>6, <1>7, <1>8

LEMMA PartSavesKeep ==
  ASSUME InstanceInv,
         (\E conn : SaveConnection(conn)) \/ (\E kind \in {"saveS3", "disableS3"} : SaveS3(kind))
  PROVE  InstanceInv'
<1>a. InstanceTypes
  BY DEF InstanceInv
<1>1. ASSUME NEW conn, SaveConnection(conn) PROVE InstanceInv'
  <2>1. Sends("saveConn", shown.id) /\ UNCHANGED <<page, shown, crossed>> /\ OnDetail /\ shown # None
    BY <1>1, <1>a, SwitchedSends DEF SaveConnection
  <2>2. shown.id = page.of
    BY <2>1 DEF InstanceInv, ShownOwn
  <2> QED BY <2>1, <2>2, SendsOwn DEF InstanceKinds, Partials
<1>2. ASSUME NEW kind \in {"saveS3", "disableS3"}, SaveS3(kind) PROVE InstanceInv'
  <2>1. Sends(kind, shown.id) /\ UNCHANGED <<page, shown, crossed>> /\ OnDetail /\ shown # None
    BY <1>2, <1>a, SwitchedSends DEF SaveS3
  <2>2. shown.id = page.of
    BY <2>1 DEF InstanceInv, ShownOwn
  <2> QED BY <2>1, <2>2, SendsOwn DEF InstanceKinds, Partials
<1> QED BY <1>1, <1>2

(* The server: an answer is about what the request was about.                *)
LEMMA AnsweredKeeps ==
  ASSUME InstanceInv, NEW f \in flights, NEW result, flights' = Answered(f, result),
         f.kind \in {"load", "supplement"} \cup Partials, UNCHANGED <<page, shown, crossed>>
  PROVE  InstanceInv'
<1>1. Sheet(f)
  BY DEF InstanceInv, InstanceTypes, Placed, Awaiting
<1>2. ASSUME NEW g \in flights'
      PROVE  g \in flights \/ /\ Sheet(g) /\ g.heard /\ f.heard /\ g.state = "ok" /\ g.kind = f.kind /\ g.of = f.of
  BY <1>1, <1>2, AnsweredOnes
<1>3. InstanceTypes'
  BY <1>2 DEF InstanceInv, InstanceTypes, Placed, Awaiting, OnDetail, Whole
<1>4. AnswersOwn'
  BY <1>2 DEF InstanceInv, AnswersOwn, OnDetail
<1> QED BY <1>3, <1>4 DEF InstanceInv, ShownOwn, OnDetail

(* A request that is over, and what it leaves in the store.                  *)
LEMMA OverKeeps ==
  ASSUME InstanceInv, NEW f \in flights, Without(f), UNCHANGED <<page, crossed>>,
         shown' # None => Whole(shown'), ShownOwn'
  PROVE  InstanceInv'
BY DEF Without, InstanceInv, InstanceTypes, Placed, Awaiting, AnswersOwn, OnDetail, Whole

LEMMA AgainSends ==
  ASSUME InstanceInv, NEW f \in flights, ListAgain(f)
  PROVE  Sends("list", None)
<1>1. flights' \subseteq Unheard({"list"}) \cup {Request("list", None, None)} \cup flights
  BY DEF ListAgain
<1> QED BY <1>1, UnheardOnes DEF Sends, From, InstanceInv, InstanceTypes, Placed, Awaiting

(* The server and the list.                                                  *)
LEMMA ServerKeeps ==
  ASSUME InstanceInv, NEW f \in flights,
         Serve(f) \/ ListLoaded(f) \/ Created(f) \/ Deleted(f) \/ DeploymentDeleted(f)
  PROVE  InstanceInv'
<1>1. CASE Serve(f)
  <2>1. PICK result : result = rows'[f.of]
    OBVIOUS
  <2>2. /\ flights' = Answered(f, result) /\ f.kind \in {"load", "supplement"} \cup Partials
        /\ UNCHANGED <<page, shown, crossed>>
    BY <1>1, <2>1 DEF Serve, Sent
  <2> QED BY <2>2, AnsweredKeeps
<1>2. CASE ListLoaded(f)
  BY <1>2, OverKeeps DEF ListLoaded, InstanceInv, InstanceTypes, Placed, Awaiting, ShownOwn, OnDetail
<1>3. CASE Created(f) \/ Deleted(f)
  <2>1. ListAgain(f) /\ UNCHANGED <<page, shown, crossed>>
    BY <1>3 DEF Created, Deleted
  <2> QED BY <2>1, AgainSends, SendsOwn DEF InstanceKinds, Partials
<1>4. CASE DeploymentDeleted(f)
  <2>1. CASE page.at = "list"
    BY <1>4, <2>1, OverKeeps DEF DeploymentDeleted, InstanceInv, InstanceTypes, Placed, Awaiting, ShownOwn, OnDetail
  <2>2. CASE page.at # "list"
    <3>1. ListAgain(f) /\ ~OnDetail' /\ shown' = shown
      BY <1>4, <2>2 DEF DeploymentDeleted, OnDetail
    <3> QED BY <3>1, AgainSends, AwayKeeps DEF InstanceKinds
  <2> QED BY <2>1, <2>2
<1> QED BY <1>1, <1>2, <1>3, <1>4

(* The refresh after an action on a model: one for another page crosses.     *)
LEMMA ModelActedKeeps ==
  ASSUME InstanceInv, NEW f \in flights, ModelActed(f)
  PROVE  InstanceInv'
<1>1. PICK r : /\ Sheet(r) /\ r.kind = "refresh" /\ r.of = f.of /\ r.heard /\ r.state = "sent"
               /\ r = Request("refresh", f.of, None)
  BY AsksWhole
<1>2. /\ flights' = (flights \ {f}) \cup {r} /\ UNCHANGED <<page, shown>>
      /\ crossed' = (crossed \/ (OnDetail /\ f.of # page.of))
  BY <1>1 DEF ModelActed
<1>3. Placed'
  BY <1>2 DEF InstanceInv, InstanceTypes, Placed, OnDetail, Whole
<1>4. Awaiting'
  BY <1>1, <1>2 DEF InstanceInv, InstanceTypes, Awaiting, InstanceKinds, Partials
<1>5. AnswersOwn'
  BY <1>1, <1>2 DEF InstanceInv, AnswersOwn, OnDetail, Partials
<1>6. ShownOwn'
  BY <1>2 DEF InstanceInv, ShownOwn, OnDetail
<1> QED BY <1>3, <1>4, <1>5, <1>6 DEF InstanceInv, InstanceTypes

(* What the store makes of an answer.                                        *)
LEMMA SupplementPut ==
  ASSUME InstanceInv, NEW of, NEW s3, shown # None, UNCHANGED <<page, crossed>>,
         shown' = [shown EXCEPT !.s3Of = of, !.s3 = s3], OnDetail => crossed \/ of = page.of
  PROVE  Whole(shown') /\ ShownOwn'
<1>1. shown = [id |-> shown.id, connOf |-> shown.connOf, conn |-> shown.conn, s3Of |-> shown.s3Of, s3 |-> shown.s3]
  BY DEF InstanceInv, InstanceTypes, Placed, Awaiting, Whole
<1>2. shown' = [id |-> shown.id, connOf |-> shown.connOf, conn |-> shown.conn, s3Of |-> of, s3 |-> s3]
  BY <1>1
<1>3. Whole(shown')
  BY <1>2 DEF Whole
<1> QED BY <1>2, <1>3 DEF InstanceInv, ShownOwn, OnDetail

LEMMA ConnectionPut ==
  ASSUME InstanceInv, NEW of, NEW conn, shown # None, UNCHANGED <<page, crossed>>,
         shown' = [shown EXCEPT !.connOf = of, !.conn = conn], OnDetail => crossed \/ of = page.of
  PROVE  Whole(shown') /\ ShownOwn'
<1>1. shown = [id |-> shown.id, connOf |-> shown.connOf, conn |-> shown.conn, s3Of |-> shown.s3Of, s3 |-> shown.s3]
  BY DEF InstanceInv, InstanceTypes, Placed, Awaiting, Whole
<1>2. shown' = [id |-> shown.id, connOf |-> of, conn |-> conn, s3Of |-> shown.s3Of, s3 |-> shown.s3]
  BY <1>1
<1>3. Whole(shown')
  BY <1>2 DEF Whole
<1> QED BY <1>2, <1>3 DEF InstanceInv, ShownOwn, OnDetail

(* The store of the page.                                                    *)
LEMMA FailedKeeps ==
  ASSUME InstanceInv, NEW f \in flights, Failed(f)
  PROVE  InstanceInv'
<1>1. Without(f) /\ UNCHANGED <<page, crossed>>
  BY DEF Failed
<1>2. CASE shown' = shown
  BY <1>1, <1>2, OverKeeps DEF InstanceInv, InstanceTypes, Placed, Awaiting, ShownOwn, OnDetail
<1>3. CASE shown' = None
  BY <1>1, <1>3, OverKeeps DEF ShownOwn
<1>4. CASE f.kind = "supplement" /\ shown # None /\ shown' = [shown EXCEPT !.s3Of = f.of, !.s3 = FALSE]
  <2>1. OnDetail => f.of = page.of
    BY <1>4 DEF InstanceInv, AnswersOwn
  <2> QED BY <1>1, <1>4, <2>1, SupplementPut, OverKeeps
<1> QED BY <1>2, <1>3, <1>4 DEF Failed

LEMMA LoadedKeeps ==
  ASSUME InstanceInv, NEW f \in flights, Loaded(f)
  PROVE  InstanceInv'
<1> DEFINE r == Request("supplement", f.of, None)
<1>1. /\ shown' = [id |-> f.of, connOf |-> f.of, conn |-> f.result.conn, s3Of |-> f.of, s3 |-> f.result.s3]
      /\ flights' = (flights \ {f}) \cup {r} /\ UNCHANGED <<page, crossed>>
      /\ OnDetail => f.of = page.of
  BY DEF Loaded, Answers, InstanceInv, AnswersOwn
<1>2. Sheet(r) /\ r.kind = "supplement" /\ r.of = f.of /\ r.heard /\ r.state = "sent"
  BY AsksWhole
<1> HIDE DEF r
<1>3. shown'.id = f.of /\ shown'.connOf = f.of /\ shown'.s3Of = f.of
  BY <1>1
<1>4. Whole(shown')
  BY <1>1 DEF Whole
<1>5. InstanceTypes'
  <2>1. ASSUME NEW g \in flights' PROVE /\ Sheet(g) /\ g.kind \in InstanceKinds
                                        /\ g.kind \in {"load", "supplement"} \/ g.state = "ok" => g.heard
                                        /\ g.state = "ok" => g.kind \in {"load", "supplement"} \cup Partials
    BY <1>1, <1>2 DEF InstanceInv, InstanceTypes, Placed, Awaiting, InstanceKinds
  <2>2. OnDetail' => page'.of \in Ids
    BY <1>1 DEF InstanceInv, InstanceTypes, Placed, Awaiting, OnDetail
  <2>3. shown' # None => Whole(shown)'
    BY <1>4 DEF Whole
  <2>4. \A g \in flights' : /\ Sheet(g) /\ g.kind \in InstanceKinds
                            /\ g.kind \in {"load", "supplement"} \/ g.state = "ok" => g.heard
                            /\ g.state = "ok" => g.kind \in {"load", "supplement"} \cup Partials
    BY <2>1
  <2>5. Placed'
    BY <2>2, <2>3 DEF Placed
  <2>6. Awaiting'
    BY <2>4 DEF Awaiting
  <2> QED BY <2>5, <2>6 DEF InstanceTypes
<1>6. AnswersOwn'
  BY <1>1, <1>2 DEF InstanceInv, AnswersOwn, OnDetail, Partials
<1> QED BY <1>1, <1>3, <1>5, <1>6 DEF InstanceInv, ShownOwn, OnDetail

LEMMA PartialsKeep ==
  ASSUME InstanceInv, NEW f \in flights,
         SupplementLoaded(f) \/ Refreshed(f) \/ ConnectionSaved(f) \/ S3Saved(f)
  PROVE  InstanceInv'
<1>1. /\ Without(f) /\ UNCHANGED <<page, crossed>> /\ f.kind \in {"supplement"} \cup Partials /\ f.state = "ok"
      /\ shown' \in {MergeS3(f), MergeConn(f)}
  BY DEF SupplementLoaded, Refreshed, ConnectionSaved, S3Saved, Answers, Partials
<1>2. OnDetail => crossed \/ f.of = page.of
  BY <1>1 DEF InstanceInv, InstanceTypes, Placed, Awaiting, AnswersOwn
<1>3. CASE shown = None
  <2>1. shown' = None
    BY <1>1, <1>3 DEF MergeS3, MergeConn
  <2> QED BY <1>1, <2>1, OverKeeps DEF ShownOwn
<1>4. CASE shown # None /\ shown' = MergeS3(f)
  <2>1. shown' = [shown EXCEPT !.s3Of = f.of, !.s3 = f.result.s3]
    BY <1>4 DEF MergeS3
  <2> QED BY <1>1, <1>2, <1>4, <2>1, SupplementPut, OverKeeps
<1>5. CASE shown # None /\ shown' = MergeConn(f)
  <2>1. shown' = [shown EXCEPT !.connOf = f.of, !.conn = f.result.conn]
    BY <1>5 DEF MergeConn
  <2> QED BY <1>1, <1>2, <1>5, <2>1, ConnectionPut, OverKeeps
<1> QED BY <1>1, <1>3, <1>4, <1>5

LEMMA InstanceStep ==
  InstanceInv /\ (InstanceNext \/ UNCHANGED <<browserVars, instanceVars>>) => InstanceInv'
<1> SUFFICES ASSUME InstanceInv, InstanceNext \/ UNCHANGED <<browserVars, instanceVars>> PROVE InstanceInv'
  OBVIOUS
<1>1. CASE UNCHANGED <<browserVars, instanceVars>>
  BY <1>1 DEF browserVars, instanceVars, InstanceInv, InstanceTypes, Placed, Awaiting, AnswersOwn, ShownOwn, OnDetail, Whole
<1>2. CASE \E i \in Ids : OpenDetail(i)
  BY <1>2, OpenDetailKeeps
<1>3. CASE \/ OpenList \/ PollList \/ (\E i \in Ids : DeleteInstance(i) \/ CreateInstance(i))
           \/ OpenConnection \/ CloseConnection \/ PollDetail \/ DeleteDeployment \/ ActOnModel
  BY <1>3, ElsewhereKeeps
<1>4. CASE \/ \E conn \in Ids \cup {Moved} : SaveConnection(conn)
           \/ \E kind \in {"saveS3", "disableS3"} : SaveS3(kind)
  BY <1>4, PartSavesKeep
<1>5. ASSUME NEW f \in flights, InstanceAnswers(f) PROVE InstanceInv'
  BY <1>5, ServerKeeps, ModelActedKeeps, FailedKeeps, LoadedKeeps, PartialsKeep DEF InstanceAnswers
<1> QED BY <1>1, <1>2, <1>3, <1>4, <1>5 DEF InstanceNext, InstanceUser

LEMMA InstancesOwn ==
  InstanceInv => (OnDetail /\ shown # None => shown.id = page.of /\ (crossed \/ (shown.connOf = page.of /\ shown.s3Of = page.of)))
BY DEF InstanceInv, ShownOwn

-----------------------------------------------------------------------------
(* The Infer page: whose result it shows, and that a request that was alone  *)
(* is reported as what it took.                                              *)

Counters == [Models -> Nat \cup {None}]
Fair(r) == r # None /\ MeasuredAlone(r) => r.report \in OneRequest(r.model)

(* What the backend has read by each of its steps, nobody else having moved  *)
(* the counters: before the request, where Triton stands; after it, one less.*)
Started(source, snapshot) ==
  snapshot = Rows(source, served) /\ (published[source] = served \/ served = NoSnapshot)

Base(m) == [served EXCEPT ![m] = @ - 1]
Ran(source, snapshot, m) == snapshot = Rows(source, Base(m)) /\ published[source] \in {Base(m), served}

Measured(c) ==
  /\ c.at = "fallback" => /\ c.source = "metrics" /\ c.before = Rows("metrics", served)
                          /\ published["metrics"] = served
  /\ c.at = "infer" => Started(c.source, c.before) /\ (c.source = "metrics" => Started("stats", c.fallback))
  /\ c.at = "after" => /\ served[c.model] \in Nat \ {0} /\ Ran(c.source, c.before, c.model)
                       /\ c.source = "metrics" => Ran("stats", c.fallback, c.model)
  /\ c.at = "answer" => c.report = None \/ c.report \in OneRequest(c.model)

CourseForm(c) ==
  c = [model |-> c.model, at |-> c.at, source |-> c.source, before |-> c.before,
       fallback |-> c.fallback, polls |-> c.polls, report |-> c.report, alone |-> c.alone]

Course(c) ==
  /\ CourseForm(c)
  /\ c.model \in Models /\ c.source \in Sources
  /\ c.at # "answer" => c.report = None
  /\ c.at \in {"before", "fallback"} => c.source = "metrics"
  /\ c.at = "statsBefore" => c.source = "stats"

UnderWay(f) ==
  /\ Sheet(f) /\ f.kind = "infer" /\ Course(f.arg) /\ f.of = f.arg.model
  /\ f.state = "sent" /\ f.arg.alone => Measured(f.arg)
  /\ f.state = "ok" => f.heard
  /\ f.state = "ok" /\ f.result # None => f.result.model = f.of /\ Fair(f.result)

Counted ==
  /\ served \in Counters /\ published \in [Sources -> Counters]
  /\ results = [m \in Models |-> results[m]]
  /\ OnInfer => page.of \in Models
AllFair == Fair(response) /\ \A m \in Models : Fair(results[m])
Stayed ==
  ~wandered => /\ OnInfer /\ response # None => response.model = page.of
               /\ \A m \in Models : results[m] # None => results[m].model = m
               /\ \A f \in flights : OnInfer /\ f.heard => f.of = page.of

InferenceInv == Counted /\ AllFair /\ Stayed /\ \A f \in flights : UnderWay(f)

LEMMA MetricRowsTell ==
  ASSUME NEW a \in Counters, NEW b \in Counters, Rows("metrics", a) = Rows("metrics", b)
  PROVE  a = b
<1>1. ASSUME NEW m \in Models PROVE a[m] = b[m]
  <2>1. MetricRows(a)[m] = MetricRows(b)[m]
    BY DEF Rows
  <2> QED BY <2>1, NoneAssumption DEF MetricRows, Counters
<1> QED BY <1>1 DEF Counters

(* The difference that one request makes.                                    *)
LEMMA OneIsReported ==
  ASSUME NEW a \in Counters, NEW m \in Models, a[m] \in Nat \ {0}, NEW source \in Sources,
         NEW b, b = [a EXCEPT ![m] = @ - 1],
         NEW s, s \in {Rows(source, a), Rows(source, b), NoSnapshot},
         Available(Delta(Rows(source, b), s))
  PROVE  Delta(Rows(source, b), s) \in OneRequest(m)
<1> DEFINE D == Delta(Rows(source, b), s)
           unit == [q \in Models |-> IF q = m THEN 1 ELSE 0]
<1>a. b \in Counters /\ (\A q \in Models : b[q] = IF q = m THEN a[m] - 1 ELSE a[q])
  BY DEF Counters
<1>b. None # 0 /\ None # 1 /\ \A q \in Models : a[q] = None \/ a[q] \in Nat
  BY NoneAssumption DEF Counters
<1>1. s = Rows(source, a)
  <2>1. CASE s = NoSnapshot
    BY <2>1 DEF NoSnapshot, Available, Delta
  <2>2. CASE s = Rows("metrics", b) /\ source = "metrics"
    <3>1. ASSUME NEW q \in Models PROVE ~(D[q] > 0)
      BY <1>a, <1>b, <2>2, NoneAssumption DEF Rows, MetricRows, Delta, Value
    <3> QED BY <3>1, Zenon DEF Available
  <2>3. CASE s = Rows("stats", b) /\ source = "stats"
    <3>1. ASSUME NEW q \in Models PROVE ~(D[q] > 0)
      BY <1>a, <1>b, <2>3, NoneAssumption DEF Rows, StatRows, Delta, Value
    <3> QED BY <3>1, Zenon DEF Available
  <2> QED BY <2>1, <2>2, <2>3 DEF Sources
<1>2. CASE source = "metrics"
  <2>1. ASSUME NEW q \in Models PROVE D[q] = Rows("metrics", unit)[q]
    <3>1. D[q] = IF a[q] = None \/ 3 * a[q] <= (IF b[q] = None THEN 0 ELSE 3 * b[q]) THEN 0
                 ELSE 3 * a[q] - (IF b[q] = None THEN 0 ELSE 3 * b[q])
      BY <1>1, <1>2, <1>a, <1>b, NoneAssumption DEF Rows, MetricRows, Delta, Value
    <3>2. Rows("metrics", unit)[q] = IF q = m THEN 3 ELSE 0
      BY <1>b DEF Rows, MetricRows
    <3> QED BY <3>1, <3>2, <1>a, <1>b, NoneAssumption
  <2>2. D = Rows("metrics", unit)
    BY <2>1 DEF Delta, Rows, MetricRows
  <2> QED BY <2>2, <1>2 DEF OneRequest, Sources
<1>3. CASE source = "stats"
  <2>1. ASSUME NEW q \in Models PROVE D[q] = unit[q]
    <3>1. D[q] = IF a[q] = None \/ a[q] <= (IF b[q] = None THEN 0 ELSE b[q]) THEN 0
                 ELSE a[q] - (IF b[q] = None THEN 0 ELSE b[q])
      BY <1>1, <1>3, <1>a, <1>b, NoneAssumption DEF Rows, StatRows, Delta, Value
    <3> QED BY <3>1, <1>a, <1>b, NoneAssumption
  <2>2. D = unit
    BY <2>1 DEF Delta
  <2>3. unit = Rows("stats", unit)
    BY DEF Rows, StatRows
  <2> QED BY <2>2, <2>3 DEF OneRequest, Sources
<1> QED BY <1>2, <1>3 DEF Sources

LEMMA BaseCounts ==
  ASSUME served \in Counters, NEW m \in Models, served[m] \in Nat \ {0}
  PROVE  Base(m) \in Counters
BY DEF Base, Counters

LEMMA InferenceStarts == InferenceInit => InferenceInv
<1> SUFFICES ASSUME InferenceInit PROVE InferenceInv
  OBVIOUS
<1>1. Counted
  BY DEF InferenceInit, Counted, Counters, OnInfer
<1> QED BY <1>1 DEF InferenceInit, InferenceInv, AllFair, Fair, Stayed, OnInfer

(* A request of the page, as it is sent.                                     *)
LEMMA SentUnderWay ==
  ASSUME NEW m \in Models
  PROVE  UnderWay(Request("infer", m, Inference(m))) /\ Request("infer", m, Inference(m)).of = m
<1> DEFINE c == Inference(m)
           r == Request("infer", m, c)
<1>1. /\ Sheet(r) /\ r.kind = "infer" /\ r.of = m /\ r.arg = c /\ r.state = "sent"
  BY AsksWhole
<1>2. Course(c) /\ c.model = m /\ c.at = "before"
  BY DEF Inference, Course, CourseForm, Sources
<1> HIDE DEF c, r
<1>3. Measured(c)
  BY <1>2 DEF Measured
<1> QED BY <1>1, <1>2, <1>3 DEF UnderWay, c, r

(* What the backend makes of a request.                                      *)
LEMMA BecomesKeeps ==
  ASSUME InferenceInv, NEW f \in flights, f.state = "sent", NEW c, Becomes(f, c),
         UNCHANGED <<page, inferVars>>, Course(c), c.model = f.arg.model, c.alone => Measured(c)
  PROVE  InferenceInv'
<1>1. UNCHANGED <<page, served, published, results, response, wandered>>
  BY DEF inferVars
<1> DEFINE n == [f EXCEPT !.arg = c]
<1>2. UnderWay(f) /\ Sheet(f)
  BY DEF InferenceInv, UnderWay
<1>3. Sheet(n) /\ n.kind = f.kind /\ n.of = f.of /\ n.arg = c /\ n.state = f.state /\ n.result = f.result /\ n.heard = f.heard
  BY <1>2 DEF Sheet
<1>4. flights' = (flights \ {f}) \cup {n}
  BY DEF Becomes
<1> HIDE DEF n
<1>5. UnderWay(n)
  BY <1>2, <1>3 DEF UnderWay
<1>6. ASSUME NEW g \in flights' PROVE UnderWay(g)'
  <2>1. UnderWay(g)
    BY <1>4, <1>5 DEF InferenceInv
  <2> QED BY <2>1, <1>1 DEF UnderWay, Measured, Started, Ran, Base, Course, Fair, MeasuredAlone
<1>7. Counted' /\ AllFair'
  BY <1>1 DEF InferenceInv, Counted, AllFair, OnInfer, Fair, MeasuredAlone
<1>8. Stayed'
  BY <1>1, <1>3, <1>4 DEF InferenceInv, Stayed, OnInfer
<1> QED BY <1>6, <1>7, <1>8 DEF InferenceInv

(* The snapshots before the request.                                         *)
LEMMA FirstSnapshot ==
  ASSUME InferenceInv, NEW f \in flights, MetricsBefore(f)
  PROVE  InferenceInv'
<1> DEFINE c == f.arg
<1>1. f.state = "sent" /\ c.at = "before" /\ UNCHANGED <<page, inferVars>>
  BY DEF MetricsBefore, Doing
<1>2. PICK s \in MetricsSnapshots :
        Becomes(f, IF s = NoSnapshot THEN [f.arg EXCEPT !.at = "statsBefore", !.source = "stats"]
                   ELSE [f.arg EXCEPT !.at = "fallback", !.before = s, !.alone = @ /\ Fresh("metrics", s)])
  BY DEF MetricsBefore
<1>3. UnderWay(f) /\ Course(c) /\ c.report = None /\ served \in Counters /\ published["metrics"] \in Counters
  BY <1>1 DEF InferenceInv, Counted, UnderWay, Course, Sources
<1> HIDE DEF c
<1>c. CourseForm(c)
  BY <1>3 DEF Course
<1>4. CASE s = NoSnapshot
  <2>0. PICK d : d = [c EXCEPT !.at = "statsBefore", !.source = "stats"]
    OBVIOUS
  <2>1. /\ CourseForm(d) /\ d.at = "statsBefore" /\ d.source = "stats" /\ d.model = c.model
        /\ d.report = c.report
    BY <2>0, <1>c DEF CourseForm
  <2>2. Course(d) /\ Measured(d) /\ d.model = c.model
    BY <2>1, <1>3 DEF Course, Measured, Sources
  <2>3. Becomes(f, d)
    BY <1>2, <1>4, <2>0 DEF c
  <2> QED BY <1>1, <2>2, <2>3, BecomesKeeps DEF c
<1>5. CASE s # NoSnapshot
  <2>f. PICK fresh \in BOOLEAN : fresh = Fresh("metrics", s)
    BY DEF Fresh
  <2>d. PICK d : d = [c EXCEPT !.at = "fallback", !.before = s, !.alone = @ /\ fresh]
    OBVIOUS
  <2>0. c.source = "metrics"
    BY <1>1, <1>3 DEF Course
  <2>1. /\ CourseForm(d) /\ d.at = "fallback" /\ d.source = c.source /\ d.model = c.model /\ d.before = s
        /\ d.report = c.report /\ d.alone = (c.alone /\ fresh)
    BY <2>d, <1>c DEF CourseForm
  <2>2. Course(d) /\ d.model = c.model
    BY <2>0, <2>1, <1>3 DEF Course
  <2>3. s = Rows("metrics", published["metrics"])
    BY <1>2, <1>5 DEF MetricsSnapshots
  <2>4. Becomes(f, d)
    BY <1>2, <1>5, <2>d, <2>f DEF c
  <2>5. d.alone => Measured(d)
    <3> SUFFICES ASSUME Fresh("metrics", s) PROVE Measured(d)
      BY <2>1, <2>f
    <3>1. published["metrics"] = served
      BY <2>3, <1>3, MetricRowsTell DEF Fresh
    <3> QED BY <2>0, <2>1, <2>3, <3>1 DEF Measured
  <2> QED BY <1>1, <2>2, <2>4, <2>5, BecomesKeeps DEF c
<1> QED BY <1>4, <1>5

(* What the statistics say of a state nobody has disturbed.                  *)
LEMMA StatsStart ==
  ASSUME Counted, NEW s \in StatsSnapshots, Fresh("stats", s)
  PROVE  Started("stats", s)
<1>1. s = Rows("stats", served) /\ Rows("stats", served) = served
  BY DEF Fresh, Rows, StatRows
<1>2. s = published["stats"] \/ s = NoSnapshot
  BY DEF StatsSnapshots, Rows, StatRows
<1> QED BY <1>1, <1>2 DEF Started

LEMMA FallbackSnapshot ==
  ASSUME InferenceInv, NEW f \in flights, FallbackBefore(f)
  PROVE  InferenceInv'
<1>1. PICK c : c = f.arg
  OBVIOUS
<1>2. f.state = "sent" /\ c.at = "fallback" /\ UNCHANGED <<page, inferVars>> /\ Course(c) /\ CourseForm(c)
      /\ (c.alone => Measured(c)) /\ c.report = None /\ c.source = "metrics" /\ Counted
  BY <1>1 DEF FallbackBefore, Doing, InferenceInv, UnderWay, Course
<1>3. PICK s \in StatsSnapshots :
        Becomes(f, [f.arg EXCEPT !.at = "infer", !.fallback = s, !.alone = @ /\ Fresh("stats", s)])
  BY DEF FallbackBefore
<1>4. PICK fresh \in BOOLEAN : fresh = Fresh("stats", s)
  BY DEF Fresh
<1>5. PICK d : d = [c EXCEPT !.at = "infer", !.fallback = s, !.alone = @ /\ fresh]
  OBVIOUS
<1>6. /\ CourseForm(d) /\ d.at = "infer" /\ d.source = c.source /\ d.model = c.model /\ d.before = c.before
      /\ d.fallback = s /\ d.report = c.report /\ d.alone = (c.alone /\ fresh)
  BY <1>2, <1>5 DEF CourseForm
<1>7. Course(d)
  BY <1>2, <1>6 DEF Course
<1>8. Becomes(f, d)
  BY <1>1, <1>3, <1>4, <1>5
<1>9. d.alone => Measured(d)
  <2> SUFFICES ASSUME fresh, Measured(c) PROVE Measured(d)
    BY <1>2, <1>6
  <2>1. Started("stats", s)
    BY <1>2, <1>4, StatsStart
  <2>2. Started("metrics", c.before)
    BY <1>2 DEF Measured, Started
  <2> QED BY <1>2, <1>6, <2>1, <2>2 DEF Measured
<1> QED BY <1>1, <1>2, <1>6, <1>7, <1>8, <1>9, BecomesKeeps

LEMMA OnlySnapshot ==
  ASSUME InferenceInv, NEW f \in flights, StatsBefore(f)
  PROVE  InferenceInv'
<1>1. PICK c : c = f.arg
  OBVIOUS
<1>2. f.state = "sent" /\ c.at = "statsBefore" /\ UNCHANGED <<page, inferVars>> /\ Course(c) /\ CourseForm(c)
      /\ c.report = None /\ c.source = "stats" /\ Counted
  BY <1>1 DEF StatsBefore, Doing, InferenceInv, UnderWay, Course
<1>3. PICK s \in StatsSnapshots :
        Becomes(f, [f.arg EXCEPT !.at = "infer", !.before = s, !.alone = @ /\ Fresh("stats", s)])
  BY DEF StatsBefore
<1>4. PICK fresh \in BOOLEAN : fresh = Fresh("stats", s)
  BY DEF Fresh
<1>5. PICK d : d = [c EXCEPT !.at = "infer", !.before = s, !.alone = @ /\ fresh]
  OBVIOUS
<1>6. /\ CourseForm(d) /\ d.at = "infer" /\ d.source = c.source /\ d.model = c.model /\ d.before = s
      /\ d.report = c.report /\ d.alone = (c.alone /\ fresh)
  BY <1>2, <1>5 DEF CourseForm
<1>7. Course(d)
  BY <1>2, <1>6 DEF Course
<1>8. Becomes(f, d)
  BY <1>1, <1>3, <1>4, <1>5
<1>9. d.alone => Measured(d)
  <2> SUFFICES ASSUME fresh PROVE Measured(d)
    BY <1>6
  <2>1. Started("stats", s)
    BY <1>2, <1>4, StatsStart
  <2> QED BY <1>2, <1>6, <2>1 DEF Measured
<1> QED BY <1>1, <1>2, <1>6, <1>7, <1>8, <1>9, BecomesKeeps

LEMMA CourseCounts ==
  ASSUME NEW c, CourseForm(c), NEW d, d = [c EXCEPT !.polls = @ + 1]
  PROVE  /\ CourseForm(d) /\ d.at = c.at /\ d.source = c.source /\ d.model = c.model /\ d.before = c.before
         /\ d.fallback = c.fallback /\ d.report = c.report /\ d.alone = c.alone
BY DEF CourseForm

LEMMA PollKeeps ==
  ASSUME InferenceInv, NEW f \in flights, Poll(f)
  PROVE  InferenceInv'
<1>1. PICK c : c = f.arg
  OBVIOUS
<1>2. f.state = "sent" /\ c.at = "after" /\ UNCHANGED <<page, inferVars>> /\ Course(c) /\ CourseForm(c)
      /\ (c.alone => Measured(c)) /\ c.report = None /\ Counted /\ c.source \in Sources /\ c.model \in Models
  BY <1>1 DEF Poll, Doing, InferenceInv, UnderWay, Course
<1>e. PICK e : e = [c EXCEPT !.polls = @ + 1]
  OBVIOUS
<1>s. PICK s \in Snapshots(c.source) :
        LET report == Delta(c.before, s)
        IN IF Available(report) THEN Becomes(f, [e EXCEPT !.at = "answer", !.report = report])
           ELSE IF e.polls < MaxPolls THEN Becomes(f, e)
           ELSE IF e.source = "metrics"
             THEN Becomes(f, [e EXCEPT !.source = "stats", !.before = e.fallback, !.polls = 0])
           ELSE Becomes(f, [e EXCEPT !.at = "answer"])
  BY <1>1, <1>e DEF Poll
<1>r. PICK report : report = Delta(c.before, s)
  OBVIOUS
<1>3. IF Available(report) THEN Becomes(f, [e EXCEPT !.at = "answer", !.report = report])
      ELSE IF e.polls < MaxPolls THEN Becomes(f, e)
      ELSE IF e.source = "metrics"
        THEN Becomes(f, [e EXCEPT !.source = "stats", !.before = e.fallback, !.polls = 0])
      ELSE Becomes(f, [e EXCEPT !.at = "answer"])
  BY <1>s, <1>r
<1>4. /\ CourseForm(e) /\ e.at = c.at /\ e.source = c.source /\ e.model = c.model /\ e.before = c.before
      /\ e.fallback = c.fallback /\ e.report = c.report /\ e.alone = c.alone
  BY <1>2, <1>e, CourseCounts
<1>5. CASE Available(report) /\ Becomes(f, [e EXCEPT !.at = "answer", !.report = report])
  <2>1. PICK d : d = [e EXCEPT !.at = "answer", !.report = report]
    OBVIOUS
  <2>2. /\ CourseForm(d) /\ d.at = "answer" /\ d.source = e.source /\ d.model = e.model
        /\ d.report = report /\ d.alone = e.alone
    BY <2>1, <1>4 DEF CourseForm
  <2>3. Course(d)
    BY <1>2, <1>4, <2>2 DEF Course
  <2>4. d.alone => Measured(d)
    <3> SUFFICES ASSUME Measured(c) PROVE report \in OneRequest(c.model)
      BY <1>2, <1>4, <2>2 DEF Measured
    <3>1. /\ served \in Counters /\ served[c.model] \in Nat \ {0} /\ c.before = Rows(c.source, Base(c.model))
          /\ published[c.source] \in {Base(c.model), served}
      BY <1>2 DEF Measured, Ran, Counted
    <3>2. s \in {Rows(c.source, published[c.source]), NoSnapshot}
      BY <1>2, <1>3 DEF Snapshots, MetricsSnapshots, StatsSnapshots, Sources
    <3>3. s \in {Rows(c.source, served), Rows(c.source, Base(c.model)), NoSnapshot}
      BY <3>1, <3>2
    <3> QED BY <1>2, <1>r, <1>5, <3>1, <3>3, OneIsReported DEF Base
  <2> QED BY <1>1, <1>2, <1>4, <1>5, <2>1, <2>2, <2>3, <2>4, BecomesKeeps
<1>6. CASE Becomes(f, e)
  <2>1. Course(e)
    BY <1>2, <1>4 DEF Course
  <2>2. e.alone => Measured(e)
    BY <1>2, <1>4 DEF Measured
  <2> QED BY <1>1, <1>2, <1>4, <1>6, <2>1, <2>2, BecomesKeeps
<1>7. CASE e.source = "metrics" /\ Becomes(f, [e EXCEPT !.source = "stats", !.before = e.fallback, !.polls = 0])
  <2>1. PICK d : d = [e EXCEPT !.source = "stats", !.before = e.fallback, !.polls = 0]
    OBVIOUS
  <2>2. /\ CourseForm(d) /\ d.at = e.at /\ d.source = "stats" /\ d.model = e.model /\ d.before = e.fallback
        /\ d.report = e.report /\ d.alone = e.alone
    BY <2>1, <1>4 DEF CourseForm
  <2>3. Course(d)
    BY <1>2, <1>4, <2>2 DEF Course, Sources
  <2>4. d.alone => Measured(d)
    BY <1>2, <1>4, <1>7, <2>2 DEF Measured
  <2> QED BY <1>1, <1>2, <1>4, <1>7, <2>1, <2>2, <2>3, <2>4, BecomesKeeps
<1>8. CASE Becomes(f, [e EXCEPT !.at = "answer"])
  <2>1. PICK d : d = [e EXCEPT !.at = "answer"]
    OBVIOUS
  <2>2. /\ CourseForm(d) /\ d.at = "answer" /\ d.source = e.source /\ d.model = e.model
        /\ d.report = e.report /\ d.alone = e.alone
    BY <2>1, <1>4 DEF CourseForm
  <2>3. Course(d)
    BY <1>2, <1>4, <2>2 DEF Course
  <2>4. Measured(d)
    BY <1>2, <1>4, <2>2 DEF Measured
  <2> QED BY <1>1, <1>2, <1>4, <1>8, <2>1, <2>2, <2>3, <2>4, BecomesKeeps
<1> QED BY <1>3, <1>5, <1>6, <1>7, <1>8

(* An answer of the backend.                                                 *)
LEMMA RespondedKeeps ==
  ASSUME InferenceInv, NEW f \in flights, NEW result, flights' = Answered(f, result), UNCHANGED <<page, inferVars>>,
         result # None => result.model = f.of /\ Fair(result)
  PROVE  InferenceInv'
<1>1. UNCHANGED <<page, served, published, results, response, wandered>>
  BY DEF inferVars
<1>2. UnderWay(f) /\ Sheet(f)
  BY DEF InferenceInv, UnderWay
<1>3. ASSUME NEW g \in flights'
      PROVE  \/ g \in flights
             \/ /\ Sheet(g) /\ f.heard /\ g.heard /\ g.state = "ok" /\ g.result = result
                /\ g.kind = f.kind /\ g.of = f.of /\ g.arg = f.arg
  BY <1>2, AnsweredOnes
<1>4. ASSUME NEW g \in flights' PROVE UnderWay(g)'
  <2>1. UnderWay(g)
    BY <1>2, <1>3 DEF InferenceInv, UnderWay
  <2> QED BY <2>1, <1>1 DEF UnderWay, Measured, Started, Ran, Base, Course, Fair, MeasuredAlone
<1>5. Counted' /\ AllFair'
  BY <1>1 DEF InferenceInv, Counted, AllFair, OnInfer, Fair, MeasuredAlone
<1>6. Stayed'
  BY <1>1, <1>3 DEF InferenceInv, Stayed, OnInfer
<1> QED BY <1>4, <1>5, <1>6 DEF InferenceInv

LEMMA RespondKeeps ==
  ASSUME InferenceInv, NEW f \in flights, Respond(f)
  PROVE  InferenceInv'
<1>1. PICK c, r : c = f.arg /\ r = [model |-> c.model, report |-> c.report, alone |-> c.alone]
  OBVIOUS
<1>2. flights' = Answered(f, r) /\ UNCHANGED <<page, inferVars>>
  BY <1>1 DEF Respond
<1>3. c.at = "answer" /\ (c.alone => Measured(c)) /\ f.of = c.model
  BY <1>1 DEF Respond, Doing, InferenceInv, UnderWay
<1>4. r.model = f.of /\ Fair(r)
  BY <1>1, <1>3 DEF Fair, MeasuredAlone, Measured
<1> QED BY <1>2, <1>4, RespondedKeeps

(* Another request or a model that goes and comes back: whoever is under way *)
(* is not alone.                                                             *)
LEMMA NotAlone ==
  ASSUME NEW g, UnderWay(g), NEW n, n = [g EXCEPT !.arg.alone = FALSE]
  PROVE  UnderWay(n)' /\ n.of = g.of /\ n.heard = g.heard
<1>1. PICK c : c = [g.arg EXCEPT !.alone = FALSE]
  OBVIOUS
<1>2. n = [g EXCEPT !.arg = c] /\ Sheet(g)
  BY <1>1 DEF UnderWay
<1>3. Sheet(n) /\ n.kind = g.kind /\ n.of = g.of /\ n.arg = c /\ n.state = g.state /\ n.result = g.result /\ n.heard = g.heard
  BY <1>2 DEF Sheet
<1>4. CourseForm(g.arg)
  BY DEF UnderWay, Course
<1>5. /\ CourseForm(c) /\ c.at = g.arg.at /\ c.source = g.arg.source /\ c.model = g.arg.model
      /\ c.report = g.arg.report /\ c.alone = FALSE
  BY <1>1, <1>4 DEF CourseForm
<1>6. Course(c)
  BY <1>5 DEF Course, UnderWay
<1> QED BY <1>3, <1>5, <1>6 DEF UnderWay, Course, Fair, MeasuredAlone

LEMMA DisturbedKeeps ==
  ASSUME InferenceInv, flights' = Disturbed, served' \in Counters,
         UNCHANGED <<page, published, results, response, submitting, wandered>>
  PROVE  InferenceInv'
<1>1. ASSUME NEW n \in flights' PROVE UnderWay(n)' /\ (\E g \in flights : n.of = g.of /\ n.heard = g.heard)
  <2>1. PICK g \in flights : n = [g EXCEPT !.arg.alone = FALSE]
    BY DEF Disturbed
  <2> QED BY <2>1, NotAlone DEF InferenceInv
<1>2. Counted' /\ AllFair'
  BY DEF InferenceInv, Counted, AllFair, OnInfer, Fair, MeasuredAlone
<1>3. Stayed'
  BY <1>1 DEF InferenceInv, Stayed, OnInfer
<1> QED BY <1>1, <1>2, <1>3 DEF InferenceInv

LEMMA OtherRequestsKeep ==
  ASSUME InferenceInv, NEW m \in Models, OthersInfer(m) \/ LoadModel(m) \/ UnloadModel(m)
  PROVE  InferenceInv'
<1>1. served \in Counters
  BY DEF InferenceInv, Counted
<1>2. CASE OthersInfer(m)
  <2>1. served[m] \in Nat
    BY <1>1, <1>2 DEF OthersInfer, Counters
  <2>2. served' = [served EXCEPT ![m] = served[m] + 1]
    BY <1>2 DEF OthersInfer
  <2>3. served' \in Counters
    BY <1>1, <2>1, <2>2 DEF Counters
  <2> QED BY <1>2, <2>3, DisturbedKeeps DEF OthersInfer
<1>3. CASE LoadModel(m)
  <2>1. served' \in Counters
    BY <1>1, <1>3 DEF LoadModel, Counters
  <2> QED BY <1>3, <2>1, DisturbedKeeps DEF LoadModel
<1>4. CASE UnloadModel(m)
  <2>1. served' \in Counters
    BY <1>1, <1>4 DEF UnloadModel, Counters
  <2> QED BY <1>4, <2>1, DisturbedKeeps DEF UnloadModel
<1> QED BY <1>2, <1>3, <1>4

(* Triton serves the request: what was read before is one short.             *)
LEMMA InferKeeps ==
  ASSUME InferenceInv, NEW f \in flights, Infer(f)
  PROVE  InferenceInv'
<1>1. PICK c : c = f.arg
  OBVIOUS
<1>2. /\ UnderWay(f) /\ Sheet(f) /\ Course(c) /\ CourseForm(c) /\ f.state = "sent" /\ c.at = "infer"
      /\ c.alone => Measured(c)
      /\ Counted /\ c.source \in Sources /\ c.model \in Models /\ c.report = None
  BY <1>1 DEF Infer, Doing, InferenceInv, UnderWay, Course
<1>3. CASE flights' = Answered(f, None) /\ UNCHANGED served
  BY <1>3, RespondedKeeps DEF Infer, inferVars
<1>4. ASSUME served[c.model] # None, served' = [served EXCEPT ![c.model] = @ + 1],
             flights' = {IF g = f THEN [f EXCEPT !.arg.at = "after"]
                         ELSE [g EXCEPT !.arg.alone = FALSE] : g \in flights}
      PROVE  InferenceInv'
  <2>0. UNCHANGED <<page, published, results, response, wandered>>
    BY DEF Infer
  <2>1. served[c.model] \in Nat /\ served \in Counters
    BY <1>2, <1>4 DEF Counted, Counters
  <2>2. /\ served' \in Counters /\ served'[c.model] \in Nat \ {0}
        /\ served = [served' EXCEPT ![c.model] = @ - 1]
    <3> DEFINE m == c.model
    <3>1. served' \in Counters /\ served'[m] = served[m] + 1 /\ \A q \in Models : q # m => served'[q] = served[q]
      BY <1>2, <1>4, <2>1 DEF Counters
    <3>2. \A q \in Models : [served' EXCEPT ![m] = @ - 1][q] = served[q]
      BY <1>2, <2>1, <3>1 DEF Counters
    <3>3. DOMAIN served = Models /\ DOMAIN served' = Models
      BY <2>1, <3>1 DEF Counters
    <3>4. served = [served' EXCEPT ![m] = @ - 1]
      BY <2>1, <3>1, <3>2 DEF Counters
    <3> QED BY <2>1, <3>1, <3>4
  <2>3. PICK d : d = [c EXCEPT !.at = "after"]
    OBVIOUS
  <2>4. /\ CourseForm(d) /\ d.at = "after" /\ d.source = c.source /\ d.model = c.model /\ d.before = c.before
        /\ d.fallback = c.fallback /\ d.report = c.report /\ d.alone = c.alone
    BY <1>2, <2>3 DEF CourseForm
  <2>5. Course(d)
    BY <1>2, <2>4 DEF Course
  <2>6. d.alone => Measured(d)'
    <3> SUFFICES ASSUME Measured(c) PROVE Measured(d)'
      BY <1>2, <2>4
    <3>1. served # NoSnapshot
      BY <1>2, <1>4 DEF NoSnapshot
    <3>2. c.before = Rows(c.source, served) /\ published[c.source] = served
      BY <1>2, <3>1 DEF Measured, Started
    <3>3. c.source = "metrics" => c.fallback = Rows("stats", served) /\ published["stats"] = served
      BY <1>2, <3>1 DEF Measured, Started
    <3>4. Base(c.model)' = served
      BY <2>2 DEF Base
    <3> QED BY <2>0, <2>2, <2>4, <3>2, <3>3, <3>4 DEF Measured, Ran
  <2>7. PICK n : n = [f EXCEPT !.arg = d]
    OBVIOUS
  <2>8. Sheet(n) /\ n.kind = f.kind /\ n.of = f.of /\ n.arg = d /\ n.state = f.state /\ n.result = f.result /\ n.heard = f.heard
    BY <1>2, <2>7 DEF Sheet
  <2>9. UnderWay(n)'
    BY <1>1, <1>2, <2>4, <2>5, <2>6, <2>8 DEF UnderWay, Course
  <2>10. n = [f EXCEPT !.arg.at = "after"]
    BY <1>1, <2>3, <2>7
  <2>11. ASSUME NEW h \in flights' PROVE UnderWay(h)' /\ (\E g \in flights : h.of = g.of /\ h.heard = g.heard)
    <3>1. PICK g \in flights : h = IF g = f THEN n ELSE [g EXCEPT !.arg.alone = FALSE]
      BY <1>4, <2>10
    <3>2. UnderWay(g)
      BY DEF InferenceInv
    <3> QED BY <2>8, <2>9, <3>1, <3>2, NotAlone
  <2>12. Counted' /\ AllFair'
    BY <2>0, <2>2 DEF InferenceInv, Counted, AllFair, OnInfer, Fair, MeasuredAlone
  <2>13. Stayed'
    BY <2>0, <2>11 DEF InferenceInv, Stayed, OnInfer
  <2> QED BY <2>11, <2>12, <2>13 DEF InferenceInv
<1> QED BY <1>1, <1>3, <1>4 DEF Infer

LEMMA PublishKeeps ==
  ASSUME InferenceInv, NEW source \in Sources, Publish(source)
  PROVE  InferenceInv'
<1>1. /\ published' = [published EXCEPT ![source] = served]
      /\ UNCHANGED <<page, flights, served, results, response, wandered>>
  BY DEF Publish, browserVars
<1>2. Counted' /\ AllFair' /\ Stayed'
  BY <1>1 DEF InferenceInv, Counted, AllFair, Stayed, OnInfer, Fair, MeasuredAlone
<1>3. ASSUME NEW s \in Sources PROVE published'[s] \in {published[s], served}
  BY <1>1 DEF InferenceInv, Counted
<1>4. ASSUME NEW g \in flights PROVE UnderWay(g)'
  <2>1. UnderWay(g) /\ g.arg.source \in Sources
    BY DEF InferenceInv, UnderWay, Course
  <2>2. \A s \in Sources : \A x : Started(s, x) => Started(s, x)'
    BY <1>1, <1>3 DEF Started
  <2>3. \A s \in Sources : \A x, m : Ran(s, x, m) => Ran(s, x, m)'
    BY <1>1, <1>3 DEF Ran, Base
  <2>4. "stats" \in Sources /\ "metrics" \in Sources
    BY DEF Sources
  <2>5. Measured(g.arg) => Measured(g.arg)'
    BY <1>1, <1>3, <2>1, <2>2, <2>3, <2>4 DEF Measured
  <2> QED BY <2>1, <2>5 DEF UnderWay, Course, Fair, MeasuredAlone
<1> QED BY <1>1, <1>2, <1>4 DEF InferenceInv

(* The page.  Requests other than those of before are fine where Triton's    *)
(* counters stay.                                                            *)
LEMMA StillUnderWay ==
  ASSUME NEW g, UnderWay(g), UNCHANGED <<served, published>>
  PROVE  UnderWay(g)'
BY DEF UnderWay, Measured, Started, Ran, Base, Course, Fair, MeasuredAlone

LEMMA OpenInferKeeps ==
  ASSUME InferenceInv, NEW m \in Models, OpenInfer(m)
  PROVE  InferenceInv'
<1>1. /\ page'.of = m /\ OnInfer' /\ response' = results[m] /\ UNCHANGED <<flights, served, published, results>>
      /\ wandered' = (wandered \/ \E f \in flights : f.heard /\ f.of # m)
  BY DEF OpenInfer, Route, OnInfer, LoadRouteState
<1>2. Counted' /\ AllFair'
  BY <1>1 DEF InferenceInv, Counted, AllFair, Fair, MeasuredAlone
<1>3. Stayed'
  BY <1>1 DEF InferenceInv, Stayed
<1>4. \A g \in flights' : UnderWay(g)'
  BY <1>1, StillUnderWay DEF InferenceInv
<1> QED BY <1>2, <1>3, <1>4 DEF InferenceInv

LEMMA SwitchModelKeeps ==
  ASSUME InferenceInv, NEW m \in Models, SwitchModel(m)
  PROVE  InferenceInv'
<1>1. /\ page'.of = m /\ OnInfer' /\ response' = results'[m] /\ UNCHANGED <<flights, served, published>>
      /\ results' = IF response = None THEN results ELSE [results EXCEPT ![m] = response]
      /\ wandered' = (wandered \/ response # None \/ \E f \in flights : f.heard)
  BY DEF SwitchModel, Route, OnInfer, LoadRouteState
<1>2. \A q \in Models : results'[q] \in {results[q], response}
  BY <1>1 DEF InferenceInv, Counted
<1>3. Counted'
  BY <1>1 DEF InferenceInv, Counted
<1>4. AllFair'
  BY <1>1, <1>2 DEF InferenceInv, AllFair, Fair, MeasuredAlone
<1>5. Stayed'
  BY <1>1 DEF InferenceInv, Stayed
<1>6. \A g \in flights' : UnderWay(g)'
  BY <1>1, StillUnderWay DEF InferenceInv
<1> QED BY <1>3, <1>4, <1>5, <1>6 DEF InferenceInv

LEMMA LeaveInferKeeps ==
  ASSUME InferenceInv, LeaveInfer
  PROVE  InferenceInv'
<1>1. ~OnInfer' /\ UNCHANGED <<flights, served, published, results, response, wandered>>
  BY DEF LeaveInfer, Route, OnInfer, inferVars
<1>2. Counted' /\ AllFair' /\ Stayed'
  BY <1>1 DEF InferenceInv, Counted, AllFair, Fair, MeasuredAlone, Stayed
<1>3. \A g \in flights' : UnderWay(g)'
  BY <1>1, StillUnderWay DEF InferenceInv
<1> QED BY <1>2, <1>3 DEF InferenceInv

LEMMA SendKeeps ==
  ASSUME InferenceInv, Send
  PROVE  InferenceInv'
<1>1. PICK r : r = Request("infer", page.of, Inference(page.of))
  OBVIOUS
<1>2. /\ OnInfer /\ response' = None /\ flights' \in {flights, flights \cup {r}}
      /\ UNCHANGED <<page, served, published, results, wandered>>
  BY <1>1 DEF Send, Merged
<1>3. UnderWay(r) /\ r.of = page.of
  <2>1. PICK m \in Models : m = page.of
    BY <1>2 DEF InferenceInv, Counted
  <2> QED BY <1>1, <2>1, SentUnderWay
<1>4. Counted' /\ AllFair' /\ Stayed'
  BY <1>2, <1>3 DEF InferenceInv, Counted, AllFair, Fair, MeasuredAlone, Stayed, OnInfer
<1>5. \A g \in flights' : UnderWay(g)'
  BY <1>2, <1>3, StillUnderWay DEF InferenceInv
<1> QED BY <1>4, <1>5 DEF InferenceInv

LEMMA SucceededKeeps ==
  ASSUME InferenceInv, NEW f \in flights, InferSucceeded(f)
  PROVE  InferenceInv'
<1>1. /\ f.state = "ok" /\ f.result # None /\ response' = f.result /\ flights' = flights \ {f}
      /\ results' = IF OnInfer THEN [results EXCEPT ![page.of] = f.result] ELSE results
      /\ UNCHANGED <<page, served, published, wandered>>
  BY DEF InferSucceeded, Answers, Without
<1>2. f.heard /\ f.result.model = f.of /\ Fair(f.result)
  BY <1>1 DEF InferenceInv, UnderWay
<1>3. \A q \in Models : results'[q] \in {results[q], f.result}
  BY <1>1 DEF InferenceInv, Counted
<1>4. Counted'
  BY <1>1 DEF InferenceInv, Counted, OnInfer
<1>5. AllFair'
  BY <1>1, <1>2, <1>3 DEF InferenceInv, AllFair, Fair, MeasuredAlone
<1>6. Stayed'
  BY <1>1, <1>2 DEF InferenceInv, Stayed, Counted, OnInfer
<1>7. \A g \in flights' : UnderWay(g)'
  BY <1>1, StillUnderWay DEF InferenceInv
<1> QED BY <1>4, <1>5, <1>6, <1>7 DEF InferenceInv

LEMMA GivenUpKeeps ==
  ASSUME InferenceInv, NEW f \in flights, InferFailed(f)
  PROVE  InferenceInv'
<1>1. PICK n : n = [f EXCEPT !.heard = FALSE]
  OBVIOUS
<1>2. /\ flights' = flights \ {f} \/ (f.state = "sent" /\ flights' = (flights \ {f}) \cup {n})
      /\ response' = None /\ UNCHANGED <<page, served, published, results, wandered>>
  BY <1>1 DEF InferFailed, Without
<1>3. UnderWay(f) /\ Sheet(f)
  BY DEF InferenceInv, UnderWay
<1>4. Sheet(n) /\ n.kind = f.kind /\ n.of = f.of /\ n.arg = f.arg /\ n.state = f.state /\ n.result = f.result /\ n.heard = FALSE
  BY <1>1, <1>3 DEF Sheet
<1>5. f.state = "sent" => UnderWay(n)
  BY <1>3, <1>4 DEF UnderWay
<1>6. Counted' /\ AllFair' /\ Stayed'
  BY <1>2, <1>4 DEF InferenceInv, Counted, AllFair, Fair, MeasuredAlone, Stayed, OnInfer
<1>7. \A g \in flights' : UnderWay(g)'
  BY <1>2, <1>5, StillUnderWay DEF InferenceInv
<1> QED BY <1>6, <1>7 DEF InferenceInv

LEMMA InferenceStep ==
  InferenceInv /\ (InferenceNext \/ UNCHANGED <<browserVars, inferVars>>) => InferenceInv'
<1> SUFFICES ASSUME InferenceInv, InferenceNext \/ UNCHANGED <<browserVars, inferVars>> PROVE InferenceInv'
  OBVIOUS
<1>1. CASE UNCHANGED <<browserVars, inferVars>>
  <2>1. Counted' /\ AllFair' /\ Stayed'
    BY <1>1 DEF browserVars, inferVars, InferenceInv, Counted, AllFair, Fair, MeasuredAlone, Stayed, OnInfer
  <2>2. \A g \in flights' : UnderWay(g)'
    BY <1>1, StillUnderWay DEF InferenceInv, browserVars, inferVars
  <2> QED BY <2>1, <2>2 DEF InferenceInv
<1>2. CASE \E f \in flights : MetricsBefore(f) \/ FallbackBefore(f) \/ StatsBefore(f)
  BY <1>2, FirstSnapshot, FallbackSnapshot, OnlySnapshot
<1>3. CASE \E f \in flights : Infer(f) \/ Poll(f) \/ Respond(f)
  BY <1>3, InferKeeps, PollKeeps, RespondKeeps
<1>4. CASE \E f \in flights : InferSucceeded(f) \/ InferFailed(f)
  BY <1>4, SucceededKeeps, GivenUpKeeps
<1>5. CASE \E source \in Sources : Publish(source)
  BY <1>5, PublishKeeps
<1>6. CASE \E m \in Models : OthersInfer(m) \/ LoadModel(m) \/ UnloadModel(m) \/ OpenInfer(m) \/ SwitchModel(m)
  BY <1>6, OtherRequestsKeep, OpenInferKeeps, SwitchModelKeeps
<1>7. CASE LeaveInfer \/ Send
  BY <1>7, LeaveInferKeeps, SendKeeps
<1> QED BY <1>1, <1>2, <1>3, <1>4, <1>5, <1>6, <1>7 DEF InferenceNext

LEMMA InferenceOwn ==
  InferenceInv =>
    /\ OnInfer /\ response # None => wandered \/ response.model = page.of
    /\ \A m \in Models : results[m] # None =>
         /\ wandered \/ results[m].model = m
         /\ MeasuredAlone(results[m]) => results[m].report \in OneRequest(results[m].model)
BY DEF InferenceInv, Stayed, AllFair, Fair

-----------------------------------------------------------------------------
(* The S3 browser: what a folder can hold, and of which instance what the    *)
(* page shows is.                                                            *)

Texts(i, d) == {Own(i, d), FromDisk, LoadError(d)}
FileKinds == {"pageData", "entries", "content", "saveFile", "upload", "folder", "marker", "deleteFile"}

FileRequest(f) ==
  /\ Sheet(f) /\ f.kind \in FileKinds /\ f.of \in Ids
  /\ f.kind \in {"entries", "content", "upload", "marker", "deleteFile"} => f.arg \in Folders
  /\ f.kind = "saveFile" => f.arg.path \in Folders /\ f.arg.text \in Texts(f.of, f.arg.path)
  /\ f.kind = "folder" => /\ f.arg = [at |-> f.arg.at, left |-> f.arg.left, no |-> f.arg.no]
                          /\ f.arg.at \in Folders
  /\ f.kind \notin {"saveFile", "upload"} => f.heard

Stored ==
  /\ objects = [i \in Ids |-> [d \in Folders |-> objects[i][d]]]
  /\ \A i \in Ids, d \in Folders : objects[i][d] \in {None} \cup Texts(i, d)

Visited == path \in Folders /\ (OnFiles => page.of \in Ids)

(* A content that is loaded is that of the file in the editor.               *)
Editing ==
  editor # None =>
    /\ OnFiles
    /\ editor = [path |-> editor.path, text |-> editor.text, loading |-> editor.loading]
    /\ editor.path \in Folders
    /\ ~editor.loading => editor.text \in Texts(page.of, editor.path)
    /\ \A f \in flights : f.kind = "content" => f.of = page.of /\ f.arg = editor.path

Leads ==
  OnFiles =>
    /\ \A f \in flights : f.kind = "pageData" => f.of = page.of
    /\ ~mixed => \A f \in flights : f.heard /\ f.kind \in Leading => f.of = page.of
    /\ listing # None => mixed \/ listing.of = page.of

FileInv == Stored /\ Visited /\ Editing /\ Leads /\ \A f \in flights : FileRequest(f)

(* What most steps do: requests end, one goes off.                           *)
LEMMA FilesKeep ==
  ASSUME FileInv, UNCHANGED <<page, mixed>>, Stored', path' \in Folders, editor' \in {editor, None},
         OnFiles /\ listing' # None => mixed \/ listing'.of = page.of,
         \A f \in flights' : \/ f \in flights
                             \/ /\ FileRequest(f) /\ f.kind \notin {"content", "pageData"}
                                /\ OnFiles /\ f.heard /\ f.kind \in Leading => mixed \/ f.of = page.of
  PROVE  FileInv'
<1>1. Visited'
  BY DEF FileInv, Visited, OnFiles
<1>2. Editing'
  BY DEF FileInv, Editing, OnFiles
<1>3. Leads'
  BY DEF FileInv, Leads, OnFiles
<1>4. \A f \in flights' : FileRequest(f)
  BY DEF FileInv
<1> QED BY <1>1, <1>2, <1>3, <1>4 DEF FileInv

LEMMA FileStarts == FileInit => FileInv
<1> SUFFICES ASSUME FileInit PROVE FileInv
  OBVIOUS
<1>1. PICK i \in Ids : /\ page = [at |-> "files", of |-> i, no |-> 0]
                       /\ flights = {Request("pageData", i, Root)}
                       /\ objects = [j \in Ids |-> [d \in Folders |-> Own(j, d)]]
                       /\ listing = None /\ path = Root /\ editor = None
  BY DEF FileInit
<1>2. Stored
  BY <1>1 DEF Stored, Texts
<1>3. \A f \in flights : FileRequest(f) /\ f.kind = "pageData" /\ f.of = i
  BY <1>1, AsksWhole DEF FileRequest, FileKinds
<1>4. Visited /\ Editing /\ Leads
  BY <1>1, <1>3, RootAssumption DEF Visited, Editing, Leads, OnFiles, Leading
<1> QED BY <1>2, <1>3, <1>4 DEF FileInv

LEMMA FileSends ==
  ASSUME NEW kind \in {"entries", "upload", "marker", "deleteFile"}, NEW i \in Ids, NEW d \in Folders
  PROVE  FileRequest(Request(kind, i, d)) /\ Request(kind, i, d).of = i /\ Request(kind, i, d).kind = kind
<1>1. PICK r : r = Request(kind, i, d)
  OBVIOUS
<1>2. Sheet(r) /\ r.kind = kind /\ r.of = i /\ r.arg = d /\ r.heard
  BY <1>1, AsksWhole
<1>3. FileRequest(r)
  BY <1>2 DEF FileRequest, FileKinds
<1> QED BY <1>1, <1>2, <1>3

(* A write that has been replaced goes on unheard.                           *)
LEMMA ReplacedOnes ==
  ASSUME FileInv, NEW kind, kind # "deleteFile", NEW g \in Unheard({kind})
  PROVE  /\ FileRequest(g)
         /\ (g \in flights /\ g.kind # kind) \/ (~g.heard /\ g.kind = kind /\ g.kind \in Writes)
<1>1. \A f \in flights : Sheet(f)
  BY DEF FileInv, FileRequest
<1>2. CASE g \in flights /\ g.kind \notin {kind}
  BY <1>2 DEF FileInv
<1>3. ASSUME Sheet(g), g.kind \in {kind} \cap Writes, ~g.heard,
             NEW f \in flights, f.kind = g.kind, f.of = g.of, f.arg = g.arg
      PROVE  FileRequest(g)
  <2>1. FileRequest(f)
    BY DEF FileInv
  <2>2. g.kind \in {"saveFile", "upload"}
    BY <1>3, <2>1 DEF Writes, FileRequest, FileKinds
  <2> QED BY <1>3, <2>1, <2>2 DEF FileRequest
<1> QED BY <1>1, <1>2, <1>3, UnheardOnes

(* Going to a folder, the requests other than for entries going on.          *)
LEMMA NavigateKeeps ==
  ASSUME FileInv, UNCHANGED <<page, listing, mixed>>, Stored', editor' \in {editor, None},
         NEW of \in Ids, NEW d \in Folders, NEW rest \in SUBSET flights, NavigateTo(of, d, rest),
         OnFiles => mixed \/ of = page.of
  PROVE  FileInv'
<1>1. PICK r : r = Request("entries", of, d)
  OBVIOUS
<1>2. flights' \subseteq rest \cup {r} /\ path' = d
  BY <1>1 DEF NavigateTo, Fetch
<1>3. FileRequest(r) /\ r.of = of /\ r.kind = "entries"
  BY <1>1, FileSends
<1>4. OnFiles /\ listing # None => mixed \/ listing.of = page.of
  BY DEF FileInv, Leads
<1> QED BY <1>2, <1>3, <1>4, FilesKeep

LEMMA OpenFilesKeeps ==
  ASSUME FileInv, NEW i \in Ids, OpenFiles(i)
  PROVE  FileInv'
<1>1. PICK r : r = Request("pageData", i, Root)
  OBVIOUS
<1>2. Sheet(r) /\ r.kind = "pageData" /\ r.of = i /\ r.arg = Root /\ r.heard
  BY <1>1, AsksWhole
<1>3. FileRequest(r)
  BY <1>2 DEF FileRequest, FileKinds
<1>4. /\ page'.of = i /\ OnFiles' /\ listing' = None /\ path' = Root /\ editor' = None /\ objects' = objects
      /\ mixed' = (\E f \in Awaited(Leading) : f.of # i)
      /\ flights' = Unheard({"pageData"}) \cup {r}
  BY <1>1, <1>2 DEF OpenFiles, Route, OnFiles, Switched
<1>5. ASSUME NEW g \in flights', g # r PROVE FileRequest(g) /\ g \in flights /\ g.kind # "pageData"
  BY <1>4, <1>5, ReplacedOnes DEF Writes
<1>6. Stored' /\ Visited' /\ Editing'
  BY <1>4, RootAssumption DEF FileInv, Stored, Visited, Editing
<1>7. Leads'
  <2>1. ASSUME ~mixed', NEW g \in flights', g.heard, g.kind \in Leading PROVE g.of = i
    BY <1>2, <1>4, <1>5, <2>1 DEF Awaited, Of
  <2>2. \A g \in flights' : g.kind = "pageData" => g.of = i
    BY <1>2, <1>5
  <2> QED BY <1>4, <2>1, <2>2 DEF Leads
<1> QED BY <1>3, <1>5, <1>6, <1>7 DEF FileInv

LEMMA LeaveFilesKeeps ==
  ASSUME FileInv, LeaveFiles
  PROVE  FileInv'
<1>1. ~OnFiles' /\ editor' = None /\ UNCHANGED <<flights, objects, listing, path, mixed>>
  BY DEF LeaveFiles, Route, OnFiles
<1> QED BY <1>1 DEF FileInv, Stored, Visited, Editing, Leads

(* The editor.                                                               *)
LEMMA OpenEditorKeeps ==
  ASSUME FileInv, OpenEditor
  PROVE  FileInv'
<1>1. PICK i, d : i = page.of /\ d = path
  OBVIOUS
<1>2. PICK r : r = Request("content", i, d)
  OBVIOUS
<1>3. OnFiles /\ i \in Ids /\ d \in Folders
  BY <1>1 DEF OpenEditor, Shows, FileInv, Visited
<1>4. Sheet(r) /\ r.kind = "content" /\ r.of = i /\ r.arg = d /\ r.heard
  BY <1>2, AsksWhole
<1>5. FileRequest(r)
  BY <1>3, <1>4 DEF FileRequest, FileKinds
<1>6. /\ editor' = [path |-> d, text |-> BlankText, loading |-> TRUE]
      /\ flights' = Unheard({"content"}) \cup {r} /\ UNCHANGED <<page, objects, listing, path, mixed>>
  BY <1>1, <1>2, <1>4 DEF OpenEditor, Switched
<1>7. ASSUME NEW g \in flights', g # r PROVE FileRequest(g) /\ g \in flights /\ g.kind # "content"
  BY <1>6, <1>7, ReplacedOnes DEF Writes
<1>8. Stored' /\ Visited'
  BY <1>6 DEF FileInv, Stored, Visited, OnFiles
<1>9. Editing'
  BY <1>1, <1>3, <1>4, <1>6, <1>7 DEF Editing, OnFiles
<1>10. Leads'
  BY <1>4, <1>6, <1>7 DEF FileInv, Leads, OnFiles, Leading
<1> QED BY <1>5, <1>7, <1>8, <1>9, <1>10 DEF FileInv

LEMMA PutKeeps ==
  ASSUME FileInv, NEW f \in flights, f.kind = "content", NEW text \in Texts(f.of, f.arg), Put(text), Without(f),
         UNCHANGED <<page, objects, listing, path, mixed>>
  PROVE  FileInv'
<1>1. Stored' /\ Visited' /\ Leads' /\ \A g \in flights' : FileRequest(g)
  BY DEF FileInv, Stored, Visited, Leads, OnFiles, Without
<1>2. Editing'
  <2>1. CASE editor = None
    BY <2>1 DEF Put, Editing
  <2>2. CASE editor # None
    <3>1. /\ editor = [path |-> editor.path, text |-> editor.text, loading |-> editor.loading]
          /\ editor' = [editor EXCEPT !.text = text, !.loading = FALSE]
          /\ f.of = page.of /\ f.arg = editor.path /\ OnFiles
      BY <2>2 DEF Put, FileInv, Editing
    <3>2. editor' = [path |-> editor.path, text |-> text, loading |-> FALSE]
      BY <3>1
    <3> QED BY <2>2, <3>1, <3>2 DEF FileInv, Editing, OnFiles, Without
  <2> QED BY <2>1, <2>2
<1> QED BY <1>1, <1>2 DEF FileInv

LEMMA ContentKeeps ==
  ASSUME FileInv, NEW f \in flights, Content(f) \/ ContentFailed(f)
  PROVE  FileInv'
<1>1. f.kind = "content" /\ Without(f) /\ UNCHANGED <<page, objects, listing, path, mixed>>
      /\ f.of \in Ids /\ f.arg \in Folders
  BY DEF Content, ContentFailed, FileInv, FileRequest
<1>2. CASE Content(f)
  <2>1. PICK text : text = objects[f.of][f.arg]
    OBVIOUS
  <2>2. text \in Texts(f.of, f.arg) /\ Put(text)
    BY <1>1, <1>2, <2>1 DEF Content, FileInv, Stored
  <2> QED BY <1>1, <2>2, PutKeeps
<1>3. CASE ContentFailed(f)
  <2>1. LoadError(f.arg) \in Texts(f.of, f.arg) /\ Put(LoadError(f.arg))
    BY <1>3 DEF ContentFailed, Texts
  <2> QED BY <1>1, <2>1, PutKeeps
<1> QED BY <1>2, <1>3

LEMMA SaveEditorKeeps ==
  ASSUME FileInv, SaveEditor
  PROVE  FileInv'
<1>1. PICK r : r = Request("saveFile", page.of, editor)
  OBVIOUS
<1>2. Sheet(r) /\ r.kind = "saveFile" /\ r.of = page.of /\ r.arg = editor /\ r.heard
  BY <1>1, AsksWhole
<1>3. /\ OnFiles /\ editor # None /\ ~editor.loading /\ flights' = Unheard({"saveFile"}) \cup {r}
      /\ UNCHANGED <<page, objects, listing, path, editor, mixed>>
  BY <1>1, <1>2 DEF SaveEditor, Switched, fileVars
<1>4. page.of \in Ids /\ editor.path \in Folders /\ editor.text \in Texts(page.of, editor.path)
  BY <1>3 DEF FileInv, Visited, Editing
<1>5. FileRequest(r)
  BY <1>2, <1>4 DEF FileRequest, FileKinds
<1>6. \A g \in flights' : \/ g \in flights
                          \/ /\ FileRequest(g) /\ g.kind \notin {"content", "pageData"}
                             /\ OnFiles /\ g.heard /\ g.kind \in Leading => mixed \/ g.of = page.of
  BY <1>2, <1>3, <1>5, ReplacedOnes
<1>7. Stored' /\ path' \in Folders /\ (OnFiles /\ listing' # None => mixed \/ listing'.of = page.of)
  BY <1>3 DEF FileInv, Stored, Visited, Leads
<1> QED BY <1>3, <1>6, <1>7, FilesKeep

(* What is asked for from the page.                                          *)
LEMMA AskedKeeps ==
  ASSUME FileInv, GoTo(path') \/ Upload \/ UploadFolder \/ CreateFolder \/ DeleteEntry \/ CloseEditor,
         path' \in Folders
  PROVE  FileInv'
<1>1. PICK i, d : i = page.of /\ d = path
  OBVIOUS
<1>2. OnFiles => i \in Ids /\ d \in Folders
  BY <1>1 DEF FileInv, Visited
<1>3. Stored /\ (OnFiles /\ listing # None => mixed \/ listing.of = page.of)
  BY DEF FileInv, Leads
<1>4. CASE GoTo(path')
  <2>1. /\ OnFiles /\ i \in Ids /\ NavigateTo(i, path', flights) /\ UNCHANGED <<page, listing, mixed, objects, editor>>
    BY <1>1, <1>2, <1>4 DEF GoTo
  <2>2. PICK e \in Folders : e = path'
    OBVIOUS
  <2>3. Stored'
    BY <1>3, <2>1 DEF Stored
  <2> QED BY <1>1, <2>1, <2>2, <2>3, NavigateKeeps
<1>5. CASE Upload
  <2>1. PICK r : r = Request("upload", i, d)
    OBVIOUS
  <2>2. OnFiles /\ flights' = Unheard({"upload"}) \cup {r} /\ UNCHANGED <<page, objects, listing, path, editor, mixed>>
    <3>1. r.kind = "upload" /\ r = Request("upload", page.of, path)
      BY <1>1, <2>1, AsksWhole
    <3> QED BY <1>5, <3>1 DEF Upload, Switched
  <2>3. FileRequest(r) /\ r.of = i /\ r.kind = "upload"
    BY <1>2, <2>1, <2>2, FileSends
  <2>4. \A g \in flights' : \/ g \in flights
                            \/ /\ FileRequest(g) /\ g.kind \notin {"content", "pageData"}
                               /\ OnFiles /\ g.heard /\ g.kind \in Leading => mixed \/ g.of = page.of
    BY <1>1, <2>2, <2>3, ReplacedOnes
  <2>5. Stored'
    BY <1>3, <2>2 DEF Stored
  <2> QED BY <1>3, <2>2, <2>4, <2>5, FilesKeep
<1>6. CASE UploadFolder
  <2>1. PICK a : a = [at |-> d, left |-> Folders, no |-> page.no]
    OBVIOUS
  <2>2. PICK r : r = Request("folder", i, a)
    OBVIOUS
  <2>3. OnFiles /\ flights' = flights \cup {r} /\ UNCHANGED <<page, objects, listing, path, editor, mixed>>
    BY <1>1, <1>6, <2>1, <2>2 DEF UploadFolder, Merged
  <2>4. Sheet(r) /\ r.kind = "folder" /\ r.of = i /\ r.arg = a /\ r.heard
    BY <2>2, AsksWhole
  <2>5. FileRequest(r)
    BY <1>2, <2>1, <2>3, <2>4 DEF FileRequest, FileKinds
  <2>6. Stored'
    BY <1>3, <2>3 DEF Stored
  <2> QED BY <1>1, <1>3, <2>3, <2>4, <2>5, <2>6, FilesKeep
<1>7. ASSUME NEW kind \in {"marker", "deleteFile"}, OnFiles, flights' = flights \cup {Request(kind, page.of, path)},
             UNCHANGED <<page, fileVars>>
      PROVE  FileInv'
  <2>1. PICK r : r = Request(kind, i, d)
    OBVIOUS
  <2>2. flights' = flights \cup {r} /\ UNCHANGED <<page, objects, listing, path, editor, mixed>>
    BY <1>1, <1>7, <2>1 DEF fileVars
  <2>3. FileRequest(r) /\ r.of = i /\ r.kind = kind
    BY <1>2, <1>7, <2>1, FileSends
  <2>4. Stored'
    BY <1>3, <2>2 DEF Stored
  <2> QED BY <1>1, <1>3, <1>7, <2>2, <2>3, <2>4, FilesKeep
<1>8. CASE CloseEditor
  <2>1. UNCHANGED <<page, flights, objects, listing, path, mixed>> /\ editor' = None
    BY <1>8 DEF CloseEditor, browserVars
  <2>2. Stored'
    BY <1>3, <2>1 DEF Stored
  <2> QED BY <1>3, <2>1, <2>2, FilesKeep
<1> QED BY <1>4, <1>5, <1>6, <1>7, <1>8 DEF CreateFolder, DeleteEntry, Merged, Shows

(* The answers.                                                              *)
LEMMA StillStored ==
  ASSUME Stored, NEW i \in Ids, NEW d \in Folders, NEW text \in {None} \cup Texts(i, d),
         objects' = [objects EXCEPT ![i][d] = text]
  PROVE  Stored'
<1>1. PICK row : row = [objects[i] EXCEPT ![d] = text]
  OBVIOUS
<1>2. objects' = [objects EXCEPT ![i] = row]
  BY <1>1
<1>3. objects[i] = [e \in Folders |-> objects[i][e]]
  BY DEF Stored
<1>4. row = [e \in Folders |-> row[e]] /\ \A e \in Folders : row[e] = IF e = d THEN text ELSE objects[i][e]
  BY <1>1, <1>3
<1>5. DOMAIN objects = Ids
  BY DEF Stored
<1>6. DOMAIN objects' = Ids /\ \A j \in Ids : objects'[j] = IF j = i THEN row ELSE objects[j]
  BY <1>2, <1>5
<1>7. ASSUME NEW j \in Ids PROVE objects'[j] = [e \in Folders |-> objects'[j][e]]
  <2>1. PICK o : o = objects'[j]
    OBVIOUS
  <2>2. CASE j = i
    BY <1>4, <1>6, <2>1, <2>2
  <2>3. objects[j] = [e \in Folders |-> objects[j][e]]
    BY DEF Stored
  <2>4. CASE j # i
    BY <1>6, <2>1, <2>3, <2>4
  <2> QED BY <2>2, <2>4
<1>8. ASSUME NEW j \in Ids, NEW e \in Folders PROVE objects'[j][e] \in {None} \cup Texts(j, e)
  BY <1>4, <1>6 DEF Stored
<1>9. objects' = [j \in Ids |-> objects'[j]]
  BY <1>2, <1>5, <1>6
<1>10. objects' = [j \in Ids |-> [e \in Folders |-> objects'[j][e]]]
  BY <1>7, <1>9
<1> QED BY <1>8, <1>10 DEF Stored

LEMMA EntriesKeep ==
  ASSUME FileInv, NEW f \in flights, Entries(f) \/ EntriesFailed(f) \/ FileRequestFails(f)
  PROVE  FileInv'
<1>1. Without(f) /\ UNCHANGED <<page, objects, editor, mixed>> /\ FileRequest(f)
  BY DEF Entries, EntriesFailed, FileRequestFails, fileVars, FileInv
<1>2. Stored'
  BY <1>1 DEF FileInv, Stored
<1>3. CASE Entries(f)
  <2>1. f.kind = "entries" /\ f.arg \in Folders /\ f.heard /\ path' = f.arg /\ listing'.of = f.of
    BY <1>1, <1>3 DEF Entries, Listing, FileRequest
  <2>2. OnFiles => mixed \/ f.of = page.of
    BY <2>1 DEF FileInv, Leads, Leading
  <2> QED BY <1>1, <1>2, <2>1, <2>2, FilesKeep DEF Without
<1>4. CASE EntriesFailed(f) \/ FileRequestFails(f)
  <2>1. UNCHANGED <<path, listing>>
    BY <1>4 DEF EntriesFailed, FileRequestFails, fileVars
  <2>2. path \in Folders /\ (OnFiles /\ listing # None => mixed \/ listing.of = page.of)
    BY DEF FileInv, Visited, Leads
  <2> QED BY <1>1, <1>2, <2>1, <2>2, FilesKeep DEF Without
<1> QED BY <1>3, <1>4

LEMMA LedOn ==
  ASSUME FileInv, NEW f \in flights, f.heard, f.kind \in Leading \cup {"pageData"}, NEW d \in Folders,
         NavigateTo(f.of, d, flights \ {f}), Stored', editor' \in {editor, None}, UNCHANGED <<page, listing, mixed>>
  PROVE  FileInv'
<1>1. f.of \in Ids /\ (OnFiles => mixed \/ f.of = page.of)
  BY DEF FileInv, FileRequest, Leads
<1>2. PICK i \in Ids : i = f.of
  BY <1>1
<1> QED BY <1>1, <1>2, NavigateKeeps

LEMMA OverAlone ==
  ASSUME FileInv, NEW f \in flights, Without(f), Stored', UNCHANGED <<page, path, listing, editor, mixed>>
  PROVE  FileInv'
<1>1. path \in Folders /\ (OnFiles /\ listing # None => mixed \/ listing.of = page.of)
  BY DEF FileInv, Visited, Leads
<1> QED BY <1>1, FilesKeep DEF Without

LEMMA LeadingKeep ==
  ASSUME FileInv, NEW f \in flights,
         PageData(f) \/ FileSaved(f) \/ UploadEnds(f) \/ EntryDeleted(f) \/ FolderCreated(f)
  PROVE  FileInv'
<1>1. FileRequest(f) /\ f.of \in Ids /\ Stored /\ path \in Folders
  BY DEF FileInv, FileRequest, Visited
<1>2. CASE PageData(f)
  <2>1. f.kind = "pageData" /\ f.heard /\ NavigateTo(f.of, Root, flights \ {f})
        /\ UNCHANGED <<page, objects, listing, editor, mixed>>
    BY <1>1, <1>2 DEF PageData, FileRequest
  <2>2. Stored'
    BY <1>1, <2>1 DEF Stored
  <2> QED BY <2>1, <2>2, LedOn, RootAssumption
<1>3. CASE FileSaved(f)
  <2>1. PICK d, text : d = f.arg.path /\ text = f.arg.text
    OBVIOUS
  <2>2. d \in Folders /\ text \in Texts(f.of, d) /\ f.kind = "saveFile"
    BY <1>1, <1>3, <2>1 DEF FileSaved, FileRequest
  <2>3. Stored'
    BY <1>1, <1>3, <2>1, <2>2, StillStored DEF FileSaved, Write
  <2>4. CASE f.heard
    BY <1>3, <2>1, <2>2, <2>3, <2>4, LedOn DEF FileSaved, Leading
  <2>5. CASE ~f.heard
    BY <1>3, <2>3, <2>5, OverAlone DEF FileSaved
  <2> QED BY <2>4, <2>5
<1>4. CASE UploadEnds(f)
  <2>1. PICK d : d = f.arg
    OBVIOUS
  <2>2. d \in Folders /\ FromDisk \in Texts(f.of, d) /\ f.kind = "upload" /\ UNCHANGED <<page, listing, editor, mixed>>
    BY <1>1, <1>4, <2>1 DEF UploadEnds, FileRequest, Texts
  <2>3. CASE UNCHANGED <<objects, path>> /\ Without(f)
    <3>1. Stored'
      BY <1>1, <2>3 DEF Stored
    <3> QED BY <2>2, <2>3, <3>1, OverAlone
  <2>4. CASE /\ Write(f.of, d, FromDisk)
             /\ IF f.heard THEN NavigateTo(f.of, d, flights \ {f}) ELSE UNCHANGED path /\ Without(f)
    <3>1. Stored'
      BY <1>1, <2>2, <2>4, StillStored DEF Write
    <3>2. CASE f.heard
      BY <2>2, <2>4, <3>1, <3>2, LedOn DEF Leading
    <3>3. CASE ~f.heard
      BY <2>2, <2>4, <3>1, <3>3, OverAlone
    <3> QED BY <3>2, <3>3
  <2> QED BY <1>4, <2>1, <2>3, <2>4 DEF UploadEnds
<1>5. CASE EntryDeleted(f)
  <2>1. PICK d \in Folders : d = f.arg
    BY <1>1, <1>5 DEF EntryDeleted, FileRequest
  <2>2. Stored'
    BY <1>1, <1>5, <2>1, StillStored DEF EntryDeleted, DeleteContent
  <2>3. PICK e \in Folders : e = path
    BY <1>1
  <2>4. f.heard /\ f.kind \in Leading
    BY <1>1, <1>5 DEF EntryDeleted, FileRequest, Leading
  <2>5. NavigateTo(f.of, e, flights \ {f})
    BY <1>5, <2>3 DEF EntryDeleted
  <2> QED BY <1>5, <2>2, <2>4, <2>5, LedOn DEF EntryDeleted
<1>6. CASE FolderCreated(f)
  <2>1. f.heard /\ f.kind \in Leading /\ f.arg \in Folders
    BY <1>1, <1>6 DEF FolderCreated, FileRequest, Leading
  <2>2. Stored' /\ NavigateTo(f.of, f.arg, flights \ {f}) /\ UNCHANGED <<page, listing, editor, mixed>>
    BY <1>1, <1>6 DEF FolderCreated, Stored
  <2> QED BY <2>1, <2>2, LedOn
<1> QED BY <1>2, <1>3, <1>4, <1>5, <1>6

LEMMA UploadNextKeeps ==
  ASSUME FileInv, NEW f \in flights, NEW d \in Folders, UploadNext(f, d)
  PROVE  FileInv'
<1>1. /\ FileRequest(f) /\ Sheet(f) /\ f.of \in Ids /\ Stored /\ path \in Folders /\ f.heard /\ f.kind = "folder"
      /\ f.arg = [at |-> f.arg.at, left |-> f.arg.left, no |-> f.arg.no] /\ f.arg.at \in Folders
  BY DEF UploadNext, FileInv, FileRequest, Visited
<1>2. Stored'
  <2>1. CASE UNCHANGED objects
    BY <1>1, <2>1 DEF Stored
  <2>2. CASE Write(f.of, d, FromDisk)
    BY <1>1, <2>2, StillStored DEF Write, Texts
  <2> QED BY <2>1, <2>2 DEF UploadNext
<1>3. PICK left : left = f.arg.left \ {d}
  OBVIOUS
<1>4. UNCHANGED <<page, listing, editor, mixed>>
  BY DEF UploadNext
<1>5. CASE left = {}
  <2>1. NavigateTo(f.of, f.arg.at, flights \ {f})
    BY <1>3, <1>5 DEF UploadNext
  <2> QED BY <1>1, <1>2, <1>4, <2>1, LedOn DEF Leading
<1>6. CASE left # {}
  <2>1. flights' = (flights \ {f}) \cup {[f EXCEPT !.arg.left = left]} /\ path' = path
    BY <1>3, <1>6 DEF UploadNext
  <2>2. PICK a : a = [f.arg EXCEPT !.left = left]
    OBVIOUS
  <2>3. a = [at |-> f.arg.at, left |-> left, no |-> f.arg.no]
    BY <1>1, <2>2
  <2>4. PICK g : g = [f EXCEPT !.arg = a]
    OBVIOUS
  <2>5. g = [f EXCEPT !.arg.left = left]
    BY <1>1, <2>2, <2>4 DEF Sheet
  <2>6. Sheet(g) /\ g.kind = f.kind /\ g.of = f.of /\ g.arg = a /\ g.heard = f.heard
    BY <1>1, <2>4 DEF Sheet
  <2>7. FileRequest(g)
    BY <1>1, <2>3, <2>6 DEF FileRequest
  <2>8. OnFiles => mixed \/ g.of = page.of
    BY <1>1, <2>6 DEF FileInv, Leads, Leading
  <2>9. OnFiles /\ listing # None => mixed \/ listing.of = page.of
    BY DEF FileInv, Leads
  <2> QED BY <1>1, <1>2, <1>4, <2>1, <2>5, <2>6, <2>7, <2>8, <2>9, FilesKeep
<1> QED BY <1>5, <1>6

LEMMA FileStep ==
  FileInv /\ (FileNext \/ UNCHANGED <<browserVars, fileVars>>) => FileInv'
<1> SUFFICES ASSUME FileInv, FileNext \/ UNCHANGED <<browserVars, fileVars>> PROVE FileInv'
  OBVIOUS
<1>1. CASE UNCHANGED <<browserVars, fileVars>>
  BY <1>1 DEF browserVars, fileVars, FileInv, Stored, Visited, Editing, Leads, OnFiles
<1>2. CASE \E i \in Ids : OpenFiles(i)
  BY <1>2, OpenFilesKeeps
<1>3. CASE LeaveFiles \/ OpenEditor \/ SaveEditor
  BY <1>3, LeaveFilesKeeps, OpenEditorKeeps, SaveEditorKeeps
<1>4. ASSUME NEW d \in Folders, GoTo(d) PROVE FileInv'
  <2>1. path' = d
    BY <1>4 DEF GoTo, NavigateTo
  <2> QED BY <1>4, <2>1, AskedKeeps
<1>5. CASE Upload \/ UploadFolder \/ CreateFolder \/ DeleteEntry \/ CloseEditor
  <2>1. path' \in Folders
    BY <1>5 DEF Upload, UploadFolder, CreateFolder, DeleteEntry, CloseEditor, fileVars, FileInv, Visited
  <2> QED BY <1>5, <2>1, AskedKeeps
<1>6. ASSUME NEW f \in flights, FileAnswers(f) PROVE FileInv'
  BY <1>6, EntriesKeep, ContentKeeps, LeadingKeep, UploadNextKeeps DEF FileAnswers
<1> QED BY <1>1, <1>2, <1>3, <1>4, <1>5, <1>6 DEF FileNext, FileUser

LEMMA FilesOwn ==
  FileInv =>
    /\ OnFiles /\ listing # None => mixed \/ listing.of = page.of
    /\ \A i \in Ids, d \in Folders : objects[i][d] \in {None, Own(i, d), FromDisk, LoadError(d)}
BY DEF FileInv, Leads, Stored, Texts

-----------------------------------------------------------------------------
(* The configuration pane: of which file its text is and where it is saved,  *)
(* as long as it has not strayed.                                            *)

PaneForm(q) ==
  q = [open |-> q.open, loading |-> q.loading, saving |-> q.saving, text |-> q.text,
       path |-> q.path, no |-> q.no]

ConfigRequest(f) ==
  /\ Sheet(f) /\ f.kind \in {"config", "saveConfig"} /\ f.arg.no \in Nat /\ f.arg.no <= acts
  /\ f.kind = "config" =>
       /\ f.of \in Repository /\ f.arg = [left |-> f.arg.left, no |-> f.arg.no]
       /\ IF editable THEN f.arg.left \in {<<f.of, AtRoot>>, <<AtRoot>>} ELSE f.arg.left = <<FromTriton>>
  /\ f.kind = "saveConfig" => f.of \in Paths /\ f.arg.text \in {Empty, f.of}

ConfigFiles == configs = [p \in Paths |-> configs[p]] /\ \A p \in Paths : configs[p] \in {None, Empty, p}

PaneOwn ==
  /\ acts \in Nat /\ pane.no \in Nat /\ pane.no <= acts /\ PaneForm(pane)
  /\ OnModel => /\ page.of \in Repository /\ pane.path \in {None, page.of, AtRoot}
                /\ pane.text \in {Empty, RelativePath}
                /\ ~editable => pane.path = None

(* The component awaits one configuration at a time.                         *)
AsksHere(f) == f.kind = "config" /\ f.arg.no = pane.no
OneAsked ==
  OnModel => \A f \in flights : AsksHere(f) =>
    pane.loading /\ f.of = page.of /\ (\A g \in flights : AsksHere(g) => g = f)

ConfigInv == ~strayed => ConfigFiles /\ PaneOwn /\ OneAsked /\ \A f \in flights : ConfigRequest(f)

(* Time passes for a request.                                                *)
LEMMA RequestStays ==
  ASSUME NEW g, ConfigRequest(g), acts \in Nat, acts' \in {acts, acts + 1}, UNCHANGED editable
  PROVE  ConfigRequest(g)'
<1>1. g.arg.no <= acts'
  BY DEF ConfigRequest
<1> QED BY <1>1 DEF ConfigRequest

LEMMA ConfigStarts == ConfigInit => ConfigInv
<1> SUFFICES ASSUME ConfigInit PROVE ConfigInv
  OBVIOUS
<1>1. PICK there \in SUBSET Paths : configs = [p \in Paths |-> IF p \in there THEN p ELSE None]
  BY DEF ConfigInit
<1>2. ConfigFiles
  BY <1>1 DEF ConfigFiles
<1>3. pane = Closed(0) /\ flights = {} /\ acts = 0 /\ ~OnModel
  BY DEF ConfigInit, OnModel
<1>4. PaneOwn
  BY <1>3 DEF PaneOwn, PaneForm, Closed
<1> QED BY <1>2, <1>3, <1>4 DEF ConfigInv, OneAsked

(* A request that is over and what it tells the component.                   *)
LEMMA ConfigEnds ==
  ASSUME ConfigInv, ~strayed, NEW f \in flights, Without(f), UNCHANGED <<page, editable>>, acts' \in {acts, acts + 1},
         ConfigFiles', PaneForm(pane'), pane'.no = pane.no,
         pane'.loading = pane.loading \/ (Here(f) /\ f.kind = "config"),
         OnModel => /\ pane'.path \in {None, page.of, AtRoot} /\ pane'.text \in {Empty, RelativePath'}
                    /\ ~editable => pane'.path = None
  PROVE  ConfigInv'
<1>1. acts \in Nat /\ pane.no \in Nat /\ pane.no <= acts /\ PaneOwn /\ OneAsked
  BY DEF ConfigInv, PaneOwn
<1>2. PaneOwn'
  BY <1>1 DEF PaneOwn, OnModel
<1>3. \A g \in flights' : ConfigRequest(g)'
  BY <1>1, RequestStays DEF ConfigInv, Without
<1>4. OneAsked'
  <2> SUFFICES ASSUME OnModel, NEW h \in flights, h # f, h.kind = "config", h.arg.no = pane.no
               PROVE  /\ pane'.loading /\ h.of = page.of
                      /\ \A g \in flights : g.kind = "config" /\ g.arg.no = pane.no => g = h
    BY DEF OneAsked, AsksHere, OnModel, Without
  <2>1. pane.loading /\ h.of = page.of /\ \A g \in flights : g.kind = "config" /\ g.arg.no = pane.no => g = h
    BY <1>1 DEF OneAsked, AsksHere
  <2>2. pane'.loading = pane.loading
    BY <2>1 DEF Here
  <2> QED BY <2>1, <2>2
<1> QED BY <1>2, <1>3, <1>4 DEF ConfigInv

(* The page.                                                                 *)
LEMMA OpenModelKeeps ==
  ASSUME ConfigInv, NEW m \in Repository, OpenModel(m)
  PROVE  ConfigInv'
<1> SUFFICES ASSUME ~strayed PROVE ConfigInv'
  BY DEF ConfigInv, OpenModel
<1>1. /\ acts' = acts + 1 /\ acts \in Nat /\ OnModel' /\ page'.of = m /\ pane' = Closed(acts')
      /\ UNCHANGED <<flights, configs, editable, strayed>>
  BY DEF OpenModel, Route, Act, OnModel, ConfigInv, PaneOwn
<1>2. ConfigFiles'
  BY <1>1 DEF ConfigInv, ConfigFiles
<1>3. PaneOwn'
  BY <1>1 DEF PaneOwn, PaneForm, Closed
<1>4. \A g \in flights' : ConfigRequest(g)' /\ g.arg.no # acts'
  <2> SUFFICES ASSUME NEW g \in flights PROVE ConfigRequest(g)' /\ g.arg.no # acts'
    BY <1>1
  <2>1. ConfigRequest(g)
    BY DEF ConfigInv
  <2>2. g.arg.no # acts'
    BY <1>1, <2>1 DEF ConfigRequest
  <2> QED BY <1>1, <2>1, <2>2, RequestStays
<1>5. OneAsked'
  BY <1>1, <1>4 DEF OneAsked, AsksHere, Closed
<1> QED BY <1>2, <1>3, <1>4, <1>5 DEF ConfigInv

LEMMA SwitchConfigKeeps ==
  ASSUME ConfigInv, NEW m \in Repository, SwitchConfig(m)
  PROVE  ConfigInv'
<1> SUFFICES ASSUME ~strayed, pane = Closed(pane.no) PROVE ConfigInv'
  BY DEF ConfigInv, SwitchConfig
<1>1. /\ acts' = acts + 1 /\ acts \in Nat /\ OnModel /\ OnModel' /\ page'.of = m
      /\ UNCHANGED <<flights, configs, editable, pane>>
  BY DEF SwitchConfig, Route, Act, OnModel, ConfigInv, PaneOwn
<1>2. ConfigFiles'
  BY <1>1 DEF ConfigInv, ConfigFiles
<1>3. ~pane.loading /\ pane.path = None /\ pane.text = Empty
  BY DEF Closed
<1>4. PaneOwn'
  BY <1>1, <1>3 DEF ConfigInv, PaneOwn
<1>5. \A g \in flights' : ConfigRequest(g)'
  BY <1>1, RequestStays DEF ConfigInv
<1>6. OneAsked'
  BY <1>1, <1>3 DEF ConfigInv, OneAsked, AsksHere
<1> QED BY <1>2, <1>4, <1>5, <1>6 DEF ConfigInv

LEMMA LeaveModelKeeps ==
  ASSUME ConfigInv, LeaveModel
  PROVE  ConfigInv'
<1> SUFFICES ASSUME ~strayed PROVE ConfigInv'
  BY DEF ConfigInv, LeaveModel, configVars
<1>1. acts' = acts + 1 /\ acts \in Nat /\ ~OnModel' /\ UNCHANGED <<flights, configs, editable, pane>>
  BY DEF LeaveModel, Route, Act, OnModel, ConfigInv, PaneOwn, configVars
<1>2. ConfigFiles'
  BY <1>1 DEF ConfigInv, ConfigFiles
<1>3. PaneOwn' /\ OneAsked'
  BY <1>1 DEF ConfigInv, PaneOwn, OneAsked
<1>4. \A g \in flights' : ConfigRequest(g)'
  BY <1>1, RequestStays DEF ConfigInv
<1> QED BY <1>2, <1>3, <1>4 DEF ConfigInv

(* Nothing of the component changes but its flags.                           *)
LEMMA PaneFlags ==
  ASSUME ConfigInv, ~strayed, UNCHANGED <<page, editable, configs, flights>>, acts' \in {acts, acts + 1},
         PaneForm(pane'), pane'.no = pane.no, pane'.loading = pane.loading, pane'.text = pane.text, pane'.path = pane.path
  PROVE  ConfigInv'
<1>1. ConfigFiles' /\ acts \in Nat
  BY DEF ConfigInv, ConfigFiles, PaneOwn
<1>2. PaneOwn'
  BY DEF ConfigInv, PaneOwn, OnModel, RelativePath
<1>3. OneAsked'
  BY DEF ConfigInv, OneAsked, AsksHere, OnModel
<1>4. \A g \in flights' : ConfigRequest(g)'
  BY <1>1, RequestStays DEF ConfigInv
<1> QED BY <1>1, <1>2, <1>3, <1>4 DEF ConfigInv

LEMMA LoadKeeps ==
  ASSUME ConfigInv, ~strayed, OnModel, ~pane.loading, NEW to, PaneForm(to), to.no = pane.no, to.text = pane.text, to.path = pane.path,
         Load(to)
  PROVE  ConfigInv'
<1>1. PICK r : r = AskConfig(Candidates)
  OBVIOUS
<1>2. PICK a : a = [left |-> Candidates, no |-> pane.no]
  OBVIOUS
<1>3. Sheet(r) /\ r.kind = "config" /\ r.of = page.of /\ r.arg = a
  BY <1>1, <1>2, AsksWhole DEF AskConfig
<1>4. /\ acts \in Nat /\ pane.no \in Nat /\ pane.no <= acts /\ page.of \in Repository
      /\ flights' = flights \cup {r} /\ pane' = [to EXCEPT !.loading = TRUE]
      /\ UNCHANGED <<page, acts, configs, editable, strayed>>
  BY <1>1 DEF ConfigInv, PaneOwn, Load, Merged
<1>5. PICK q : q = pane'
  OBVIOUS
<1>6. PaneForm(q) /\ q.loading /\ q.no = pane.no /\ q.text = pane.text /\ q.path = pane.path
  BY <1>4, <1>5 DEF PaneForm
<1>7. ConfigRequest(r)
  BY <1>2, <1>3, <1>4 DEF ConfigRequest, Candidates
<1>8. \A g \in flights' : ConfigRequest(g)'
  BY <1>4, <1>7, RequestStays DEF ConfigInv
<1>9. \A g \in flights : ~AsksHere(g)
  BY DEF ConfigInv, OneAsked
<1>10. OneAsked'
  BY <1>2, <1>3, <1>4, <1>5, <1>6, <1>9 DEF OneAsked, AsksHere
<1>11. PaneOwn'
  BY <1>4, <1>5, <1>6 DEF ConfigInv, PaneOwn, OnModel, RelativePath
<1>12. ConfigFiles'
  BY <1>4 DEF ConfigInv, ConfigFiles
<1> QED BY <1>8, <1>10, <1>11, <1>12 DEF ConfigInv

LEMMA ToggleKeeps ==
  ASSUME ConfigInv, ToggleConfig \/ ReloadConfig
  PROVE  ConfigInv'
<1> SUFFICES ASSUME ~strayed PROVE ConfigInv'
  BY DEF ConfigInv, ToggleConfig, ReloadConfig, Load
<1>1. PaneForm(pane) /\ OnModel /\ ~pane.loading
  BY DEF ConfigInv, PaneOwn, ToggleConfig, ReloadConfig
<1>2. PICK q : q = pane
  OBVIOUS
<1>3. CASE Load([q EXCEPT !.open = TRUE])
  <2>1. PICK to : to = [q EXCEPT !.open = TRUE]
    OBVIOUS
  <2>2. PaneForm(to) /\ to.no = q.no /\ to.text = q.text /\ to.path = q.path
    BY <1>1, <1>2, <2>1 DEF PaneForm
  <2> QED BY <1>1, <1>2, <1>3, <2>1, <2>2, LoadKeeps
<1>4. CASE pane' = [q EXCEPT !.open = ~@] /\ UNCHANGED <<browserVars, configs, editable, prefixed, strayed>>
  <2>1. PICK to : to = [q EXCEPT !.open = ~@]
    OBVIOUS
  <2>2. PaneForm(to) /\ to.no = q.no /\ to.text = q.text /\ to.path = q.path /\ to.loading = q.loading
    BY <1>1, <1>2, <2>1 DEF PaneForm
  <2> QED BY <1>2, <1>4, <2>1, <2>2, PaneFlags DEF browserVars
<1>5. CASE ReloadConfig
  BY <1>1, <1>2, <1>5, LoadKeeps DEF ReloadConfig
<1> QED BY <1>2, <1>3, <1>4, <1>5 DEF ToggleConfig

LEMMA SaveConfigKeeps ==
  ASSUME ConfigInv, SaveConfig
  PROVE  ConfigInv'
<1> SUFFICES ASSUME ~strayed PROVE ConfigInv'
  BY DEF ConfigInv, SaveConfig
<1>1. PICK q, a, of : q = pane /\ a = [text |-> q.text, no |-> q.no] /\ of = RelativePath
  OBVIOUS
<1>2. PICK r : r = Request("saveConfig", of, a)
  OBVIOUS
<1>3. Sheet(r) /\ r.kind = "saveConfig" /\ r.of = of /\ r.arg = a
  BY <1>2, AsksWhole
<1>4. /\ OnModel /\ acts' = acts + 1 /\ flights' = flights \cup {r} /\ pane' = [q EXCEPT !.saving = TRUE]
      /\ UNCHANGED <<page, configs, editable, strayed>>
  BY <1>1, <1>2 DEF SaveConfig, Act, Merged
<1>5. acts \in Nat /\ q.no \in Nat /\ q.no <= acts /\ PaneForm(q) /\ page.of \in Repository
      /\ q.path \in {None, page.of, AtRoot} /\ q.text \in {Empty, of}
  BY <1>1, <1>4 DEF ConfigInv, PaneOwn
<1>6. of \in Paths
  BY <1>1, <1>5 DEF RelativePath, Paths
<1>7. ConfigRequest(r)
  BY <1>1, <1>3, <1>5, <1>6 DEF ConfigRequest
<1>8. \A g \in flights' : ConfigRequest(g)'
  BY <1>4, <1>5, <1>7, RequestStays DEF ConfigInv
<1>9. PICK to : to = [q EXCEPT !.saving = TRUE]
  OBVIOUS
<1>10. PaneForm(to) /\ to.no = q.no /\ to.text = q.text /\ to.path = q.path /\ to.loading = q.loading
  BY <1>5, <1>9 DEF PaneForm
<1>11. PaneOwn'
  BY <1>1, <1>4, <1>5, <1>9, <1>10 DEF ConfigInv, PaneOwn, OnModel, RelativePath
<1>12. OneAsked'
  BY <1>1, <1>3, <1>4, <1>9, <1>10 DEF ConfigInv, OneAsked, AsksHere, OnModel
<1>13. ConfigFiles'
  BY <1>4 DEF ConfigInv, ConfigFiles
<1> QED BY <1>8, <1>11, <1>12, <1>13 DEF ConfigInv

(* What is read is of the file that was asked for, or nothing is known.      *)
LEMMA ReadableThere ==
  ASSUME NEW at \in Paths, NEW p \in Readable(at)
  PROVE  p \in Paths /\ configs[p] # None
<1>1. (p \in {at} /\ configs[at] # None) \/ p \in StandIns(at)
  BY DEF Readable
<1>2. CASE p \in StandIns(at)
  <2>1. p \in Found
    BY <1>2, Zenon DEF StandIns
  <2> QED BY <2>1 DEF Found
<1> QED BY <1>1, <1>2

(* The pane is given a text with the path it belongs to.                     *)
LEMMA TextGiven ==
  ASSUME ConfigInv, ~strayed, NEW f \in flights, f.kind = "config", Without(f), UNCHANGED <<page, configs, editable>>,
         acts' \in {acts, acts + 1}, NEW text, NEW at,
         pane' = IF Here(f) THEN [pane EXCEPT !.text = text, !.path = at, !.loading = FALSE] ELSE pane,
         Here(f) => /\ at \in {None, page.of, AtRoot} /\ text \in {Empty, IF at # None THEN at ELSE page.of}
                    /\ ~editable => at = None
  PROVE  ConfigInv'
<1>1. PaneForm(pane) /\ PaneOwn /\ ConfigFiles'
  BY DEF ConfigInv, PaneOwn, ConfigFiles
<1>2. PICK q : q = pane
  OBVIOUS
<1>3. CASE ~Here(f)
  <2>1. pane' = pane
    BY <1>3
  <2> QED BY <1>1, <2>1, ConfigEnds DEF PaneOwn, RelativePath
<1>4. CASE Here(f)
  <2>1. PICK to : to = [q EXCEPT !.text = text, !.path = at, !.loading = FALSE]
    OBVIOUS
  <2>2. PaneForm(to) /\ to.no = q.no /\ to.text = text /\ to.path = at
    BY <1>1, <1>2, <2>1 DEF PaneForm
  <2>3. pane' = to
    BY <1>2, <1>4, <2>1
  <2> QED BY <1>1, <1>2, <1>4, <2>2, <2>3, ConfigEnds DEF RelativePath
<1> QED BY <1>3, <1>4

LEMMA ReadKeeps ==
  ASSUME ConfigInv, NEW f \in flights, LiveConfig(f) \/ ConfigRead(f)
  PROVE  ConfigInv'
<1>0. strayed => strayed'
  <2>1. CASE LiveConfig(f)
    BY <2>1 DEF LiveConfig
  <2>2. CASE ConfigRead(f)
    BY <2>2 DEF ConfigRead
  <2> QED BY <2>1, <2>2
<1> SUFFICES ASSUME ~strayed, ~strayed' PROVE ConfigInv'
  BY <1>0 DEF ConfigInv
<1>1. /\ ConfigRequest(f) /\ f.kind = "config" /\ Without(f) /\ UNCHANGED <<page, acts, editable, configs>> /\ PaneOwn
  BY DEF LiveConfig, ConfigRead, ConfigInv
<1>2. Here(f) => OnModel /\ f.of = page.of
  BY <1>1 DEF Here, ConfigInv, OneAsked, AsksHere
<1>3. PICK left : left = f.arg.left
  OBVIOUS
<1>4. IF editable THEN Head(left) \in {f.of, AtRoot} ELSE Head(left) = FromTriton
  BY <1>1, <1>3 DEF ConfigRequest
<1>5. f.of \in Paths /\ AtRoot \in Paths
  BY <1>1 DEF ConfigRequest, Paths
<1>6. CASE LiveConfig(f)
  <2>1. ~editable
    BY <1>3, <1>4, <1>5, <1>6, PathAssumption DEF LiveConfig
  <2>2. PaneForm(pane) /\ (OnModel => pane.path = None)
    BY <1>1, <2>1 DEF PaneOwn
  <2>3. PICK q, of : q = pane /\ of = f.of
    OBVIOUS
  <2>4. CASE Here(f)
    <3>1. PICK to : to = [q EXCEPT !.text = of, !.loading = FALSE]
      OBVIOUS
    <3>2. PaneForm(to) /\ to.no = q.no /\ to.text = of /\ to.path = q.path
      BY <2>2, <2>3, <3>1 DEF PaneForm
    <3>3. pane' = to
      BY <1>6, <2>3, <2>4, <3>1 DEF LiveConfig, Tell
    <3>4. ConfigFiles'
      BY <1>1 DEF ConfigInv, ConfigFiles
    <3> QED BY <1>1, <1>2, <2>2, <2>3, <2>4, <3>2, <3>3, <3>4, ConfigEnds DEF RelativePath
  <2>5. CASE ~Here(f)
    <3>1. pane' = pane
      BY <1>6, <2>5 DEF LiveConfig, Tell
    <3>2. ConfigFiles'
      BY <1>1 DEF ConfigInv, ConfigFiles
    <3> QED BY <1>1, <3>1, <3>2, ConfigEnds DEF PaneOwn, RelativePath
  <2> QED BY <2>4, <2>5
<1>7. CASE ConfigRead(f)
  <2>1. PICK at : at = Head(left)
    OBVIOUS
  <2>2. editable /\ at \in {f.of, AtRoot} /\ at \in Paths
    BY <1>3, <1>4, <1>5, <1>7, <2>1 DEF ConfigRead
  <2>3. PICK p \in Readable(at) :
          /\ Tell(f, [pane EXCEPT !.text = configs[p], !.path = at, !.loading = FALSE])
          /\ strayed' = (strayed \/ p # at)
    BY <1>3, <1>7, <2>1 DEF ConfigRead
  <2>4. PICK text : text = configs[p]
    OBVIOUS
  <2>5. p = at /\ text # None
    BY <2>2, <2>3, <2>4, ReadableThere
  <2>6. text \in {Empty, at} /\ at # None
    BY <2>2, <2>4, <2>5, PathAssumption DEF ConfigInv, ConfigFiles
  <2>7. pane' = IF Here(f) THEN [pane EXCEPT !.text = text, !.path = at, !.loading = FALSE] ELSE pane
    BY <2>3, <2>4 DEF Tell
  <2> QED BY <1>1, <1>2, <2>2, <2>6, <2>7, TextGiven
<1> QED BY <1>6, <1>7

LEMMA MissedKeeps ==
  ASSUME ConfigInv, NEW f \in flights, ConfigMissed(f)
  PROVE  ConfigInv'
<1> SUFFICES ASSUME ~strayed PROVE ConfigInv'
  BY DEF ConfigInv, ConfigMissed
<1>1. /\ ConfigRequest(f) /\ Sheet(f) /\ f.kind = "config" /\ UNCHANGED <<page, editable, configs, strayed>> /\ PaneOwn
      /\ PaneForm(pane) /\ acts \in Nat /\ ConfigFiles /\ ConfigFiles'
  BY DEF ConfigMissed, ConfigInv, ConfigRequest, PaneOwn, ConfigFiles
<1>2. acts' \in {acts, acts + 1}
  BY DEF ConfigMissed, Act
<1>3. PICK a, left : a = f.arg /\ left = f.arg.left
  OBVIOUS
<1>4. a = [left |-> left, no |-> a.no]
  BY <1>1, <1>3 DEF ConfigRequest
<1>5. CASE Len(left) > 1
  <2>1. flights' = (flights \ {f}) \cup {[f EXCEPT !.arg.left = Tail(@)]} /\ UNCHANGED pane
    BY <1>3, <1>5 DEF ConfigMissed
  <2>a. Len(<<AtRoot>>) = 1 /\ Len(<<FromTriton>>) = 1
    OBVIOUS
  <2>c. PICK n : n = Len(left)
    OBVIOUS
  <2>b. n # 1
    BY <1>5, <2>c
  <2>0. left # <<AtRoot>> /\ left # <<FromTriton>>
    BY <2>a, <2>b, <2>c, Zenon
  <2>2. editable /\ left = <<f.of, AtRoot>>
    BY <1>1, <1>3, <2>0 DEF ConfigRequest
  <2>3. Tail(left) = <<AtRoot>>
    BY <2>2
  <2>4. PICK b : b = [a EXCEPT !.left = Tail(left)]
    OBVIOUS
  <2>5. b = [left |-> <<AtRoot>>, no |-> a.no]
    BY <1>4, <2>3, <2>4
  <2>6. PICK g : g = [f EXCEPT !.arg = b]
    OBVIOUS
  <2>7. g = [f EXCEPT !.arg.left = Tail(@)]
    BY <1>1, <1>3, <2>4, <2>6 DEF Sheet
  <2>8. Sheet(g) /\ g.kind = f.kind /\ g.of = f.of /\ g.arg = b
    BY <1>1, <2>6 DEF Sheet
  <2>9. ConfigRequest(g)
    BY <1>1, <1>3, <2>2, <2>5, <2>8 DEF ConfigRequest
  <2>10. \A h \in flights' : ConfigRequest(h)'
    BY <1>1, <1>2, <2>1, <2>7, <2>9, RequestStays DEF ConfigInv
  <2>11. OneAsked'
    <3>1. g.arg.no = f.arg.no
      BY <1>3, <2>5, <2>8
    <3>2. \A h \in flights' : (h \in flights /\ h # f) \/ h = g
      BY <2>1, <2>7
    <3>3. UNCHANGED <<page, pane>>
      BY <1>1, <2>1
    <3> QED BY <1>1, <2>8, <3>1, <3>2, <3>3 DEF ConfigInv, OneAsked, AsksHere, OnModel
  <2>12. PaneOwn'
    BY <1>1, <1>2, <2>1 DEF PaneOwn, OnModel, RelativePath
  <2> QED BY <1>1, <2>10, <2>11, <2>12 DEF ConfigInv
<1>6. CASE ~(Len(left) > 1)
  <2>1. Without(f) /\ Tell(f, [pane EXCEPT !.text = Empty, !.loading = FALSE])
    BY <1>3, <1>6 DEF ConfigMissed
  <2>2. PICK q : q = pane
    OBVIOUS
  <2>3. CASE Here(f)
    <3>1. PICK to : to = [q EXCEPT !.text = Empty, !.loading = FALSE]
      OBVIOUS
    <3>2. PaneForm(to) /\ to.no = q.no /\ to.text = Empty /\ to.path = q.path
      BY <1>1, <2>2, <3>1 DEF PaneForm
    <3>3. pane' = to
      BY <2>1, <2>2, <2>3, <3>1 DEF Tell
    <3> QED BY <1>1, <1>2, <2>1, <2>2, <2>3, <3>2, <3>3, ConfigEnds DEF PaneOwn
  <2>4. CASE ~Here(f)
    <3>1. pane' = pane
      BY <2>1, <2>4 DEF Tell
    <3> QED BY <1>1, <1>2, <2>1, <3>1, ConfigEnds DEF PaneOwn, RelativePath
  <2> QED BY <2>3, <2>4
<1> QED BY <1>5, <1>6

(* A file that is written.                                                   *)
LEMMA FilePut ==
  ASSUME ConfigFiles, NEW p \in Paths, NEW text \in {None, Empty, p}, configs' = [configs EXCEPT ![p] = text]
  PROVE  ConfigFiles'
BY DEF ConfigFiles

LEMMA SavedKeeps ==
  ASSUME ConfigInv, NEW f \in flights, ConfigSaved(f) \/ ConfigRefused(f)
  PROVE  ConfigInv'
<1>0. strayed => strayed'
  BY DEF ConfigSaved, ConfigRefused
<1> SUFFICES ASSUME ~strayed, ~strayed' PROVE ConfigInv'
  BY <1>0 DEF ConfigInv
<1>1. /\ ConfigRequest(f) /\ f.kind = "saveConfig" /\ UNCHANGED <<page, editable>> /\ PaneOwn
      /\ PaneForm(pane) /\ acts \in Nat /\ ConfigFiles /\ Without(f) /\ Tell(f, [pane EXCEPT !.saving = FALSE])
  BY DEF ConfigSaved, ConfigRefused, ConfigInv, PaneOwn
<1>2. acts' \in {acts, acts + 1}
  BY DEF ConfigSaved, ConfigRefused, Act
<1>3. ConfigFiles'
  <2>1. CASE ConfigRefused(f)
    BY <1>1, <2>1 DEF ConfigRefused, ConfigFiles
  <2>2. CASE ConfigSaved(f)
    <3>1. PICK p, text : p = f.of /\ text = f.arg.text
      OBVIOUS
    <3>2. p \in Paths /\ text \in {Empty, p}
      BY <1>1, <3>1 DEF ConfigRequest
    <3>3. configs' = [configs EXCEPT ![p] = text]
      BY <2>2, <3>1 DEF ConfigSaved
    <3> QED BY <1>1, <3>2, <3>3, FilePut
  <2> QED BY <2>1, <2>2
<1>4. PICK q : q = pane
  OBVIOUS
<1>5. PICK to : to = IF Here(f) THEN [q EXCEPT !.saving = FALSE] ELSE q
  OBVIOUS
<1>6. PaneForm(to) /\ to.no = q.no /\ to.text = q.text /\ to.path = q.path /\ to.loading = q.loading
  BY <1>1, <1>4, <1>5 DEF PaneForm
<1>7. pane' = to
  BY <1>1, <1>4, <1>5 DEF Tell
<1> QED BY <1>1, <1>2, <1>3, <1>4, <1>6, <1>7, ConfigEnds DEF PaneOwn, RelativePath

LEMMA OthersWriteKeep ==
  ASSUME ConfigInv, NEW p \in Paths, OthersWrite(p, None) \/ OthersWrite(p, p)
  PROVE  ConfigInv'
<1> SUFFICES ASSUME ~strayed PROVE ConfigInv'
  BY DEF ConfigInv, OthersWrite
<1>1. PICK text \in {None, p} : configs' = [configs EXCEPT ![p] = text]
  BY DEF OthersWrite
<1>2. acts' = acts + 1 /\ UNCHANGED <<page, flights, editable, pane, strayed>> /\ acts \in Nat
  BY DEF OthersWrite, Act, ConfigInv, PaneOwn
<1>3. ConfigFiles'
  BY <1>1, FilePut DEF ConfigInv
<1>4. PaneOwn' /\ OneAsked'
  BY <1>2 DEF ConfigInv, PaneOwn, OneAsked, AsksHere, OnModel, RelativePath
<1>5. \A g \in flights' : ConfigRequest(g)'
  BY <1>2, RequestStays DEF ConfigInv
<1> QED BY <1>3, <1>4, <1>5 DEF ConfigInv

LEMMA ConfigStep ==
  ConfigInv /\ (ConfigNext \/ UNCHANGED <<browserVars, configVars>>) => ConfigInv'
<1> SUFFICES ASSUME ConfigInv, ConfigNext \/ UNCHANGED <<browserVars, configVars>> PROVE ConfigInv'
  OBVIOUS
<1>1. CASE UNCHANGED <<browserVars, configVars>>
  <2> SUFFICES ASSUME ~strayed PROVE ConfigInv'
    BY <1>1 DEF ConfigInv, configVars
  <2>1. PaneForm(pane)
    BY DEF ConfigInv, PaneOwn
  <2> QED BY <1>1, <2>1, PaneFlags DEF browserVars, configVars
<1>2. CASE \E m \in Repository : OpenModel(m) \/ SwitchConfig(m)
  BY <1>2, OpenModelKeeps, SwitchConfigKeeps
<1>3. CASE LeaveModel \/ ToggleConfig \/ ReloadConfig \/ SaveConfig
  BY <1>3, LeaveModelKeeps, ToggleKeeps, SaveConfigKeeps
<1>4. CASE \E p \in Paths : OthersWrite(p, None) \/ OthersWrite(p, p)
  BY <1>4, OthersWriteKeep
<1>5. CASE \E f \in flights : LiveConfig(f) \/ ConfigRead(f) \/ ConfigMissed(f) \/ ConfigSaved(f) \/ ConfigRefused(f)
  BY <1>5, ReadKeeps, MissedKeeps, SavedKeeps
<1> QED BY <1>1, <1>2, <1>3, <1>4, <1>5 DEF ConfigNext

LEMMA ConfigOwn ==
  ConfigInv /\ ~strayed =>
    /\ OnModel => pane.text \in {Empty, page.of, AtRoot}
    /\ \A p \in Paths : configs[p] \in {None, Empty, p}
BY DEF ConfigInv, PaneOwn, ConfigFiles, RelativePath

LEMMA FrameSelected == DevelopmentInv => (yanked \/ frame \in {None, selected})
BY DEF DevelopmentInv, WorkspaceInv, FrameIsSelected

(* What a page shows belongs to what it was opened for, and a file of a      *)
(* bucket holds a text made from it, whichever answers of the pages before   *)
(* arrive late, except where the code merges them into the new page's store, *)
(* the refresh after an action on a model of the page before among them; for *)
(* any number of instances, models, files, workspaces and requests.          *)
THEOREM PagesOwn == Spec => []OwnPages
<1> DEFINE Inv == /\ area = "instances" => InstanceInv
                  /\ area = "inference" => InferenceInv
                  /\ area = "profile" => ProfileInv
                  /\ area = "files" => FileInv
                  /\ area = "development" => DevelopmentInv
                  /\ area = "config" => ConfigInv
<1>1. Init => Inv
  BY AreaInits, InstanceStarts, InferenceStarts, ProfileStarts, FileStarts, DevelopmentStarts, ConfigStarts DEF AreaInit
<1>2. Inv /\ [Next]_vars => Inv'
  BY AreaSteps, InstanceStep, InferenceStep, ProfileStep, FileStep, DevelopmentStep, ConfigStep DEF AreaStep
<1>3. Inv => OwnPages
  BY InstancesOwn, InferenceOwn, FilesOwn, FrameSelected, ConfigOwn DEF ProfileInv, InOrder, OwnPages
<1> QED
  BY <1>1, <1>2, <1>3, PTL DEF Spec
=============================================================================
