------------------------------ MODULE Browser ------------------------------
(* One tab of the web frontend: the page it shows and its HTTP requests.    *)
(* Effects of the store outlive the page whose action started them; what    *)
(* becomes of a request is decided by the operator its effect uses:         *)
(* mergeMap lets every answer in, switchMap turns away from the request     *)
(* before.  A write that was turned away from may have reached the server.  *)
EXTENDS Naturals, FiniteSets

CONSTANTS None,
          Ids,         \* instances
          Users,       \* accounts
          MaxFlights,  \* requests under way before a timer adds another one
          MaxActs      \* pages opened, writes asked for and failures, together

VARIABLES page,     \* the route: which page, of which thing, its number
          flights,  \* requests without a received answer
          acts      \* what MaxActs bounds

browserVars == <<page, flights, acts>>

(* A request: sent, then answered by the server, then received unless the   *)
(* browser no longer listens.                                               *)
Request(kind, of, arg) ==
  [kind |-> kind, of |-> of, arg |-> arg, state |-> "sent",
   result |-> None, heard |-> TRUE]

Writes == {"saveConn", "saveS3", "disableS3", "create", "deleteRow", "deleteDeployment",
           "saveFile", "upload", "deleteFile", "setRole", "assign", "unassign",
           "deleteUser", "createUser", "saveSettings", "testEmail", "saveConfig", "modelAction", "saveAccess",
           "createDeployment"}

Of(kinds) == {f \in flights : f.kind \in kinds}
Awaited(kinds) == {f \in Of(kinds) : f.heard}

(* unsubscribe(): reads are aborted, writes may be under way already.       *)
Unheard(kinds) ==
  (flights \ Of(kinds)) \cup
  {[f EXCEPT !.heard = FALSE] : f \in {g \in Of(kinds) : g.kind \in Writes /\ g.state = "sent"}}

Merged(r) == flights \cup {r}
Switched(r) == Unheard({r.kind}) \cup {r}

Room == Cardinality(flights) < MaxFlights

(* The server's answer is on its way, if anybody listens.                   *)
Answered(f, result) ==
  (flights \ {f}) \cup
  (IF f.heard THEN {[f EXCEPT !.state = "ok", !.result = result]} ELSE {})

Sent(f, kinds) == f.kind \in kinds /\ f.state = "sent"
Answers(f, kinds) == f.kind \in kinds /\ f.state = "ok"
Without(f) == flights' = flights \ {f}

Act == acts < MaxActs /\ acts' = acts + 1

(* The router puts another page in place of this one.                       *)
Route(at, of) ==
  /\ Act
  /\ page' = [at |-> at, of |-> of, no |-> acts']
=============================================================================
