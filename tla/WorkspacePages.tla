--------------------------- MODULE WorkspacePages ---------------------------
(* The Development page: the user's workspaces, the one that is selected,   *)
(* the frame it is shown in, and the interval that asks for the status of   *)
(* those that are not ready.  Everything runs in steps between two awaits;  *)
(* the page that is left takes its answers with it.                         *)
EXTENDS Browser

CONSTANT Spaces   \* workspaces

ASSUME SpacesAssumption == None \notin Spaces \cup {"absent", "pending", "ready", "missing"}

VARIABLES status,    \* at the server: "absent", "pending", "ready", "missing"
          items,     \* the list: a status, or None
          selected,  \* selectedWorkspaceId
          frame,     \* the workspace of embeddedWorkspaceUrl, or None
          interval,  \* statusPollId is set
          polling,   \* statusPollInFlight
          yanked     \* ghost: the frame was set after another was selected

workspaceVars == <<status, items, selected, frame, interval, polling, yanked>>

OnDevelopment == page.at = "development"
Listed(it) == {w \in Spaces : it[w] # None}

(* shouldPollWorkspace().                                                   *)
Polled(it, sel, fr) ==
  {w \in Listed(it) : it[w] = "pending" \/ (it[w] = "ready" /\ sel = w /\ fr = None)}

UpdatePolling == interval' = (Polled(items', selected', frame') # {})

Flow(kind, w, arg) == Request(kind, w, arg)

-----------------------------------------------------------------------------
(* Steps that several flows share.  next: what waits for the end of it.     *)

(* selectWorkspaceAsync(w) with the row seen; sel and rest as they are now. *)
Selecting(w, seen, next, rest) ==
  /\ selected' = w
  /\ frame' = None
  /\ flights' = IF seen = "ready"
                THEN rest \cup {Flow("select", w, [seen |-> seen, next |-> next])}
                ELSE rest

(* ensureSelectedWorkspace(), on the list it: the selected workspace, or    *)
(* the one that is first in the list, or none.                              *)
Ensuring(it, sel, fresh, next, rest) ==
  \/ /\ Listed(it) = {}
     /\ selected' = None /\ frame' = None /\ flights' = rest
  \/ \E w \in IF sel \in Listed(it) THEN {sel} ELSE Listed(it) :
       IF fresh /\ it[w] = "ready"
       THEN /\ selected' = w /\ UNCHANGED frame
            /\ flights' = rest \cup {Flow("refresh", w, next)}
       ELSE Selecting(w, it[w], next, rest)

(* What follows the flow: nothing for a click, the end of the poll.         *)
Ends(next) == polling' = IF next = "poll" THEN FALSE ELSE polling

(* The flow goes on without a request, or waits for one.                    *)
Continues(next, rest) ==
  IF flights' = rest THEN Ends(next) /\ UpdatePolling
  ELSE UNCHANGED <<polling, interval>>

-----------------------------------------------------------------------------
(* The page                                                                 *)

NewPage ==
  /\ items' = [w \in Spaces |-> None]
  /\ selected' = None /\ frame' = None
  /\ interval' = FALSE /\ polling' = FALSE /\ yanked' = FALSE

OpenDevelopment ==
  /\ ~OnDevelopment
  /\ Route("development", None)
  /\ NewPage
  /\ flights' = {Flow("spaces", None, None)}
  /\ UNCHANGED status

LeaveDevelopment ==
  /\ OnDevelopment
  /\ Route("list", None)
  /\ NewPage
  /\ flights' = {}
  /\ UNCHANGED status

SpacesLoaded(f) ==
  /\ f.kind = "spaces"
  /\ items' = [w \in Spaces |-> IF status[w] = "absent" THEN None ELSE status[w]]
  /\ LET rest == flights \ {f}
     IN Ensuring(items', selected, TRUE, "load", rest) /\ Continues("load", rest)
  /\ UNCHANGED <<page, acts, status, yanked>>

(* create(): the session is refreshed first; the workspace is put on top.   *)
CreateSpace(w) ==
  /\ OnDevelopment /\ status[w] = "absent" /\ Of({"createSpace"}) = {}
  /\ Act
  /\ flights' = Merged(Flow("createSpace", w, None))
  /\ UNCHANGED <<page, workspaceVars>>

SpaceCreated(f) ==
  /\ f.kind = "createSpace" /\ status[f.of] = "absent"
  /\ status' = [status EXCEPT ![f.of] = "pending"]
  /\ items' = [items EXCEPT ![f.of] = "pending"]
  /\ LET rest == (flights \ {f}) \cup (IF polling THEN {} ELSE
                    {Flow("poll", None, Polled(items', f.of, None))})
     IN Selecting(f.of, "pending", "none", rest)
  /\ polling' = TRUE
  /\ UpdatePolling
  /\ UNCHANGED <<page, acts, yanked>>

Select(w) ==
  /\ OnDevelopment /\ items[w] # None /\ Room
  /\ selected # w
  /\ Selecting(w, items[w], "none", flights)
  /\ UNCHANGED <<page, acts, status, items, interval, polling, yanked>>

Refresh(w) ==
  /\ OnDevelopment /\ items[w] # None /\ Room
  /\ flights' = Merged(Flow("refresh", w, "none"))
  /\ UNCHANGED <<page, acts, workspaceVars>>

DeleteSpace(w) ==
  /\ OnDevelopment /\ items[w] # None /\ Of({"deleteSpace"}) = {}
  /\ Act
  /\ flights' = Merged(Flow("deleteSpace", w, None))
  /\ UNCHANGED <<page, workspaceVars>>

SpaceDeleted(f) ==
  /\ f.kind = "deleteSpace" /\ status[f.of] # "absent"
  /\ status' = [status EXCEPT ![f.of] = "absent"]
  /\ items' = [items EXCEPT ![f.of] = None]
  /\ LET rest == flights \ {f}
     IN IF selected = f.of
        THEN Ensuring(items', None, FALSE, "delete", rest) /\ Continues("delete", rest)
        ELSE flights' = rest /\ UNCHANGED <<selected, frame, polling>> /\ UpdatePolling
  /\ UNCHANGED <<page, acts, yanked>>

(* The interval fires; with nothing left to ask for, it stops itself.       *)
Tick ==
  /\ interval /\ ~polling
  /\ LET P == Polled(items, selected, frame)
     IN IF P = {} THEN interval' = FALSE /\ UNCHANGED <<flights, polling>>
        ELSE /\ flights' = Merged(Flow("poll", None, P))
             /\ polling' = TRUE /\ UNCHANGED interval
  /\ UNCHANGED <<page, acts, status, items, selected, frame, yanked>>

(* All of them answer, or the poll has failed.                              *)
PollAnswers(f) ==
  /\ f.kind = "poll" /\ \A w \in f.arg : status[w] # "absent"
  /\ items' = [w \in Spaces |-> IF w \in f.arg THEN status[w] ELSE items[w]]
  /\ LET rest == flights \ {f}
     IN Ensuring(items', selected, FALSE, "poll", rest) /\ Continues("poll", rest)
  /\ UNCHANGED <<page, acts, status, yanked>>

PollFails(f) ==
  /\ f.kind = "poll"
  /\ IF \E w \in f.arg : status[w] = "absent" THEN UNCHANGED acts ELSE Act
  /\ Without(f)
  /\ UNCHANGED <<page, status, items, selected, frame, yanked>>
  /\ polling' = FALSE
  /\ UpdatePolling

(* refresh(): the row is put into the list, and shown when it is selected;  *)
(* the frame is set after the session was refreshed.                        *)
Refreshing(f) ==
  /\ f.kind = "refresh" /\ status[f.of] # "absent"
  /\ items' = [items EXCEPT ![f.of] = status[f.of]]
  /\ UNCHANGED <<selected, frame>>
  /\ LET rest == flights \ {f}
     IN /\ flights' = IF selected = f.of
                      THEN rest \cup {Flow("embed", f.of, [seen |-> status[f.of], next |-> f.arg])}
                      ELSE rest
        /\ Continues(f.arg, rest)
  /\ UNCHANGED <<page, acts, status, yanked>>

(* Mutant: the error leaves ensureSelectedWorkspace() before the poll ends. *)
BadRefreshFails_Throws(f) ==
  /\ f.kind = "refresh"
  /\ IF status[f.of] = "absent" THEN UNCHANGED acts ELSE Act
  /\ Without(f)
  /\ UNCHANGED <<page, status, items, selected, frame, polling, yanked>>
  /\ UNCHANGED interval

(* Caught inside refresh(): what waits for it goes on.                      *)
RefreshFails(f) ==
  /\ f.kind = "refresh"
  /\ IF status[f.of] = "absent" THEN UNCHANGED acts ELSE Act
  /\ Without(f)
  /\ UNCHANGED <<page, status, items, selected, frame, polling, yanked>>
  /\ IF f.arg = "none" THEN UNCHANGED interval ELSE UpdatePolling

(* The session was refreshed, or not.                                       *)
Embedded(f) ==
  /\ f.kind = "embed"
  /\ frame' = IF f.arg.seen = "ready" THEN f.of ELSE None
  /\ yanked' = (frame' # None /\ selected # f.of)
  /\ Without(f)
  /\ UNCHANGED <<page, acts, status, items, selected>>
  /\ Ends(f.arg.next) /\ UpdatePolling

(* A click that selected the workspace asks for no polling.                 *)
Selected(f) ==
  /\ f.kind = "select"
  /\ frame' = IF selected = f.of THEN f.of ELSE frame
  /\ yanked' = (yanked /\ selected # f.of)
  /\ Without(f)
  /\ UNCHANGED <<page, acts, status, items, selected>>
  /\ Ends(f.arg.next)
  /\ IF f.arg.next = "none" THEN UNCHANGED interval ELSE UpdatePolling

(* A message on the page.                                                   *)
SpaceRequestFails(f) ==
  /\ \/ f.kind \in {"createSpace", "deleteSpace"} /\ Act
     \/ f.kind = "spaces" /\ Act
     \/ f.kind = "deleteSpace" /\ status[f.of] = "absent" /\ UNCHANGED acts
  /\ Without(f)
  /\ UNCHANGED <<page, workspaceVars>>

(* The pod starts, or goes down, or its Deployment is gone.                 *)
StatusChanges(w) ==
  /\ status[w] # "absent"
  /\ \/ status[w] = "pending" /\ UNCHANGED acts
        /\ status' = [status EXCEPT ![w] = "ready"]
     \/ status[w] = "ready" /\ Act
        /\ \E s \in {"pending", "missing"} : status' = [status EXCEPT ![w] = s]
  /\ UNCHANGED <<page, flights, items, selected, frame, interval, polling, yanked>>

-----------------------------------------------------------------------------
WorkspaceInit ==
  /\ status \in [Spaces -> {"absent", "pending", "ready", "missing"}]
  /\ page = [at |-> "development", of |-> None, no |-> 0]
  /\ flights = {Flow("spaces", None, None)}
  /\ acts = 0
  /\ items = [w \in Spaces |-> None]
  /\ selected = None /\ frame = None
  /\ interval = FALSE /\ polling = FALSE /\ yanked = FALSE

WorkspaceUser ==
  \/ OpenDevelopment \/ LeaveDevelopment \/ Tick
  \/ \E w \in Spaces :
       CreateSpace(w) \/ Select(w) \/ Refresh(w) \/ DeleteSpace(w) \/ StatusChanges(w)

WorkspaceAnswers(f) ==
  \/ SpacesLoaded(f) \/ SpaceCreated(f) \/ SpaceDeleted(f) \/ PollAnswers(f) \/ PollFails(f)
  \/ Refreshing(f) \/ RefreshFails(f) \/ Embedded(f) \/ Selected(f) \/ SpaceRequestFails(f)

WorkspaceNext == WorkspaceUser \/ \E f \in flights : WorkspaceAnswers(f)
=============================================================================
