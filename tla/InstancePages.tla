--------------------------- MODULE InstancePages ----------------------------
(* The instances in the frontend: their list, the page of one, its panels.  *)
(*                                                                          *)
(* The list of instances and the page of one instance (state/instances-list *)
(* and state/instances-detail with their pages).  A row is its connection   *)
(* (name, URL, health: all that a poll brings) and its S3 settings, enabled *)
(* or not; the connection of an instance that nobody changed is named after *)
(* it.  Of the list the model keeps which instances it shows.               *)
EXTENDS Browser

CONSTANT Moved   \* a connection the user types

VARIABLES rows,      \* the server's rows; None: no such instance
          list,      \* what the list shows; None: nothing loaded
          shown,     \* the instance of the detail store, or None
          saving,    \* saves the detail store believes to be in progress
          dialog,    \* the connection the dialog was opened with, or None
          crossed    \* ghost: requests of another instance met the page

instanceVars == <<rows, list, shown, saving, dialog, crossed>>

Row == [conn : Ids \cup {Moved}, s3 : BOOLEAN]
Nothing == [i \in Ids |-> None]

OnDetail == page.at = "detail"
Partials == {"refresh", "saveConn", "saveS3", "disableS3"}

-----------------------------------------------------------------------------
(* Opening, leaving, polling                                                *)

OpenList ==
  /\ Route("list", None)
  /\ dialog' = None
  /\ flights' = Switched(Request("list", None, None))
  /\ UNCHANGED <<rows, list, shown, saving, crossed>>

PollList ==
  /\ page.at = "list" /\ Room
  /\ flights' = Switched(Request("list", None, None))
  /\ UNCHANGED <<page, acts, instanceVars>>

(* Mutant: mergeMap in place of switchMap.                                  *)
BadOpenDetail_MergeMap(i) ==
  /\ page.at = "list" /\ list[i] # None
  /\ Route("detail", i)
  /\ shown' = None
  /\ saving' = {}
  /\ dialog' = None
  /\ crossed' = (\E f \in Awaited(Partials) : f.of # i)
  /\ flights' = Merged(Request("load", i, None))
  /\ UNCHANGED <<rows, list>>

(* The list links to the instances.                                         *)
OpenDetail(i) ==
  /\ page.at = "list" /\ list[i] # None
  /\ Route("detail", i)
  /\ shown' = None
  /\ saving' = {}
  /\ dialog' = None
  /\ crossed' = (\E f \in Awaited(Partials) : f.of # i)
  /\ flights' = Unheard({"load", "supplement"}) \cup {Request("load", i, None)}
  /\ UNCHANGED <<rows, list>>

PollDetail ==
  /\ OnDetail /\ Room
  /\ flights' = Merged(Request("refresh", page.of, None))
  /\ UNCHANGED <<page, acts, instanceVars>>

-----------------------------------------------------------------------------
(* The user                                                                 *)

OpenConnection ==
  /\ OnDetail /\ shown # None
  /\ dialog' = shown.conn
  /\ UNCHANGED <<browserVars, rows, list, shown, saving, crossed>>

CloseConnection ==
  /\ dialog # None
  /\ dialog' = None
  /\ UNCHANGED <<browserVars, rows, list, shown, saving, crossed>>

(* The form is sent as it was filled, or with a URL the user typed.         *)
SaveConnection(conn) ==
  /\ OnDetail /\ shown # None /\ dialog # None
  /\ conn \in {dialog, Moved}
  /\ "conn" \notin saving
  /\ Act
  /\ saving' = saving \cup {"conn"}
  /\ flights' = Switched(Request("saveConn", shown.id, conn))
  /\ UNCHANGED <<page, rows, list, shown, dialog, crossed>>

(* saveS3Config() and disableS3Config().                                    *)
SaveS3(kind) ==
  /\ OnDetail /\ shown # None
  /\ "s3" \notin saving
  /\ Act
  /\ saving' = saving \cup {"s3"}
  /\ flights' = Switched(Request(kind, shown.id, None))
  /\ UNCHANGED <<page, rows, list, shown, dialog, crossed>>

(* runModelAction(), for a model of the table further below.                *)
ActOnModel ==
  /\ OnDetail /\ shown # None
  /\ Act
  /\ flights' = Merged(Request("modelAction", page.of, None))
  /\ UNCHANGED <<page, instanceVars>>

(* The page waits for the deletion it asked for; the request carries the    *)
(* page's number, since the flag is that of the component.                  *)
Deleting == \E f \in Of({"deleteDeployment"}) : f.arg = page.no

DeleteDeployment ==
  /\ OnDetail /\ shown # None /\ ~Deleting
  /\ Act
  /\ flights' = Merged(Request("deleteDeployment", shown.id, page.no))
  /\ UNCHANGED <<page, rows, list, shown, saving, dialog, crossed>>

DeleteInstance(i) ==
  /\ page.at = "list" /\ list[i] # None
  /\ Act
  /\ flights' = Switched(Request("deleteRow", i, None))
  /\ UNCHANGED <<page, instanceVars>>

(* The dialog of the shell is open on every page and closes at once.        *)
CreateInstance(i) ==
  /\ rows[i] = None
  /\ Act
  /\ flights' = Switched(Request("create", i, None))
  /\ UNCHANGED <<page, instanceVars>>

-----------------------------------------------------------------------------
(* The server answers.  The answers a store merges travel on their own; of  *)
(* the other ones, and of failures, the model lets the page know at once.   *)

Written(f) ==
  CASE f.kind = "saveConn" -> [rows EXCEPT ![f.of].conn = f.arg]
    [] f.kind \in {"saveS3", "disableS3"} -> [rows EXCEPT ![f.of].s3 = f.kind = "saveS3"]
    [] OTHER -> rows

Serve(f) ==
  /\ Sent(f, {"load", "supplement"} \cup Partials) /\ rows[f.of] # None
  /\ rows' = Written(f)
  /\ flights' = Answered(f, rows'[f.of])
  /\ UNCHANGED <<page, acts, list, shown, saving, dialog, crossed>>

ListLoaded(f) ==
  /\ Sent(f, {"list"})
  /\ list' = [i \in Ids |-> IF rows[i] = None THEN None ELSE i]
  /\ Without(f)
  /\ UNCHANGED <<page, acts, rows, shown, saving, dialog, crossed>>

(* The list is loaded again after a row was created or deleted, unless a    *)
(* later request of the kind has replaced this one.                         *)
ListAgain(f) == flights' = IF f.heard
                        THEN (Unheard({"list"}) \ {f}) \cup {Request("list", None, None)}
                        ELSE flights \ {f}

Created(f) ==
  /\ Sent(f, {"create"}) /\ rows[f.of] = None
  /\ rows' = [rows EXCEPT ![f.of] = [conn |-> f.of, s3 |-> FALSE]]
  /\ ListAgain(f)
  /\ UNCHANGED <<page, acts, list, shown, saving, dialog, crossed>>

Deleted(f) ==
  /\ Sent(f, {"deleteRow"}) /\ rows[f.of] # None
  /\ rows' = [rows EXCEPT ![f.of] = None]
  /\ ListAgain(f)
  /\ UNCHANGED <<page, acts, list, shown, saving, dialog, crossed>>

(* deleteDeployment() goes to the list, wherever the user is by then.       *)
DeploymentDeleted(f) ==
  /\ Sent(f, {"deleteDeployment"}) /\ rows[f.of] # None
  /\ rows' = [rows EXCEPT ![f.of] = None]
  /\ IF page.at = "list"
     THEN UNCHANGED page /\ Without(f)
     ELSE page' = [at |-> "list", of |-> None, no |-> acts] /\ ListAgain(f)
  /\ dialog' = None
  /\ UNCHANGED <<acts, list, shown, saving, crossed>>

(* The action refreshes the instance it was for, whatever page there is.    *)
ModelActed(f) ==
  /\ Sent(f, {"modelAction"}) /\ rows[f.of] # None
  /\ flights' = (flights \ {f}) \cup {Request("refresh", f.of, None)}
  /\ crossed' = (crossed \/ (OnDetail /\ f.of # page.of))
  /\ UNCHANGED <<page, acts, rows, list, shown, saving, dialog>>

(* Lost, or refused for a row that is not there: what is left is a toast,   *)
(* at most; a failed save of S3 settings does not even end the saving.      *)
Failed(f) ==
  /\ f.state = "sent"
  /\ \/ Act
     \/ f.of # None /\ (rows[f.of] = None) # (f.kind = "create") /\ UNCHANGED acts
  /\ Without(f)
  /\ shown' = IF f.heard /\ f.kind = "load" THEN None
              ELSE IF f.heard /\ f.kind = "supplement" /\ shown # None
                THEN [shown EXCEPT !.s3Of = f.of, !.s3 = FALSE]
              ELSE shown
  /\ saving' = IF f.heard /\ f.kind = "load" THEN {}
               ELSE IF f.heard /\ f.kind = "saveConn" THEN saving \ {"conn"}
               ELSE saving
  /\ UNCHANGED <<page, rows, list, dialog, crossed>>

-----------------------------------------------------------------------------
(* The store of the page receives                                           *)

(* instanceDetailLoaded starts over; the supplement belongs to this load.   *)
Loaded(f) ==
  /\ Answers(f, {"load"})
  /\ shown' = [id |-> f.of, connOf |-> f.of, conn |-> f.result.conn,
                            s3Of |-> f.of, s3 |-> f.result.s3]
  /\ saving' = {}
  /\ flights' = (flights \ {f}) \cup {Request("supplement", f.of, None)}
  /\ UNCHANGED <<page, acts, rows, list, dialog, crossed>>

(* A partial is merged into whatever instance the store holds.              *)
MergeS3(f) == IF shown = None THEN None
              ELSE [shown EXCEPT !.s3Of = f.of, !.s3 = f.result.s3]

MergeConn(f) == IF shown = None THEN None
                ELSE [shown EXCEPT !.connOf = f.of, !.conn = f.result.conn]

SupplementLoaded(f) ==
  /\ Answers(f, {"supplement"})
  /\ shown' = MergeS3(f)
  /\ Without(f)
  /\ UNCHANGED <<page, acts, rows, list, saving, dialog, crossed>>

Refreshed(f) ==
  /\ Answers(f, {"refresh"})
  /\ shown' = MergeConn(f)
  /\ Without(f)
  /\ UNCHANGED <<page, acts, rows, list, saving, dialog, crossed>>

ConnectionSaved(f) ==
  /\ Answers(f, {"saveConn"})
  /\ shown' = MergeConn(f)
  /\ saving' = saving \ {"conn"}
  /\ dialog' = None
  /\ Without(f)
  /\ UNCHANGED <<page, acts, rows, list, crossed>>

S3Saved(f) ==
  /\ Answers(f, {"saveS3", "disableS3"})
  /\ shown' = MergeS3(f)
  /\ saving' = saving \ {"s3"}
  /\ Without(f)
  /\ UNCHANGED <<page, acts, rows, list, dialog, crossed>>

-----------------------------------------------------------------------------
(* A tab opened at an instance, of which there may be one or more.          *)
InstanceInit ==
  \E i \in Ids, S \in SUBSET Ids :
    /\ i \in S
    /\ rows = [j \in Ids |-> IF j \in S THEN [conn |-> j, s3 |-> TRUE] ELSE None]
    /\ page = [at |-> "detail", of |-> i, no |-> 0]
    /\ flights = {Request("load", i, None)}
    /\ acts = 0
    /\ list = Nothing
    /\ shown = None
    /\ saving = {}
    /\ dialog = None
    /\ crossed = FALSE

InstanceUser ==
  \/ OpenList
  \/ \E i \in Ids : OpenDetail(i) \/ DeleteInstance(i) \/ CreateInstance(i)
  \/ OpenConnection \/ CloseConnection \/ DeleteDeployment \/ ActOnModel
  \/ \E conn \in Ids \cup {Moved} : SaveConnection(conn)
  \/ \E kind \in {"saveS3", "disableS3"} : SaveS3(kind)

InstanceAnswers(f) ==
  \/ Serve(f) \/ ListLoaded(f) \/ Created(f) \/ Deleted(f) \/ DeploymentDeleted(f) \/ ModelActed(f) \/ Failed(f)
  \/ Loaded(f) \/ SupplementLoaded(f) \/ Refreshed(f) \/ ConnectionSaved(f) \/ S3Saved(f)

InstanceNext ==
  InstanceUser \/ PollList \/ PollDetail \/ (\E f \in flights : InstanceAnswers(f))

-----------------------------------------------------------------------------
(* Panels that wait for their own requests: the table of an instance's      *)
(* models with their configurations and the deployment's logs, the endpoint *)
(* of a deployment, and the page of a new deployment.  They are built with  *)
(* their page and die with it; of what was asked for, only the actions on   *)
(* models and a new deployment still do anything afterwards.                *)

CONSTANTS RepositoryModels, \* models in the table
          HostNames,        \* short host names
          Profiles          \* S3 profiles of the user

VARIABLES loaded,     \* [model]: Triton serves it
          cards,      \* [model]: its row: configuration and what it waits for
          logs,       \* the Logs tab
          endpoint,   \* the deployment's, in the cluster
          exposure,   \* what the administrators allow: HTTP, an Ingress at all
          access,     \* the endpoint panel
          superseded,  \* ghost: the panel cannot know what the server has
          offered,     \* S3 profiles the user has
          draft        \* the page of a new deployment

modelPanelVars == <<loaded, cards, logs>>
accessVars == <<endpoint, exposure, access, superseded>>
draftVars == <<offered, draft>>
detailVars == <<modelPanelVars, accessVars, draftVars>>

OnPanels == page.at = "panels"
LeavePanels ==
  /\ OnPanels
  /\ Route("list", None)
  /\ flights' = Unheard({"modelConfig", "logs", "access", "policy", "saveAccess", "profiles"})
  /\ UNCHANGED detailVars

-----------------------------------------------------------------------------
(* The table of models                                                      *)

NewCard == [open |-> FALSE, json |-> FALSE, loading |-> FALSE, acting |-> {}]
NewLogs == [tab |-> FALSE, pending |-> FALSE, loading |-> FALSE]

OpenModels ==
  /\ ~OnPanels
  /\ Route("panels", None)
  /\ cards' = [m \in RepositoryModels |-> NewCard] /\ logs' = NewLogs
  /\ UNCHANGED <<flights, loaded, accessVars, draftVars>>

(* A configuration is asked for once; what has been read is kept as long as *)
(* the page.                                                                *)
ToggleModelConfig(m) ==
  /\ OnPanels
  /\ LET asks == ~cards[m].open /\ ~cards[m].json /\ ~cards[m].loading
     IN /\ cards' = [cards EXCEPT ![m].open = ~@, ![m].loading = @ \/ asks]
        /\ flights' = IF asks THEN Merged(Request("modelConfig", m, None)) ELSE flights
  /\ UNCHANGED <<page, acts, loaded, logs, accessVars, draftVars>>

(* The request carries the page's number, since the flags are those of the  *)
(* component.                                                               *)
RunModelAction(m, action) ==
  /\ OnPanels /\ action \notin cards[m].acting
  /\ Act
  /\ cards' = [cards EXCEPT ![m].acting = @ \cup {action}]
  /\ flights' = Merged(Request("modelAction", m, [action |-> action, no |-> page.no]))
  /\ UNCHANGED <<page, loaded, logs, accessVars, draftVars>>

ServeModelConfig(f) ==
  /\ Sent(f, {"modelConfig"}) /\ loaded[f.of]
  /\ flights' = Answered(f, TRUE)
  /\ UNCHANGED <<page, acts, detailVars>>

ServeModelAction(f) ==
  /\ Sent(f, {"modelAction"})
  /\ loaded' = [loaded EXCEPT ![f.of] = (f.arg.action = "load")]
  /\ flights' = Answered(f, None)
  /\ UNCHANGED <<page, acts, cards, logs, accessVars, draftVars>>

(* The "finally" of the two handlers comes after an answer as after an      *)
(* error.                                                                   *)
ConfigSettled(f, json) ==
  cards' = [cards EXCEPT ![f.of].json = @ \/ json, ![f.of].loading = FALSE]
ActionSettled(f) ==
  cards' = IF f.arg.no = page.no THEN [cards EXCEPT ![f.of].acting = @ \ {f.arg.action}] ELSE cards

ModelConfigShown(f) ==
  /\ Answers(f, {"modelConfig"})
  /\ ConfigSettled(f, TRUE)
  /\ Without(f)
  /\ UNCHANGED <<page, acts, loaded, logs, accessVars, draftVars>>

(* What a refresh brings is merged into the store of the page's instance    *)
(* (ModelActed, Refreshed).                                                 *)
ModelActionDone(f) ==
  /\ Answers(f, {"modelAction"})
  /\ ActionSettled(f)
  /\ flights' = (flights \ {f}) \cup {Request("refresh", None, None)}
  /\ UNCHANGED <<page, acts, loaded, logs, accessVars, draftVars>>

ModelsRefreshed(f) ==
  /\ Sent(f, {"refresh"}) /\ Without(f)
  /\ UNCHANGED <<page, acts, detailVars>>

(* A model that is not loaded has no configuration; Triton refuses to load  *)
(* and unload while it polls its repository.                                *)
ModelRequestFails(f) ==
  /\ Sent(f, {"modelConfig", "modelAction"})
  /\ IF f.kind = "modelConfig" /\ ~loaded[f.of] THEN UNCHANGED acts ELSE Act
  /\ IF f.kind = "modelAction" THEN ActionSettled(f)
     ELSE IF f.heard THEN ConfigSettled(f, FALSE) ELSE UNCHANGED cards
  /\ Without(f)
  /\ UNCHANGED <<page, loaded, logs, accessVars, draftVars>>

-----------------------------------------------------------------------------
(* The Logs tab                                                             *)

ChangeTab ==
  /\ OnPanels
  /\ logs' = [logs EXCEPT !.tab = ~@]
  /\ UNCHANGED <<browserVars, loaded, cards, accessVars, draftVars>>

(* loadDeploymentLogs(): by the timer, the first time and by the button     *)
(* with the flag set; one request at a time.                                *)
LoadDeploymentLogs(showLoading) ==
  /\ OnPanels /\ logs.tab /\ ~logs.pending
  /\ logs' = [logs EXCEPT !.pending = TRUE, !.loading = showLoading]
  /\ flights' = Merged(Request("logs", None, showLoading))
  /\ UNCHANGED <<page, acts, loaded, cards, accessVars, draftVars>>

ServeLogs(f) ==
  /\ Sent(f, {"logs"})
  /\ flights' = Answered(f, TRUE)
  /\ UNCHANGED <<page, acts, detailVars>>

(* Mutant: the flag of a polling tick is not reset.                         *)
BadLogsSettled_OnlyShown(f) ==
  logs' = IF f.arg THEN [logs EXCEPT !.pending = FALSE, !.loading = FALSE] ELSE logs

LogsSettled(f) ==
  logs' = [logs EXCEPT !.pending = FALSE, !.loading = @ /\ ~f.arg]

LogsShown(f) ==
  /\ Answers(f, {"logs"}) /\ LogsSettled(f) /\ Without(f)
  /\ UNCHANGED <<page, acts, loaded, cards, accessVars, draftVars>>

LogsFail(f) ==
  /\ Sent(f, {"logs"}) /\ Act /\ LogsSettled(f) /\ Without(f)
  /\ UNCHANGED <<page, loaded, cards, accessVars, draftVars>>

-----------------------------------------------------------------------------
(* The endpoint.  A host name gets the domain of the administrator when it  *)
(* is given; "former" is the one they had configured earlier.               *)

Internal == [scheme |-> "internal", host |-> None, auth |-> FALSE]
Host(name, domain) == [name |-> name, domain |-> domain]
Ingresses(domains) ==
  {[scheme |-> s, host |-> Host(n, d), auth |-> a] :
     s \in {"http", "https"}, n \in HostNames, d \in domains, a \in BOOLEAN}
External(e) == e.scheme # "internal"

(* resolve_hostname(), and resolvedEndpointHostname() in the page: a name   *)
(* that is kept keeps its domain.                                           *)
Resolved(name, existing) ==
  IF existing.host # None /\ existing.host.name = name THEN existing.host ELSE Host(name, "base")

(* What the form can hold; the credentials are those of before, new ones,   *)
(* new ones with a name or a password that the server does not take, or a   *)
(* name without a password.                                                 *)
Edits ==
  {[scheme |-> "internal", name |-> None, auth |-> FALSE, creds |-> "keep"]} \cup
  [scheme : {"http", "https"}, name : HostNames, auth : BOOLEAN, creds : {"keep", "new", "malformed", "unpaired"}]

(* validate_endpoint_policy(): HTTP that is there already may stay.         *)
PolicyAllows(d, rules, existing) ==
  d.scheme = "http" => \/ rules.http
                       \/ existing.scheme = "http" /\ existing.host = Resolved(d.name, existing)

(* valid(): both or neither; how they are written is the server's concern.  *)
CredentialsGiven(d, existing) ==
  d.auth => /\ d.scheme = "https"
            /\ d.creds \in {"new", "malformed"} \/ (existing.auth /\ d.creds = "keep")

(* Mutant: an endpoint that is HTTP may be given another name.              *)
BadValid_AnyHttp(d, rules, existing) ==
  External(d) => /\ rules.ingress
                 /\ d.scheme = "http" => rules.http \/ existing.scheme = "http"
                 /\ CredentialsGiven(d, existing)

Valid(d, rules, existing) ==
  External(d) => /\ rules.ingress
                 /\ PolicyAllows(d, rules, existing)
                 /\ CredentialsGiven(d, existing)

(* validate_username() and validate_password(); credentials are not sent    *)
(* without authentication.                                                  *)
WellFormed(d) == External(d) /\ d.auth => d.creds # "malformed"

(* The rules the form knows, too: validate_access(), validate_ingress(),    *)
(* validate_endpoint_policy(), and what access_manifests() needs for a      *)
(* password.                                                                *)
Permitted(d, existing) ==
  External(d) => /\ exposure.ingress
                 /\ PolicyAllows(d, exposure, existing)
                 /\ d.auth => /\ d.scheme = "https" /\ d.creds # "unpaired"
                              /\ d.creds \in {"new", "malformed"} \/ existing.auth

(* What update_access() goes on with.                                       *)
Lawful(d, existing) == WellFormed(d) /\ Permitted(d, existing)

Granted(d) ==
  IF External(d) THEN [scheme |-> d.scheme, host |-> Resolved(d.name, endpoint), auth |-> d.auth]
  ELSE Internal

-----------------------------------------------------------------------------
NoPolicy == [http |-> FALSE, ingress |-> FALSE]

OpenAccess ==
  /\ ~OnPanels
  /\ Route("panels", None)
  /\ access' = [shown |-> None, policy |-> NoPolicy, busy |-> TRUE]
  /\ superseded' = (Of({"saveAccess"}) # {})
  /\ flights' = flights \cup {Request("access", None, None), Request("policy", None, None)}
  /\ UNCHANGED <<endpoint, exposure, modelPanelVars, draftVars>>

(* edit(), and the fields after it; save() if they are valid().             *)
SaveAccess(d) ==
  /\ OnPanels /\ access.shown # None /\ ~access.busy
  /\ Valid(d, access.policy, access.shown)
  /\ Act
  /\ access' = [access EXCEPT !.busy = TRUE]
  /\ flights' = Merged(Request("saveAccess", None, d))
  /\ UNCHANGED <<page, endpoint, exposure, superseded, modelPanelVars, draftVars>>

ServeAccess(f) ==
  /\ Sent(f, {"access", "policy"})
  /\ flights' = Answered(f, IF f.kind = "access" THEN endpoint ELSE exposure)
  /\ UNCHANGED <<page, acts, detailVars>>

UpdateAccess(f) ==
  /\ Sent(f, {"saveAccess"}) /\ Lawful(f.arg, endpoint)
  /\ endpoint' = Granted(f.arg)
  /\ flights' = Answered(f, Granted(f.arg))
  /\ UNCHANGED <<page, acts, exposure, access, superseded, modelPanelVars, draftVars>>

AccessShown(f) ==
  /\ Answers(f, {"access", "saveAccess"})
  /\ access' = [access EXCEPT !.shown = f.result, !.busy = FALSE]
  /\ Without(f)
  /\ UNCHANGED <<page, acts, endpoint, exposure, superseded, modelPanelVars, draftVars>>

PolicyShown(f) ==
  /\ Answers(f, {"policy"})
  /\ access' = [access EXCEPT !.policy = f.result]
  /\ Without(f)
  /\ UNCHANGED <<page, acts, endpoint, exposure, superseded, modelPanelVars, draftVars>>

(* The host name is taken, the cluster does not answer, a write's outcome   *)
(* is unknown, or the rules are broken.                                     *)
AccessFails(f) ==
  /\ Sent(f, {"access", "policy", "saveAccess"})
  /\ IF f.kind = "saveAccess" /\ ~Lawful(f.arg, endpoint) THEN UNCHANGED acts ELSE Act
  /\ \/ UNCHANGED <<endpoint, superseded>>
     \/ f.kind = "saveAccess" /\ Lawful(f.arg, endpoint) /\ endpoint' = Granted(f.arg) /\ superseded' = TRUE
  /\ access' = IF f.kind = "policy" \/ ~f.heard THEN access ELSE [access EXCEPT !.busy = FALSE]
  /\ Without(f)
  /\ UNCHANGED <<page, exposure, modelPanelVars, draftVars>>

(* Another member edits the endpoint, an administrator the policy.          *)
OthersExpose ==
  /\ Act
  /\ \/ exposure' = [exposure EXCEPT !.http = ~@] /\ UNCHANGED endpoint
     \/ \E d \in Edits : Lawful(d, endpoint) /\ endpoint' = Granted(d) /\ endpoint' # endpoint /\ UNCHANGED exposure
  /\ superseded' = TRUE
  /\ UNCHANGED <<page, flights, access, modelPanelVars, draftVars>>

-----------------------------------------------------------------------------
(* A new deployment: its S3 profile and its endpoint                        *)

NewDraft == [profiles |-> {}, policy |-> NoPolicy, deploying |-> FALSE]

OpenDraft ==
  /\ ~OnPanels
  /\ Route("panels", None)
  /\ draft' = NewDraft
  /\ superseded' = (Of({"createDeployment"}) # {})
  /\ flights' = flights \cup {Request("profiles", None, None), Request("policy", None, None)}
  /\ UNCHANGED <<endpoint, exposure, access, offered, modelPanelVars>>

(* Mutant: any profile may have been selected, loaded or not.               *)
BadCanDeploy_AnyProfile(p, d) == Valid(d, draft.policy, Internal) /\ ~draft.deploying

(* canDeploy(), of the same rules as valid() where nothing exists yet.      *)
CanDeploy(p, d) == p \in draft.profiles /\ Valid(d, draft.policy, Internal) /\ ~draft.deploying

(* on: the page the request comes from; well: the rest of the form is as    *)
(* the server wants it, which canDeploy() does not look at.                 *)
Deploy(p, d, well) ==
  /\ OnPanels /\ CanDeploy(p, d)
  /\ Act
  /\ draft' = [draft EXCEPT !.deploying = TRUE]
  /\ flights' = Merged(Request("createDeployment", p, [form |-> d, on |-> page.no, well |-> well]))
  /\ UNCHANGED <<page, accessVars, offered, modelPanelVars>>

ServeDraft(f) ==
  /\ Sent(f, {"profiles", "policy"})
  /\ flights' = Answered(f, IF f.kind = "profiles" THEN offered ELSE exposure)
  /\ UNCHANGED <<page, acts, detailVars>>

DraftShown(f) ==
  /\ Answers(f, {"profiles", "policy"})
  /\ draft' = IF f.kind = "profiles" THEN [draft EXCEPT !.profiles = f.result]
              ELSE [draft EXCEPT !.policy = f.result]
  /\ Without(f)
  /\ UNCHANGED <<page, acts, accessVars, offered, modelPanelVars>>

DeploymentPermitted(p, d) == p \in offered /\ Permitted(d, Internal)

(* The validators of a name without letters, a poll interval of nothing,    *)
(* requirements that are none or a prefix with dots refuse the rest.        *)
DeploymentLawful(p, asked) ==
  /\ asked.well /\ WellFormed(asked.form)
  /\ DeploymentPermitted(p, asked.form)

(* create_deployment(): what it makes is in Deployments.                    *)
CreateDeployment(f) ==
  /\ Sent(f, {"createDeployment"}) /\ DeploymentLawful(f.of, f.arg)
  /\ flights' = Answered(f, None)
  /\ UNCHANGED <<page, acts, detailVars>>

Deployable(f) == draft' = IF OnPanels /\ page.no = f.arg.on THEN [draft EXCEPT !.deploying = FALSE] ELSE draft

(* The answer leads to the page of the instance, wherever the user is.      *)
DeploymentShown(f) ==
  /\ Answers(f, {"createDeployment"})
  /\ Deployable(f) /\ page' = [page EXCEPT !.at = "instance"]
  /\ flights' = Unheard({"profiles", "policy"}) \ {f}
  /\ UNCHANGED <<acts, accessVars, offered, modelPanelVars>>

(* The host or the name is taken, a rule is broken or the network fails; a  *)
(* load that fails leaves nothing to choose from.                           *)
DraftFails(f) ==
  /\ Sent(f, {"profiles", "policy", "createDeployment"})
  /\ IF f.kind = "createDeployment" /\ ~DeploymentLawful(f.of, f.arg) THEN UNCHANGED acts ELSE Act
  /\ IF f.kind = "createDeployment" THEN Deployable(f) ELSE UNCHANGED draft
  /\ Without(f)
  /\ UNCHANGED <<page, accessVars, offered, modelPanelVars>>

(* The user deletes a profile in another tab, or an administrator changes   *)
(* the policy.                                                              *)
OthersWithdraw ==
  /\ Act
  /\ \/ exposure' = [exposure EXCEPT !.http = ~@] /\ UNCHANGED offered
     \/ \E p \in offered : offered' = offered \ {p} /\ UNCHANGED exposure
  /\ superseded' = TRUE
  /\ UNCHANGED <<page, flights, endpoint, access, draft, modelPanelVars>>

-----------------------------------------------------------------------------
ModelPanelInit ==
  /\ loaded \in [RepositoryModels -> BOOLEAN]
  /\ cards = [m \in RepositoryModels |-> NewCard] /\ logs = NewLogs
  /\ page = [at |-> "list", of |-> None, no |-> 0] /\ flights = {} /\ acts = 0

ModelPanelNext ==
  \/ OpenModels \/ LeavePanels \/ ChangeTab
  \/ \E m \in RepositoryModels : ToggleModelConfig(m) \/ \E a \in {"load", "unload"} : RunModelAction(m, a)
  \/ \E show \in BOOLEAN : LoadDeploymentLogs(show)
  \/ \E f \in flights :
       \/ ServeModelConfig(f) \/ ServeModelAction(f) \/ ModelConfigShown(f) \/ ModelActionDone(f)
       \/ ModelsRefreshed(f) \/ ModelRequestFails(f) \/ ServeLogs(f) \/ LogsShown(f) \/ LogsFail(f)

AccessInit ==
  /\ exposure \in [http : BOOLEAN, ingress : BOOLEAN]
  /\ endpoint \in {Internal} \cup {e \in Ingresses({"base", "former"}) : e.auth => e.scheme = "https"}
  /\ access = [shown |-> None, policy |-> NoPolicy, busy |-> FALSE] /\ superseded = FALSE
  /\ page = [at |-> "list", of |-> None, no |-> 0] /\ flights = {} /\ acts = 0

AccessNext ==
  \/ OpenAccess \/ LeavePanels \/ OthersExpose
  \/ \E d \in Edits : SaveAccess(d)
  \/ \E f \in flights :
       ServeAccess(f) \/ UpdateAccess(f) \/ AccessShown(f) \/ PolicyShown(f) \/ AccessFails(f)

DraftInit ==
  /\ exposure \in [http : BOOLEAN, ingress : BOOLEAN]
  /\ offered \in SUBSET Profiles
  /\ draft = NewDraft /\ superseded = FALSE /\ endpoint = None /\ access = None
  /\ page = [at |-> "list", of |-> None, no |-> 0] /\ flights = {} /\ acts = 0

DraftNext ==
  \/ OpenDraft \/ LeavePanels \/ OthersWithdraw
  \/ \E p \in Profiles, d \in Edits, well \in BOOLEAN : Deploy(p, d, well)
  \/ \E f \in flights :
       ServeDraft(f) \/ DraftShown(f) \/ CreateDeployment(f) \/ DeploymentShown(f) \/ DraftFails(f)
=============================================================================
