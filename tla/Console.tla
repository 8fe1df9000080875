------------------------------ MODULE Console ------------------------------
(* A tab of the web frontend that stays in one of its areas (the instances, *)
(* inference, performance runs, the S3 browser, the users, MLflow, the      *)
(* Development page, the deploy panels in its frame, logging in and out,    *)
(* the settings, a model's config.pbtxt, the models of an instance, its     *)
(* endpoint or a new deployment), or one of five parts of the backend that  *)
(* share nothing with each other: its start on the database, the bridge of  *)
(* a WebSocket, the relay of an HTTP request, the error log and the         *)
(* verification of bearer tokens.  The stores of the areas share nothing    *)
(* but the route and the way requests are heard of, so that an area can be  *)
(* examined without the others.                                             *)
EXTENDS InstancePages, ModelPages, FilePages, AdminPages, MlflowPage, WorkspacePages,
        DeployPanels, BrowserSession, Schema, Bridge, Relay, ErrorLogs, SigningKeys

VARIABLE area

listVars == <<instanceVars, inferVars, profileVars, fileVars, userVars, mlflowVars>>
frameVars == <<workspaceVars, panelVars, sessionVars>>
formVars == <<settingsVars, configVars, detailVars>>
serviceVars == <<schemaVars, bridgeVars, relayVars, errorVars, keyVars>>
vars == <<area, browserVars, listVars, frameVars, formVars, serviceVars>>

-----------------------------------------------------------------------------
(* Areas the tab does not go to                                             *)

NoInstances == /\ rows = None /\ list = None /\ shown = None
               /\ saving = None /\ dialog = None /\ crossed = FALSE
NoInference == /\ served = None /\ published = None /\ results = None /\ response = None
               /\ submitting = None /\ wandered = None
NoProfiles == /\ runs = None /\ view = None /\ seen = None /\ working = None
              /\ loading = None /\ failing = None /\ waiting = None
NoFiles == /\ objects = None /\ listing = None /\ path = None
           /\ editor = None /\ busy = None /\ mixed = FALSE
NoUsers == accounts = None /\ table = None /\ spoiled = None
NoMlflow == /\ installed = None /\ told = None /\ framed = None /\ covered = None
            /\ tasks = None /\ attempts = None /\ outdated = None /\ unframed = None
NoLists == NoInstances /\ NoInference /\ NoProfiles /\ NoFiles /\ NoUsers /\ NoMlflow

NoWorkspaces == /\ status = None /\ items = None /\ selected = None /\ frame = None
                /\ interval = FALSE /\ polling = FALSE /\ yanked = FALSE
NoPanels == /\ profile = None /\ bucket = None /\ uploads = None /\ script = None
            /\ deployments = None /\ pending = None /\ messages = None
            /\ handled = None /\ visits = None /\ spoilt = None
NoSession == /\ oidc = FALSE /\ ended = None /\ expired = None /\ user = None
             /\ token = None /\ stored = None /\ timer = None /\ cookie = None
             /\ adrift = FALSE
NoFrames == NoWorkspaces /\ NoPanels /\ NoSession

NoSettings == /\ kept = None /\ form = None /\ saved = None /\ flags = None
              /\ tested = None /\ stale = None
NoConfig == /\ configs = None /\ editable = None /\ prefixed = None /\ pane = None
            /\ strayed = None
NoModels == loaded = None /\ cards = None /\ logs = None
NoAccess == endpoint = None /\ exposure = None /\ access = None /\ superseded = None
NoDraft == offered = None /\ draft = None
NoForms == NoSettings /\ NoConfig /\ NoModels /\ NoAccess /\ NoDraft

NoSchema == tables = None /\ starts = None
NoBridge == /\ handler = None /\ upTask = None /\ downTask = None /\ browserEnd = None
            /\ spaceEnd = None /\ seenLeft = None /\ upward = None /\ downward = None
NoRelay == call = None /\ direct = None /\ upstream = None /\ creator = None /\ author = None
NoErrors == /\ events = None /\ reports = None /\ loggedIn = None /\ made = None
            /\ inserted = None /\ exposed = None /\ abandoned = None
NoKeys == /\ provided = None /\ gone = None /\ jwks = None /\ discovery = None
          /\ verifications = None /\ ticks = None
NoService == NoSchema /\ NoBridge /\ NoRelay /\ NoErrors /\ NoKeys

-----------------------------------------------------------------------------
ListInit ==
  \/ area = "instances" /\ InstanceInit /\ NoInference /\ NoProfiles /\ NoFiles /\ NoUsers /\ NoMlflow
  \/ area = "inference" /\ InferenceInit /\ NoInstances /\ NoProfiles /\ NoFiles /\ NoUsers /\ NoMlflow
  \/ area = "profile" /\ ProfileInit /\ NoInstances /\ NoInference /\ NoFiles /\ NoUsers /\ NoMlflow
  \/ area = "files" /\ FileInit /\ NoInstances /\ NoInference /\ NoProfiles /\ NoUsers /\ NoMlflow
  \/ area = "users" /\ UserInit /\ NoInstances /\ NoInference /\ NoProfiles /\ NoFiles /\ NoMlflow
  \/ area = "mlflow" /\ MlflowInit /\ NoInstances /\ NoInference /\ NoProfiles /\ NoFiles /\ NoUsers

ListNext ==
  \/ area = "instances" /\ InstanceNext /\ UNCHANGED <<inferVars, profileVars, fileVars, userVars, mlflowVars>>
  \/ area = "inference" /\ InferenceNext /\ UNCHANGED <<instanceVars, profileVars, fileVars, userVars, mlflowVars>>
  \/ area = "profile" /\ ProfileNext /\ UNCHANGED <<instanceVars, inferVars, fileVars, userVars, mlflowVars>>
  \/ area = "files" /\ FileNext /\ UNCHANGED <<instanceVars, inferVars, profileVars, userVars, mlflowVars>>
  \/ area = "users" /\ UserNext /\ UNCHANGED <<instanceVars, inferVars, profileVars, fileVars, mlflowVars>>
  \/ area = "mlflow" /\ MlflowNext /\ UNCHANGED <<instanceVars, inferVars, profileVars, fileVars, userVars>>

FrameInit ==
  \/ area = "development" /\ WorkspaceInit /\ NoPanels /\ NoSession
  \/ area = "panels" /\ PanelInit /\ NoWorkspaces /\ NoSession
  \/ area = "session" /\ SessionInit /\ NoWorkspaces /\ NoPanels

FrameNext ==
  \/ area = "development" /\ WorkspaceNext /\ UNCHANGED <<panelVars, sessionVars>>
  \/ area = "panels" /\ PanelNext /\ UNCHANGED <<workspaceVars, sessionVars>>
  \/ area = "session" /\ SessionNext /\ UNCHANGED <<workspaceVars, panelVars>>

FormInit ==
  \/ area = "settings" /\ SettingsInit /\ NoConfig /\ NoModels /\ NoAccess /\ NoDraft
  \/ area = "config" /\ ConfigInit /\ NoSettings /\ NoModels /\ NoAccess /\ NoDraft
  \/ area = "models" /\ ModelPanelInit /\ NoSettings /\ NoConfig /\ NoAccess /\ NoDraft
  \/ area = "access" /\ AccessInit /\ NoSettings /\ NoConfig /\ NoModels /\ NoDraft
  \/ area = "deploy" /\ DraftInit /\ NoSettings /\ NoConfig /\ NoModels

FormNext ==
  \/ area = "settings" /\ SettingsNext /\ UNCHANGED <<configVars, detailVars>>
  \/ area = "config" /\ ConfigNext /\ UNCHANGED <<settingsVars, detailVars>>
  \/ area = "models" /\ ModelPanelNext /\ UNCHANGED <<settingsVars, configVars>>
  \/ area = "access" /\ AccessNext /\ UNCHANGED <<settingsVars, configVars>>
  \/ area = "deploy" /\ DraftNext /\ UNCHANGED <<settingsVars, configVars>>

ServiceInit(part) ==
  \/ part = "start" /\ SchemaInit /\ NoBridge /\ NoRelay /\ NoErrors /\ NoKeys
  \/ part = "terminal" /\ BridgeInit /\ NoSchema /\ NoRelay /\ NoErrors /\ NoKeys
  \/ part = "relay" /\ RelayInit /\ NoSchema /\ NoBridge /\ NoErrors /\ NoKeys
  \/ part = "errors" /\ ErrorInit /\ NoSchema /\ NoBridge /\ NoRelay /\ NoKeys
  \/ part = "keys" /\ KeyInit /\ NoSchema /\ NoBridge /\ NoRelay /\ NoErrors

ServiceNext(part) ==
  \/ part = "start" /\ SchemaNext /\ UNCHANGED <<bridgeVars, relayVars, errorVars, keyVars>>
  \/ part = "terminal" /\ BridgeNext /\ UNCHANGED <<schemaVars, relayVars, errorVars, keyVars>>
  \/ part = "relay" /\ RelayNext /\ UNCHANGED <<schemaVars, bridgeVars, errorVars, keyVars>>
  \/ part = "errors" /\ ErrorNext /\ UNCHANGED <<schemaVars, bridgeVars, relayVars, keyVars>>
  \/ part = "keys" /\ KeyNext /\ UNCHANGED <<schemaVars, bridgeVars, relayVars, errorVars>>

Init ==
  \/ ListInit /\ NoFrames /\ NoForms /\ NoService
  \/ FrameInit /\ NoLists /\ NoForms /\ NoService
  \/ FormInit /\ NoLists /\ NoFrames /\ NoService
  \/ area \in {"start", "terminal", "relay", "errors", "keys"} /\ ServiceInit(area)
     /\ NoLists /\ NoFrames /\ NoForms

Next ==
  /\ UNCHANGED area
  /\ \/ ListNext /\ UNCHANGED <<frameVars, formVars, serviceVars>>
     \/ FrameNext /\ UNCHANGED <<listVars, formVars, serviceVars>>
     \/ FormNext /\ UNCHANGED <<listVars, frameVars, serviceVars>>
     \/ ServiceNext(area) /\ UNCHANGED <<listVars, frameVars, formVars>>

Spec == Init /\ [][Next]_vars

-----------------------------------------------------------------------------
(* Properties                                                               *)

(* What a page shows belongs to what it was opened for: the page of an      *)
(* instance its connection and its S3 settings, the Infer page its model's  *)
(* result and what that took, the Profile page its model's run, the S3      *)
(* browser its objects, the Development page the selected workspace, the    *)
(* configuration pane its model's config.pbtxt or the one at the root; and  *)
(* a file of a bucket holds a text made from that very file, an upload, or  *)
(* the message of a load that failed for it, which the editor lets the user *)
(* save, as the pane an empty one.  Answers for the page before are merged  *)
(* into the store of this one, though (crossed, mixed, wandered), be it the *)
(* refresh that an action on a model asks for after its page was left; the  *)
(* frame of a workspace that was being refreshed replaces the one of a      *)
(* workspace selected meanwhile, and the pane outlives a change of the      *)
(* model, and is given the only configuration of the repository for the     *)
(* root's (strayed).                                                        *)
OwnPages ==
  /\ area = "instances" /\ OnDetail /\ shown # None =>
       /\ shown.id = page.of
       /\ crossed \/ (shown.connOf = page.of /\ shown.s3Of = page.of)
  /\ area = "inference" =>
       /\ OnInfer /\ response # None => wandered \/ response.model = page.of
       /\ \A m \in Models : results[m] # None =>
            /\ wandered \/ results[m].model = m
            /\ MeasuredAlone(results[m]) => results[m].report \in OneRequest(results[m].model)
  /\ area = "profile" /\ OnProfile /\ view # None => view.of = page.of
  /\ area = "files" =>
       /\ OnFiles /\ listing # None => mixed \/ listing.of = page.of
       /\ \A i \in Ids, d \in Folders : objects[i][d] \in {None, Own(i, d), FromDisk, LoadError(d)}
  /\ area = "development" => yanked \/ frame \in {None, selected}
  /\ area = "config" /\ ~strayed =>
       /\ OnModel => pane.text \in {Empty, page.of, AtRoot}
       /\ \A p \in Paths : configs[p] \in {None, Empty, p}

(* With all its answers received the table of the users agrees with the     *)
(* server, but for rows another administrator has written, whose answers    *)
(* got lost or that were written twice at a time.                           *)
TableIsRight ==
  area = "users" =>
    \A u \in Users \ spoiled :
      \/ table[u] = accounts[u]
      \/ \E f \in flights : f.state = "ok" /\ (f.kind = "users" \/ f.of = u)

(* The user a page shows is the one its requests are made for, as far as    *)
(* they are accepted, unless /api/whoami answered for the cookie while the  *)
(* store kept a token, or an answer to an older request has put the cookie  *)
(* back.                                                                    *)
IdentityShownIsSent ==
  area = "session" /\ user # None /\ ~adrift /\ token \notin expired =>
    Accepted(token, cookie) \in {None, user}

(* A timer runs for whatever waits for one: the automatic logout for every  *)
(* token in use, the poll of the Development page for every workspace that  *)
(* is not ready and for the selected one that is not shown yet, the next    *)
(* status of the Profile page whenever no request of it is under way.  And  *)
(* what waits on the page of an instance, be it for a model or its logs,    *)
(* has a request under way.                                                 *)
TimersRun ==
  /\ area = "session" /\ token # None => timer = token
  /\ area = "development" /\ flights = {} /\ Polled(items, selected, frame) # {} => interval
  /\ area = "profile" /\ OnProfile =>
       waiting \/ \E f \in flights : f.heard /\ Mine(f)
  /\ area = "models" /\ OnPanels =>
       /\ logs.loading => logs.pending
       /\ logs.pending => Awaited({"logs"}) # {}
       /\ \A m \in RepositoryModels :
            /\ cards[m].loading => \E f \in Awaited({"modelConfig"}) : f.of = m
            /\ \A a \in cards[m].acting : \E f \in Of({"modelAction"}) : f.of = m /\ f.arg = [action |-> a, no |-> page.no]

(* However answers cross, the Profile page never goes back to an earlier    *)
(* state of its model's runs.  The MLflow page, at rest, shows the state of *)
(* the installation, one it asks for again or that it could not be told it, *)
(* and has a frame where that is ready.  Two things are excepted: what the  *)
(* page was not told of (outdated: a change by others, and what its own     *)
(* deletion did that failed half way, or its own write without an answer),  *)
(* and a frame that a load which had found no installation removed when it  *)
(* ended after another one (unframed).                                      *)
NewestIsShown ==
  /\ area = "profile" /\ OnProfile /\ view # None => view.run.changes = seen
  /\ area = "mlflow" /\ OnMlflow /\ ~outdated /\ (\A f \in flights : ~f.heard) =>
       /\ tasks = {} /\ ~covered
       /\ told \in {None, "creating", installed}
       /\ framed => told = "ready"
       /\ told = "ready" => framed \/ unframed

(* A deployment finds the whole of the folder it was created for, unless    *)
(* another panel has uploaded to that name or the profile points elsewhere, *)
(* and a tab follows its hand-over once, over the backend or by one of the  *)
(* messages.                                                                *)
HandedOverOnce ==
  area = "panels" =>
    \A n \in Names :
      /\ visits[n] <= 1
      /\ deployments[n] # None =>
           LET d == deployments[n]
           IN \/ [by |-> d.by, name |-> n] \in spoilt
              \/ \A x \in Files : bucket[d.at][n][x] = d.by

(* A form at rest takes for saved what the server has, so that the test     *)
(* message of the e-mail settings is sent with the settings on the screen;  *)
(* and what the endpoint form and the one of a new deployment let through   *)
(* agrees with the server on what both decide: whether there may be an      *)
(* Ingress and HTTP, under which name, whether credentials are needed and   *)
(* complete, and whose S3 profile it is.  It may still be refused: for how  *)
(* a user name, a password, the deployment's name, its poll interval, its   *)
(* requirements or its prefix are written, which the forms do not look at.  *)
(* None of them can know what others have saved meanwhile, what a save      *)
(* without an answer did, or what it asked for before it was saved.         *)
FormsMatchServer ==
  /\ area = "settings" =>
       /\ OnSettings /\ ~stale /\ (\A f \in flights : ~(f.heard /\ f.of = page.of)) =>
            saved \in {None, kept[page.of]}
       /\ tested # None /\ tested.known => tested.with = tested.meant
  /\ area = "access" /\ OnPanels /\ ~superseded =>
       /\ access.shown \in {None, endpoint} \/ Awaited({"saveAccess"}) # {}
       /\ \A f \in Awaited({"saveAccess"}) : f.state = "sent" => Permitted(f.arg, endpoint)
  /\ area = "deploy" /\ ~superseded =>
       \A f \in Of({"createDeployment"}) : f.state = "sent" => DeploymentPermitted(f.of, f.arg.form)

-----------------------------------------------------------------------------
(* A process serves requests only with every column there, whichever        *)
(* version the database is of, whichever processes start beside it, and     *)
(* wherever the starts before it ended.                                     *)
ServesWholeSchema ==
  area = "start" => \A p \in Processes : starts[p].next = Serving => WholeSchema(tables)

(* When the bridge of a WebSocket has ended both its ends are closed and    *)
(* neither of its tasks is left.  What the browser had typed before it left *)
(* has reached the workspace, unless that left as well or the other task    *)
(* found out first; what the workspace had printed has reached the browser, *)
(* unless that left or typed to a workspace that was gone.                  *)
BridgeDelivers ==
  area = "terminal" /\ handler = "ended" =>
    /\ browserEnd # "open" /\ spaceEnd # "open"
    /\ {upTask, downTask} \subseteq Ended \cup {"none", "cancelled"}
    /\ upTask # "none" /\ browserEnd = "left" /\ upward.given < upward.sent =>
         spaceEnd = "left" \/ downTask = "refused"
    /\ upTask # "none" /\ spaceEnd = "left" /\ downward.given < downward.sent =>
         browserEnd = "left" \/ upTask = "failed"

(* Whatever is sent to MLflow, the creator a run, a model or a version says *)
(* it has, and the API shows, is the account that created it; a refused     *)
(* request has had no effect and one that may not be repeated has had one   *)
(* at most.                                                                 *)
CreatorIsAuthor ==
  area = "relay" =>
    /\ \A r \in Runs : creator[r] = author[r]
    /\ call.shown # None => call.shown = author[call.run]
    /\ call.at = "answered" => call.ran >= 1 \/ call.kind = "artifactRoot"
    /\ call.at = "refused" => call.ran = 0
    /\ call.ran <= 1 \/ (~direct /\ call.safe)

(* An event is deleted from the error log only when enough newer ones have  *)
(* been recorded, unless it was recorded while another report was between   *)
(* its SELECT and its DELETE; and the log grows beyond its size only by     *)
(* what is still to be pruned or was reported by a thread that failed.      *)
NewestErrorsKept ==
  area = "errors" =>
    /\ \A e \in inserted \ events :
         e \in exposed \/ Cardinality({x \in inserted : x > e}) >= Keep
    /\ Cardinality(events) <= Keep + abandoned +
         Cardinality({r \in Reporters : reports[r].at \in {"refresh", "select", "delete"}})

(* A token is refused for an unknown key only if its key was not published  *)
(* all the time; a withdrawn key is accepted no longer than the keys are    *)
(* cached and a request takes.                                              *)
KeysAreCurrent ==
  area = "keys" =>
    \A v \in Verifiers :
      /\ verifications[v].at = "unknownKey" => ~verifications[v].since
      /\ verifications[v].at = "accepted" => verifications[v].late <= Ttl + MaxFetch
=============================================================================
