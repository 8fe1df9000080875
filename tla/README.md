# Triton Control: a TLA+ verification project

Triton Control manages NVIDIA Triton inference servers. Users register servers or
deploy them on Kubernetes, watch their health, run performance benchmarks against
their models, keep models in S3, and open development workspaces, MLflow and Argo
workflows. The backend (`triton-backend/app`, FastAPI and SQLModel on PostgreSQL)
owns all state; the Angular frontend and the VS Code extension are clients of its API.

Three things make it hard. The backend is concurrent: synchronous routes run on a
thread pool, asynchronous ones interleave at every `await`, several processes may share
one database, and each of them runs background loops (the performance-run reconciler,
the health refresher, the MLflow upgrade) and tasks queued by requests. Its state is in
several places that no transaction spans: PostgreSQL, the Kubernetes API, S3, Argo and
MLflow. And its clients are concurrent as well: effects of the frontend's stores outlive
the page that started them, and several windows write the same objects.

Section 1 is the inventory, 2 the modules, 3 the runs with their bounds and fairness,
4 the proofs, 5 what the code is known not to guarantee, 6 what is not modelled, and 7
the plan.

## 1. Inventory

| Component | State | What is hard | Module |
|---|---|---|---|
| Model performance runs (`services/perf_analyzer/`) | rows of `model_perf_jobs`, latest results; a Job, its pod and Secrets per run | two sources of truth; calls that time out and are carried out later; crashes between a call and its commit; deletion against start | `PerfJobs` |
| Instances (`services/triton/instances.py`, `deployment/records.py`) | rows of `triton_instances`, lists of assigned instances | rows held over awaits and saved later; look-ups before inserts; several commits per deletion | `InstanceRegistry` |
| Health refresher, alerts (`services/triton/health.py`) | health columns, `dashboard_alerts` | seconds between read and write; the table of alerts is replaced at the end of a cycle | `InstanceRegistry` |
| Deployments and their access (`services/deployment/`) | row, Namespace, Deployment, Service, Secrets, Middleware, Ingress | a queued task against a deletion; failure between two resources; lost answers; checks before writes | `Deployments` |
| Repository synchronization (`deployment/kubernetes.py`, the script it writes) | bucket, staging directory, `/models`, a marker | the bucket changes during a cycle; kills between wipe and copy | `RepositorySync` |
| S3 objects (`storage/s3.py`, extension `s3-*.js`, `s3-filesystem.js`) | objects of a bucket | other windows and the backend write between look and write | `S3Objects`, `S3Transfers` |
| S3 profiles, workflow credentials | rows; a Secret and a ConfigMap per credential | row against Secret; edit, retry and creation together | `S3Profiles` |
| MLflow installation | row, Secrets, Deployment, pod | one lock per process; upgrades that die half way | `Mlflow` |
| Development workspaces | row, Secret with tokens, StatefulSet, pod | two patches of which the second fails; rotation under a running pod | `Workspaces` |
| Workflow submission | workflow, its Secret | lost answers, refused owners | `Workflows` |
| Proxies: WebSocket, HTTP, MLflow tracking | two tasks per connection; a request | first end cancels the other; retries; creator of a run | `Bridge`, `Relay` |
| Accounts, login, OIDC settings | users, links, settings, sessions | several commits per completion; settings saved from stale rows | `Accounts` |
| Signing keys (`core/auth.py`) | cached keys per process | rotation against a cache | `SigningKeys` |
| Error log | a bounded table | concurrent pruning | `ErrorLogs` |
| Start on a database | tables and columns | processes that start together or die between statements | `Schema` |
| Web frontend | stores, timers, route | answers that come late, out of order or not at all | `Browser` and the pages |
| VS Code extension | panels, uploads | messages to scripts that are gone | `DeployPanels`, `S3Transfers` |

How they interact. A performance run belongs to an instance, and `start()` refuses one
whose `perf_deleting` flag, the *fence*, is set; deleting an instance sets it first. The
row of a deployment is an instance's row. A profile is used by MLflow's storage and by
workflow credentials, and a profile in use cannot be deleted. Installing or upgrading
MLflow gives every workspace access to it, which changes the workspace's tokens; a
workspace's tokens authenticate submissions of workflows. Objects are changed by the S3
browser and by the extension while deployments synchronize their folders. The frontend
sees all of it through requests whose answers cross.

## 2. Modules

| Module | Models |
|---|---|
| `PerfJobs` | performance runs: rows, row locks, Jobs and pods, requests, reconcilers, faults |
| `BenchmarkSlot` | abstract: one exclusive slot per model |
| `PerfJobsProofs` | its type correctness; its inductive invariant and safety theorems; what it remembers, and the refinement |
| `InstanceRegistry` | instance rows, alerts, the requests that write them, the refresher |
| `InstanceLifecycle` | abstract: what others rely on of an instance row |
| `InstanceRegistryProofs` | type correctness, invariant and refinement |
| `Accounts` | accounts, links, mail, sessions, OIDC settings |
| `AccountsProofs` | its type correctness, inductive invariant and both properties |
| `Deployments` | background apply, access, deletion, host names, HTTP policy |
| `DeploymentsProofs` | its type correctness, inductive invariant and all three properties |
| `Backend` | what the platform's parts share: program counters, rows, faults |
| `S3Profiles`, `Mlflow`, `Workspaces`, `Workflows` | the four parts of the platform |
| `Platform`, `PlatformProofs` | their composition, with fairness; its inductive invariant and theorems |
| `S3Objects`, `S3Transfers` | the bucket; the operations of the extension on it |
| `RepositorySync` | the script of a deployment's init and sidecar containers |
| `Repository`, `RepositoryProofs` | composition of the last two, and theorems about it |
| `Browser` | a tab: its route, requests, and how answers are heard |
| `InstancePages`, `ModelPages`, `FilePages`, `AdminPages`, `MlflowPage`, `WorkspacePages`, `DeployPanels`, `BrowserSession` | the pages that have an asynchronous part |
| `Schema`, `Bridge`, `Relay`, `ErrorLogs`, `SigningKeys` | small parts of the backend |
| `Console` | a tab in one of its areas, or one of those parts |
| `ConsoleProofs`, `ConsolePagesProofs` | invariants and theorems of the parts and of every area of the tab |
| `MCPerfJobs`, `MCInstanceRegistry`, `MCAccounts`, `MCDeployments`, `MCPlatform`, `MCRepository`, `MCConsole` | instances for TLC |

### PerfJobs

One worker is one request thread or one reconciler thread. Its program counter
`pc[w]` stops wherever another actor can come in between: before a lock, after each
Kubernetes read, after each Kubernetes write and before the commit.

| In the model | In the code |
|---|---|
| `row[r]` | the committed row of `ModelPerfJobEntity`: `prepared`, `saved` (logs saved before deletion), `cleaned`, `uid` (`job_uid`), `created` |
| `lock[r]` | the row lock of `lock_run()` (`FOR UPDATE SKIP LOCKED`) |
| `tx[w]` | the row object of the open session: what `commit()` will write |
| `view[w]` | the Job and the pod this pass has read |
| `job[r]`, `pod[r]`, `secret[r]`, `ver[r]` | the cluster: uid, resourceVersion, suspend, deletion, conditions; pod phase; Secrets |
| `late` | calls that timed out at the client and may still be carried out |
| `loop[w]` | the list a reconciler pass, or the deletion of an instance, walks through |
| `inst[i]` | the instance row: live, deleting (fenced), gone |
| `result`, `legacy` | the latest-result row of a target; the legacy installation and its record |

`Start`, `Reserve`, `LockPrepare`, `Prepare` are the steps of `start()`; `BeginPass`,
`ReadJob`, `ReadPods` and one action per branch of `reconcile_active()` are a pass;
`Commit` ends it. `DeleteInstance` ... `DelInstanceRow` are
`prepare_instance_deletion()` and its callers. The Job controller, the kubelet, the
garbage collector and API calls are actions of their own, modelled from how
`jobs_kubernetes.py` uses them and marked external. Left out: message texts, exit codes
and the command line. The output of a run is 0 or 1 (something was captured). Time is
`overdue[r]`, which the clock may set at any moment after the state was entered. The
API may have no log for a pod that has run where `LossyLogs` holds.

### InstanceRegistry

Every handler loads a row, waits, and writes it later without a lock. The ORM writes
only the columns whose value differs from the one loaded, which `Merge(cur, base,
new)` says: `cur` is the row now, `base` the one loaded, `new` the one to be saved.
`CanSave` is the outcome of the commit: `StaleDataError` when the row is gone,
`IntegrityError` when the name is taken. Columns that no property can tell apart are
merged: `health_live` and `health_ready` are `up`, the model list is none, ok or bad.

| In the model | In the code |
|---|---|
| `Register`, `RegisterProbe`, `RegisterFind`, `RegisterSave`, `Insert`, `AssignLoad`, `AssignSave` | `create_instance()` |
| `Deploy`, `Insert`, `Assign...`, `ApplyLoad`, `ApplySave` | `upsert_deployed_instance()` and the end of the background apply, `_patch()` |
| `Update`, `UpdateProbe`, `UpdateSave` | `update_instance()` |
| `Delete`, `DeleteName`, `DeleteUsers`, `DeleteCommit`, `DeleteAlerts`, `DeleteRow`, `DeleteRefused` | `delete_instance()` |
| `DeleteDeployment`, `RecordFence`, `RecordAlerts`, `RecordUsers`, `RecordSave`, `DeleteRow` | `delete_deployment_instance()`, `delete_instance_record()` |
| `CycleBegin`, `RefreshRead`, `RefreshPods`, `RefreshProbe`, `RefreshLoad`, `RefreshSave`, `RefreshReload` | `_refresh_all_instances()`, `_refresh_instance()` |
| `ReplaceBegin`, `ReplaceCommit` | `replace_all()`: its DELETE sees the alerts of one moment, its commit comes later |
| `ServerChanges`, `Crash` | a Triton server behind a URL; death of a process |

One user's list stands for all. A URL that is empty, which the refresher would resolve,
is not modelled: every writer stores a URL. The deletion of the performance runs and of
the Kubernetes resources is one step that may refuse; `PerfJobs` and `Deployments` have
the detail. `PerfJobs` takes for granted that an instance is fenced before it goes, that
the fence is never lifted, and that a row never comes back: `InstanceLifecycle` states
that, and `InstanceRegistry` is shown to implement it.

### Accounts

`users`, `links`, `oidc`, `mail` are the tables; `session[c]` is the cookie of a client
with the credential version it was made for; `local[c]` is what a handler has loaded
(`base`) and will save (`new`), so that a save writes the columns that differ. The ghost
`overtaken` names the clients whose completion another one has undone by saving an older
credential version. A
completion is the sequence of commits of `_complete()`: the account, the link, each
other link. Requests for invitations, resets, roles, deletions, bootstrap, local and
OIDC login, the OIDC settings and the preflight are one action per commit. An update of
the settings has three steps, what it decides (`PutOidcSettings`), the row it selects
after the connection test (`OidcLoad`) and the write; `found` is what it saw first. The links'
rate limit is `Limit`; tokens expire at any time. The texts of messages, the dialogue
with the mail server and password rules are left out.

### Deployments

`rows` has name and status; `k8s[n]` the objects of a name (Namespace, Deployment,
Service, Secrets, Ingress), `auth[s]` a credentials Secret with its Middleware. Each call
to the API server is a step that may fail, or fail after it was carried out. The queued
task of a row (`pc[i]`, as every row's id names its task) applies the manifests in order;
a deletion looks up the exposed resources, deletes them one by one, and then the row; an
access update creates a Secret, writes the Middleware and the Ingress under its resource
version and cleans up. `urllib3` may repeat the PUT of an Ingress that was carried out and
whose answer was lost; the version has moved, and the repeat is rejected. Four pieces of
history make the properties precise: `touched`
counts the writes under a name, so that a deletion during which others write can be told
from one that was alone; `calm` says that no deletion has touched a row's name since the
row is there; `by` is the row for which the credentials of an Ingress were written, and
`repeated` says that the PUT that put them there was carried out and then repeated.

### Platform: S3Profiles, Mlflow, Workspaces, Workflows

A profile is a version; a credential's Secret and ConfigMap hold the version they were
written from. Edits mark the credentials and synchronize them afterwards under the
profile's row lock. MLflow's Secrets, Deployment and pod hold what they were made from,
tokens are numbers of drawings, and the checksum in the pod template is `gw`. A
workspace has tokens in a Secret, an environment in the StatefulSet and a pod that has
read both. A submission is a workflow and a Secret, before and after the patch of its
owner. `Backend` has program counters and faults; handlers run in processes with a lock
each (`BackendOf`).

### Repository: S3Objects, S3Transfers, RepositorySync

An object is its content; its ETag is the content too (an S3 ETag of equal content is
equal). A copy, move, upload, save or deletion of the extension is one operation of a
user that looks at source and target, asks (`forgone` collects what anyone agreed to
lose), and writes with the conditions of the code. The backend's browser puts and
deletes unconditionally. The script lists, downloads what differs by size or time,
rewrites a configuration if it has to, compares, wipes and copies, and polls; it may be
killed anywhere. Triton starts when it finds the marker.

### Browser and the pages

A request is sent, answered and received in three steps, and others come in between;
`heard` says whether the effect still listens: `mergeMap` lets every answer in,
`switchMap` turns away from the request before, which may have reached the server
nevertheless. Pages are opened and left while requests are under way. Each page module
has the store's state, one action per dispatched action or received answer, and what the
server holds as far as the page shows it. Where a page is known to be wrong after a
certain crossing of answers (section 5), a ghost variable records that the crossing
happened (`crossed`, `mixed`, `wandered`, `spoiled`, `adrift`, `yanked`, `strayed`,
`stale`, `superseded`, `spoilt`, `outdated`, `unframed`), and the property excepts exactly
that. In `InstancePages` an action on a model (`ActOnModel`) outlives its page and asks for
the refresh of the instance it was for when it is answered (`ModelActed`,
`ModelActionDone`). In `MlflowPage` the server installs, fails, uninstalls or stops half
way (`ServeInstall`, `InstallationEnds`, `ServeUninstall`, after `installer.py`), and
`Status` is what it says of itself meanwhile. The endpoint form and the one of a new
deployment decide by `Valid` and `CanDeploy`; the server's rules are split into those the
forms share (`Permitted`, `DeploymentPermitted`) and those of how a text is written, which
only the server looks at (`WellFormed`, and `well` for the rest of a new deployment's form).

### Small parts of the backend

`Schema`: processes that create missing tables in one transaction and missing columns in
others, on a database of any age, started together and dying anywhere. `Bridge`: the two
tasks of a WebSocket, the first of which to end cancels the other. `Relay`: one request
with the retries of `urllib3` and the enforcement of a run's creator, which reads before
it forwards. `ErrorLogs`: insert, select the newest, delete the others. `SigningKeys`:
verifications that use, refresh or look again for the provider's keys.

## 3. Runs

| Run | Instance | Checks | Shows |
|---|---|---|---|
| `perf_slot` | 2 clients, 2 runs of one target, 1 late call | `OneBenchmark`, `AdmittedAlone`, `ResultIsLatest`, `ImplementsSlots` | two runs never hold a slot, none is admitted before the legacy installation is retired, benchmarks never overlap although a call of the first may be carried out during the second, the latest result is that of the run admitted last of those that have finished, though created_at may order two crossing requests the other way, and the whole implements `BenchmarkSlot` |
| `perf_faults` | 1 run, 2 clients, a reconciler, 1 fault, 1 late call, lossy logs | `TypeOK`, `NoGhostExecution`, `CleanedIsQuiet`, `JobsAccounted`, `InstanceGoesLast`, `OutputKept` | no execution behind a finished row, identity before execution, output saved before deletion, nothing left after cleanup, and an instance goes after its runs |
| `perf_live` | 1 run, a client, a reconciler, 1 fault | `EventuallyCleaned` | every admitted run ends and is cleaned up |
| `registry_races` | 2 concurrent requests of 4, 1 crash | `TypeOK`, `NamesUnique`, `ImplementsLifecycle` | no duplicate names, no lifted fence, no row that comes back |
| `registry_live` | 2 requests, one after the other, against the refresher; 1 change of a server | `AlertsHaveRows`, `WritesOwnColumns`, `EventuallyShown` | no alert of a deleted instance, no late save takes back another handler's column, rows and alerts come to agree with the servers |
| `accounts` | 2 clients, 3 accounts, 2 addresses, 3 links, 3 requests, 1 crash, 5 seeds | `CompletionIsFinal`, `NothingBroughtBack` | after a completed link every earlier link is dead and no older session gets in, unless the row was overwritten; no role comes back from a stale row, and OIDC only through a preflight or an update that crossed its switching off |
| `accounts_reset` | 2 clients, an account with a reset link, 5 requests: login, forgotten password, resets | `CompletionEndsSessions` (violated) | a session from before a reset gets in after it |
| `deployments` | 2 clients, 2 rows, 2 names, 3 requests, 1 fault, 6 seeds | `CredentialsBehindIngress`, `RoutesArePermitted`, `DeletionIsComplete` | an Ingress never names missing credentials, routes are those the policy and the other routes allowed, and a deletion nobody interferes with leaves nothing |
| `platform` | 2 clients in 2 processes, the upgrade task, 3 requests, 2 faults, 6 seeds | `SyncedIsCurrent`, `TokensMatch`, `SubmissionsHaveTokens`, `UpgradeEnds` | unmarked credentials are current, pods send the tokens they are compared with, accepted submissions have theirs, interrupted upgrades end |
| `repository` | 2 users, 2 folders of 2 names, 3 contents, 2 operations, 1 fault | `NothingLostUnasked`, `RepositoryFollows` | no content is lost that nobody agreed to give up; a sidecar's repository follows the bucket |
| `repository_first_scan` | a deployment alone | `FirstScanIsWhole` (violated) | Triton may start on a part of the first synchronization |
| `console` | a tab in one of 14 areas, or one of 5 parts of the backend; 1.0 M states | `OwnPages`, `TableIsRight`, `IdentityShownIsSent`, `TimersRun`, `NewestIsShown`, `HandedOverOnce`, `FormsMatchServer`, `ServesWholeSchema`, `BridgeDelivers`, `CreatorIsAuthor`, `NewestErrorsKept`, `KeysAreCurrent` | pages show and save what they were opened for, timers run while they are needed, what is handed over arrives once and in order, and what the five parts promise |

`AdmittedAlone` is `OneActiveRun` and `LegacyFirst`; `JobsAccounted` is
`IdentityBeforeExecution` and `CleanedIsGone`; `OutputKept` is `SnapshotKept` and
`HistoryKept`; `CompletionIsFinal`, `NothingBroughtBack` and `RoutesArePermitted` are
conjunctions as well, each part with its own comment in the module. `TypeOK` of
`Accounts`, `Deployments`, `Platform` and `Repository` is proved (section 4); the runs spend
their time on the other properties.

### Bounds

Two runs, clients, requests, users, processes or pages are what it takes for every
conflict the code resolves: a slot, a row lock, a name, a URL, a fence, a profile's row
or a store is contended by two, and a third finds the same states. The accounts run has
three of the ids that are never given out twice, so that a deletion and a new
invitation fit in. One fault or late call per behaviour can fall at any step of any
actor; the platform has two, since its upgrade is retried. `MaxRequests` bounds how many
requests follow one another, not how they interleave. In `console`, `MaxActs = 3`
bounds what users, others and failures do (pages opened, writes asked for, answers
lost) and `MaxFlights = 2` the requests a timer may add; the crossings of section 5 all
happen within it. An area uses at most three kinds of things, so that three symmetric
pairs of values stand for all of its constants. Bounds are in the guards; seeds put a
run in a populated state that requests can reach, so that the requests are spent on
the conflict.

Constraints cut states without cutting conflicts. `InstancesStay` leaves deletions to
`perf_faults`. `SecondIsAdmitted` lets the second client of `perf_slot` go as far as
admission: what it does further on, the first one does, for either run.
`QuietWhenLate` lets one client act at a time once a call is late, and
in `perf_slot` `LateForTheSecond` keeps the run whose call is late from being admitted last,
and from its deadline: what late calls do to a run alone is in `perf_faults`. With `Symmetry`
interchangeable values are exchanged, only in runs without a liveness property.
`CHECK_DEADLOCK FALSE` stands where the model has nothing left to do once the bounded
requests are over.

### Fairness

- `PerfJobs`: every thread that has begun goes on, the reconciler's loop never ends (its
  body catches every exception), time passes, and Kubernetes completes deletions it has
  accepted. No user has to send a request, and no pod has to start or finish.
- `InstanceRegistry`: only the refresher's loop, which catches every exception and starts
  the next cycle; requests may stop anywhere.
- `Platform`: handlers that run go on, the upgrade task begins again every minute, the
  cluster starts and replaces pods.
- `Repository`: the script goes on, as `restartPolicy` and its `while` loop say. Nobody
  has to use the objects; the property speaks of what follows the last change.
- `console`, `accounts` and `deployments` check safety and assume nothing.

Liveness holds because faults and changes are finitely many, which the bounds say.

### Findings

1. docs/security.md:58 says "A completed password reset also invalidates existing local
   tokens through the account credential version." The new version is the one of the row
   the request loaded, plus one (`account_lifecycle.py:384`), saved without a lock.
   `accounts_reset` shows a completion that read version 0, waited while another counted
   to 1 and a third, through a second link, to 2, and then saved its 1: the third answers,
   and a session of version 1 from before it is admitted. Three requests, the bound of
   `accounts`, are too few for this; the proof of section 4 met it.
2. `deployment/kubernetes.py:585` says "Do not let Triton scan a partial first sync." The
   marker that Triton waits for is created in the directory that is copied
   (`kubernetes.py:642`), so the copy may bring it before the models.
   `repository_first_scan` shows Triton starting in between.

## 4. Proofs

All theorems hold for every value of the constants: any number of runs, instances,
workers, refreshers, faults, late calls, crashes. They assume what the modules state
under `ASSUME`: `None` is not one of the values, an account or a holder of a session, accounts
have their fields, workers are requests or background
threads but not both, targets and URLs have their types, bounds are natural numbers,
threads that report errors are finitely many, keys are cached for a time (600 s), and
`None` is not a workspace, a state of one, or a state of MLflow, no counter of inferences and
no path of a configuration, nor is what Triton says one; users, folders and names of a bucket
are finitely many. The
platform may begin in any state of which `AtRest` is true, which says what requests leave
behind when nobody is at work; an empty platform is one. `Accounts` may begin in any
state that keeps the rules of its tables (`Consistent`): addresses are unique, and a link
that is live belongs to a live account. `Deployments` may begin in any seeds in which
tables and cluster are `Related`, `Guarded` and `Routed`: names of live rows are unique, an
Ingress names a row and a Secret of its own name, its credentials are there, and routes
overlap only where both writers looked first. An empty cluster is one.

**PerfJobs.** `TypeCorrect` comes first. `SafetyInductive` proves `SafetyInv`, from
which `SlotExclusive`, `NoGhosts`, `BenchmarkExclusive`, `CleanedQuiet` and
`InstanceLast` follow. `OneBenchmark` and `NoGhostExecution` are not inductive: a
step may violate them next if a finished row still has an enabled Job, if a pass that
saw the Job gone is about to finish the row while a late call can enable it, or if a
transaction is about to commit such a row. The strengthening says
- `Sound(r, x)`: what the cluster owes a row `x`. An inactive row has a Job that will
  make no pod, and no live pod; a row without uid has never been enabled; a cleaned
  row has nothing left;
- `RunInv`, `CommitInv`: the committed row is sound, and so is the row each open
  transaction will commit, when it commits it;
- `ViewInv`: what a pass has read still holds where it decides. A Job seen gone,
  deleting or concluded does not come back, since late calls carry a
  resourceVersion that is no longer the Job's;
- `LockInv`: a worker in a locked place holds the lock of a run that exists;
- `DeletionInv`: a deletion has fenced its instance and accounts for every run of it.

Execution and deletion are one induction, since removing rows must not free the slot
of a run that executes, and soundness keeps it from doing so. `SlotExclusive` is also
what covers two *versions* of one model that compete for a slot: the runs have two runs
of one version.

A second part adds what is remembered, in two inductions on top of `SafetyInv`.
`RecordInv` (`RecordInductive`): before the legacy installation is retired no run exists
and nobody is about to reserve; what an open transaction will commit `Grows` out of the
committed row (states go forward, captured output and the outcome of an ended run stay);
records are built before they are admitted, the active run of a target was admitted last, and the result row is a finished run's.
`AdmittedAlways`, `LatestResult` and the action property `OutputAlways` follow.
`IdentityInv` and `TidyInv` (`HistoryInductive`): a pass and a late call that see or patch
a Job under one resourceVersion mean one uid (`SameJob`), so that no call can enable a
Job whose uid the row does not hold; and unless a call was ever late a Job seen gone is
gone, so that a cleaned row has no Job, Secret or pod. Hence `Accounted`.
`SlotRefinement` maps initial states to initial states and every step to a step of
`BenchmarkSlot` or a stutter: `OnePhaseMoves` says that a step moves at most one run's
phase and then no pod, `PodChanges` that a pod that starts has its run in the slot.

**InstanceRegistry.** `TypeCorrect`, then `Invariant`: types, `NamesUnique`,
`AlertsHaveRows`, and `FencedFirst` (a deletion in progress has its row fenced). The
argument runs over one lemma, `RowSteps`: whatever the step, the table is unchanged,
saved with its fence and a free name, inserted into an unborn row, fenced, or removed
without alerts by a deletion. `UniqueNames`, `NoOrphanAlerts` and
`LifecycleImplemented` (the refinement of `InstanceLifecycle`: initial states map to
initial states, every `RowStep` to a step of the life cycle or a stutter) follow.
`FencedFirst` is needed for the last: without it the removal of a row would not be
known to start from a fenced one. The action property `WritesOwnColumns`
(`OwnColumnsOnly`) needs the types only: an UPDATE leaves every column alone that the
handler has not changed (`MergeLeaves`), and a worker that stands before a save can only
save or die (`AtSave`).

**Accounts.** `Inv` is the types with the rules of the tables, and for every client
`Placed` and `Finishing`. `Placed` says what a handler has at hand where it stands: a
completion keeps the role it read and counts the version up by one, an update that leaves
OIDC on was sent by someone who found it on. `Finishing` says what a completion has reached: the
links it listed belong to its account and are retired or still to be retired, and unless
it was overtaken the account's version is past the one it read. A step is one client's
(`Moves`), and what it does to the tables the others bear (`Grows`, `OthersFinish`): a
dead link stays dead, a row keeps its id, a version falls only with `overtaken`. So each
action has to be looked at for its own client only. `LastWord` and `NothingComesBack`
follow; the second from what a save can write (`MergeUser`, `MergeOidc`). The first was
once stated of every completion and agreed with TLC for three requests; the induction did
not go through at a save of a lower version, which is finding 1.

**Deployments.** Tables and cluster are one value, `World`, and `Inv` is `TypeOK`,
`Guarded` and `Routed` for it, and for every handler and task `Placed`. Neither
`CredentialsBehindIngress` nor the rest is inductive: a handler that cleans up may delete
what an Ingress names, and one that writes an Ingress may name what is gone. `Placed` says
what a handler has in hand where it stands:
- new credentials (`Holds`) are named by no Ingress; once the Middleware is written they
  are `Good` for the Ingress that will name them, as long as the row is calm;
- new credentials that are withdrawn (`Withdraws`) are named by no Ingress, or by one whose
  PUT was repeated (`Vouched`);
- old credentials that are about to be cleaned up (`Retires`) are named by no Ingress any
  more, since the write that dropped them went through under the resource version read;
- an Ingress that has the version read has the content read (`ReadOnce`), so that kept
  credentials are still the ones it names when the write is accepted;
- the manifests left are in their order (`Ordered`), the Deployment read is the one there
  is (`Worked`), and who overlaps with the route has come later than the look (`Looked`).

Credentials in one handler's hold are in no other's, neither new nor old (`Apart`), as
every name is drawn once. What a step may do to the world while another handler waits is
`Bears`: versions grow, Secrets that are good stay so unless the step has them to spend, and
an Ingress names only Secrets it has named or the step has to give. So each action is
looked at for its own handler only, and Kubernetes' garbage collector and the end of a
namespace for nobody's. `CredentialsStay` and `RoutesPermitted` follow, the second with an action property about the step that writes an HTTP route. `DeletionComplete` has an
argument of its own over what a deletion found: as long as it was alone, what remains
under the name is what it has still to delete. The attempt to prove `CredentialsStay` showed
that the property was wrong where four requests meet, one more than TLC's bound (section 5,
a Secret with a stale owner): `by` was the row of the last writer, and is now the row for
which the credentials were written.

**Platform.** One invariant for the composition (`PlatformInductive`), in two layers. The
lower one, `BaseInv`, is what every step keeps whatever the tables say: types, with the
locals that each place of a handler needs (`Fits`), one installer per process
(`InstallsExclusive`), and `FlowInv` (`AcceptedHaveTokens`: only one handler is at work on
a submission, which nobody has been told about). Its lemmas also say what moves: a step
moves one handler at most, within its component, and changes this component's tables
and objects only. With that the upper layer is proved component by component.
- `SpaceInv` (`PodsHaveTokens`): while a workspace is calm, one handler at most is at
  work on it, its StatefulSet has a row or is being created, there is none while tokens
  are drawn or taken away, and the keys that an upgrade found missing stay missing until
  it draws them. A StatefulSet is younger than every pod that it did not make.
- `ProfileInv` (`CredentialsCurrent`): `SyncedIsCurrent` alone is not inductive. An edit
  may commit a version over rows that it has not read; a synchronization may withdraw a
  mark for a version that is no longer the profile's. `EditInv` says that an edit holds the
  profile's row and knows every unmarked credential, `SyncInv` that a synchronization holds
  it, has read the current version, and that the objects of what it will report as done
  hold that version; `RowInv`, that a credential is inserted by the handler that made its
  Secret. `Leaves(x)` is what any step of a handler leaves to the others, and with it each
  step has to be looked at once only (`ProfileKept`).

**Repository.** `NothingLost` proves `NothingLostUnasked` by counting. A move removes a
source because it has seen its copy a moment ago, and by then another move may be about to
remove the copy for the same reason; that moves do not lose a content between them, but where
a user has agreed to replace it (section 5), is not seen from one operation. The invariant, `CoverInv`, is `Covered`: of a content that nobody
has forgone there are more `Copies` in the bucket than there are removals `Owed` by moves
under way, since each move has put a copy where there was none before it owes one. A step
`Spares`, `Doubles` or `Settles` (`StepFair`): it takes no copy and owes none more, adds a copy
and a debt, or pays a debt with a copy; or somebody has agreed. `Agreed` says that who is about
to write over an object has been told of it, and that what is copied is still somewhere.

**Console.** A behaviour stays in its area, so each part of the backend and each area of
the tab has an induction of its own (`AreaSteps`), and TLC checks the invariants on the
instance of the run. The theorems about the tab have no bound on the requests under way.
`ConsolePagesProofs` holds the last three, of the pages that show what a server has.
- `WholeSchemaServed`: a process `Relies` on what it has seen to so far: past the creation
  on every table, past a migration on its columns. What keeps that true beside the others
  is that every step `Grows` the database, adding columns of entities only
  (`GrowthKeeps`); `MigrationSteps` goes through `init_db()`.
- `BridgeLosesNothing`: `UpwardInOrder` and `DownwardInOrder` relate where a task stands to
  what it has taken and given and to the ends; `HandlerInOrder` says who may have been
  cancelled: a task is cancelled only because the other one has ended, and why that one
  ended is what `BridgeDelivers` excuses.
- `CreatorsAreAuthors`: a call that is past the check cannot touch a creator's tag, or
  creates under its own name (`Passed`); what it is stays the same over its retries.
- `LogKeepsNewest`: what a report is about to delete is `Replaced` by enough newer events or
  was exposed to it (`DeletesSafely`); the second half counts the reports that are `Owing`
  a prune for an event still there, which is what pays for each event too many.
  `NewestAreFew` is the counting: each of the newest has another number above it.
- `KeysStayCurrent`: a document on its way is no older than its request, the cached one no
  older than the time it has used up (`CheckOk`, `CacheOk`).
- `IdentityIsSent`: a request was sent with the token in use, or with one that has expired
  since (`Borne`), so that whatever cookie its answer leaves stands for the same user
  (`CookieLeft`, `SettledBorne`); the logout timer belongs to the token in use.
- `HandedOver`: of an upload, a request and a deployment, each holds what it has brought to
  the folder so far (`UploadsStay`, `RequestsStay`, `CreatedStay`), or another panel has
  spoilt the name; who has not handled a hand-over has not followed it (`VisitedOnce`).
- `TableStaysRight`: a row is `LoadedRight`, by a load under way that has read it after all
  writes, or `WrittenRight`: it `Agrees` with the server's but for the columns that answers
  under way will bring, no two of which are about one column (`ApartIn`), and each of which
  `Says` what the server has. `AnswerJoins` and `AnswerLeaves` are the two steps that matter.
- `TimersAlwaysRun` joins four areas. Of the session it is part of the invariant above. An
  interval that is not set while a workspace is pending or unframed will be set by a flow
  that `Renews` it (`IntervalComes`); a page of a run waits or has a request (`StatusComes`);
  what a row of models or the logs wait for is under way and heard of (`CardComes`, `LogsComes`).
- `NewestStaysShown`: on the Profile page nothing told is older than what is shown, and no
  two statuses or actions are under way (`InOrder`, `OneAtATime`). On the MLflow page
  whatever is not right has a request that `Corrects` it or a flow that waits (`Waits`,
  `ToldRight`, `FrameRight`), and an answer that is current is right but for an installation
  that has ended since (`AnswersRight`). A refused write corrects nothing, and the theorem
  excepts what the page could not know (`outdated`) and the frame its own load has removed
  (`unframed`).
- `FormsMatch`: while nobody else has written, a save is the only request of its section
  that is heard (`OneSave`), so that answers hold what is kept (`AnswersKept`); an endpoint
  has one request at a time, and a save under way was `Permitted` for the endpoint and the
  policy as they are (`OneForEndpoint`, `Known`). The attempt to prove it showed that the
  property was wrong by one act more than TLC's bound: a test message that is sent from a
  page since left may be served after another administrator has saved. The ghost `tested`
  now speaks of messages to a page that is still there, and a run with `MaxActs = 4` agrees.
- `PagesOwn` joins six areas. An instance's page that was not opened over unanswered
  refreshes or saves, and that no refresh after an action on another instance's model has
  met, waits only for answers of its own (`AnswersOwn`). The backend measures
  an inference by counters it reads before and after: while a request is alone each snapshot
  taken is the counters as they stood, short of it once it has run (`Measured`, `Ran`), and
  so is the difference, from whichever of the two sources it was read (`OneIsReported`). A
  text under way to a file was made from that file (`FileRequest`, `Stored`), and the editor
  awaits no content but its own (`Editing`). A configuration pane awaits one file at a time
  (`OneAsked`), of the model it is at. The page of a run and the frame of a workspace come
  from the inductions above.

**Only model-checked:** the four liveness properties `EventuallyCleaned`, `EventuallyShown`,
`UpgradeEnds` and `RepositoryFollows` (fairness is out of the prover's reach). Every
invariant and every other property of a passing run has its theorem.

## 5. What the code does not guarantee

No property claims these, and where a property comes near one it excepts it by name.

*Performance runs and instances.* A Job created by a late call after the deletion of its
predecessor leaves a run that no pass can finish ("manual investigation required");
`perf_live` has no late calls, the safety runs do. `status()` picks its latest run by
`created_at`, which is drawn when the record is built and not under the lock that admits
the run: when two requests cross, it may show another run than the one whose result is
stored, and `ResultIsLatest` says no more than that. `assigned_instances` is written as
a whole, so concurrent changes may be lost. `instances.py:6` says that `create_instance`
raises `ConflictError` on a duplicate URL or name: the name has a unique index, but the
URL is looked up before the insert (`instances.py:79`), so that two requests may give
two instances one URL. Registering a URL under a new name does not rename the instance
in users' lists.

*Accounts.* A completion or registration that saves the credential version it read, plus
one, may lower it again after others have counted on (finding 1); `CompletionIsFinal`
excepts those over whose row that happened (`overtaken`). An update of the OIDC settings
that is sent while OIDC is on, and crosses an administrator who switches it off,
switches it on again without a preflight: `update_settings` selects the row again after
the connection test and writes `oidc_enabled` from the request
(`oidc/config.py:135-136`), although `oidc_settings.py:8-9` says that enabling goes
through the preflight. `PreflightOnly` excepts exactly that. Two simultaneous
completions of one link, or a crash between its commits, may use it twice
(docs/security.md:56-57 calls it single-use); `CompletionIsFinal` speaks of what follows
a completion.

*Deployments and repositories.* A deletion that crosses the queued task leaves objects
without a row. An access update that has read the old Deployment's uid, and is crossed
by deletion and new creation of the name, creates a Secret with that uid as its owner
(`access.py:168`). Later updates of the new deployment that keep the password keep the
Secret, until the garbage collector removes it behind the Ingress:
`CredentialsBehindIngress` speaks of credentials written for a row that no deletion has
touched. "Only definitive rejections permit deleting new credentials"
(`access.py:213-214`), but a rejection need not be one of the write that was sent: the
API client of `kubernetes_client.py:29` keeps `urllib3`'s retries, which repeat a PUT
whose answer is lost. If the first was carried out, the repeat gets 409 for its old
`resourceVersion`, and `access.py:215-216` deletes the Secret that the Ingress now
names, and with it its Middleware. `CredentialsBehindIngress` excepts it (`repeated`),
and without the exception TLC finds it with one request and one fault. A repeated POST
does not happen, and a repeated DELETE finds nothing, which the code bears. `aws s3
sync` without `--exact-timestamps` does not notice a change of equal size
(docs/deployment.md:388), except in files the script rewrites. A polling Triton may scan
`/models` between the wipe and the copy.

*Platform.* A failed installation of MLflow repeated with another profile keeps the old
pod's storage; a profile may be edited between its look-up and its use by an
installation; a crash during an installation leaves "creating"; uninstalling takes no
lock. The install lock is per process: a pod may keep one upgrade's token behind
another's checksum. Repeated or concurrent creation of one workspace rotates tokens
under a running pod; a half-deleted workspace makes every upgrade fail. Deleting a
credential does not look for workflows that use it, and a synchronization may create its
ConfigMap again. A submission whose outcome is unknown loses its Secret although the
workflow may exist; a crash leaves the Secret. `urllib3` may repeat an idempotent
request through the Kubernetes API. Pruning of the error log may delete a new event.
The latencies of an inference are differences of counters others change as well.

*Objects.* Two opposite concurrent moves of equal content may remove both
(docs/development-workspaces.md:377-378); a saved file is looked at again after the user
was asked; the browser's deletions ask for no version. `NothingLostUnasked` speaks of
contents, not of keys.

*Frontend.* Answers to a refresh or a save of one instance's page are merged into the
store of the next one; so is the refresh that an action on a model asks for when it is
answered (`instance-detail-page.component.ts:607`), even if it is answered after its
page was left. On the MLflow page a load that found no installation waits for the
profiles and then removes the frame, although another load may have shown an
installation that is ready meanwhile (`mlflow-page.component.ts:120-125`): the frame is
missing until the user reloads (`unframed`). A deletion of MLflow that fails half way
(`installer.py:128-141`) leaves the row, and the page what it was told before, "ready"
if that was it; a page that is not "creating" asks no more (`outdated`). The endpoint
form lets a user name with a blank, a password of more than 72 bytes, and the page of a
new deployment also a name without letters or digits and a poll interval of 0 through,
which the server then refuses (`schemas/deployment_access.py:47-61`,
`schemas/deployment.py:38-39`, `:83-89`, `:145-156`); `FormsMatchServer` speaks of the
rules both have. A failed load of a file or a configuration leaves an editor that can be
saved; a route change keeps the configuration pane. A late answer of a save or a
creation navigates wherever the user has gone. The users page rewrites assignments from
the row it shows. A page that is polled goes on after it was destroyed, if a poll was
under way. A refresh of the session in flight may log a fresh login out, or put a cookie
back; automatic logout is undone by the cookie. On the settings page a reload that
crosses a save shows the older settings. A message to a hidden webview is lost. Two
deploy panels of one name overwrite each other's upload. A deployment page keeps its
synchronization mode when the image is replaced, which is not modelled.

## 6. Not modelled

- Conversions and texts: Kubernetes manifests, `config.pbtxt` parsing, tensors, the
  `perf_analyzer` command line, e-mail, HTML and cookie rewriting by the MLflow proxy,
  the body of an Argo manifest. They are pure functions; a unit test reaches them.
- Tables of routes and permissions: constants that are looked up.
- HTTP routes, schemas and mappers: they call the services one to one.
- Dialogs, dashboard, workflow and account pages, and the table, filter and chart
  components of the frontend: one request at a time from something that is blocked
  meanwhile, or no request at all.
- The extension's tree view, scaffolding, Hugging Face builder and HTML.
- Authlib's authorization-code exchange, protobuf stubs, charts, scripts, examples.

## 7. Plan

- An abstract specification "a record and its resources" that `Deployments`,
  `S3Profiles` and `Workspaces` implement when nobody interferes.
