-------------------------- MODULE InstanceRegistry --------------------------
(***************************************************************************)
(* The rows of triton_instances, their health and the dashboard's alerts:  *)
(* triton-backend/app/services/triton/{instances,health}.py.               *)
(*                                                                         *)
(* Registering, updating, deploying and deleting an instance are requests; *)
(* the health refresher of every backend process visits all instances in a *)
(* cycle.  Each of them loads a row, waits for a Triton server (or for     *)
(* Kubernetes) and writes the row later, without a lock: what it has       *)
(* loaded may be old by then.  An UPDATE of the ORM writes the columns     *)
(* whose new value differs from the one that was loaded, and no other.     *)
(***************************************************************************)
EXTENDS Integers

CONSTANTS
  Ids,          \* row ids, each given out once
  Names, Urls,
  PendingUrl,   \* pending_url(): the URL of a deployment's service, by its name
  S3Ids,        \* rows with a configured S3 connection
  Requests,     \* request handlers
  Refreshers,   \* InstanceHealthRefresher tasks, one per backend process
  None,         \* no row, no name, no URL
  MaxRequests,  \* bound: requests begun
  MaxChanges,   \* bound: changes of a server's state
  MaxCrashes    \* bound: crashes of a process

Workers == Requests \cup Refreshers

ASSUME NoneAssumption   == None \notin Ids \cup Names \cup Urls
ASSUME WorkerAssumption == Requests \cap Refreshers = {}
ASSUME UrlAssumption    == PendingUrl \in [Names -> Urls]
ASSUME S3Assumption     == S3Ids \subseteq Ids
ASSUME BoundAssumption  == {MaxRequests, MaxChanges, MaxCrashes} \subseteq Nat

VARIABLES
  row,       \* the committed rows of triton_instances
  assigned,  \* UserEntity.assigned_instances of the user who registers
  alerts,    \* the table dashboard_alerts
  server,    \* how the Triton server behind a URL answers
  pc, local, \* what a worker does next, and its local variables
  cycle,     \* of a refresher: what its cycle has still to visit, and found
  begun, changes, crashes

boundVars == <<begun, changes, crashes>>
vars == <<row, assigned, alerts, server, pc, local, cycle, begun, changes, crashes>>

-----------------------------------------------------------------------------
(* The data.  live and ready are one flag, up; models is what the          *)
(* repository index said: nothing, all available, or some unavailable.     *)

Row == [state : {"unborn", "live", "gone"}, name : Names \cup {None},
        url : Urls \cup {None}, fenced : BOOLEAN, managed : BOOLEAN,
        up : BOOLEAN, models : {"none", "ok", "bad"}]
NewRow == [state |-> "unborn", name |-> None, url |-> None, fenced |-> FALSE,
           managed |-> FALSE, up |-> FALSE, models |-> "none"]

(* starting: the pod of a deployment is not ready, or Kubernetes cannot be *)
(* asked; bad: the server answers and reports a model as unavailable.  An  *)
(* answer is blank if the server is up and its index could not be read.    *)
Servers == {"starting", "down", "up", "bad"}
Answers == Servers \cup {"blank"}

Up(answer)     == answer \in {"up", "bad", "blank"}
Models(answer) == IF answer = "up" THEN "ok" ELSE IF answer = "bad" THEN "bad" ELSE "none"

Alert == [id : Ids, name : Names, kind : {"warning", "sync_problem", "cloud_off"}]
Local == [id : Ids \cup {None}, name : Names \cup {None}, url : Urls \cup {None},
          managed : BOOLEAN, base : Row, answer : Answers, list : SUBSET Names]
NoLocal == [id |-> None, name |-> None, url |-> None, managed |-> FALSE,
            base |-> NewRow, answer |-> "down", list |-> {}]
Cycle == [todo : SUBSET Ids, found : SUBSET Alert, doomed : SUBSET Alert]
NoCycle == [todo |-> {}, found |-> {}, doomed |-> {}]

DelPc  == {"del_name", "del_users", "del_commit", "del_alerts",
           "rec_fence", "rec_alerts", "rec_users", "rec_save", "del_row"}
NewPc  == {"assign_load", "assign_save", "apply_load", "apply_save"}
RowPc  == DelPc \cup NewPc \cup {"reg_save", "upd_probe", "upd_save",
                                "pods", "probe", "load", "save", "reload"}
NamePc == NewPc \cup {"reg_probe", "reg_find", "reg_save", "insert",
                     "del_users", "del_commit", "del_alerts", "rec_save"}
UrlPc  == NewPc \cup {"reg_probe", "reg_find", "reg_save", "insert",
                     "upd_probe", "upd_save", "pods", "probe"}
Pc     == {"idle", "next", "replace"} \cup RowPc \cup NamePc

(* What a worker knows where it is. *)
WellPlaced(label, l) ==
  /\ label \in RowPc  => l.id # None
  /\ label \in NamePc => l.name # None
  /\ label \in UrlPc  => l.url # None

RowTypeOK ==
  /\ row \in [Ids -> Row]
  /\ \A i \in Ids : row[i].state = "live" => row[i].name # None /\ row[i].url # None

WorkerTypeOK ==
  /\ pc \in [Workers -> Pc]
  /\ local \in [Workers -> Local]
  /\ \A w \in Workers : WellPlaced(pc[w], local[w])
  /\ cycle \in [Workers -> Cycle]

TypeOK ==
  /\ RowTypeOK
  /\ assigned \in SUBSET Names
  /\ alerts \in SUBSET Alert
  /\ server \in [Urls -> Servers]
  /\ WorkerTypeOK
  /\ {begun, changes, crashes} \subseteq Nat

Init ==
  /\ row = [i \in Ids |-> NewRow]
  /\ assigned = {}
  /\ alerts = {}
  /\ server \in [Urls -> {"down", "up"}]
  /\ pc = [w \in Workers |-> "idle"]
  /\ local = [w \in Workers |-> NoLocal]
  /\ cycle = [w \in Workers |-> NoCycle]
  /\ begun = 0 /\ changes = 0 /\ crashes = 0

Live(i)     == row[i].state = "live"
HasUrl(u)   == {i \in Ids : Live(i) /\ row[i].url = u}
HasName(n)  == {i \in Ids : Live(i) /\ row[i].name = n}

-----------------------------------------------------------------------------
(* Steps of a worker. *)

At(w, label)      == pc[w] = label
Goto(w, label, l) == pc' = [pc EXCEPT ![w] = label] /\ local' = [local EXCEPT ![w] = l]

(* The handler is over: answered, refused, or ended by an exception. *)
ToIdle(w) == Goto(w, "idle", NoLocal)

(* The ORM writes all columns of the object it holds. *)
BadMerge_WholeRow(cur, base, new) == new

(* UPDATE: only the columns that were changed since they were loaded. *)
Written(cur, base, new) == IF new = base THEN cur ELSE new

Merge(cur, base, new) ==
  [state   |-> cur.state,
   name    |-> Written(cur.name, base.name, new.name),
   url     |-> Written(cur.url, base.url, new.url),
   fenced  |-> Written(cur.fenced, base.fenced, new.fenced),
   managed |-> Written(cur.managed, base.managed, new.managed),
   up      |-> Written(cur.up, base.up, new.up),
   models  |-> Written(cur.models, base.models, new.models)]

(* The unique index on name. *)
NameFree(i, n) == HasName(n) \subseteq {i}

(* commit() of a changed object: StaleDataError when the row is gone,      *)
(* IntegrityError when its new name is taken.                              *)
CanSave(i, merged) == Live(i) /\ NameFree(i, merged.name)

(* save() in a request: the changed row, or an error that ends it. *)
SaveOr(w, new, label) ==
  LET i == local[w].id
      merged == Merge(row[i], local[w].base, new)
  IN IF CanSave(i, merged)
     THEN row' = [row EXCEPT ![i] = merged] /\ Goto(w, label, local[w])
     ELSE row' = row /\ ToIdle(w)

(* save() as the last thing a request does. *)
SaveAndEnd(w, new) ==
  LET i == local[w].id
      merged == Merge(row[i], local[w].base, new)
  IN /\ row' = IF CanSave(i, merged) THEN [row EXCEPT ![i] = merged] ELSE row
     /\ ToIdle(w)

Begin(w) ==
  /\ w \in Requests /\ At(w, "idle")
  /\ begun < MaxRequests
  /\ begun' = begun + 1

-----------------------------------------------------------------------------
(* create_instance(): ask the server, look for the URL and the name, then  *)
(* update the row that has the URL or insert a new one.                    *)

(* A request without a name is taken as it is. *)
BadRegister_NoName(w, n, u) ==
  /\ Begin(w)
  /\ Goto(w, "reg_probe", [NoLocal EXCEPT !.url = u])
  /\ UNCHANGED <<row, assigned, alerts, server, cycle, changes, crashes>>

Register(w, n, u) ==
  /\ Begin(w)
  /\ Goto(w, "reg_probe", [NoLocal EXCEPT !.name = n, !.url = u])
  /\ UNCHANGED <<row, assigned, alerts, server, cycle, changes, crashes>>

(* A server that is not ready in time, or whose index cannot be read, ends *)
(* the request.                                                            *)
ProbeOr(w, label) ==
  LET u == local[w].url
  IN \/ /\ Up(server[u])
        /\ Goto(w, label, [local[w] EXCEPT !.answer = server[u]])
     \/ ToIdle(w)

RegisterProbe(w) ==
  /\ At(w, "reg_probe")
  /\ ProbeOr(w, "reg_find")
  /\ UNCHANGED <<row, assigned, alerts, server, cycle, boundVars>>

RegisterFind(w) ==
  LET l == local[w]
  IN /\ At(w, "reg_find")
     /\ \/ \E i \in HasUrl(l.url) :
             IF HasName(l.name) \subseteq {i}
             THEN Goto(w, "reg_save", [l EXCEPT !.id = i, !.base = row[i]])
             ELSE ToIdle(w)
        \/ /\ HasUrl(l.url) = {}
           /\ IF HasName(l.name) = {} THEN Goto(w, "insert", l) ELSE ToIdle(w)
     /\ UNCHANGED <<row, assigned, alerts, server, cycle, boundVars>>

RegisterSave(w) ==
  LET l == local[w]
  IN /\ At(w, "reg_save")
     /\ SaveOr(w, [l.base EXCEPT !.name = l.name, !.up = Up(l.answer),
                                 !.models = Models(l.answer)], "assign_load")
     /\ UNCHANGED <<assigned, alerts, server, cycle, boundVars>>

(* The check that was made earlier is all there is. *)
BadCanInsert_NoIndex(n) == TRUE

CanInsert(n) == HasName(n) = {}

Insert(w) ==
  LET l == local[w]
  IN /\ At(w, "insert")
     /\ \/ /\ CanInsert(l.name)
           /\ \E i \in Ids :
                /\ row[i].state = "unborn"
                /\ row' = [row EXCEPT ![i] =
                     [NewRow EXCEPT !.state = "live", !.name = l.name, !.url = l.url,
                                    !.managed = l.managed, !.up = Up(l.answer),
                                    !.models = Models(l.answer)]]
                /\ Goto(w, "assign_load", [l EXCEPT !.id = i])
        \/ ~CanInsert(l.name) /\ row' = row /\ ToIdle(w)
     /\ UNCHANGED <<assigned, alerts, server, cycle, boundVars>>

(* The row is reloaded, which fails if it is gone.  The commit has expired *)
(* the user too: the list is read again, and written back as a whole.      *)
AssignLoad(w) ==
  /\ At(w, "assign_load")
  /\ IF Live(local[w].id)
     THEN Goto(w, "assign_save", [local[w] EXCEPT !.list = assigned])
     ELSE ToIdle(w)
  /\ UNCHANGED <<row, assigned, alerts, server, cycle, boundVars>>

AssignSave(w) ==
  LET l == local[w]
  IN /\ At(w, "assign_save")
     /\ assigned' = IF l.name \in l.list THEN assigned ELSE l.list \cup {l.name}
     /\ IF l.managed THEN Goto(w, "apply_load", l) ELSE ToIdle(w)
     /\ UNCHANGED <<row, alerts, server, cycle, boundVars>>

(* upsert_deployed_instance(): the row of a deployment.  Its resources are *)
(* applied in the background, which then writes the URL of the service     *)
(* again, or notes a failure.                                              *)
Deploy(w, n) ==
  /\ Begin(w)
  /\ HasName(n) = {} /\ HasUrl(PendingUrl[n]) = {}
  /\ Goto(w, "insert", [NoLocal EXCEPT !.name = n, !.url = PendingUrl[n], !.managed = TRUE])
  /\ UNCHANGED <<row, assigned, alerts, server, cycle, changes, crashes>>

ApplyLoad(w) ==
  LET l == local[w]
  IN /\ At(w, "apply_load")
     /\ \/ Live(l.id) /\ Goto(w, "apply_save", [l EXCEPT !.base = row[l.id]])
        \/ ToIdle(w)
     /\ UNCHANGED <<row, assigned, alerts, server, cycle, boundVars>>

ApplySave(w) ==
  LET l == local[w]
  IN /\ At(w, "apply_save")
     /\ SaveAndEnd(w, [l.base EXCEPT !.url = l.url])
     /\ UNCHANGED <<assigned, alerts, server, cycle, boundVars>>

(* update_instance(): the row is loaded before the server is asked. *)
Update(w, i, u) ==
  /\ Begin(w)
  /\ Live(i) /\ HasUrl(u) \subseteq {i}
  /\ Goto(w, "upd_probe", [NoLocal EXCEPT !.id = i, !.url = u, !.base = row[i]])
  /\ UNCHANGED <<row, assigned, alerts, server, cycle, changes, crashes>>

UpdateProbe(w) ==
  /\ At(w, "upd_probe")
  /\ ProbeOr(w, "upd_save")
  /\ UNCHANGED <<row, assigned, alerts, server, cycle, boundVars>>

UpdateSave(w) ==
  LET l == local[w]
  IN /\ At(w, "upd_save")
     /\ SaveAndEnd(w, [l.base EXCEPT !.url = l.url, !.up = Up(l.answer),
                                     !.models = Models(l.answer)])
     /\ UNCHANGED <<assigned, alerts, server, cycle, boundVars>>

-----------------------------------------------------------------------------
(* delete_instance(): fence off new performance runs and wait for the old  *)
(* ones, remove the deployment (either may fail), then take the name from  *)
(* the user's list, the alerts and the row away, in three commits.         *)

Fence(i) == row' = [row EXCEPT ![i].fenced = TRUE]

Delete(w, i) ==
  /\ Begin(w)
  /\ Live(i)
  /\ Fence(i)
  /\ Goto(w, "del_name", [NoLocal EXCEPT !.id = i])
  /\ UNCHANGED <<assigned, alerts, server, cycle, changes, crashes>>

(* Runs are still being stopped, the deployment could not be removed, or   *)
(* another request has removed the row.                                    *)
DeleteRefused(w) ==
  /\ pc[w] \in {"del_name", "del_users", "rec_fence", "rec_alerts"}
  /\ ToIdle(w)
  /\ UNCHANGED <<row, assigned, alerts, server, cycle, boundVars>>

DeleteName(w) ==
  LET i == local[w].id
  IN /\ At(w, "del_name")
     /\ Live(i)
     /\ Goto(w, "del_users", [local[w] EXCEPT !.name = row[i].name])
     /\ UNCHANGED <<row, assigned, alerts, server, cycle, boundVars>>

DeleteUsers(w) ==
  /\ At(w, "del_users")
  /\ Goto(w, "del_commit", [local[w] EXCEPT !.list = assigned])
  /\ UNCHANGED <<row, assigned, alerts, server, cycle, boundVars>>

RemoveName(l) == assigned' = IF l.name \in l.list THEN l.list \ {l.name} ELSE assigned

DeleteCommit(w) ==
  LET l == local[w]
  IN /\ At(w, "del_commit")
     /\ RemoveName(l)
     /\ Goto(w, "del_alerts", l)
     /\ UNCHANGED <<row, alerts, server, cycle, boundVars>>

(* delete_for_instance() *)
AlertsWithout(i, n) == {a \in alerts : a.id # i /\ a.name # n}

(* Every commit expires the instance: a row that is gone is noticed when   *)
(* it is used next.                                                        *)
DeleteAlerts(w) ==
  LET l == local[w]
  IN /\ At(w, "del_alerts")
     /\ IF Live(l.id)
        THEN alerts' = AlertsWithout(l.id, l.name) /\ Goto(w, "del_row", l)
        ELSE alerts' = alerts /\ ToIdle(w)
     /\ UNCHANGED <<row, assigned, server, cycle, boundVars>>

(* delete_deployment_instance() and delete_instance_record(): fence, remove *)
(* the deployment, fence once more, then the alerts, the list and the row.  *)
DeleteDeployment(w, i) ==
  /\ Begin(w)
  /\ Live(i) /\ row[i].managed
  /\ Fence(i)
  /\ Goto(w, "rec_fence", [NoLocal EXCEPT !.id = i])
  /\ UNCHANGED <<assigned, alerts, server, cycle, changes, crashes>>

RecordFence(w) ==
  LET i == local[w].id
  IN /\ At(w, "rec_fence")
     /\ Live(i)
     /\ Fence(i)
     /\ Goto(w, "rec_alerts", local[w])
     /\ UNCHANGED <<assigned, alerts, server, cycle, boundVars>>

RecordAlerts(w) ==
  LET i == local[w].id
  IN /\ At(w, "rec_alerts")
     /\ Live(i)
     /\ alerts' = AlertsWithout(i, row[i].name)
     /\ Goto(w, "rec_users", local[w])
     /\ UNCHANGED <<row, assigned, server, cycle, boundVars>>

RecordUsers(w) ==
  LET i == local[w].id
  IN /\ At(w, "rec_users")
     /\ IF Live(i)
        THEN Goto(w, "rec_save", [local[w] EXCEPT !.name = row[i].name, !.list = assigned])
        ELSE ToIdle(w)
     /\ UNCHANGED <<row, assigned, alerts, server, cycle, boundVars>>

RecordSave(w) ==
  /\ At(w, "rec_save")
  /\ RemoveName(local[w])
  /\ Goto(w, "del_row", local[w])
  /\ UNCHANGED <<row, alerts, server, cycle, boundVars>>

Referenced(i) == \E a \in alerts : a.id = i

(* The foreign key of dashboard_alerts refuses the removal of a row that   *)
(* has got an alert since; the row stays, fenced.                          *)
DeleteRow(w) ==
  LET i == local[w].id
  IN /\ At(w, "del_row")
     /\ row' = IF Live(i) /\ ~Referenced(i) THEN [row EXCEPT ![i].state = "gone"] ELSE row
     /\ ToIdle(w)
     /\ UNCHANGED <<assigned, alerts, server, cycle, boundVars>>

-----------------------------------------------------------------------------
(* The refresher: _refresh_all_instances(). *)

InCycle(f, label) == f \in Refreshers /\ At(f, label)

CycleBegin(f) ==
  /\ InCycle(f, "idle")
  /\ cycle' = [cycle EXCEPT ![f] = [NoCycle EXCEPT !.todo = {i \in Ids : Live(i)}]]
  /\ Goto(f, "next", NoLocal)
  /\ UNCHANGED <<row, assigned, alerts, server, boundVars>>

RefreshRead(f) ==
  /\ InCycle(f, "next")
  /\ \E i \in cycle[f].todo :
       /\ cycle' = [cycle EXCEPT ![f].todo = @ \ {i}]
       /\ IF Live(i)
          THEN Goto(f, IF row[i].managed THEN "pods" ELSE "probe",
                    [NoLocal EXCEPT !.id = i, !.url = row[i].url])
          ELSE Goto(f, "next", NoLocal)
  /\ UNCHANGED <<row, assigned, alerts, server, boundVars>>

(* is_pod_ready() *)
RefreshPods(f) ==
  LET l == local[f]
  IN /\ InCycle(f, "pods")
     /\ IF server[l.url] = "starting"
        THEN Goto(f, "load", [l EXCEPT !.answer = "starting"])
        ELSE Goto(f, "probe", l)
     /\ UNCHANGED <<row, assigned, alerts, server, cycle, boundVars>>

(* collect_runtime_snapshot() and, if the server is up, the index. *)
Snapshots(u) ==
  IF Up(server[u]) THEN {server[u], "blank"} ELSE {"down"}

RefreshProbe(f) ==
  LET l == local[f]
  IN /\ InCycle(f, "probe")
     /\ \E a \in Snapshots(l.url) : Goto(f, "load", [l EXCEPT !.answer = a])
     /\ UNCHANGED <<row, assigned, alerts, server, cycle, boundVars>>

(* A new session reads the row again. *)
RefreshLoad(f) ==
  LET l == local[f]
  IN /\ InCycle(f, "load")
     /\ IF Live(l.id) THEN Goto(f, "save", [l EXCEPT !.base = row[l.id]])
        ELSE Goto(f, "next", NoLocal)
     /\ UNCHANGED <<row, assigned, alerts, server, cycle, boundVars>>

(* While the pod starts the columns may all be as they were: then nothing  *)
(* is written, and a row that is gone goes unnoticed.                      *)
RefreshSave(f) ==
  LET l == local[f]
      new == [l.base EXCEPT !.up = Up(l.answer), !.models = Models(l.answer)]
      merged == Merge(row[l.id], l.base, new)
  IN /\ InCycle(f, "save")
     /\ \/ /\ CanSave(l.id, merged)
           /\ row' = [row EXCEPT ![l.id] = merged]
           /\ Goto(f, "reload", l)
        \/ /\ ~CanSave(l.id, merged)
           /\ row' = row
           /\ Goto(f, "next", NoLocal)
        \/ /\ l.answer = "starting" /\ new = l.base
           /\ row' = row
           /\ Goto(f, "reload", l)
     /\ UNCHANGED <<assigned, alerts, server, cycle, boundVars>>

AlertFor(i, kind) == [id |-> i, name |-> row[i].name, kind |-> kind]

(* Health as it was probed, models as they are in the reloaded row, and    *)
(* whether the configured S3 connection answered.                          *)
Known(i, answer) == (IF Up(answer) THEN {} ELSE {"warning"})
               \cup (IF row[i].models = "bad" THEN {"sync_problem"} ELSE {})

AlertsFound(i, answer) ==
  IF answer = "starting" THEN {{}}
  ELSE {{AlertFor(i, k) : k \in Known(i, answer) \cup s3} :
          s3 \in SUBSET (IF i \in S3Ids THEN {"cloud_off"} ELSE {})}

(* save() reloads the row it has committed; when that fails, the cycle     *)
(* ends with an exception and the alerts stay as they were.                *)
RefreshReload(f) ==
  LET l == local[f]
  IN /\ InCycle(f, "reload")
     /\ IF Live(l.id)
        THEN /\ \E new \in AlertsFound(l.id, l.answer) :
                  cycle' = [cycle EXCEPT ![f].found = @ \cup new]
             /\ Goto(f, "next", NoLocal)
        ELSE cycle' = [cycle EXCEPT ![f] = NoCycle] /\ ToIdle(f)
     /\ UNCHANGED <<row, assigned, alerts, server, boundVars>>

(* replace_all(): DELETE removes the alerts it can see; the transaction    *)
(* commits with the new ones, unless one refers to a row that is gone.     *)
ReplaceBegin(f) ==
  /\ InCycle(f, "next") /\ cycle[f].todo = {}
  /\ cycle' = [cycle EXCEPT ![f].doomed = alerts]
  /\ Goto(f, "replace", NoLocal)
  /\ UNCHANGED <<row, assigned, alerts, server, boundVars>>

(* No foreign key stands in the way of old alerts. *)
BadCanReplace_NoForeignKey(f) == TRUE

CanReplace(f) == \A a \in cycle[f].found : Live(a.id)

(* The old alerts are not removed. *)
BadReplaceCommit_KeepsOld(f) ==
  /\ InCycle(f, "replace")
  /\ alerts' = IF CanReplace(f) THEN alerts \cup cycle[f].found ELSE alerts
  /\ cycle' = [cycle EXCEPT ![f] = NoCycle]
  /\ ToIdle(f)
  /\ UNCHANGED <<row, assigned, server, boundVars>>

ReplaceCommit(f) ==
  /\ InCycle(f, "replace")
  /\ alerts' = IF CanReplace(f) THEN (alerts \ cycle[f].doomed) \cup cycle[f].found
               ELSE alerts
  /\ cycle' = [cycle EXCEPT ![f] = NoCycle]
  /\ ToIdle(f)
  /\ UNCHANGED <<row, assigned, server, boundVars>>

-----------------------------------------------------------------------------
(* The world outside: servers come and go, processes die. *)

ServerChanges(u) ==
  /\ changes < MaxChanges
  /\ changes' = changes + 1
  /\ \E s \in Servers \ {server[u]} : server' = [server EXCEPT ![u] = s]
  /\ UNCHANGED <<row, assigned, alerts, pc, local, cycle, begun, crashes>>

Crash(w) ==
  /\ ~At(w, "idle")
  /\ crashes < MaxCrashes
  /\ crashes' = crashes + 1
  /\ cycle' = [cycle EXCEPT ![w] = NoCycle]
  /\ ToIdle(w)
  /\ UNCHANGED <<row, assigned, alerts, server, begun, changes>>

-----------------------------------------------------------------------------
(* The specification. *)

Request(w) ==
  \/ \E n \in Names, u \in Urls : Register(w, n, u)
  \/ \E n \in Names : Deploy(w, n)
  \/ \E i \in Ids, u \in Urls : Update(w, i, u)
  \/ \E i \in Ids : Delete(w, i) \/ DeleteDeployment(w, i)

Handle(w) ==
  \/ RegisterProbe(w) \/ RegisterFind(w) \/ RegisterSave(w) \/ Insert(w)
  \/ AssignLoad(w) \/ AssignSave(w) \/ ApplyLoad(w) \/ ApplySave(w)
  \/ UpdateProbe(w) \/ UpdateSave(w)
  \/ DeleteRefused(w) \/ DeleteName(w) \/ DeleteUsers(w) \/ DeleteCommit(w)
  \/ DeleteAlerts(w) \/ RecordFence(w) \/ RecordAlerts(w) \/ RecordUsers(w)
  \/ RecordSave(w) \/ DeleteRow(w)

Refresh(f) ==
  \/ CycleBegin(f) \/ RefreshRead(f) \/ RefreshPods(f) \/ RefreshProbe(f)
  \/ RefreshLoad(f) \/ RefreshSave(f) \/ RefreshReload(f)
  \/ ReplaceBegin(f) \/ ReplaceCommit(f)

Next ==
  \/ \E w \in Workers : Request(w) \/ Handle(w) \/ Refresh(w) \/ Crash(w)
  \/ \E u \in Urls : ServerChanges(u)

Spec == Init /\ [][Next]_vars

(* The refresher's loop never ends: an exception is logged and the next    *)
(* cycle begins.  Nothing is assumed of the requests.                      *)
FairSpec == Spec /\ \A f \in Refreshers : WF_vars(Refresh(f))

-----------------------------------------------------------------------------
(* Properties. *)

(* Two instances never have the same name, although create_instance() and  *)
(* upsert_deployed_instance() look for the name long before they write it, *)
(* and re-registering a URL renames its row.  Users are given instances by *)
(* name: a shared name would give away the other instance.                 *)
NamesUnique == \A i, j \in Ids :
  Live(i) /\ Live(j) /\ row[i].name = row[j].name => i = j

(* No alert of the dashboard refers to an instance that has been deleted,  *)
(* although replace_all() writes what a cycle found over many seconds in   *)
(* which delete_instance() may have removed rows.                          *)
AlertsHaveRows == \A a \in alerts : Live(a.id)

(* A save of one handler never takes back what another has committed: the  *)
(* refresher writes health only, update_instance() and the end of an apply *)
(* never the name, a new                                                   *)
(* registration never the URL, and only a deletion touches the fence -     *)
(* however old the row is that they hold.                                  *)
Untouched(i) ==
  [name |-> row[i].name, url |-> row[i].url, fenced |-> row[i].fenced,
   managed |-> row[i].managed, state |-> row[i].state]
WritesOwnColumns == [][
  \A w \in Workers, i \in Ids :
    /\ pc[w] \in {"save", "upd_save", "apply_save", "reg_save"} /\ pc'[w] # pc[w]
    => \/ pc[w] = "save" /\ Untouched(i)' = Untouched(i)
       \/ pc[w] \in {"upd_save", "apply_save"} /\ Untouched(i)' = [Untouched(i) EXCEPT !.url = row'[i].url]
       \/ pc[w] = "reg_save" /\ Untouched(i)' = [Untouched(i) EXCEPT !.name = row'[i].name]
  ]_vars

(* What an instance is to the rest of the system. *)
Phase(i) == IF Live(i) THEN IF row[i].fenced THEN "deleting" ELSE "live"
            ELSE row[i].state

Lifecycle == INSTANCE InstanceLifecycle
  WITH Instances <- Ids, inst <- [i \in Ids |-> Phase(i)]

(* The rows implement the life cycle that PerfJobs takes for granted: an   *)
(* instance is created once, fenced before it goes, never unfenced by a    *)
(* late save of update_instance() or of the refresher, and never back.     *)
ImplementsLifecycle == Lifecycle!Spec

(* A deletion in progress has its row fenced, and the row once existed:    *)
(* what the removal of the row relies on, whoever else writes it.          *)
FencedFirst == \A w \in Workers : pc[w] \in DelPc =>
  row[local[w].id].fenced /\ row[local[w].id].state # "unborn"

(* The inductive invariant. *)
RegistryInv == TypeOK /\ NamesUnique /\ AlertsHaveRows /\ FencedFirst

(* Ailing as the dashboard means it. *)
Ailing(i) == LET s == server[row[i].url]
             IN ~Up(s) /\ ~(s = "starting" /\ row[i].managed)

Shown(i) ==
  /\ row[i].up = Up(server[row[i].url])
  /\ {a \in alerts : a.id = i /\ a.kind = "warning"}
       = IF Ailing(i) THEN {AlertFor(i, "warning")} ELSE {}

(* Once the servers stop changing, the dashboard shows them as they are,   *)
(* under the names the instances have: every row's health is that of its   *)
(* server, and an instance has a warning if and only if it ails.           *)
EventuallyShown == <>[](\A i \in Ids : Live(i) => Shown(i))
=============================================================================
