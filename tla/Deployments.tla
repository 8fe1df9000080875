---------------------------- MODULE Deployments ----------------------------
(***************************************************************************)
(* Deployments of Triton on Kubernetes, and how they are exposed:          *)
(* triton-backend/app/services/deployment/.                                *)
(*                                                                         *)
(* Creating a deployment commits a row and queues a task that applies the  *)
(* resources one by one; deleting one removes them one by one and then the *)
(* row; changing its access writes a credentials Secret, the Middleware    *)
(* that reads it, the Ingress that names both, and cleans up what the old  *)
(* Ingress named.  Every call to the API server is a step of its own, may  *)
(* fail, and may fail after it was carried out.  All of them address       *)
(* resources by name.                                                      *)
(*                                                                         *)
(* What a manifest says is left out, except for the Ingress.  Columns of a *)
(* row are in InstanceRegistry, and here a row has a name and a status.    *)
(* The TLS certificate, the GPU runtime class and the IngressClass are     *)
(* read and refused like any other failing call.                           *)
(***************************************************************************)
EXTENDS Naturals, Sequences, FiniteSets

CONSTANTS
  Clients,      \* each has one request under way at most
  Ids,          \* ids of rows, each given out once; also names the row's task
  Names,
  Hosts,        \* short host names
  Domain,       \* TRITON_DEPLOY_BASE_DOMAIN, a sequence of labels
  Foreign,      \* Ingresses of others: [host, class]
  Secrets,      \* names of credentials Secrets, each given out once
  None,
  Seeds,        \* states to begin with
  MaxRequests,  \* bound: requests sent
  MaxFaults     \* bound: calls that fail and processes that die

ASSUME ProcsAssumption == Clients \cap Ids = {}
ASSUME BoundAssumption == {MaxRequests, MaxFaults} \subseteq Nat

VARIABLES
  inCluster,  \* is_running_in_cluster(): all deployments share its namespace
  rows,       \* the table triton_instances
  allowHttp,  \* the effective policy for endpoints
  registry,   \* there are registry credentials
  k8s,        \* the objects of a deployment, by name
  auth,       \* credentials Secrets, each with its Middleware
  clock,      \* number of writes; the resourceVersion of what was written
  pc, loc,    \* what a handler or task does next, and its local variables
  sent, faults

vars == <<inCluster, rows, allowHttp, registry, k8s, auth, clock, pc, loc, sent, faults>>

-----------------------------------------------------------------------------
(* The data. *)

Procs == Clients \cup Ids

(* calm: history, no deletion has touched the name since the row is there. *)
Row == [state : {"unborn", "live", "gone"}, name : Names \cup {None},
        status : {"deploying", "applied", "failed"}, calm : BOOLEAN]

(* DeploymentAccessRequest.validate_access().  auth = "keep": no password. *)
Access == {r \in [host : Hosts \cup {None}, scheme : {"http", "https"}, auth : {"none", "new", "keep"}] :
             /\ r.host = None => r.auth = "none" /\ r.scheme = "https"
             /\ r.auth # "none" => r.scheme = "https"}

(* Full host names: in the administrator's domain, or there to begin with. *)
HostNames == {<<h>> \o Domain : h \in Hosts} \cup
             UNION {{s.k8s[n].ingress.host : n \in {m \in Names : s.k8s[m].ingress # None}} : s \in Seeds}

ASSUME NoneAssumption == None \notin Ids \cup Names \cup Hosts \cup Secrets \cup HostNames

(* An Ingress.  edited: the fields an access update has set.  by: history, *)
(* the row its credentials were written for; checked: history, the time of *)
(* its writer's look at the other Ingresses; repeated: history, the PUT    *)
(* that put its credentials there was carried out and then repeated.       *)
Ingress == [host : HostNames, scheme : {"http", "https"}, auth : Secrets \cup {None}, version : Nat,
            edited : SUBSET {"host", "scheme", "auth"}, by : Ids, checked : Nat, repeated : BOOLEAN]

(* The objects that carry one name.  dep is the uid of the Deployment;     *)
(* touched: history, the time something was written last.                  *)
Objects == [ns : {"absent", "active", "terminating"}, dep : Nat \cup {None}, service : BOOLEAN,
            s3 : BOOLEAN, pull : BOOLEAN, ingress : Ingress \cup {None}, touched : Nat]
NoObjects == [ns |-> "absent", dep |-> None, service |-> FALSE, s3 |-> FALSE, pull |-> FALSE,
              ingress |-> None, touched |-> 0]

(* ownerReferences of a Secret: the uid of a Deployment. *)
Auth == [state : {"unborn", "live", "gone"}, name : Names \cup {None}, owner : Nat \cup {None},
         middleware : BOOLEAN]
NoAuth == [state |-> "unborn", name |-> None, owner |-> None, middleware |-> FALSE]

Kinds == {"pull", "s3", "deployment", "service", "auth", "middleware", "ingress"}
Local == [id : Ids \cup {None}, name : Names \cup {None}, req : Access \cup {None},
          host : HostNames \cup {None}, pull : BOOLEAN, todo : Seq(Kinds), uid : Nat \cup {None},
          prev : Ingress \cup {None}, old : Secrets \cup {None}, keep : Secrets \cup {None},
          new : Secrets \cup {None}, checked : Nat, http : BOOLEAN, sweep : SUBSET Secrets, from : Nat]
NoLocal == [id |-> None, name |-> None, req |-> None, host |-> None, pull |-> FALSE, todo |-> <<>>,
            uid |-> None, prev |-> None, old |-> None, keep |-> None, new |-> None,
            checked |-> 0, http |-> FALSE, sweep |-> {}, from |-> 0]

Creating == {"create_check", "create_insert"}
Applying == {"queued", "apply_ns", "apply_check", "apply", "apply_failed"}
Deleting == {"delete", "delete_ns", "delete_sweep", "delete_record"}
Exposing == {"read_workload", "read_ingress", "read_retained", "check_host", "write_secret",
             "write_middleware", "validate_middleware", "write_ingress", "withdraw", "save_row", "cleanup"}

-----------------------------------------------------------------------------
(* Host names are sequences of labels; no label stands for any host. *)

(* A wildcard stands for one label. *)
Wild(w, h) == w[1] = "*" /\ Len(h) = Len(w) /\ Tail(h) = Tail(w)

HostsOverlap(first, second) ==
  \/ first = <<>> \/ second = <<>> \/ first = second
  \/ Wild(first, second) \/ Wild(second, first)

-----------------------------------------------------------------------------
(* What tables and cluster keep: names are unique; a live Secret belongs   *)
(* to a name, and only a live one has a Middleware; an Ingress was written *)
(* after its writer's look, and names a row and a Secret of its name.      *)
Related(rws, objects, auths, time) ==
  /\ \A i \in Ids : rws[i].state # "unborn" => rws[i].name \in Names
  /\ \A i, j \in Ids :
       rws[i].state = "live" /\ rws[j].state = "live" /\ rws[i].name = rws[j].name => i = j
  /\ \A s \in Secrets : /\ auths[s].state # "unborn" => auths[s].name \in Names
                        /\ auths[s].state # "live" => ~auths[s].middleware
  /\ \A n \in Names :
       LET g == objects[n].ingress
       IN /\ objects[n].touched <= time
          /\ g # None => /\ g.checked < g.version /\ g.version <= time
                        /\ rws[g.by].state # "unborn" /\ rws[g.by].name = n
                        /\ (g.auth # None => auths[g.auth].state # "unborn" /\ auths[g.auth].name = n)

(* The credentials that an Ingress names exist, in the care of nothing or  *)
(* of the Deployment, and a Middleware asks for them, while no deletion    *)
(* has touched the name since their row is there, unless the PUT that put  *)
(* them there was repeated.                                                *)
Guarded(rws, objects, auths) ==
  \A n \in Names :
    LET g == objects[n].ingress
    IN g # None => (g.auth # None /\ ~g.repeated /\ rws[g.by].state = "live" /\ rws[g.by].calm =>
                      /\ auths[g.auth].state = "live" /\ auths[g.auth].middleware
                      /\ auths[g.auth].owner \in {None, objects[n].dep})

(* Two routes overlap only if each writer looked before the other wrote.   *)
Routed(objects) ==
  \A n, m \in Names :
    LET g == objects[n].ingress
        h == objects[m].ingress
    IN n # m /\ g # None /\ h # None =>
         (HostsOverlap(g.host, h.host) => g.checked < h.version /\ h.checked < g.version)

ASSUME SeedsAssumption ==
  \A s \in Seeds :
    /\ s.rows \in [Ids -> Row] /\ s.k8s \in [Names -> Objects] /\ s.auth \in [Secrets -> Auth]
    /\ {s.inCluster, s.allowHttp} \subseteq BOOLEAN /\ {s.sent, s.faults} \subseteq Nat
    /\ Related(s.rows, s.k8s, s.auth, 1) /\ Guarded(s.rows, s.k8s, s.auth) /\ Routed(s.k8s)

(* The types of all variables, and what the tables keep.                   *)
TypeOK ==
  /\ rows \in [Ids -> Row] /\ k8s \in [Names -> Objects] /\ auth \in [Secrets -> Auth]
  /\ {inCluster, allowHttp, registry} \subseteq BOOLEAN
  /\ {clock, sent, faults} \subseteq Nat
  /\ pc \in [Procs -> {"idle"} \cup Creating \cup Applying \cup Deleting \cup Exposing]
  /\ loc \in [Procs -> Local]
  /\ Related(rows, k8s, auth, clock)

Init ==
  /\ \E s \in Seeds : /\ inCluster = s.inCluster /\ rows = s.rows /\ k8s = s.k8s /\ auth = s.auth
                      /\ allowHttp = s.allowHttp /\ sent = s.sent /\ faults = s.faults
  /\ registry = FALSE
  /\ clock = 1
  /\ pc = [p \in Procs |-> "idle"]
  /\ loc = [p \in Procs |-> NoLocal]

db      == <<rows, allowHttp, registry>>
cluster == <<k8s, auth, clock>>

-----------------------------------------------------------------------------
(* Host names and the policy. *)

(* resolve_hostname(): the administrator's domain, unless the short name   *)
(* is the one the deployment has.                                          *)
ResolveHostname(short, existing) ==
  IF short = None THEN None
  ELSE IF existing # None /\ existing[1] = short THEN existing ELSE <<short>> \o Domain

(* _may_share_controller(): only a controller known to be another's is not *)
(* in the way.                                                             *)
MayShareController(class) == class # "other"

(* validate_hostname_available() *)
HostnameAvailable(host, own) ==
  host # None =>
    /\ \A f \in Foreign : MayShareController(f.class) => ~HostsOverlap(host, f.host)
    /\ \A n \in Names : k8s[n].ingress # None /\ n # own => ~HostsOverlap(host, k8s[n].ingress.host)

(* validate_endpoint_policy(): an HTTP endpoint that exists may stay. *)
EndpointAllowed(host, scheme, prev) ==
  host = None \/ scheme = "https" \/ allowHttp
  \/ (prev # None /\ prev.scheme = "http" /\ prev.host = host)

-----------------------------------------------------------------------------
(* Handlers. *)

At(p, label)      == pc[p] = label
Goto(p, label, l) == /\ pc' = [pc EXCEPT ![p] = label]
                     /\ loc' = [loc EXCEPT ![p] = IF label = "idle" THEN NoLocal ELSE l]
End(p)            == Goto(p, "idle", NoLocal)

Begin(c) == c \in Clients /\ At(c, "idle") /\ sent < MaxRequests /\ sent' = sent + 1

(* A call: it is answered, it fails, or its answer is lost. *)
Call(p, done, answered, failed, l) ==
  \/ done /\ faults' = faults /\ Goto(p, answered, l)
  \/ /\ faults < MaxFaults /\ faults' = faults + 1
     /\ done \/ UNCHANGED cluster
     /\ Goto(p, failed, l)

Live == {i \in Ids : rows[i].state = "live"}
NewVersion == clock + 1

(* The objects of one name are written, with its namespace. *)
Writable(n) == k8s[n].ns = "active"
Writes(n, objects) ==
  /\ k8s' = [k8s EXCEPT ![n] = [objects EXCEPT !.touched = NewVersion]]
  /\ clock' = NewVersion

(* An owner that is gone takes along what it owns. *)
GarbageCollect(s) ==
  /\ auth[s].state = "live" /\ auth[s].owner # None
  /\ k8s[auth[s].name].dep # auth[s].owner
  /\ auth' = [auth EXCEPT ![s].state = "gone", ![s].middleware = FALSE]
  /\ UNCHANGED <<inCluster, db, k8s, clock, pc, loc, sent, faults>>

-----------------------------------------------------------------------------
(* create_deployment() *)

(* The request is resolved and checked: host name, policy, registry. *)
CreateDeployment(c) ==
  /\ Begin(c)
  /\ \E n \in Names, r \in Access :
       LET host == ResolveHostname(r.host, None)
       IN /\ r.auth # "keep"                          \* validate_policy(creating)
          /\ EndpointAllowed(host, r.scheme, None)
          /\ Goto(c, "create_check", [NoLocal EXCEPT !.name = n, !.req = r, !.host = host,
                                                     !.pull = registry])
  /\ UNCHANGED <<inCluster, db, cluster, faults>>

(* validate_new_hostname() *)
ValidateNewHostname(c) ==
  /\ At(c, "create_check")
  /\ IF HostnameAvailable(loc[c].host, None) THEN Goto(c, "create_insert", loc[c]) ELSE End(c)
  /\ UNCHANGED <<inCluster, db, cluster, sent, faults>>

(* upsert_deployed_instance(): a name that is taken is refused, and the    *)
(* task is queued.                                                         *)
UpsertDeployedInstance(c) ==
  /\ At(c, "create_insert")
  /\ IF \E i \in Live : rows[i].name = loc[c].name
     THEN rows' = rows /\ End(c)
     ELSE \E i \in Ids :
            /\ rows[i].state = "unborn"
            /\ rows' = [rows EXCEPT ![i] = [state |-> "live", name |-> loc[c].name,
                                            status |-> "deploying", calm |-> TRUE]]
            /\ pc' = [pc EXCEPT ![c] = "idle", ![i] = "queued"]
            /\ loc' = [loc EXCEPT ![c] = NoLocal, ![i] = [loc[c] EXCEPT !.id = i]]
  /\ UNCHANGED <<inCluster, allowHttp, registry, cluster, sent, faults>>

-----------------------------------------------------------------------------
(* apply_deployment_resources(), the queued task. *)

(* _manifests(): what is applied, in this order. *)
PullSecret(pull)   == IF pull THEN <<"pull">> ELSE <<>>
AccessManifests(r) ==
  IF r.host = None THEN <<>>
  ELSE IF r.auth = "none" THEN <<"ingress">> ELSE <<"auth", "middleware", "ingress">>
Manifests(r, pull) == PullSecret(pull) \o <<"s3", "deployment", "service">> \o AccessManifests(r)

(* The task trusts the check of the request that queued it. *)
BadApplyBegin_NoRecheck(i) ==
  /\ At(i, "queued")
  /\ Goto(i, "apply_ns", [loc[i] EXCEPT !.http = allowHttp])
  /\ UNCHANGED <<inCluster, db, cluster, sent, faults>>

(* The policy may have changed since the request was accepted. *)
ApplyBegin(i) ==
  /\ At(i, "queued")
  /\ Goto(i, IF EndpointAllowed(loc[i].host, loc[i].req.scheme, None) THEN "apply_ns" ELSE "apply_failed",
          [loc[i] EXCEPT !.http = allowHttp])
  /\ UNCHANGED <<inCluster, db, cluster, sent, faults>>

(* _ensure_namespace(): in the cluster there is one already, and one that   *)
(* is terminating exists as well.                                          *)
EnsureNamespace(i) ==
  LET n == loc[i].name
  IN /\ At(i, "apply_ns")
     /\ IF k8s[n].ns = "absent"
        THEN Call(i, Writes(n, [k8s[n] EXCEPT !.ns = "active"]) /\ auth' = auth,
                  "apply_check", "apply_failed", loc[i])
        ELSE Goto(i, "apply_check", loc[i]) /\ UNCHANGED <<cluster, faults>>
     /\ UNCHANGED <<inCluster, db, sent>>

(* The host name is not looked for again. *)
BadApplyCheck_NoRecheck(i) ==
  /\ At(i, "apply_check")
  /\ Goto(i, "apply", [loc[i] EXCEPT !.todo = Manifests(loc[i].req, loc[i].pull), !.checked = clock])
  /\ UNCHANGED <<inCluster, db, cluster, sent, faults>>

(* The second check of the host name; a call that fails is recorded like a *)
(* refusal.                                                                *)
ApplyCheck(i) ==
  LET l == [loc[i] EXCEPT !.todo = Manifests(loc[i].req, loc[i].pull), !.checked = clock]
  IN /\ At(i, "apply_check")
     /\ IF HostnameAvailable(loc[i].host, None)
        THEN Call(i, UNCHANGED cluster, "apply", "apply_failed", l)
        ELSE Goto(i, "apply_failed", l) /\ UNCHANGED <<cluster, faults>>
     /\ UNCHANGED <<inCluster, db, sent>>

(* Server-side apply of an Ingress: a field that an access update has set  *)
(* to something else is a conflict; what an earlier task has applied is    *)
(* replaced.                                                               *)
IngressConflict(g, l) ==
  /\ g # None
  /\ \/ "host" \in g.edited /\ g.host # l.host
     \/ "scheme" \in g.edited /\ g.scheme # l.req.scheme
     \/ "auth" \in g.edited /\ l.new # None
ApplyIngress(g, l) ==
  LET kept == g # None /\ "auth" \in g.edited
  IN [host |-> l.host, scheme |-> l.req.scheme, version |-> NewVersion, checked |-> l.checked,
      edited |-> IF g = None THEN {} ELSE g.edited,
      auth |-> IF kept THEN g.auth ELSE l.new, by |-> IF kept THEN g.by ELSE l.id,
      repeated |-> kept /\ g.repeated]

(* A credentials Secret is written under a name of its own. *)
CreateSecret(p, n, owner, answered, failed) ==
  \E s \in Secrets :
    /\ auth[s].state = "unborn"
    /\ Call(p, /\ auth' = [auth EXCEPT ![s] = [state |-> "live", name |-> n, owner |-> owner,
                                               middleware |-> FALSE]]
               /\ Writes(n, k8s[n]),
            answered, failed, [loc[p] EXCEPT !.new = s, !.todo = IF @ = <<>> THEN @ ELSE Tail(@)])

(* create_auth_middleware(): reads the Secret that will own the Middleware.*)
CreateAuthMiddleware(p, answered, failed) ==
  LET s == loc[p].new
      n == loc[p].name
      l == [loc[p] EXCEPT !.todo = IF @ = <<>> THEN @ ELSE Tail(@)]
  IN IF auth[s].state = "live" /\ Writable(n)
     THEN Call(p, auth' = [auth EXCEPT ![s].middleware = TRUE] /\ Writes(n, k8s[n]), answered, failed, l)
     ELSE Goto(p, failed, l) /\ UNCHANGED <<cluster, faults>>

(* The next manifest.  The first call that fails ends the task, and what   *)
(* was applied stays.                                                      *)
ApplyNext(i) ==
  LET n == loc[i].name
      kind == Head(loc[i].todo)
      l == [loc[i] EXCEPT !.todo = Tail(@)]
      refused == Goto(i, "apply_failed", loc[i]) /\ UNCHANGED <<cluster, faults>>
      apply(objects) == Call(i, Writes(n, objects) /\ auth' = auth, "apply", "apply_failed", l)
  IN /\ At(i, "apply") /\ loc[i].todo # <<>>
     /\ CASE ~Writable(n)          -> refused
          [] Writable(n) /\ kind \in {"pull", "s3", "service"} -> apply([k8s[n] EXCEPT ![kind] = TRUE])
          [] Writable(n) /\ kind = "deployment" ->
               apply([k8s[n] EXCEPT !.dep = IF @ = None THEN NewVersion ELSE @])
          [] Writable(n) /\ kind = "auth"       -> CreateSecret(i, n, None, "apply", "apply_failed")
          [] Writable(n) /\ kind = "middleware" -> CreateAuthMiddleware(i, "apply", "apply_failed")
          [] Writable(n) /\ kind = "ingress"    ->
               IF IngressConflict(k8s[n].ingress, loc[i]) THEN refused
               ELSE apply([k8s[n] EXCEPT !.ingress = ApplyIngress(k8s[n].ingress, loc[i])])
     /\ UNCHANGED <<inCluster, db, sent>>

(* _patch(): the outcome goes into the row, if there still is one. *)
Patch(i, status) ==
  /\ rows' = IF rows[i].state = "live" THEN [rows EXCEPT ![i].status = status] ELSE rows
  /\ End(i)
  /\ UNCHANGED <<inCluster, allowHttp, registry, cluster, sent, faults>>

(* update_instance_after_apply(), record_deployment_failure() *)
UpdateInstanceAfterApply(i) == At(i, "apply") /\ loc[i].todo = <<>> /\ Patch(i, "applied")
RecordDeploymentFailure(i)  == At(i, "apply_failed") /\ Patch(i, "failed")

-----------------------------------------------------------------------------
(* delete_deployment_instance() *)

(* Deletion touches the name, whoever has it by now. *)
Disturb(n) == rows' = [i \in Ids |-> IF rows[i].name = n THEN [rows[i] EXCEPT !.calm = FALSE] ELSE rows[i]]

(* prepare_instance_deletion() is in PerfJobs. *)
DeleteDeployment(c) ==
  /\ Begin(c)
  /\ \E i \in Live :
       LET n == rows[i].name
       IN /\ Disturb(n)
          /\ Goto(c, IF inCluster THEN "delete" ELSE "delete_ns",
                  [NoLocal EXCEPT !.id = i, !.name = n, !.from = k8s[n].touched,
                                  !.todo = <<"deployment", "service", "s3", "pull", "ingress">>])
  /\ UNCHANGED <<inCluster, allowHttp, registry, cluster, faults>>

(* delete_deployment_resources(): one after the other, absent ones are     *)
(* passed over, and an error ends the request with the row in place.       *)
Without(objects, kind) ==
  CASE kind = "deployment" -> [objects EXCEPT !.dep = None]
    [] kind = "ingress"    -> [objects EXCEPT !.ingress = None]
    [] OTHER               -> [objects EXCEPT ![kind] = FALSE]
DeleteNext(c) ==
  LET n == loc[c].name
  IN /\ At(c, "delete") /\ loc[c].todo # <<>>
     /\ Call(c, /\ k8s' = [k8s EXCEPT ![n] = Without(@, Head(loc[c].todo))]
                /\ UNCHANGED <<auth, clock>>,
             "delete", "idle", [loc[c] EXCEPT !.todo = Tail(@)])
     /\ Disturb(n)
     /\ UNCHANGED <<inCluster, allowHttp, registry, sent>>

(* The Secrets that are only known by their label are left. *)
BadDeleteList_NoSweep(c) ==
  /\ At(c, "delete") /\ loc[c].todo = <<>>
  /\ Goto(c, "delete_record", loc[c])
  /\ UNCHANGED <<inCluster, db, cluster, sent, faults>>

(* All Secrets that carry the label of the deployment. *)
DeleteList(c) ==
  /\ At(c, "delete") /\ loc[c].todo = <<>>
  /\ Goto(c, "delete_sweep", [loc[c] EXCEPT !.sweep =
       {s \in Secrets : auth[s].state = "live" /\ auth[s].name = loc[c].name}])
  /\ UNCHANGED <<inCluster, db, cluster, sent, faults>>

Gone(s) == IF auth[s].state = "live"
           THEN [auth EXCEPT ![s].state = "gone", ![s].middleware = FALSE] ELSE auth

DeleteSweep(c) ==
  /\ At(c, "delete_sweep")
  /\ IF loc[c].sweep = {}
     THEN Goto(c, "delete_record", loc[c]) /\ UNCHANGED <<cluster, faults>>
     ELSE \E s \in loc[c].sweep :
            Call(c, auth' = Gone(s) /\ UNCHANGED <<k8s, clock>>, "delete_sweep", "idle",
                 [loc[c] EXCEPT !.sweep = @ \ {s}])
  /\ Disturb(loc[c].name)
  /\ UNCHANGED <<inCluster, allowHttp, registry, sent>>

(* delete_namespace(): carried out later. *)
DeleteNamespace(c) ==
  LET n == loc[c].name
  IN /\ At(c, "delete_ns")
     /\ Call(c, /\ k8s' = [k8s EXCEPT ![n].ns = IF @ = "active" THEN "terminating" ELSE @]
                /\ UNCHANGED <<auth, clock>>,
             "delete_record", "idle", loc[c])
     /\ Disturb(n)
     /\ UNCHANGED <<inCluster, allowHttp, registry, sent>>

NamespaceGone(n) ==
  /\ k8s[n].ns = "terminating"
  /\ k8s' = [k8s EXCEPT ![n] = [NoObjects EXCEPT !.touched = k8s[n].touched]]
  /\ auth' = [s \in Secrets |-> IF auth[s].name = n /\ auth[s].state = "live"
                                THEN [auth[s] EXCEPT !.state = "gone", !.middleware = FALSE] ELSE auth[s]]
  /\ Disturb(n)
  /\ UNCHANGED <<inCluster, allowHttp, registry, clock, pc, loc, sent, faults>>

(* delete_instance_record(): fails if the row is gone. *)
DeleteInstanceRecord(c) ==
  /\ At(c, "delete_record")
  /\ rows' = IF loc[c].id \in Live THEN [rows EXCEPT ![loc[c].id].state = "gone"] ELSE rows
  /\ End(c)
  /\ UNCHANGED <<inCluster, allowHttp, registry, cluster, sent, faults>>

-----------------------------------------------------------------------------
(* update_access() *)

UpdateAccess(c) ==
  /\ Begin(c)
  /\ \E i \in Live, r \in Access :
       Goto(c, "read_workload", [NoLocal EXCEPT !.id = i, !.name = rows[i].name, !.req = r,
                                                !.http = allowHttp])
  /\ UNCHANGED <<inCluster, db, cluster, faults>>

(* The workload has to exist: its creation may still be queued. *)
ReadWorkload(c) ==
  /\ At(c, "read_workload")
  /\ LET uid == k8s[loc[c].name].dep
     IN IF uid = None THEN End(c) ELSE Goto(c, "read_ingress", [loc[c] EXCEPT !.uid = uid])
  /\ UNCHANGED <<inCluster, db, cluster, sent, faults>>

(* _read_ingress(); the host name and the policy depend on what there is. *)
ReadIngress(c) ==
  LET prev == k8s[loc[c].name].ingress
      host == ResolveHostname(loc[c].req.host, IF prev = None THEN None ELSE prev.host)
  IN /\ At(c, "read_ingress")
     /\ IF EndpointAllowed(host, loc[c].req.scheme, prev)
        THEN Goto(c, "read_retained", [loc[c] EXCEPT !.prev = prev, !.host = host,
                                                     !.old = IF prev = None THEN None ELSE prev.auth])
        ELSE End(c)
     /\ UNCHANGED <<inCluster, db, cluster, sent, faults>>

(* Without a password the Secret that is in use is retained, if it is the  *)
(* deployment's own.                                                       *)
ReadRetained(c) ==
  LET s == loc[c].old
  IN /\ At(c, "read_retained")
     /\ CASE loc[c].req.auth # "keep" -> Goto(c, "check_host", loc[c])
          [] loc[c].req.auth = "keep" /\ s # None /\ auth[s].state = "live" /\ auth[s].name = loc[c].name ->
               Goto(c, "check_host", [loc[c] EXCEPT !.keep = s])
          [] OTHER -> End(c)
     /\ UNCHANGED <<inCluster, db, cluster, sent, faults>>

CheckHost(c) ==
  /\ At(c, "check_host")
  /\ IF HostnameAvailable(loc[c].host, IF loc[c].prev = None THEN None ELSE loc[c].name)
     THEN Goto(c, CASE loc[c].req.auth = "none" -> "write_ingress"
                    [] loc[c].req.auth = "new"  -> "write_secret"
                    [] loc[c].req.auth = "keep" -> "validate_middleware",
               [loc[c] EXCEPT !.checked = clock])
     ELSE End(c)
  /\ UNCHANGED <<inCluster, db, cluster, sent, faults>>

(* Owned by the Deployment that was read. *)
WriteSecret(c) ==
  /\ At(c, "write_secret")
  /\ IF Writable(loc[c].name)
     THEN CreateSecret(c, loc[c].name, loc[c].uid, "write_middleware", "idle")
     ELSE End(c) /\ UNCHANGED <<cluster, faults>>
  /\ UNCHANGED <<inCluster, db, sent>>

(* A failure withdraws the Secret, and with it the Middleware it owns. *)
WriteMiddleware(c) ==
  /\ At(c, "write_middleware")
  /\ CreateAuthMiddleware(c, "write_ingress", "withdraw")
  /\ UNCHANGED <<inCluster, db, sent>>

(* validate_auth_middleware() *)
ValidateMiddleware(c) ==
  /\ At(c, "validate_middleware")
  /\ IF auth[loc[c].keep].middleware THEN Goto(c, "write_ingress", loc[c]) ELSE End(c)
  /\ UNCHANGED <<inCluster, db, cluster, sent, faults>>

(* What the request makes of the Ingress it has read. *)
Exposed(l) ==
  LET g == [host |-> l.host, scheme |-> l.req.scheme, version |-> NewVersion,
            by |-> IF l.req.auth = "keep" THEN l.prev.by ELSE l.id,
            checked |-> l.checked, auth |-> IF l.req.auth = "keep" THEN l.keep ELSE l.new]
      changed == {f \in {"host", "scheme", "auth"} : l.prev = None \/ l.prev[f] # g[f]}
      was == IF l.prev = None THEN {} ELSE l.prev.edited
  IN IF l.host = None THEN None
     ELSE [host |-> g.host, scheme |-> g.scheme, version |-> g.version, by |-> g.by, checked |-> g.checked,
           auth |-> g.auth, repeated |-> l.req.auth = "keep" /\ l.prev.repeated,
           edited |-> {f \in was \cup changed : f = "auth" => g.auth # None}]

(* Created if there was none; replaced or deleted in the version read. *)
IngressUnchanged(n, prev) ==
  /\ Writable(n)
  /\ IF prev = None THEN k8s[n].ingress = None
     ELSE k8s[n].ingress # None /\ k8s[n].ingress.version = prev.version

(* Credentials are withdrawn whenever the write seems to have failed. *)
BadWriteIngress_AlwaysWithdraws(c) ==
  LET n == loc[c].name
  IN /\ At(c, "write_ingress")
     /\ IF IngressUnchanged(n, loc[c].prev)
        THEN Call(c, Writes(n, [k8s[n] EXCEPT !.ingress = Exposed(loc[c])]) /\ auth' = auth,
                  "save_row", "withdraw", loc[c])
        ELSE Goto(c, "withdraw", loc[c]) /\ UNCHANGED <<cluster, faults>>
     /\ UNCHANGED <<inCluster, db, sent>>

(* A definitive rejection withdraws new credentials; after any other error *)
(* they stay, because the write may have been carried out.  urllib3 repeats *)
(* a PUT, not a POST, whose answer is lost: the version has moved, and the *)
(* repeat is rejected although the first has been carried out.             *)
WriteIngress(c) ==
  LET n == loc[c].name
      g == Exposed(loc[c])
      rejected == Goto(c, "withdraw", loc[c]) /\ UNCHANGED cluster
      rejectedRepeat ==
        /\ loc[c].prev # None /\ g # None
        /\ Writes(n, [k8s[n] EXCEPT !.ingress = [g EXCEPT !.repeated = @ \/ loc[c].new # None]])
        /\ auth' = auth /\ Goto(c, "withdraw", loc[c])
  IN /\ At(c, "write_ingress")
     /\ CASE loc[c].prev = None /\ loc[c].host = None ->
               Goto(c, "save_row", loc[c]) /\ UNCHANGED <<cluster, faults>>
          [] loc[c].prev # None \/ loc[c].host # None ->
               IF IngressUnchanged(n, loc[c].prev)
               THEN \/ Call(c, Writes(n, [k8s[n] EXCEPT !.ingress = g]) /\ auth' = auth,
                            "save_row", "idle", loc[c])
                    \/ faults < MaxFaults /\ faults' = faults + 1 /\ (rejected \/ rejectedRepeat)
               ELSE rejected /\ faults' = faults
     /\ UNCHANGED <<inCluster, db, sent>>

(* _delete_secret() of what this request created. *)
Withdraw(c) ==
  LET s == loc[c].new
  IN /\ At(c, "withdraw")
     /\ IF s # None
        THEN Call(c, auth' = Gone(s) /\ UNCHANGED <<k8s, clock>>, "idle", "idle", loc[c])
        ELSE End(c) /\ UNCHANGED <<cluster, faults>>
     /\ UNCHANGED <<inCluster, db, sent>>

(* The row is saved before anything obsolete goes; it may be gone. *)
SaveRow(c) ==
  /\ At(c, "save_row")
  /\ IF loc[c].id \in Live THEN Goto(c, "cleanup", loc[c]) ELSE End(c)
  /\ UNCHANGED <<inCluster, db, cluster, sent, faults>>

(* _delete_secret() of what the old Ingress named. *)
Cleanup(c) ==
  LET s == loc[c].old
  IN /\ At(c, "cleanup")
     /\ IF s # None /\ s # loc[c].keep
        THEN Call(c, auth' = Gone(s) /\ UNCHANGED <<k8s, clock>>, "idle", "idle", loc[c])
        ELSE End(c) /\ UNCHANGED <<cluster, faults>>
     /\ UNCHANGED <<inCluster, db, sent>>

-----------------------------------------------------------------------------
(* Settings of the administrator.  http of a handler: history, HTTP was    *)
(* allowed at some time since it began.                                    *)

UpdatePolicy(c) ==
  /\ Begin(c)
  /\ allowHttp' = ~allowHttp
  /\ loc' = [p \in Procs |-> [loc[p] EXCEPT !.http = @ \/ (allowHttp' /\ pc[p] \notin {"idle", "queued"})]]
  /\ UNCHANGED <<inCluster, rows, registry, cluster, pc, faults>>

(* update_settings() of registry_settings *)
UpdateRegistry(c) ==
  /\ Begin(c)
  /\ registry' = ~registry
  /\ UNCHANGED <<inCluster, rows, allowHttp, cluster, pc, loc, faults>>

Crash(p) ==
  /\ ~At(p, "idle") /\ faults < MaxFaults
  /\ faults' = faults + 1
  /\ End(p)
  /\ UNCHANGED <<inCluster, db, cluster, sent>>

Create(c) == CreateDeployment(c) \/ ValidateNewHostname(c) \/ UpsertDeployedInstance(c)
Task(i)   == \/ ApplyBegin(i) \/ EnsureNamespace(i) \/ ApplyCheck(i) \/ ApplyNext(i)
             \/ UpdateInstanceAfterApply(i) \/ RecordDeploymentFailure(i)
Delete(c) == \/ DeleteDeployment(c) \/ DeleteNext(c) \/ DeleteList(c) \/ DeleteSweep(c)
             \/ DeleteNamespace(c) \/ DeleteInstanceRecord(c)
Expose(c) == \/ UpdateAccess(c) \/ ReadWorkload(c) \/ ReadIngress(c) \/ ReadRetained(c) \/ CheckHost(c)
             \/ WriteSecret(c) \/ WriteMiddleware(c) \/ ValidateMiddleware(c) \/ WriteIngress(c)
             \/ Withdraw(c) \/ SaveRow(c) \/ Cleanup(c)

Next ==
  \/ \E c \in Clients : Create(c) \/ Delete(c) \/ Expose(c) \/ UpdatePolicy(c) \/ UpdateRegistry(c)
  \/ \E i \in Ids : Task(i)
  \/ \E p \in Procs : Crash(p)
  \/ \E s \in Secrets : GarbageCollect(s)
  \/ \E n \in Names : NamespaceGone(n)

Spec == Init /\ [][Next]_vars

-----------------------------------------------------------------------------
(* Properties. *)

(* "Only definitive rejections permit deleting new credentials": as long   *)
(* as nobody deletes the deployment, the credentials that its Ingress      *)
(* names exist and a Middleware asks for them, whatever access updates,    *)
(* the queued task and lost answers come together.  Excepted are those of  *)
(* a PUT that urllib3 has repeated after it was carried out: the 409 of    *)
(* the repeat is taken as definitive, and they are deleted.                *)
CredentialsBehindIngress ==
  \A n \in Names :
    LET g == k8s[n].ingress
    IN g # None => (g.auth # None /\ ~g.repeated /\ rows[g.by].state = "live" /\ rows[g.by].calm =>
                      auth[g.auth].state = "live" /\ auth[g.auth].name = n /\ auth[g.auth].middleware)

(* "Creation checks before accepting the request and again before applying *)
(* resources": two overlapping routes come only from writers that each     *)
(* looked before the other had written.                                    *)
OverlapsOnlyRace == Routed(k8s)

(* "Disabling HTTP blocks new HTTP endpoints, transitions from HTTPS to    *)
(* HTTP, and hostname changes on HTTP endpoints", queued creations too: a  *)
(* new HTTP route is written by a handler during which HTTP was allowed.   *)
Http(g, host) == g # None /\ g.scheme = "http" /\ g.host = host
HttpIsPermitted ==
  [][\A n \in Names :
       LET g == k8s'[n].ingress
       IN g # None /\ g.scheme = "http" /\ ~Http(k8s[n].ingress, g.host) =>
            \E p \in Procs : loc[p].name = n /\ pc[p] \in {"apply", "write_ingress"} /\ loc[p].http]_vars

(* What is exposed is what the policy and the other routes allowed when it  *)
(* was written, although the look at both comes before the writing.         *)
RoutesArePermitted == []OverlapsOnlyRace /\ HttpIsPermitted

(* When a deployment's row goes and nothing was written under its name     *)
(* while it was deleted, none of its objects is left, those of failed      *)
(* tasks, failed access updates and failed deletions included.             *)
Nothing(n) ==
  \/ k8s[n].ns # "active"
  \/ /\ k8s[n] = [NoObjects EXCEPT !.ns = "active", !.touched = k8s[n].touched]
     /\ \A s \in Secrets : auth[s].state = "live" => auth[s].name # n
DeletionIsComplete ==
  [][\A i \in Ids : rows[i].state = "live" /\ rows'[i].state = "gone" =>
       \E c \in Clients : /\ pc[c] = "delete_record" /\ loc[c].id = i
                          /\ k8s[rows[i].name].touched = loc[c].from => Nothing(rows[i].name)]_vars
=============================================================================
