------------------------- MODULE DeploymentsProofs -------------------------
(***************************************************************************)
(* Proofs about Deployments: types, the credentials behind an Ingress, the *)
(* routes, and what a deletion leaves.                                     *)
(*                                                                         *)
(* Every handler stands at a place with local variables that fit it and    *)
(* with what it has read still true as far as it relies on it (Placed).    *)
(* Whatever the others do (Bears) leaves that true; so each step is looked *)
(* at for its own handler only.                                            *)
(***************************************************************************)
EXTENDS Deployments, SequenceTheorems, TLAPS

Pc == {"idle"} \cup Creating \cup Applying \cup Deleting \cup Exposing

(* Tables and cluster as one value. *)
Worlds == [rows : [Ids -> Row], k8s : [Names -> Objects], auth : [Secrets -> Auth], clock : Nat,
           http : BOOLEAN]
World  == [rows |-> rows, k8s |-> k8s, auth |-> auth, clock |-> clock, http |-> allowHttp]
Sound(w) == /\ Related(w.rows, w.k8s, w.auth, w.clock)
            /\ Guarded(w.rows, w.k8s, w.auth) /\ Routed(w.k8s)

Calm(w, i) == w.rows[i].state = "live" /\ w.rows[i].calm

(* An Ingress may name s, for a row whose name is n. *)
Good(w, s, n) == /\ w.auth[s].state = "live" /\ w.auth[s].name = n /\ w.auth[s].middleware
                 /\ w.auth[s].owner \in {None, w.k8s[n].dep}

Named(w, s) == \E n \in Names : w.k8s[n].ingress # None /\ w.k8s[n].ingress.auth = s

(* Named, and not by a PUT that was repeated. *)
Vouched(w, s) == \E n \in Names :
  w.k8s[n].ingress # None /\ w.k8s[n].ingress.auth = s /\ ~w.k8s[n].ingress.repeated

(* The order in which the access resources are applied. *)
Ordered(todo) ==
  \A k \in 1..Len(todo) :
    /\ todo[k] = "auth" => k + 1 \in 1..Len(todo) /\ todo[k + 1] = "middleware"
    /\ todo[k] = "middleware" => k + 1 = Len(todo) /\ todo[k + 1] = "ingress" /\ (k > 1 => todo[k - 1] = "auth")
    /\ todo[k] = "ingress" => k = Len(todo)

(* New credentials that no Ingress names yet. *)
Holds(at, l) == /\ l.new # None
                /\ \/ at = "apply" /\ l.todo # <<>>
                   \/ at \in {"write_middleware", "write_ingress"}

(* New credentials that go again: an Ingress names them only where the PUT *)
(* was repeated.                                                           *)
Withdraws(at, l) == at = "withdraw" /\ l.new # None

(* Old credentials that no Ingress names any more. *)
Retires(at, l) == at \in {"save_row", "cleanup"} /\ l.old # None /\ l.old # l.keep

(* What each group of places has in hand. *)
NotDrawn == Creating \cup {"queued", "apply_ns", "apply_check", "read_workload", "read_ingress",
                           "read_retained", "check_host", "write_secret",
                           "validate_middleware"}
Begun(p, at, l, w) ==
  /\ p \in Ids => at \in {"idle"} \cup Applying
  /\ p \in Clients => at \notin Applying
  /\ at # "idle" => l.name \in Names
  /\ at \in Applying \cup Deleting \cup Exposing =>
       l.id \in Ids /\ w.rows[l.id].state # "unborn" /\ w.rows[l.id].name = l.name
  /\ at \in Applying => l.id = p
  /\ at \in Creating \cup Applying =>
       /\ l.req \in Access /\ l.prev = None /\ l.old = None
       /\ l.req.host # None => l.host # None
  /\ at \in Exposing => l.req \in Access
  /\ at \in NotDrawn => l.new = None
  /\ l.new # None /\ at # "apply_failed" => w.auth[l.new].state # "unborn"
  /\ l.old # None => w.auth[l.old].state # "unborn"

(* The manifests that are left. *)
Manifested(at, l) ==
  at = "apply" =>
    /\ Ordered(l.todo)
    /\ \A k \in 1..Len(l.todo) : l.todo[k] = "ingress" => l.host # None
    /\ l.todo # <<>> =>
         /\ l.new # None => Head(l.todo) \in {"middleware", "ingress"}
         /\ Head(l.todo) = "middleware" => l.new # None

(* The Ingress that was read: a version stands for a content. *)
AfterRead == Exposing \ {"read_workload", "read_ingress"}
ReadOnce(at, l, w) ==
  /\ at \in {"read_workload", "read_ingress", "read_retained"} => l.keep = None
  /\ at \in AfterRead =>
       /\ l.old = IF l.prev = None THEN None ELSE l.prev.auth
       /\ l.prev # None =>
            /\ l.prev.version <= w.clock /\ w.rows[l.prev.by].state # "unborn" /\ w.rows[l.prev.by].name = l.name
            /\ LET g == w.k8s[l.name].ingress IN g # None /\ g.version = l.prev.version => g = l.prev
       /\ l.old # None => w.auth[l.old].name = l.name
       /\ at # "read_retained" => /\ l.keep = IF l.req.auth = "keep" THEN l.old ELSE None
                                  /\ l.req.auth = "keep" => l.old # None

(* The Deployment that was read is the one there is. *)
Worked(at, l, w) ==
  at \in Exposing \ {"read_workload"} => l.uid # None /\ (Calm(w, l.id) => w.k8s[l.name].dep = l.uid)

(* The policy allowed the route, or did at the time of the request. *)
Permitted(at, l, w) ==
  /\ at \in {"read_workload", "read_ingress"} /\ w.http => l.http
  /\ at \in AfterRead \cup {"apply_ns", "apply_check", "apply"} =>
       (l.host # None /\ l.req.scheme = "http" /\ ~(l.prev # None /\ Http(l.prev, l.host)) => l.http)

(* Who overlaps with the route has come later. *)
Looked(at, l, w) ==
  at \in {"write_secret", "write_middleware", "validate_middleware", "write_ingress", "apply"} =>
    /\ l.checked <= w.clock
    /\ l.host # None =>
         \A m \in Names : LET g == w.k8s[m].ingress
                          IN m # l.name /\ g # None /\ HostsOverlap(l.host, g.host) => g.version > l.checked

(* New credentials, and how far they are. *)
Held(at, l, w) ==
  /\ at = "write_secret" => l.req.auth = "new"
  /\ at = "write_middleware" => l.new # None
  /\ at \in {"write_middleware", "write_ingress"} /\ l.new # None => l.req.auth # "keep"
  /\ Holds(at, l) =>
       /\ w.auth[l.new].name = l.name
       /\ ~Named(w, l.new)
       /\ Calm(w, l.id) => w.auth[l.new].owner \in {None, w.k8s[l.name].dep}
       /\ at = "write_ingress" \/ (at = "apply" /\ Head(l.todo) = "ingress") =>
            (Calm(w, l.id) => Good(w, l.new, l.name))
  /\ Retires(at, l) => ~Named(w, l.old)
  /\ Withdraws(at, l) => ~Vouched(w, l.new)

(* A deletion: what it has removed is gone as long as nobody writes. *)
DelKinds == {"deployment", "service", "s3", "pull", "ingress"}
Absent(w, n, kind) == CASE kind = "deployment" -> w.k8s[n].dep = None
                        [] kind = "ingress" -> w.k8s[n].ingress = None
                        [] kind = "service" -> ~w.k8s[n].service
                        [] kind = "s3" -> ~w.k8s[n].s3
                        [] kind = "pull" -> ~w.k8s[n].pull
Bare(w, n) == \A kind \in DelKinds : Absent(w, n, kind)
Secreted(w, n) == {s \in Secrets : w.auth[s].state = "live" /\ w.auth[s].name = n}
Alone(l, w) == w.k8s[l.name].touched = l.from
Removed(at, l, w) ==
  /\ at \in Deleting => l.from <= w.clock
  /\ at = "delete" => /\ \A k \in 1..Len(l.todo) : l.todo[k] \in DelKinds
                      /\ Alone(l, w) => \A kind \in DelKinds :
                                          Absent(w, l.name, kind) \/ \E k \in 1..Len(l.todo) : l.todo[k] = kind
  /\ at = "delete_sweep" => /\ \A s \in l.sweep : w.auth[s].state # "unborn" /\ w.auth[s].name = l.name
                            /\ Alone(l, w) => Bare(w, l.name) /\ Secreted(w, l.name) \subseteq l.sweep
  /\ at = "delete_record" /\ Alone(l, w) =>
       w.k8s[l.name].ns # "active" \/ (Bare(w, l.name) /\ Secreted(w, l.name) = {})

Placed(p, at, l, w) ==
  /\ Begun(p, at, l, w) /\ Manifested(at, l) /\ ReadOnce(at, l, w) /\ Worked(at, l, w)
  /\ Permitted(at, l, w) /\ Looked(at, l, w) /\ Held(at, l, w) /\ Removed(at, l, w)

(* Nobody else knows of credentials that no Ingress names yet. *)
Apart(p) == Holds(pc[p], loc[p]) =>
  \A q \in Procs : /\ loc[q].old # loc[p].new
                   /\ q # p /\ pc[q] # "apply_failed" => loc[q].new # loc[p].new

(* The inductive invariant. *)
Inv == /\ TypeOK /\ Sound(World)
       /\ \A p \in Procs : Placed(p, pc[p], loc[p], World) /\ Apart(p)
       /\ \A i \in Ids : rows[i].state = "unborn" => pc[i] = "idle"

-----------------------------------------------------------------------------
(* What a step does to tables and cluster that the others bear.  Spent:     *)
(* the Secrets it deletes where no deletion is at work; given: the Secrets  *)
(* it lets an Ingress name that none has named.                             *)

(* Nothing appears under the name. *)
Fewer(w, v, n) ==
  /\ w.k8s[n].ns # "active" => v.k8s[n].ns # "active"
  /\ \A kind \in DelKinds : Absent(w, n, kind) => Absent(v, n, kind)
  /\ Secreted(v, n) \subseteq Secreted(w, n)

Bears(w, v, spent, given) ==
  /\ w.clock <= v.clock
  /\ \A i \in Ids : w.rows[i].state # "unborn" =>
       /\ v.rows[i].state # "unborn" /\ v.rows[i].name = w.rows[i].name
       /\ Calm(v, i) =>
            /\ Calm(w, i)
            /\ w.k8s[w.rows[i].name].dep # None => v.k8s[w.rows[i].name].dep = w.k8s[w.rows[i].name].dep
            /\ \A s \in Secrets \ spent : Good(w, s, w.rows[i].name) => Good(v, s, w.rows[i].name)
  /\ \A s \in Secrets : w.auth[s].state # "unborn" =>
       v.auth[s].state # "unborn" /\ v.auth[s].name = w.auth[s].name /\ v.auth[s].owner = w.auth[s].owner
  /\ \A n \in Names :
       LET g == w.k8s[n].ingress
           h == v.k8s[n].ingress
       IN h \notin {None, g} =>
            /\ h.version > w.clock
            /\ h.auth \in given \cup {None} \/ (g # None /\ h.auth = g.auth /\ (g.repeated => h.repeated))
  /\ \A n \in Names : \/ v.k8s[n].touched = w.k8s[n].touched /\ Fewer(w, v, n)
                      \/ v.k8s[n].touched > w.clock

LEMMA Symmetric ==
  ASSUME NEW a, NEW b, HostsOverlap(a, b)
  PROVE  HostsOverlap(b, a)
BY DEF HostsOverlap

(* What a handler relies on stays true when others move. *)
LEMMA NamedStay ==
  ASSUME NEW w \in Worlds, NEW v \in Worlds, NEW spent, NEW given, Bears(w, v, spent, given),
         NEW s \in Secrets, None \notin Secrets, Named(v, s), s \notin given
  PROVE  Named(w, s)
<1>1. PICK n \in Names : v.k8s[n].ingress # None /\ v.k8s[n].ingress.auth = s
  BY DEF Named
<1>2. w.k8s[n].ingress # None /\ w.k8s[n].ingress.auth = s
  BY <1>1 DEF Bears
<1> QED BY <1>2 DEF Named

LEMMA VouchedStay ==
  ASSUME NEW w \in Worlds, NEW v \in Worlds, NEW spent, NEW given, Bears(w, v, spent, given),
         NEW s \in Secrets, None \notin Secrets, Vouched(v, s), s \notin given
  PROVE  Vouched(w, s)
<1>1. PICK n \in Names : v.k8s[n].ingress # None /\ v.k8s[n].ingress.auth = s /\ ~v.k8s[n].ingress.repeated
  BY DEF Vouched
<1>2. w.k8s[n].ingress # None /\ w.k8s[n].ingress.auth = s /\ ~w.k8s[n].ingress.repeated
  <2>1. CASE v.k8s[n].ingress = w.k8s[n].ingress
    BY <1>1, <2>1
  <2>2. CASE v.k8s[n].ingress # w.k8s[n].ingress
    BY <1>1, <2>2 DEF Bears
  <2> QED BY <2>1, <2>2
<1> QED BY <1>2 DEF Vouched

LEMMA VouchedNamed ==
  ASSUME NEW w, NEW s, Vouched(w, s)
  PROVE  Named(w, s)
BY DEF Vouched, Named

LEMMA GoodStay ==
  ASSUME NEW w \in Worlds, NEW v \in Worlds, NEW spent, NEW given, Bears(w, v, spent, given),
         NEW i \in Ids, w.rows[i].state # "unborn", Calm(v, i)
  PROVE  /\ Calm(w, i)
         /\ w.k8s[w.rows[i].name].dep # None => v.k8s[w.rows[i].name].dep = w.k8s[w.rows[i].name].dep
         /\ \A s \in Secrets \ spent : Good(w, s, w.rows[i].name) => Good(v, s, w.rows[i].name)
BY DEF Bears

LEMMA BegunStay ==
  ASSUME NEW w \in Worlds, NEW v \in Worlds, NEW spent, NEW given, Bears(w, v, spent, given),
         NEW p, NEW at \in Pc, NEW l \in Local, Begun(p, at, l, w)
  PROVE  Begun(p, at, l, v)
<1>1. at \in Applying \cup Deleting \cup Exposing =>
        l.id \in Ids /\ v.rows[l.id].state # "unborn" /\ v.rows[l.id].name = l.name
  BY DEF Begun, Bears
<1>2. l.new # None /\ at # "apply_failed" => v.auth[l.new].state # "unborn"
  BY DEF Begun, Bears, Local
<1>3. l.old # None => v.auth[l.old].state # "unborn"
  BY DEF Begun, Bears, Local
<1> QED BY <1>1, <1>2, <1>3 DEF Begun

LEMMA ReadOnceStay ==
  ASSUME NEW w \in Worlds, NEW v \in Worlds, NEW spent, NEW given, Bears(w, v, spent, given),
         NEW p, NEW at \in Pc, NEW l \in Local, Begun(p, at, l, w), ReadOnce(at, l, w)
  PROVE  ReadOnce(at, l, v)
<1> SUFFICES ASSUME at \in AfterRead PROVE ReadOnce(at, l, v)
  BY DEF ReadOnce
<1>1. l.old = (IF l.prev = None THEN None ELSE l.prev.auth)
      /\ (at # "read_retained" => /\ l.keep = IF l.req.auth = "keep" THEN l.old ELSE None
                                  /\ l.req.auth = "keep" => l.old # None)
  BY DEF ReadOnce
<1>2. l.old # None => v.auth[l.old].name = l.name
  BY DEF ReadOnce, Bears, Begun, Local
<1>3. ASSUME l.prev # None
      PROVE  /\ l.prev.version <= v.clock /\ v.rows[l.prev.by].state # "unborn" /\ v.rows[l.prev.by].name = l.name
             /\ LET g == v.k8s[l.name].ingress IN g # None /\ g.version = l.prev.version => g = l.prev
  <2>1. l.prev \in Ingress /\ l.name \in Names
    BY <1>3 DEF Local, Begun, AfterRead, Exposing
  <2>2. l.prev.version <= w.clock /\ w.rows[l.prev.by].state # "unborn" /\ w.rows[l.prev.by].name = l.name
    BY <1>3 DEF ReadOnce
  <2>3. l.prev.version <= v.clock /\ v.rows[l.prev.by].state # "unborn" /\ v.rows[l.prev.by].name = l.name
    BY <2>1, <2>2 DEF Bears, Ingress, Worlds
  <2>4. LET g == w.k8s[l.name].ingress IN g # None /\ g.version = l.prev.version => g = l.prev
    BY <1>3 DEF ReadOnce
  <2>5. ASSUME v.k8s[l.name].ingress # None, v.k8s[l.name].ingress.version = l.prev.version
        PROVE  v.k8s[l.name].ingress = l.prev
    <3>1. v.k8s[l.name].ingress = w.k8s[l.name].ingress \/ v.k8s[l.name].ingress.version > w.clock
      BY <2>1, <2>5 DEF Bears
    <3> QED BY <2>1, <2>2, <2>4, <2>5, <3>1 DEF Ingress, Worlds
  <2> QED BY <2>3, <2>5
<1> QED BY <1>1, <1>2, <1>3 DEF ReadOnce

LEMMA WorkedStay ==
  ASSUME NEW w \in Worlds, NEW v \in Worlds, NEW spent, NEW given, Bears(w, v, spent, given),
         NEW p, NEW at \in Pc, NEW l \in Local, Begun(p, at, l, w), Worked(at, l, w)
  PROVE  Worked(at, l, v)
<1> SUFFICES ASSUME at \in Exposing \ {"read_workload"}, Calm(v, l.id)
             PROVE  v.k8s[l.name].dep = l.uid
  BY DEF Worked
<1>1. l.id \in Ids /\ w.rows[l.id].state # "unborn" /\ w.rows[l.id].name = l.name
  BY DEF Begun
<1>2. Calm(w, l.id) /\ (w.k8s[l.name].dep # None => v.k8s[l.name].dep = w.k8s[l.name].dep)
  BY <1>1, GoodStay
<1> QED BY <1>2 DEF Worked

LEMMA LookedStay ==
  ASSUME NEW w \in Worlds, NEW v \in Worlds, NEW spent, NEW given, Bears(w, v, spent, given),
         NEW at \in Pc, NEW l \in Local, Looked(at, l, w)
  PROVE  Looked(at, l, v)
<1> SUFFICES ASSUME at \in {"write_secret", "write_middleware", "validate_middleware", "write_ingress", "apply"}
             PROVE  Looked(at, l, v)
  BY DEF Looked
<1>1. l.checked <= w.clock /\ w.clock <= v.clock /\ l.checked \in Nat /\ w.clock \in Nat /\ v.clock \in Nat
  BY DEF Looked, Bears, Local, Worlds
<1>2. ASSUME l.host # None, NEW m \in Names, m # l.name, v.k8s[m].ingress # None,
             HostsOverlap(l.host, v.k8s[m].ingress.host)
      PROVE  v.k8s[m].ingress.version > l.checked
  <2>1. v.k8s[m].ingress = w.k8s[m].ingress \/ v.k8s[m].ingress.version > w.clock
    BY <1>2 DEF Bears
  <2>2. v.k8s[m].ingress.version \in Nat
    BY <1>2 DEF Worlds, Objects, Ingress
  <2>3. v.k8s[m].ingress = w.k8s[m].ingress => v.k8s[m].ingress.version > l.checked
    BY <1>2 DEF Looked
  <2> QED BY <1>1, <2>1, <2>2, <2>3
<1> QED BY <1>1, <1>2 DEF Looked

LEMMA HeldStay ==
  ASSUME NEW w \in Worlds, NEW v \in Worlds, NEW spent, NEW given, Bears(w, v, spent, given),
         NEW p, NEW at \in Pc, NEW l \in Local, Begun(p, at, l, w), Held(at, l, w), None \notin Secrets,
         Holds(at, l) => l.new \notin spent /\ l.new \notin given,
         Retires(at, l) => l.old \notin given,
         Withdraws(at, l) => l.new \notin given
  PROVE  Held(at, l, v)
<1>1. ASSUME Holds(at, l)
      PROVE  /\ v.auth[l.new].name = l.name
             /\ ~Named(v, l.new)
             /\ Calm(v, l.id) => v.auth[l.new].owner \in {None, v.k8s[l.name].dep}
             /\ at = "write_ingress" \/ (at = "apply" /\ Head(l.todo) = "ingress") =>
                  (Calm(v, l.id) => Good(v, l.new, l.name))
  <2>1. l.new \in Secrets /\ at # "apply_failed" /\ at \in Applying \cup Exposing
    BY <1>1 DEF Holds, Local, Applying, Exposing
  <2>2. /\ w.auth[l.new].state # "unborn" /\ l.id \in Ids /\ w.rows[l.id].state # "unborn"
        /\ w.rows[l.id].name = l.name
    BY <2>1 DEF Begun
  <2>3. v.auth[l.new].name = w.auth[l.new].name /\ v.auth[l.new].owner = w.auth[l.new].owner
    BY <2>1, <2>2 DEF Bears
  <2>4. w.auth[l.new].name = l.name /\ ~Named(w, l.new)
    BY <1>1 DEF Held
  <2>5. ~Named(v, l.new)
    BY <1>1, <2>1, <2>4, NamedStay
  <2>6. ASSUME Calm(v, l.id)
        PROVE  /\ v.auth[l.new].owner \in {None, v.k8s[l.name].dep}
               /\ at = "write_ingress" \/ (at = "apply" /\ Head(l.todo) = "ingress") => Good(v, l.new, l.name)
    <3>1. /\ Calm(w, l.id)
          /\ w.k8s[l.name].dep # None => v.k8s[l.name].dep = w.k8s[l.name].dep
          /\ Good(w, l.new, l.name) => Good(v, l.new, l.name)
      BY <1>1, <2>1, <2>2, <2>6, GoodStay
    <3>2. w.auth[l.new].owner \in {None, w.k8s[l.name].dep}
      BY <1>1, <3>1 DEF Held
    <3>3. at = "write_ingress" \/ (at = "apply" /\ Head(l.todo) = "ingress") => Good(w, l.new, l.name)
      BY <1>1, <3>1 DEF Held
    <3> QED BY <2>3, <3>1, <3>2, <3>3
  <2> QED BY <2>3, <2>4, <2>5, <2>6
<1>2. ASSUME Retires(at, l) PROVE ~Named(v, l.old)
  <2>1. l.old \in Secrets /\ ~Named(w, l.old)
    BY <1>2 DEF Retires, Local, Held
  <2> QED BY <1>2, <2>1, NamedStay
<1>3. ASSUME Withdraws(at, l) PROVE ~Vouched(v, l.new)
  <2>1. l.new \in Secrets /\ ~Vouched(w, l.new)
    BY <1>3 DEF Withdraws, Local, Held
  <2> QED BY <1>3, <2>1, VouchedStay
<1> QED BY <1>1, <1>2, <1>3 DEF Held

LEMMA RemovedStay ==
  ASSUME NEW w \in Worlds, NEW v \in Worlds, NEW spent, NEW given, Bears(w, v, spent, given),
         NEW p, NEW at \in Pc, NEW l \in Local, Begun(p, at, l, w), Removed(at, l, w)
  PROVE  Removed(at, l, v)
<1> SUFFICES ASSUME at \in Deleting PROVE Removed(at, l, v)
  BY DEF Removed, Deleting
<1>1. l.name \in Names /\ l.from <= w.clock /\ l.from <= v.clock
  BY DEF Begun, Deleting, Removed, Bears, Worlds, Local
<1>2. ASSUME Alone(l, v) PROVE Alone(l, w) /\ Fewer(w, v, l.name)
  BY <1>1, <1>2 DEF Alone, Bears, Worlds, Local, Objects
<1>3. Alone(l, v) => \A kind \in DelKinds : Absent(w, l.name, kind) => Absent(v, l.name, kind)
  BY <1>2 DEF Fewer
<1>4. at = "delete_sweep" => \A s \in l.sweep : v.auth[s].state # "unborn" /\ v.auth[s].name = l.name
  BY DEF Removed, Bears, Local
<1>5. at = "delete" => /\ \A k \in 1..Len(l.todo) : l.todo[k] \in DelKinds
                       /\ Alone(l, v) => \A kind \in DelKinds :
                             Absent(v, l.name, kind) \/ \E k \in 1..Len(l.todo) : l.todo[k] = kind
  BY <1>2, <1>3 DEF Removed
<1>6. at = "delete_sweep" /\ Alone(l, v) => Bare(v, l.name) /\ Secreted(v, l.name) \subseteq l.sweep
  BY <1>2, <1>3 DEF Removed, Fewer, Bare
<1>7. at = "delete_record" /\ Alone(l, v) =>
        v.k8s[l.name].ns # "active" \/ (Bare(v, l.name) /\ Secreted(v, l.name) = {})
  BY <1>2, <1>3 DEF Removed, Fewer, Bare
<1> QED BY <1>1, <1>4, <1>5, <1>6, <1>7 DEF Removed

LEMMA PlacedStay ==
  ASSUME NEW w \in Worlds, NEW v \in Worlds, NEW spent, NEW given, Bears(w, v, spent, given), v.http = w.http,
         NEW p, NEW at \in Pc, NEW l \in Local, Placed(p, at, l, w), None \notin Secrets,
         Holds(at, l) => l.new \notin spent /\ l.new \notin given,
         Retires(at, l) => l.old \notin given,
         Withdraws(at, l) => l.new \notin given
  PROVE  Placed(p, at, l, v)
<1>1. Begun(p, at, l, w) /\ Manifested(at, l) /\ ReadOnce(at, l, w) /\ Worked(at, l, w)
      /\ Permitted(at, l, w) /\ Looked(at, l, w) /\ Held(at, l, w) /\ Removed(at, l, w)
  BY DEF Placed
<1>2. Begun(p, at, l, v) BY <1>1, BegunStay
<1>3. ReadOnce(at, l, v) BY <1>1, ReadOnceStay
<1>4. Worked(at, l, v) BY <1>1, WorkedStay
<1>5. Permitted(at, l, v) BY <1>1 DEF Permitted
<1>6. Looked(at, l, v) BY <1>1, LookedStay
<1>7. Held(at, l, v) BY <1>1, HeldStay
<1>8. Removed(at, l, v) BY <1>1, RemovedStay
<1> QED BY <1>1, <1>2, <1>3, <1>4, <1>5, <1>6, <1>7, <1>8 DEF Placed

-----------------------------------------------------------------------------
(* Steps of tables and cluster. *)

(* The rules hold on when no Ingress is written and no vouched one spent.  *)
Kept(w, v) ==
  /\ \A i \in Ids : v.rows[i].state # "unborn" => v.rows[i].name \in Names
  /\ \A i, j \in Ids :
       v.rows[i].state = "live" /\ v.rows[j].state = "live" /\ v.rows[i].name = v.rows[j].name => i = j
  /\ \A s \in Secrets : /\ v.auth[s].state # "unborn" => v.auth[s].name \in Names
                        /\ v.auth[s].state # "live" => ~v.auth[s].middleware
  /\ \A n \in Names : v.k8s[n].touched <= v.clock /\ v.k8s[n].ingress \in {None, w.k8s[n].ingress}

LEMMA SoundStays ==
  ASSUME NEW w \in Worlds, NEW v \in Worlds, NEW spent, NEW given, Bears(w, v, spent, given), Sound(w),
         Kept(w, v),
         \A s \in spent : ~Vouched(w, s)
  PROVE  Sound(v)
<1>1. ASSUME NEW n \in Names, v.k8s[n].ingress # None
      PROVE  LET g == v.k8s[n].ingress
             IN /\ g \in Ingress /\ g = w.k8s[n].ingress
                /\ g.checked < g.version /\ g.version <= v.clock
                /\ v.rows[g.by].state # "unborn" /\ v.rows[g.by].name = n
                /\ (g.auth # None => v.auth[g.auth].state # "unborn" /\ v.auth[g.auth].name = n)
                /\ (g.auth # None /\ ~g.repeated /\ Calm(v, g.by) => Good(v, g.auth, n))
  <2> DEFINE g == v.k8s[n].ingress
  <2>1. g = w.k8s[n].ingress /\ g \in Ingress
    BY <1>1 DEF Worlds, Objects, Kept
  <2>2. /\ g.checked < g.version /\ g.version <= w.clock
        /\ w.rows[g.by].state # "unborn" /\ w.rows[g.by].name = n
        /\ (g.auth # None => w.auth[g.auth].state # "unborn" /\ w.auth[g.auth].name = n)
    BY <1>1, <2>1 DEF Sound, Related
  <2>3. g.auth # None => g.auth \in Secrets /\ (~g.repeated => Vouched(w, g.auth))
    BY <1>1, <2>1 DEF Vouched, Ingress
  <2>4. g.by \in Ids /\ g.version \in Nat /\ w.clock \in Nat /\ v.clock \in Nat
    BY <2>1 DEF Ingress, Worlds
  <2>5. g.auth # None /\ ~g.repeated /\ Calm(w, g.by) => Good(w, g.auth, n)
    BY <1>1, <2>1, <2>2 DEF Sound, Guarded, Good, Calm
  <2>6. g.auth # None /\ ~g.repeated /\ Calm(v, g.by) => Good(v, g.auth, n)
    BY <2>2, <2>3, <2>4, <2>5, GoodStay
  <2>7. g.version <= v.clock /\ v.rows[g.by].state # "unborn" /\ v.rows[g.by].name = n
    BY <2>2, <2>4 DEF Bears
  <2>8. g.auth # None => v.auth[g.auth].state # "unborn" /\ v.auth[g.auth].name = n
    BY <2>2, <2>3 DEF Bears
  <2> QED BY <2>1, <2>2, <2>6, <2>7, <2>8
<1>2. Related(v.rows, v.k8s, v.auth, v.clock)
  BY <1>1 DEF Related, Kept
<1>3. Guarded(v.rows, v.k8s, v.auth)
  BY <1>1 DEF Guarded, Good, Calm
<1>4. Routed(v.k8s)
  BY <1>1 DEF Routed, Sound, Kept
<1> QED BY <1>2, <1>3, <1>4 DEF Sound

LEMMA SoundParts ==
  ASSUME NEW w \in Worlds, Sound(w)
  PROVE  /\ \A i \in Ids : w.rows[i].state # "unborn" => w.rows[i].name \in Names
         /\ \A i, j \in Ids : w.rows[i].state = "live" /\ w.rows[j].state = "live" /\ w.rows[i].name = w.rows[j].name => i = j
         /\ \A s \in Secrets : /\ w.auth[s].state # "unborn" => w.auth[s].name \in Names
                               /\ w.auth[s].state # "live" => ~w.auth[s].middleware
         /\ \A n \in Names : w.k8s[n].touched <= w.clock /\ w.k8s[n].touched \in Nat /\ w.k8s[n] \in Objects
         /\ w.clock \in Nat
BY DEF Sound, Related, Worlds, Objects

LEMMA NothingMoves ==
  ASSUME NEW w \in Worlds
  PROVE  Bears(w, w, {}, {})
BY DEF Bears, Fewer, Worlds

(* Something is written under a name, the Ingress and the Deployment that  *)
(* there is aside.                                                         *)
LEMMA Written ==
  ASSUME NEW w \in Worlds, Sound(w), NEW v \in Worlds, NEW n \in Names, NEW o \in Objects,
         v.rows = w.rows, v.auth = w.auth, v.clock = w.clock + 1, v.k8s = [w.k8s EXCEPT ![n] = o],
         o.touched = w.clock + 1, o.ingress = w.k8s[n].ingress,
         w.k8s[n].dep # None => o.dep = w.k8s[n].dep
  PROVE  Sound(v) /\ Bears(w, v, {}, {})
<1>1. w.clock \in Nat /\ w.k8s \in [Names -> Objects] /\ w.rows \in [Ids -> Row]
  BY DEF Worlds
<1>2. \A m \in Names : v.k8s[m] = IF m = n THEN o ELSE w.k8s[m]
  BY <1>1
<1>3. \A m \in Names : \/ v.k8s[m].touched = w.k8s[m].touched /\ Fewer(w, v, m)
                       \/ v.k8s[m].touched > w.clock
  BY <1>1, <1>2 DEF Fewer, Absent, DelKinds, Secreted
<1>4. \A m \in Names, s \in Secrets : Good(w, s, m) => Good(v, s, m)
  BY <1>2 DEF Good
<1>5. \A i \in Ids : w.rows[i].state # "unborn" /\ Calm(v, i) =>
        /\ Calm(w, i)
        /\ w.k8s[w.rows[i].name].dep # None => v.k8s[w.rows[i].name].dep = w.k8s[w.rows[i].name].dep
  BY <1>2, SoundParts DEF Calm
<1>6. Bears(w, v, {}, {})
  BY <1>1, <1>2, <1>3, <1>4, <1>5, SoundParts DEF Bears
<1>7. Kept(w, v)
  BY <1>1, <1>2, SoundParts DEF Objects, Kept
<1> QED BY <1>6, <1>7, SoundStays

(* Credentials are created, and what was drawn was free. *)
LEMMA Created ==
  ASSUME NEW w \in Worlds, Sound(w), NEW v \in Worlds, NEW n \in Names, NEW s \in Secrets, NEW a \in Auth,
         v.rows = w.rows, v.clock = w.clock + 1, v.k8s = [w.k8s EXCEPT ![n] = [w.k8s[n] EXCEPT !.touched = w.clock + 1]],
         v.auth = [w.auth EXCEPT ![s] = a],
         w.auth[s].state = "unborn" \/ (a.owner = w.auth[s].owner /\ w.auth[s].name = n),
         w.auth[s].state # "gone", a.state = "live", a.name = n, w.auth[s].middleware => a.middleware
  PROVE  Sound(v) /\ Bears(w, v, {}, {})
<1>1. w.clock \in Nat /\ w.k8s \in [Names -> Objects] /\ w.rows \in [Ids -> Row] /\ w.auth \in [Secrets -> Auth]
  BY DEF Worlds
<1>2. \A m \in Names : /\ v.k8s[m].touched = IF m = n THEN w.clock + 1 ELSE w.k8s[m].touched
                       /\ v.k8s[m].dep = w.k8s[m].dep /\ v.k8s[m].ns = w.k8s[m].ns
                       /\ v.k8s[m].service = w.k8s[m].service /\ v.k8s[m].s3 = w.k8s[m].s3
                       /\ v.k8s[m].pull = w.k8s[m].pull /\ v.k8s[m].ingress = w.k8s[m].ingress
  BY <1>1 DEF Objects
<1>3. \A t \in Secrets : v.auth[t] = IF t = s THEN a ELSE w.auth[t]
  BY <1>1
<1>4. \A m \in Names : \/ v.k8s[m].touched = w.k8s[m].touched /\ Fewer(w, v, m)
                       \/ v.k8s[m].touched > w.clock
  BY <1>1, <1>2, <1>3 DEF Fewer, Absent, DelKinds, Secreted
<1>5. \A m \in Names, t \in Secrets : Good(w, t, m) => Good(v, t, m)
  BY <1>1, <1>2, <1>3 DEF Good, Auth
<1>6. \A i \in Ids : w.rows[i].state # "unborn" /\ Calm(v, i) =>
        /\ Calm(w, i)
        /\ w.k8s[w.rows[i].name].dep # None => v.k8s[w.rows[i].name].dep = w.k8s[w.rows[i].name].dep
  BY <1>2, SoundParts DEF Calm
<1>7. \A t \in Secrets : w.auth[t].state # "unborn" =>
        v.auth[t].state # "unborn" /\ v.auth[t].name = w.auth[t].name /\ v.auth[t].owner = w.auth[t].owner
  BY <1>3
<1>8. Bears(w, v, {}, {})
  BY <1>1, <1>2, <1>4, <1>5, <1>6, <1>7, SoundParts DEF Bears
<1>9. Kept(w, v)
  BY <1>1, <1>2, <1>3, SoundParts DEF Objects, Kept
<1> QED BY <1>8, <1>9, SoundStays

(* A deletion takes away, and disturbs the rows of the name. *)
Disturbed(w, v, n) ==
  v.rows = [i \in Ids |-> IF w.rows[i].name = n THEN [w.rows[i] EXCEPT !.calm = FALSE] ELSE w.rows[i]]
Less(o, q) == /\ q.touched = o.touched /\ q.dep \in {None, o.dep} /\ q.ingress \in {None, o.ingress}
              /\ (q.service => o.service) /\ (q.s3 => o.s3) /\ (q.pull => o.pull)
              /\ (o.ns # "active" => q.ns # "active")
Loses(w, v, n) ==
  \A s \in Secrets :
    \/ v.auth[s] = w.auth[s]
    \/ w.auth[s].name = n /\ v.auth[s] = [w.auth[s] EXCEPT !.state = "gone", !.middleware = FALSE]

LEMMA RowsDisturbed ==
  ASSUME NEW w \in Worlds, NEW v \in Worlds, NEW n \in Names, Disturbed(w, v, n)
  PROVE  \A i \in Ids : /\ v.rows[i].name = w.rows[i].name /\ v.rows[i].state = w.rows[i].state
                        /\ Calm(v, i) => Calm(w, i) /\ w.rows[i].name # n
<1> TAKE i \in Ids
<1>1. w.rows[i] \in Row
  BY DEF Worlds
<1>2. CASE w.rows[i].name = n
  <2>1. v.rows[i] = [w.rows[i] EXCEPT !.calm = FALSE]
    BY <1>2 DEF Disturbed
  <2> QED BY ONLY <1>1, <1>2, <2>1 DEF Row, Calm
<1>3. CASE w.rows[i].name # n
  <2>1. v.rows[i] = w.rows[i]
    BY <1>3 DEF Disturbed
  <2> QED BY ONLY <1>3, <2>1 DEF Calm
<1> QED BY <1>2, <1>3

LEMMA AuthLost ==
  ASSUME NEW w \in Worlds, NEW v \in Worlds, NEW n \in Names, Loses(w, v, n)
  PROVE  \A s \in Secrets : /\ v.auth[s].name = w.auth[s].name /\ v.auth[s].owner = w.auth[s].owner
                            /\ v.auth[s].state = "unborn" => w.auth[s].state = "unborn"
                            /\ w.auth[s].state = "unborn" /\ w.auth[s].name # n => v.auth[s].state = "unborn"
                            /\ v.auth[s].state = "live" => v.auth[s] = w.auth[s]
                            /\ w.auth[s].name # n => v.auth[s] = w.auth[s]
                            /\ v.auth[s] = w.auth[s] \/ (w.auth[s].name = n /\ ~v.auth[s].middleware)
<1> TAKE s \in Secrets
<1>1. w.auth[s] \in Auth
  BY DEF Worlds
<1>2. v.auth[s] = w.auth[s] \/ (w.auth[s].name = n /\ v.auth[s] = [w.auth[s] EXCEPT !.state = "gone", !.middleware = FALSE])
  BY DEF Loses
<1> QED BY ONLY <1>1, <1>2 DEF Auth

LEMMA TakenAway ==
  ASSUME NEW w \in Worlds, Sound(w), NEW v \in Worlds, NEW n \in Names, NEW o \in Objects,
         Disturbed(w, v, n), v.clock = w.clock, v.k8s = [w.k8s EXCEPT ![n] = o], Less(w.k8s[n], o), Loses(w, v, n)
  PROVE  Sound(v) /\ Bears(w, v, {}, {})
<1>1. w.clock \in Nat /\ w.k8s \in [Names -> Objects]
  BY DEF Worlds
<1>2. \A m \in Names : v.k8s[m] = IF m = n THEN o ELSE w.k8s[m]
  BY <1>1
<1>5. \A m \in Names : v.k8s[m].touched = w.k8s[m].touched /\ Fewer(w, v, m)
  <2>1. TAKE m \in Names
  <2>2. v.k8s[m].touched = w.k8s[m].touched
    BY <1>2 DEF Less
  <2>3. w.k8s[m].ns # "active" => v.k8s[m].ns # "active"
    BY <1>2 DEF Less
  <2>4. \A kind \in DelKinds : Absent(w, m, kind) => Absent(v, m, kind)
    BY <1>2 DEF Less, Absent, DelKinds
  <2>5. Secreted(v, m) \subseteq Secreted(w, m)
    BY AuthLost DEF Secreted
  <2> QED BY <2>2, <2>3, <2>4, <2>5 DEF Fewer
<1>6. \A m \in Names, s \in Secrets : m # n /\ Good(w, s, m) => Good(v, s, m)
  BY <1>2, AuthLost DEF Good
<1>7. \A i \in Ids : w.rows[i].state # "unborn" /\ Calm(v, i) =>
        /\ Calm(w, i)
        /\ w.k8s[w.rows[i].name].dep # None => v.k8s[w.rows[i].name].dep = w.k8s[w.rows[i].name].dep
        /\ \A s \in Secrets : Good(w, s, w.rows[i].name) => Good(v, s, w.rows[i].name)
  BY <1>2, <1>6, RowsDisturbed, SoundParts
<1>8. Bears(w, v, {}, {})
  <2>1. \A s \in Secrets : w.auth[s].state # "unborn" =>
          v.auth[s].state # "unborn" /\ v.auth[s].name = w.auth[s].name /\ v.auth[s].owner = w.auth[s].owner
    BY AuthLost
  <2>2. \A m \in Names : v.k8s[m].ingress \in {None, w.k8s[m].ingress}
    BY <1>2 DEF Less
  <2>3. \A i \in Ids : w.rows[i].state # "unborn" => v.rows[i].state # "unborn" /\ v.rows[i].name = w.rows[i].name
    BY RowsDisturbed
  <2> QED BY ONLY <1>1, v.clock = w.clock, <1>5, <1>7, <2>1, <2>2, <2>3 DEF Bears
<1>9. Kept(w, v)
  <2>1. \A s \in Secrets : /\ v.auth[s].state # "unborn" => v.auth[s].name \in Names
                           /\ v.auth[s].state # "live" => ~v.auth[s].middleware
    BY AuthLost, SoundParts
  <2>2. \A m \in Names : v.k8s[m].touched <= v.clock /\ v.k8s[m].ingress \in {None, w.k8s[m].ingress}
    BY <1>2, <1>5, SoundParts DEF Less
  <2>3. /\ \A i \in Ids : v.rows[i].state # "unborn" => v.rows[i].name \in Names
        /\ \A i, j \in Ids :
             v.rows[i].state = "live" /\ v.rows[j].state = "live" /\ v.rows[i].name = v.rows[j].name => i = j
    BY RowsDisturbed, SoundParts
  <2> QED BY ONLY <2>1, <2>2, <2>3 DEF Kept
<1> QED BY ONLY w \in Worlds, v \in Worlds, Sound(w), <1>8, <1>9, SoundStays

(* A Secret goes that no Ingress vouches for, or that is of no use. *)
LEMMA Discarded ==
  ASSUME NEW w \in Worlds, Sound(w), NEW v \in Worlds, NEW s \in Secrets, NEW spent \in SUBSET Secrets,
         v.rows = w.rows, v.clock = w.clock, v.k8s = w.k8s,
         v.auth = [w.auth EXCEPT ![s].state = "gone", ![s].middleware = FALSE], w.auth[s].state # "unborn",
         s \in spent \/ \A n \in Names : ~Good(w, s, n),
         \A t \in spent : ~Vouched(w, t)
  PROVE  Sound(v) /\ Bears(w, v, spent, {})
<1>1. w.clock \in Nat /\ w.k8s \in [Names -> Objects] /\ w.rows \in [Ids -> Row] /\ w.auth \in [Secrets -> Auth]
  BY DEF Worlds
<1>2. \A t \in Secrets : /\ v.auth[t].name = w.auth[t].name /\ v.auth[t].owner = w.auth[t].owner
                         /\ w.auth[t].state # "unborn" => v.auth[t].state # "unborn"
                         /\ v.auth[t].state = "live" => w.auth[t].state = "live"
                         /\ v.auth[t].state # "live" => ~v.auth[t].middleware
                         /\ t # s => v.auth[t] = w.auth[t]
                         /\ v.auth[t].state # "unborn" => w.auth[t].state # "unborn"
  BY <1>1, SoundParts DEF Auth
<1>3. \A m \in Names : v.k8s[m].touched = w.k8s[m].touched /\ Fewer(w, v, m)
  BY <1>2 DEF Fewer, Absent, DelKinds, Secreted
<1>4. \A m \in Names, t \in Secrets \ spent : Good(w, t, m) => Good(v, t, m)
  BY <1>2 DEF Good
<1>5. \A i \in Ids : w.rows[i].state # "unborn" /\ Calm(v, i) =>
        /\ Calm(w, i)
        /\ w.k8s[w.rows[i].name].dep # None => v.k8s[w.rows[i].name].dep = w.k8s[w.rows[i].name].dep
        /\ \A t \in Secrets \ spent : Good(w, t, w.rows[i].name) => Good(v, t, w.rows[i].name)
  BY <1>4, SoundParts DEF Calm
<1>6. Bears(w, v, spent, {})
  BY <1>1, <1>2, <1>3, <1>5 DEF Bears
<1>7. Kept(w, v)
  BY <1>1, <1>2, SoundParts DEF Kept
<1> QED BY <1>6, <1>7, SoundStays

(* Rows change, and nothing in the cluster. *)
LEMMA RowsChange ==
  ASSUME NEW w \in Worlds, Sound(w), NEW v \in Worlds,
         v.clock = w.clock, v.k8s = w.k8s, v.auth = w.auth,
         \A i \in Ids : v.rows[i].state # "unborn" => v.rows[i].name \in Names,
         \A i, j \in Ids :
           v.rows[i].state = "live" /\ v.rows[j].state = "live" /\ v.rows[i].name = v.rows[j].name => i = j,
         \A i \in Ids : w.rows[i].state # "unborn" =>
           v.rows[i].state # "unborn" /\ v.rows[i].name = w.rows[i].name /\ (Calm(v, i) => Calm(w, i))
  PROVE  Sound(v) /\ Bears(w, v, {}, {})
<1>1. w.clock \in Nat /\ \A m \in Names : Fewer(w, v, m)
  BY DEF Worlds, Fewer, Absent, DelKinds, Secreted
<1>2. \A m \in Names, t \in Secrets : Good(w, t, m) => Good(v, t, m)
  BY DEF Good
<1>3. Bears(w, v, {}, {})
  BY <1>1, <1>2, SoundParts DEF Bears
<1>4. Kept(w, v)
  BY SoundParts DEF Kept
<1> QED BY <1>3, <1>4, SoundStays

(* An Ingress is written: its writer has looked, and its credentials are   *)
(* there, or are those that the Ingress had.                               *)
LEMMA IngressWritten ==
  ASSUME NEW w \in Worlds, Sound(w), NEW v \in Worlds, NEW n \in Names, NEW g \in Ingress \cup {None},
         NEW given,
         v.rows = w.rows, v.auth = w.auth, v.clock = w.clock + 1,
         v.k8s = [w.k8s EXCEPT ![n] = [w.k8s[n] EXCEPT !.ingress = g, !.touched = w.clock + 1]],
         g # None =>
           /\ g.version = w.clock + 1 /\ g.checked <= w.clock
           /\ w.rows[g.by].state # "unborn" /\ w.rows[g.by].name = n
           /\ g.auth # None => /\ w.auth[g.auth].state # "unborn" /\ w.auth[g.auth].name = n
                               /\ ~g.repeated /\ Calm(w, g.by) => Good(w, g.auth, n)
                               /\ \/ g.auth \in given
                                  \/ /\ w.k8s[n].ingress # None /\ w.k8s[n].ingress.auth = g.auth
                                     /\ w.k8s[n].ingress.repeated => g.repeated
           /\ \A m \in Names : LET h == w.k8s[m].ingress
                               IN m # n /\ h # None /\ HostsOverlap(g.host, h.host) => h.version > g.checked
  PROVE  Sound(v) /\ Bears(w, v, {}, given)
<1>1. w.clock \in Nat /\ w.k8s \in [Names -> Objects] /\ w.rows \in [Ids -> Row] /\ w.auth \in [Secrets -> Auth]
  BY DEF Worlds
<1>2. \A m \in Names : /\ v.k8s[m].touched = IF m = n THEN w.clock + 1 ELSE w.k8s[m].touched
                       /\ v.k8s[m].dep = w.k8s[m].dep
                       /\ v.k8s[m].ingress = IF m = n THEN g ELSE w.k8s[m].ingress
                       /\ m # n => v.k8s[m] = w.k8s[m]
  BY <1>1 DEF Objects
<1>3. \A m \in Names : \/ v.k8s[m].touched = w.k8s[m].touched /\ Fewer(w, v, m)
                       \/ v.k8s[m].touched > w.clock
  BY <1>1, <1>2 DEF Fewer, Absent, DelKinds, Secreted
<1>4. \A m \in Names, s \in Secrets : Good(w, s, m) <=> Good(v, s, m)
  BY <1>2 DEF Good
<1>5. \A i \in Ids : w.rows[i].state # "unborn" /\ Calm(v, i) =>
        /\ Calm(w, i)
        /\ w.k8s[w.rows[i].name].dep # None => v.k8s[w.rows[i].name].dep = w.k8s[w.rows[i].name].dep
  BY <1>2, SoundParts DEF Calm
<1>6. g # None => /\ g.version > w.clock
                  /\ \/ g.auth \in given \cup {None}
                     \/ /\ w.k8s[n].ingress # None /\ g.auth = w.k8s[n].ingress.auth
                        /\ w.k8s[n].ingress.repeated => g.repeated
  BY <1>1
<1>7. Bears(w, v, {}, given)
  BY <1>1, <1>2, <1>3, <1>4, <1>5, <1>6, SoundParts DEF Bears
<1>8. Related(v.rows, v.k8s, v.auth, v.clock)
  <2>1. \A m \in Names : m # n /\ v.k8s[m].ingress # None => v.k8s[m].ingress.version <= v.clock
    BY <1>1, <1>2 DEF Sound, Related, Objects, Ingress
  <2>2. g # None => g.checked < g.version /\ g.version <= v.clock
    BY <1>1 DEF Ingress
  <2>3. \A m \in Names : v.k8s[m].touched <= v.clock
    BY <1>1, <1>2, SoundParts
  <2>4. \A m \in Names :
          LET h == v.k8s[m].ingress
          IN h # None => /\ h.checked < h.version /\ h.version <= v.clock
                         /\ v.rows[h.by].state # "unborn" /\ v.rows[h.by].name = m
                         /\ (h.auth # None => v.auth[h.auth].state # "unborn" /\ v.auth[h.auth].name = m)
    <3> TAKE m \in Names
    <3>1. CASE m = n
      BY <1>2, <2>2, <3>1
    <3>2. CASE m # n
      <4>1. LET h == w.k8s[m].ingress
            IN h # None => /\ h.checked < h.version
                           /\ w.rows[h.by].state # "unborn" /\ w.rows[h.by].name = m
                           /\ (h.auth # None => w.auth[h.auth].state # "unborn" /\ w.auth[h.auth].name = m)
        BY DEF Sound, Related
      <4> QED BY <1>2, <2>1, <3>2, <4>1
    <3> QED BY <3>1, <3>2
  <2>5. /\ \A i \in Ids : v.rows[i].state # "unborn" => v.rows[i].name \in Names
        /\ \A i, j \in Ids :
             v.rows[i].state = "live" /\ v.rows[j].state = "live" /\ v.rows[i].name = v.rows[j].name => i = j
        /\ \A s \in Secrets : /\ v.auth[s].state # "unborn" => v.auth[s].name \in Names
                              /\ v.auth[s].state # "live" => ~v.auth[s].middleware
    BY SoundParts
  <2> QED BY ONLY <2>3, <2>4, <2>5 DEF Related
<1>9. Guarded(v.rows, v.k8s, v.auth)
  <2>1. g # None /\ g.auth # None /\ ~g.repeated /\ Calm(w, g.by) =>
          /\ v.auth[g.auth].state = "live" /\ v.auth[g.auth].middleware
          /\ v.auth[g.auth].owner \in {None, v.k8s[n].dep}
    BY <1>2 DEF Good
  <2>2. Guarded(w.rows, w.k8s, w.auth)
    BY DEF Sound
  <2> QED BY ONLY v.rows = w.rows, v.auth = w.auth, <1>2, <2>1, <2>2 DEF Guarded, Calm
<1>10. Routed(v.k8s)
  <2>1. ASSUME NEW m \in Names, m # n, g # None, w.k8s[m].ingress # None,
               HostsOverlap(g.host, w.k8s[m].ingress.host)
        PROVE  g.checked < w.k8s[m].ingress.version /\ w.k8s[m].ingress.checked < g.version
    <3>1. w.k8s[m].ingress \in Ingress /\ g \in Ingress
      BY <1>1, <2>1 DEF Objects
    <3>2. w.k8s[m].ingress.checked < w.k8s[m].ingress.version /\ w.k8s[m].ingress.version <= w.clock
      BY <2>1 DEF Sound, Related
    <3> QED BY <1>1, <2>1, <3>1, <3>2 DEF Ingress
  <2>2. ASSUME NEW m \in Names, NEW k \in Names, m # k, v.k8s[m].ingress # None, v.k8s[k].ingress # None,
               HostsOverlap(v.k8s[m].ingress.host, v.k8s[k].ingress.host)
        PROVE  /\ v.k8s[m].ingress.checked < v.k8s[k].ingress.version
               /\ v.k8s[k].ingress.checked < v.k8s[m].ingress.version
    <3>1. CASE m # n /\ k # n
      BY <1>2, <2>2, <3>1 DEF Sound, Routed
    <3>2. CASE m = n
      BY <1>2, <2>1, <2>2, <3>2
    <3>3. CASE k = n
      BY <1>2, <2>1, <2>2, <3>3, Symmetric
    <3> QED BY <3>1, <3>2, <3>3
  <2> QED BY <2>2 DEF Routed
<1> QED BY <1>7, <1>8, <1>9, <1>10 DEF Sound

-----------------------------------------------------------------------------
(* One handler moves.                                                       *)

Moves(p, at, l) == pc' = [pc EXCEPT ![p] = at] /\ loc' = [loc EXCEPT ![p] = l]

(* What it deletes or lets an Ingress name is its own.                      *)
Owns(p, spent, given) ==
  /\ \A s \in given : Holds(pc[p], loc[p]) /\ s = loc[p].new
  /\ \A s \in spent : \/ Withdraws(pc[p], loc[p]) /\ s = loc[p].new
                      \/ Retires(pc[p], loc[p]) /\ s = loc[p].old

(* Which Secrets it knows: those it knew, one that an Ingress names, one    *)
(* that has just been drawn.                                                *)
Learns(p, at, l) ==
  /\ l.old \in {None, loc[p].old} \/ Named(World, l.old)
  /\ Holds(at, l) => \/ Holds(pc[p], loc[p]) /\ l.new = loc[p].new
                     \/ auth[l.new].state = "unborn"
  /\ at # "apply_failed" /\ l.new # None => \/ l.new = loc[p].new /\ pc[p] # "apply_failed"
                                            \/ auth[l.new].state = "unborn"

Others == /\ allowHttp' = allowHttp
          /\ {inCluster', registry'} \subseteq BOOLEAN /\ {sent', faults'} \subseteq Nat

LEMMA InvParts ==
  ASSUME Inv
  PROVE  /\ World \in Worlds /\ Sound(World) /\ pc \in [Procs -> Pc] /\ loc \in [Procs -> Local]
         /\ \A p \in Procs : Placed(p, pc[p], loc[p], World) /\ Apart(p)
         /\ {inCluster, allowHttp, registry} \subseteq BOOLEAN /\ {clock, sent, faults} \subseteq Nat
         /\ None \notin Secrets /\ None \notin Names /\ None \notin Ids
BY NoneAssumption DEF Inv, TypeOK, World, Worlds, Pc

LEMMA BegunParts ==
  ASSUME Inv, NEW p \in Procs
  PROVE  /\ pc[p] # "apply_failed" /\ loc[p].new # None => auth[loc[p].new].state # "unborn" /\ loc[p].new \in Secrets
         /\ loc[p].old # None => auth[loc[p].old].state # "unborn" /\ loc[p].old \in Secrets
BY InvParts DEF Placed, Begun, World, Local

LEMMA NamedKnown ==
  ASSUME Inv, NEW s, s # None, Named(World, s)
  PROVE  auth[s].state # "unborn"
<1>1. PICK n \in Names : k8s[n].ingress # None /\ k8s[n].ingress.auth = s
  BY DEF Named, World
<1> QED BY <1>1, InvParts DEF Sound, Related, World

LEMMA OthersPlaced ==
  ASSUME Inv, NEW p \in Procs, NEW at \in Pc, NEW l \in Local, Moves(p, at, l), Others,
         NEW spent, NEW given, World' \in Worlds, Bears(World, World', spent, given), Owns(p, spent, given),
         NEW q \in Procs, q # p
  PROVE  Placed(q, pc'[q], loc'[q], World')
<1>1. pc'[q] = pc[q] /\ loc'[q] = loc[q] /\ pc[q] \in Pc /\ loc[q] \in Local
  BY InvParts DEF Moves
<1>2. World.http = World'.http
  BY DEF World, Others
<1>3. Holds(pc[q], loc[q]) => loc[q].new \notin spent /\ loc[q].new \notin given
  BY InvParts DEF Owns, Apart, Holds, Withdraws
<1>4. /\ Retires(pc[q], loc[q]) => loc[q].old \notin given
      /\ Withdraws(pc[q], loc[q]) => loc[q].new \notin given
  BY InvParts DEF Owns, Apart, Withdraws
<1> QED BY <1>1, <1>2, <1>3, <1>4, InvParts, PlacedStay

LEMMA ApartKept ==
  ASSUME Inv, NEW p \in Procs, NEW at \in Pc, NEW l \in Local, Moves(p, at, l), Learns(p, at, l)
  PROVE  \A q \in Procs : Apart(q)'
<1>1. /\ pc'[p] = at /\ loc'[p] = l
      /\ \A q \in Procs : q # p => pc'[q] = pc[q] /\ loc'[q] = loc[q]
  BY InvParts DEF Moves
<1>2. ASSUME Holds(at, l)
      PROVE  \A q \in Procs : /\ loc'[q].old # l.new
                              /\ q # p /\ pc'[q] # "apply_failed" => loc'[q].new # l.new
  <2>1. l.new # None
    BY <1>2 DEF Holds
  <2>2. CASE Holds(pc[p], loc[p]) /\ l.new = loc[p].new
    <3>1. /\ \A q \in Procs : /\ loc[q].old # l.new
                              /\ q # p /\ pc[q] # "apply_failed" => loc[q].new # l.new
          /\ ~Named(World, l.new)
      BY <2>2, InvParts DEF Apart, Placed, Held
    <3>2. l.old # l.new
      BY <2>1, <3>1 DEF Learns
    <3> QED BY <1>1, <3>1, <3>2
  <2>3. CASE auth[l.new].state = "unborn"
    <3>1. \A q \in Procs : loc[q].old # l.new /\ (pc[q] # "apply_failed" => loc[q].new # l.new)
      BY <2>1, <2>3, BegunParts
    <3>2. l.old # l.new
      BY <2>1, <2>3, <3>1, NamedKnown DEF Learns
    <3> QED BY <1>1, <3>1, <3>2
  <2> QED BY <1>2, <2>2, <2>3 DEF Learns
<1>3. ASSUME NEW q \in Procs, q # p, Holds(pc[q], loc[q])
      PROVE  \A x \in Procs : /\ loc'[x].old # loc[q].new
                              /\ x # q /\ pc'[x] # "apply_failed" => loc'[x].new # loc[q].new
  <2>1. /\ \A x \in Procs : /\ loc[x].old # loc[q].new
                            /\ x # q /\ pc[x] # "apply_failed" => loc[x].new # loc[q].new
        /\ ~Named(World, loc[q].new) /\ loc[q].new # None /\ pc[q] # "apply_failed"
    BY <1>3, InvParts DEF Apart, Placed, Held, Holds
  <2>2. l.old # loc[q].new
    BY <2>1 DEF Learns
  <2>3. at # "apply_failed" => l.new # loc[q].new
    BY <1>3, <2>1, BegunParts DEF Learns
  <2> QED BY <1>1, <2>1, <2>2, <2>3
<1>4. ASSUME NEW q \in Procs PROVE Apart(q)'
  <2>1. CASE q = p
    BY <1>1, <1>2, <2>1 DEF Apart
  <2>2. CASE q # p
    BY <1>1, <1>3, <2>2 DEF Apart
  <2> QED BY <2>1, <2>2
<1> QED BY <1>4

LEMMA StepKeeps ==
  ASSUME Inv, NEW p \in Procs, NEW at \in Pc, NEW l \in Local, Moves(p, at, l), Others,
         NEW spent, NEW given, World' \in Worlds, Sound(World'), Bears(World, World', spent, given),
         Owns(p, spent, given), Learns(p, at, l), Placed(p, at, l, World')
  PROVE  Inv'
<1>1. pc' \in [Procs -> Pc] /\ loc' \in [Procs -> Local]
  BY InvParts DEF Moves
<1>2. TypeOK'
  <2>1. /\ rows' \in [Ids -> Row] /\ k8s' \in [Names -> Objects] /\ auth' \in [Secrets -> Auth] /\ clock' \in Nat
        /\ allowHttp' \in BOOLEAN
    BY DEF World, Worlds
  <2>2. Related(rows', k8s', auth', clock')
    BY DEF World, Sound
  <2> QED BY <1>1, <2>1, <2>2 DEF TypeOK, Others, Pc
<1>3. pc'[p] = at /\ loc'[p] = l
  BY InvParts DEF Moves
<1>4. \A q \in Procs : Placed(q, pc'[q], loc'[q], World')
  BY <1>3, OthersPlaced
<1>5. \A q \in Procs : Apart(q)'
  BY ApartKept
<1>6. ASSUME NEW i \in Ids, rows'[i].state = "unborn" PROVE pc'[i] = "idle"
  <2>1. rows[i].state = "unborn"
    BY <1>6 DEF Bears, World
  <2>2. i \in Procs /\ pc[i] = "idle"
    BY <2>1 DEF Inv, Procs
  <2>3. CASE i = p
    <3>1. at \in {"idle"} \cup Applying /\ (at \in Applying => rows'[i].state # "unborn")
      BY <2>3 DEF Placed, Begun, World
    <3> QED BY <1>3, <1>6, <2>3, <3>1
  <2>4. CASE i # p
    BY <2>2, <2>4, InvParts DEF Moves
  <2> QED BY <2>3, <2>4
<1> QED BY <1>2, <1>4, <1>5, <1>6 DEF Inv

-----------------------------------------------------------------------------
(* Steps that leave tables and cluster alone.                               *)

LEMMA Goes ==
  ASSUME NEW p, NEW at, NEW l, Goto(p, at, l), at # "idle"
  PROVE  Moves(p, at, l)
BY DEF Goto, Moves

LEMMA Ends ==
  ASSUME NEW p, NEW l, End(p) \/ Goto(p, "idle", l)
  PROVE  Moves(p, "idle", NoLocal)
BY DEF End, Goto, Moves

LEMMA ClientProcs == \A p \in Clients : p \in Procs /\ p \notin Ids
BY ProcsAssumption DEF Procs

LEMMA TaskProcs == \A p \in Ids : p \in Procs /\ p \notin Clients
BY ProcsAssumption DEF Procs

LEMMA EmptyLocal == NoLocal \in Local /\ NoLocal.old = None /\ NoLocal.new = None
<1>1. <<>> \in Seq(Kinds)
  OBVIOUS
<1> QED BY <1>1 DEF NoLocal, Local

LEMMA IdlePlaced ==
  ASSUME NEW p, NEW w \in Worlds
  PROVE  Placed(p, "idle", NoLocal, w)
<1>1. Begun(p, "idle", NoLocal, w)
  BY EmptyLocal DEF Begun, Creating, Applying, Deleting, Exposing, NotDrawn
<1>2. Manifested("idle", NoLocal) /\ ReadOnce("idle", NoLocal, w) /\ Worked("idle", NoLocal, w)
      /\ Permitted("idle", NoLocal, w) /\ Looked("idle", NoLocal, w) /\ Removed("idle", NoLocal, w)
  BY DEF Manifested, ReadOnce, Worked, Permitted, Looked, Removed, AfterRead, Exposing, Deleting
<1>3. Held("idle", NoLocal, w)
  BY EmptyLocal DEF Held, Holds, Withdraws, Retires
<1> QED BY <1>1, <1>2, <1>3 DEF Placed

LEMMA EndKeeps ==
  ASSUME Inv, NEW p \in Procs, Moves(p, "idle", NoLocal), Others,
         NEW spent, NEW given, World' \in Worlds, Sound(World'), Bears(World, World', spent, given),
         Owns(p, spent, given)
  PROVE  Inv'
<1>1. Learns(p, "idle", NoLocal)
  BY EmptyLocal DEF Learns, Holds
<1>2. Placed(p, "idle", NoLocal, World')
  BY IdlePlaced
<1>3. "idle" \in Pc
  BY DEF Pc
<1> QED BY <1>1, <1>2, <1>3, EmptyLocal, StepKeeps

Still == UNCHANGED <<inCluster, db, cluster>> /\ {sent', faults'} \subseteq Nat

LEMMA StillWorld ==
  ASSUME Inv, Still
  PROVE  Others /\ World' = World /\ World' \in Worlds /\ Sound(World') /\ Bears(World, World', {}, {})
<1>1. World' = World
  BY DEF Still, db, cluster, World
<1>2. Others
  BY InvParts DEF Still, db, Others
<1> QED BY <1>1, <1>2, InvParts, NothingMoves

LEMMA OwnsNothing == \A p : Owns(p, {}, {})
BY DEF Owns

LEMMA QuietKeeps ==
  ASSUME Inv, NEW p \in Procs, NEW at \in Pc, NEW l \in Local, Moves(p, at, l), Still,
         Learns(p, at, l), Placed(p, at, l, World)
  PROVE  Inv'
BY StillWorld, OwnsNothing, StepKeeps

LEMMA QuietEnds ==
  ASSUME Inv, NEW p \in Procs, Moves(p, "idle", NoLocal), Still
  PROVE  Inv'
BY StillWorld, OwnsNothing, EndKeeps

(* A handler that goes on with what it has. *)
LEMMA KnowsSame ==
  ASSUME NEW p, NEW at, NEW l, l.old = loc[p].old, l.new = loc[p].new, pc[p] # "apply_failed",
         Holds(at, l) => Holds(pc[p], loc[p])
  PROVE  Learns(p, at, l)
BY DEF Learns

LEMMA KnowsNothing ==
  ASSUME NEW p, NEW at, NEW l, l.old = None, l.new = None
  PROVE  Learns(p, at, l)
BY DEF Learns, Holds

-----------------------------------------------------------------------------
(* create_deployment() *)

LEMMA Resolved ==
  ASSUME NEW h \in Hosts \cup {None}, NEW e \in HostNames \cup {None}
  PROVE  /\ ResolveHostname(h, e) \in HostNames \cup {None}
         /\ h # None => ResolveHostname(h, e) # None
         /\ h = None => ResolveHostname(h, e) = None
<1>1. h # None => <<h>> \o Domain \in HostNames
  BY DEF HostNames
<1>2. None \notin HostNames
  BY NoneAssumption
<1> QED BY <1>1, <1>2 DEF ResolveHostname

(* A request that is being checked. *)
LEMMA CreatingPlaced ==
  ASSUME NEW p \in Clients, NEW at \in Creating, NEW l \in Local, NEW w \in Worlds,
         l.name \in Names, l.req \in Access, l.prev = None, l.old = None, l.new = None,
         l.req.host # None => l.host # None
  PROVE  Placed(p, at, l, w)
<1>1. Begun(p, at, l, w)
  BY ClientProcs DEF Begun, Creating, Applying, Deleting, Exposing, NotDrawn
<1>2. Manifested(at, l) /\ ReadOnce(at, l, w) /\ Worked(at, l, w) /\ Permitted(at, l, w)
      /\ Looked(at, l, w) /\ Removed(at, l, w)
  BY DEF Creating, Manifested, ReadOnce, Worked, Permitted, Looked, Removed, AfterRead, Exposing, Deleting
<1>3. Held(at, l, w)
  BY DEF Held, Holds, Withdraws, Retires, Creating
<1> QED BY <1>1, <1>2, <1>3 DEF Placed

LEMMA CreateDeploymentKeeps ==
  ASSUME Inv, NEW c \in Clients, CreateDeployment(c)
  PROVE  Inv'
<1>1. PICK n \in Names, r \in Access :
        Goto(c, "create_check", [NoLocal EXCEPT !.name = n, !.req = r, !.host = ResolveHostname(r.host, None),
                                                !.pull = registry])
  BY DEF CreateDeployment
<1> DEFINE l == [NoLocal EXCEPT !.name = n, !.req = r, !.host = ResolveHostname(r.host, None), !.pull = registry]
<1>2. r.host \in Hosts \cup {None}
  BY DEF Access
<1>3. /\ ResolveHostname(r.host, None) \in HostNames \cup {None}
      /\ r.host # None => ResolveHostname(r.host, None) # None
  BY <1>2, Resolved
<1>4. registry \in BOOLEAN
  BY InvParts
<1>5. l \in Local /\ l.name = n /\ l.req = r /\ l.prev = None /\ l.old = None /\ l.new = None
      /\ l.host = ResolveHostname(r.host, None)
  BY ONLY <1>3, <1>4, n \in Names, r \in Access, EmptyLocal DEF NoLocal, Local
<1>6. Moves(c, "create_check", l)
  BY <1>1, Goes
<1> HIDE DEF l
<1>7. Still
  BY InvParts, BoundAssumption DEF CreateDeployment, Begin, Still
<1>8. "create_check" \in Creating /\ "create_check" \in Pc
  BY DEF Creating, Pc
<1>9. Placed(c, "create_check", l, World)
  BY <1>3, <1>5, <1>8, CreatingPlaced, InvParts
<1>10. Learns(c, "create_check", l)
  BY <1>5, KnowsNothing
<1> QED BY <1>5, <1>6, <1>7, <1>8, <1>9, <1>10, ClientProcs, QuietKeeps

LEMMA ValidateNewHostnameKeeps ==
  ASSUME Inv, NEW c \in Clients, ValidateNewHostname(c)
  PROVE  Inv'
<1>1. Still /\ pc[c] = "create_check" /\ c \in Procs
  BY InvParts, ClientProcs DEF ValidateNewHostname, Still, At
<1>2. /\ loc[c] \in Local /\ loc[c].name \in Names /\ loc[c].req \in Access /\ loc[c].prev = None
      /\ loc[c].old = None /\ loc[c].new = None /\ (loc[c].req.host # None => loc[c].host # None)
  BY <1>1, InvParts DEF Placed, Begun, Creating, NotDrawn
<1>3. Moves(c, "create_insert", loc[c]) \/ Moves(c, "idle", NoLocal)
  BY Goes, Ends DEF ValidateNewHostname
<1>4. "create_insert" \in Creating /\ "create_insert" \in Pc
  BY DEF Creating, Pc
<1>5. Placed(c, "create_insert", loc[c], World) /\ Learns(c, "create_insert", loc[c])
  BY <1>2, <1>4, CreatingPlaced, KnowsNothing, InvParts
<1> QED BY <1>1, <1>2, <1>3, <1>4, <1>5, QuietKeeps, QuietEnds

(* The request of a task that is queued. *)
LEMMA QueuedPlaced ==
  ASSUME NEW i \in Ids, NEW l \in Local, NEW w \in Worlds, l.id = i, l.name \in Names, l.req \in Access,
         l.prev = None, l.old = None, l.new = None, l.req.host # None => l.host # None,
         w.rows[i].state # "unborn", w.rows[i].name = l.name
  PROVE  Placed(i, "queued", l, w)
<1>1. Begun(i, "queued", l, w)
  BY TaskProcs DEF Begun, Creating, Applying, Deleting, Exposing
<1>2. /\ Manifested("queued", l) /\ ReadOnce("queued", l, w) /\ Worked("queued", l, w)
      /\ Permitted("queued", l, w) /\ Looked("queued", l, w) /\ Removed("queued", l, w)
  BY DEF Manifested, ReadOnce, Worked, Permitted, Looked, Removed, AfterRead, Exposing, Deleting
<1>3. Held("queued", l, w)
  BY DEF Held, Holds, Withdraws, Retires
<1> QED BY <1>1, <1>2, <1>3 DEF Placed

(* Two move: the request ends, and its task begins. *)
LEMMA UpsertDeployedInstanceKeeps ==
  ASSUME Inv, NEW c \in Clients, UpsertDeployedInstance(c)
  PROVE  Inv'
<1>1. pc[c] = "create_insert" /\ c \in Procs /\ c \notin Ids
  BY ClientProcs DEF UpsertDeployedInstance, At
<1>2. /\ loc[c] \in Local /\ loc[c].name \in Names /\ loc[c].req \in Access /\ loc[c].prev = None
      /\ loc[c].old = None /\ loc[c].new = None /\ (loc[c].req.host # None => loc[c].host # None)
  BY <1>1, InvParts DEF Placed, Begun, Creating, NotDrawn
<1>3. CASE \E i \in Live : rows[i].name = loc[c].name
  <2>1. Still /\ Moves(c, "idle", NoLocal)
    BY <1>3, InvParts, Ends DEF UpsertDeployedInstance, Still, db
  <2> QED BY <1>1, <2>1, QuietEnds
<1>4. CASE ~\E i \in Live : rows[i].name = loc[c].name
  <2>1. PICK i \in Ids :
          /\ rows[i].state = "unborn"
          /\ rows' = [rows EXCEPT ![i] = [state |-> "live", name |-> loc[c].name,
                                          status |-> "deploying", calm |-> TRUE]]
          /\ pc' = [pc EXCEPT ![c] = "idle", ![i] = "queued"]
          /\ loc' = [loc EXCEPT ![c] = NoLocal, ![i] = [loc[c] EXCEPT !.id = i]]
    BY <1>4 DEF UpsertDeployedInstance
  <2> DEFINE l == [loc[c] EXCEPT !.id = i]
             r == [state |-> "live", name |-> loc[c].name, status |-> "deploying", calm |-> TRUE]
  <2>2. /\ l \in Local /\ l.id = i /\ l.name = loc[c].name /\ l.req = loc[c].req /\ l.prev = None
        /\ l.old = None /\ l.new = None /\ l.host = loc[c].host
    BY ONLY <1>2, i \in Ids DEF Local
  <2>3. r \in Row /\ r.state = "live" /\ r.name = loc[c].name
    BY ONLY <1>2 DEF Row
  <2>4. i \in Procs /\ i # c /\ pc[i] = "idle"
    BY <1>1, <2>1, TaskProcs DEF Inv
  <2>5. rows' = [rows EXCEPT ![i] = r] /\ loc' = [loc EXCEPT ![c] = NoLocal, ![i] = l]
    BY <2>1
  <2> HIDE DEF l, r
  <2>6. rows \in [Ids -> Row] /\ rows'[i] = r /\ \A j \in Ids : j # i => rows'[j] = rows[j]
    BY <2>5 DEF Inv, TypeOK
  <2>7. rows' \in [Ids -> Row] /\ World' \in Worlds /\ World'.rows = rows'
        /\ World'.clock = World.clock /\ World'.k8s = World.k8s /\ World'.auth = World.auth /\ World'.http = World.http
    BY <2>3, <2>5, <2>6, InvParts DEF UpsertDeployedInstance, cluster, World, Worlds
  <2>8. \A j \in Ids : rows[j].state = "live" => rows[j].name # loc[c].name
    BY <1>4 DEF Live
  <2>9. Sound(World') /\ Bears(World, World', {}, {})
    <3>1. \A j \in Ids : World'.rows[j].state # "unborn" => World'.rows[j].name \in Names
      BY <1>2, <2>3, <2>6, <2>7, InvParts, SoundParts DEF World
    <3>2. \A j, k \in Ids : World'.rows[j].state = "live" /\ World'.rows[k].state = "live"
                              /\ World'.rows[j].name = World'.rows[k].name => j = k
      BY <2>3, <2>6, <2>7, <2>8, InvParts, SoundParts DEF World
    <3>3. \A j \in Ids : World.rows[j].state # "unborn" =>
            /\ World'.rows[j].state # "unborn" /\ World'.rows[j].name = World.rows[j].name
            /\ Calm(World', j) => Calm(World, j)
      BY <2>1, <2>6, <2>7 DEF World, Calm
    <3> QED BY <2>7, <3>1, <3>2, <3>3, InvParts, RowsChange
  <2>10. Placed(i, "queued", l, World')
    BY <1>2, <2>2, <2>3, <2>6, <2>7, QueuedPlaced
  <2>11. /\ pc'[c] = "idle" /\ loc'[c] = NoLocal /\ pc'[i] = "queued" /\ loc'[i] = l
         /\ \A q \in Procs \ {c, i} : pc'[q] = pc[q] /\ loc'[q] = loc[q]
    BY <1>1, <2>1, <2>4, <2>5, InvParts
  <2>12. ASSUME NEW q \in Procs PROVE Placed(q, pc'[q], loc'[q], World')
    <3>1. CASE q = c
      BY <2>7, <2>11, <3>1, IdlePlaced
    <3>2. CASE q = i
      BY <2>10, <2>11, <3>2
    <3>3. CASE q \notin {c, i}
      BY <2>7, <2>9, <2>11, <3>3, InvParts, PlacedStay
    <3> QED BY <3>1, <3>2, <3>3
  <2>13. ASSUME NEW q \in Procs PROVE Apart(q)'
    <3>1. CASE q \in {c, i}
      BY <2>11, <3>1 DEF Apart, Holds
    <3>2. CASE q \notin {c, i}
      BY <2>2, <2>11, <3>2, InvParts, EmptyLocal DEF Apart, Holds
    <3> QED BY <3>1, <3>2
  <2>14. TypeOK'
    <3>1. pc' \in [Procs -> Pc] /\ loc' \in [Procs -> Local]
      <4>1. {"idle", "queued"} \subseteq Pc
        BY DEF Pc, Applying
      <4>2. pc \in [Procs -> Pc] /\ loc \in [Procs -> Local]
        BY InvParts
      <4>3. pc' = [pc EXCEPT ![c] = "idle", ![i] = "queued"]
        BY <2>1
      <4> QED BY ONLY <2>2, <2>5, <4>1, <4>2, <4>3, EmptyLocal
    <3>2. k8s' = k8s /\ auth' = auth /\ clock' = clock /\ {inCluster', allowHttp', registry'} \subseteq BOOLEAN
          /\ {clock', sent', faults'} \subseteq Nat
      BY InvParts DEF UpsertDeployedInstance, cluster
    <3>3. Related(rows', k8s', auth', clock')
      BY <2>9 DEF World, Sound
    <3> QED BY <2>7, <3>1, <3>2, <3>3 DEF TypeOK, Inv, Pc
  <2>15. \A j \in Ids : rows'[j].state = "unborn" => pc'[j] = "idle"
    BY <1>1, <2>3, <2>6, <2>11, TaskProcs DEF Inv
  <2> QED BY <2>9, <2>12, <2>13, <2>14, <2>15 DEF Inv
<1> QED BY <1>3, <1>4

-----------------------------------------------------------------------------
(* The queued task.                                                         *)

(* The manifests of a request, and those that are left after the next.      *)
LEMMA OrderedAfterPlain ==
  ASSUME NEW a \in Seq(Kinds), NEW b \in Seq(Kinds), a # <<>>, Ordered(b), b # <<>> => b[1] # "middleware",
         \A k \in 1..Len(a) : a[k] \notin {"auth", "middleware", "ingress"}
  PROVE  LET todo == a \o b
         IN /\ todo \in Seq(Kinds) /\ Ordered(todo) /\ todo # <<>> /\ Head(todo) = a[1]
            /\ \A k \in 1..Len(todo) : todo[k] = "ingress" => b # <<>>
<1> DEFINE todo == a \o b
<1>1. /\ todo \in Seq(Kinds) /\ Len(todo) = Len(a) + Len(b) /\ Len(a) \in Nat /\ Len(b) \in Nat
      /\ Len(a) >= 1
      /\ \A k \in 1..Len(todo) : todo[k] = IF k <= Len(a) THEN a[k] ELSE b[k - Len(a)]
  OBVIOUS
<1>2. todo # <<>> /\ Head(todo) = a[1]
  BY <1>1
<1> HIDE DEF todo
<1>3. ASSUME NEW k \in 1..Len(todo), todo[k] \in {"auth", "middleware", "ingress"}
      PROVE  k - Len(a) \in 1..Len(b) /\ todo[k] = b[k - Len(a)]
  BY <1>1, <1>3
<1>4. ASSUME NEW k \in 1..Len(todo)
      PROVE  /\ todo[k] = "auth" => k + 1 \in 1..Len(todo) /\ todo[k + 1] = "middleware"
             /\ todo[k] = "middleware" => k + 1 = Len(todo) /\ todo[k + 1] = "ingress" /\ (k > 1 => todo[k - 1] = "auth")
             /\ todo[k] = "ingress" => k = Len(todo)
  <2> SUFFICES ASSUME todo[k] \in {"auth", "middleware", "ingress"} PROVE <1>4!2
    OBVIOUS
  <2> DEFINE j == k - Len(a)
  <2>1. j \in 1..Len(b) /\ todo[k] = b[j] /\ k = j + Len(a)
    BY <1>1, <1>3
  <2>2. /\ b[j] = "auth" => j + 1 \in 1..Len(b) /\ b[j + 1] = "middleware"
        /\ b[j] = "middleware" => j + 1 = Len(b) /\ b[j + 1] = "ingress" /\ (j > 1 => b[j - 1] = "auth")
        /\ b[j] = "ingress" => j = Len(b)
    BY <2>1 DEF Ordered
  <2>3. b[j] = "middleware" => j > 1
    BY <2>1, <1>1
  <2>4. j + 1 \in 1..Len(b) => k + 1 \in 1..Len(todo) /\ todo[k + 1] = b[j + 1]
    BY <1>1, <2>1
  <2>5. ASSUME j > 1 PROVE todo[k - 1] = b[j - 1]
    <3>1. k - 1 \in 1..Len(todo) /\ ~(k - 1 <= Len(a)) /\ (k - 1) - Len(a) = j - 1
      BY <1>1, <2>1, <2>5
    <3> QED BY <1>1, <3>1
  <2>6. j = Len(b) <=> k = Len(todo)
    BY <1>1, <2>1
  <2>7. j + 1 = Len(b) => j + 1 \in 1..Len(b) /\ k + 1 = Len(todo)
    BY <1>1, <2>1
  <2> QED BY ONLY <2>1, <2>2, <2>3, <2>4, <2>5, <2>6, <2>7
<1>5. Ordered(todo)
  BY <1>4 DEF Ordered
<1>6. \A k \in 1..Len(todo) : todo[k] = "ingress" => b # <<>>
  BY <1>3
<1> QED BY <1>1, <1>2, <1>5, <1>6 DEF todo

LEMMA ManifestsOrdered ==
  ASSUME NEW r \in Access, NEW pull \in BOOLEAN
  PROVE  LET todo == Manifests(r, pull)
         IN /\ todo \in Seq(Kinds) /\ Ordered(todo)
            /\ todo # <<>> /\ Head(todo) \in {"pull", "s3"}
            /\ \A k \in 1..Len(todo) : todo[k] = "ingress" => r.host # None
<1> DEFINE front == <<"s3", "deployment", "service">>
           rest == AccessManifests(r)
<1>1. rest \in Seq(Kinds) /\ Ordered(rest) /\ (rest # <<>> => rest[1] # "middleware" /\ r.host # None)
  <2>1. CASE rest = <<>>
    BY ONLY <2>1 DEF Ordered
  <2>2. CASE rest = <<"ingress">> /\ r.host # None
    BY ONLY <2>2 DEF Ordered, Kinds
  <2>3. CASE rest = <<"auth", "middleware", "ingress">> /\ r.host # None
    BY ONLY <2>3 DEF Ordered, Kinds
  <2> QED BY <2>1, <2>2, <2>3 DEF AccessManifests
<1> DEFINE first == PullSecret(pull)
<1>2. first = <<"pull">> \/ first = <<>>
  BY DEF PullSecret
<1>3. first \in Seq(Kinds) /\ front \in Seq(Kinds)
  <2>1. first \in Seq(Kinds)
    <3>1. <<"pull">> \in Seq(Kinds) /\ <<>> \in Seq(Kinds)
      BY ONLY TRUE DEF Kinds
    <3> QED BY <1>2, <3>1
  <2>2. front \in Seq(Kinds)
    BY ONLY TRUE DEF Kinds
  <2> QED BY ONLY <2>1, <2>2
<1>4. Len(first) \in {0, 1} /\ Len(front) = 3 /\ (Len(first) = 1 => first[1] = "pull")
      /\ front[1] = "s3" /\ front[2] = "deployment" /\ front[3] = "service"
  BY <1>2
<1> HIDE DEF first, front, rest
<1>5. /\ first \o front \in Seq(Kinds) /\ Len(first \o front) = Len(first) + Len(front)
      /\ \A k \in 1..Len(first) + Len(front) :
           (first \o front)[k] = IF k <= Len(first) THEN first[k] ELSE front[k - Len(first)]
  BY ONLY <1>3
<1>6. /\ first \o front # <<>> /\ (first \o front)[1] \in {"pull", "s3"}
      /\ \A k \in 1..Len(first \o front) : (first \o front)[k] \notin {"auth", "middleware", "ingress"}
  BY ONLY <1>4, <1>5
<1>7. Manifests(r, pull) = (first \o front) \o rest
  BY DEF Manifests, first, front, rest
<1> QED BY <1>1, <1>5, <1>6, <1>7, OrderedAfterPlain

LEMMA TailParts ==
  ASSUME NEW todo \in Seq(Kinds), todo # <<>>
  PROVE  /\ Head(todo) = todo[1] /\ Head(todo) \in Kinds /\ Len(todo) \in Nat /\ Len(todo) >= 1
         /\ Tail(todo) \in Seq(Kinds) /\ Len(Tail(todo)) = Len(todo) - 1
         /\ \A k \in 1..Len(Tail(todo)) : Tail(todo)[k] = todo[k + 1]
         /\ Tail(todo) # <<>> => Head(Tail(todo)) = todo[2] /\ Len(todo) >= 2
OBVIOUS

LEMMA TailOrdered ==
  ASSUME NEW todo \in Seq(Kinds), todo # <<>>, Ordered(todo)
  PROVE  Ordered(Tail(todo))
<1> SUFFICES ASSUME NEW k \in 1..Len(Tail(todo))
             PROVE  /\ Tail(todo)[k] = "auth" => k + 1 \in 1..Len(Tail(todo)) /\ Tail(todo)[k + 1] = "middleware"
                    /\ Tail(todo)[k] = "middleware" => /\ k + 1 = Len(Tail(todo)) /\ Tail(todo)[k + 1] = "ingress"
                                                       /\ k > 1 => Tail(todo)[k - 1] = "auth"
                    /\ Tail(todo)[k] = "ingress" => k = Len(Tail(todo))
  BY DEF Ordered
<1>1. k + 1 \in 1..Len(todo) /\ Tail(todo)[k] = todo[k + 1]
  BY TailParts
<1>2. /\ todo[k + 1] = "auth" => k + 2 \in 1..Len(todo) /\ todo[k + 2] = "middleware"
      /\ todo[k + 1] = "middleware" => k + 2 = Len(todo) /\ todo[k + 2] = "ingress" /\ todo[k] = "auth"
      /\ todo[k + 1] = "ingress" => k + 1 = Len(todo)
  BY <1>1 DEF Ordered
<1> QED BY <1>1, <1>2, TailParts

(* What a task has from its request. *)
TaskOf(i, l, w) ==
  /\ l.id = i /\ l.name \in Names /\ l.req \in Access /\ l.prev = None /\ l.old = None
  /\ l.req.host # None => l.host # None
  /\ w.rows[i].state # "unborn" /\ w.rows[i].name = l.name

LEMMA TaskParts ==
  ASSUME Inv, NEW i \in Ids, pc[i] \in Applying
  PROVE  /\ i \in Procs /\ loc[i] \in Local /\ TaskOf(i, loc[i], World) /\ loc[i].name \in Names
         /\ pc[i] \in {"queued", "apply_ns", "apply_check"} => loc[i].new = None
         /\ Begun(i, pc[i], loc[i], World) /\ Manifested(pc[i], loc[i]) /\ Permitted(pc[i], loc[i], World)
         /\ Looked(pc[i], loc[i], World) /\ Held(pc[i], loc[i], World)
<1>1. i \in Procs
  BY TaskProcs
<1>2. Placed(i, pc[i], loc[i], World) /\ loc[i] \in Local
  BY <1>1, InvParts
<1>3. Begun(i, pc[i], loc[i], World)
  BY <1>2 DEF Placed
<1>4. pc[i] \in {"queued", "apply_ns", "apply_check"} => loc[i].new = None
  BY <1>3 DEF Begun, NotDrawn
<1>5. loc[i].name \in Names
  BY <1>3 DEF Begun, Applying
<1> QED BY <1>1, <1>2, <1>3, <1>4, <1>5 DEF Placed, Begun, TaskOf

LEMMA TaskStays ==
  ASSUME NEW i \in Ids, NEW l, NEW w \in Worlds, NEW v \in Worlds, NEW spent, NEW given,
         Bears(w, v, spent, given), TaskOf(i, l, w)
  PROVE  TaskOf(i, l, v)
BY DEF TaskOf, Bears

LEMMA TaskPlaced ==
  ASSUME NEW i \in Ids, NEW at \in Applying, NEW l \in Local, NEW w, TaskOf(i, l, w),
         at \in {"queued", "apply_ns", "apply_check"} => l.new = None,
         at # "apply_failed" /\ l.new # None => w.auth[l.new].state # "unborn",
         Manifested(at, l), Permitted(at, l, w), Looked(at, l, w), Held(at, l, w)
  PROVE  Placed(i, at, l, w)
<1>1. i \in Procs /\ i \notin Clients
  BY TaskProcs
<1>2. at \notin Exposing \cup Creating \cup Deleting \cup {"idle"}
  BY DEF Applying, Exposing, Creating, Deleting
<1>3. Begun(i, at, l, w)
  BY <1>1, <1>2 DEF TaskOf, Begun, NotDrawn, Exposing
<1>4. ReadOnce(at, l, w) /\ Worked(at, l, w) /\ Removed(at, l, w)
  BY <1>2 DEF ReadOnce, Worked, Removed, AfterRead, Exposing, Deleting
<1> QED BY <1>3, <1>4 DEF Placed

(* What failed is recorded, and has no further hold on anything. *)
LEMMA FailedKeeps ==
  ASSUME Inv, NEW i \in Ids, NEW l \in Local, TaskOf(i, l, World), Moves(i, "apply_failed", l), Others,
         NEW given, World' \in Worlds, Sound(World'), Bears(World, World', {}, given), Owns(i, {}, given)
  PROVE  Inv'
<1>1. TaskOf(i, l, World')
  BY TaskStays, InvParts
<1>2. /\ Manifested("apply_failed", l) /\ Permitted("apply_failed", l, World')
      /\ Looked("apply_failed", l, World') /\ Held("apply_failed", l, World')
  BY DEF Manifested, Permitted, Looked, Held, Holds, Withdraws, Retires, AfterRead, Exposing
<1>3. "apply_failed" \in Applying /\ "apply_failed" \in Pc
  BY DEF Applying, Pc
<1>4. Placed(i, "apply_failed", l, World')
  BY <1>1, <1>2, <1>3, TaskPlaced
<1>5. Learns(i, "apply_failed", l)
  BY DEF Learns, Holds, TaskOf
<1> QED BY <1>3, <1>4, <1>5, TaskProcs, StepKeeps

LEMMA FailedQuietly ==
  ASSUME Inv, NEW i \in Ids, NEW l \in Local, TaskOf(i, l, World), Moves(i, "apply_failed", l), Still
  PROVE  Inv'
BY FailedKeeps, StillWorld, OwnsNothing

LEMMA ApplyBeginKeeps ==
  ASSUME Inv, NEW i \in Ids, ApplyBegin(i)
  PROVE  Inv'
<1>1. pc[i] = "queued" /\ pc[i] \in Applying
  BY DEF ApplyBegin, At, Applying
<1>2. i \in Procs /\ loc[i] \in Local /\ TaskOf(i, loc[i], World) /\ loc[i].new = None
  BY <1>1, TaskParts
<1> DEFINE l == [loc[i] EXCEPT !.http = allowHttp]
<1>3. allowHttp \in BOOLEAN
  BY InvParts
<1>4. l \in Local /\ l.http = allowHttp /\ l.id = loc[i].id /\ l.name = loc[i].name /\ l.req = loc[i].req
      /\ l.prev = loc[i].prev /\ l.old = loc[i].old /\ l.new = loc[i].new /\ l.host = loc[i].host
  BY ONLY <1>2, <1>3 DEF Local
<1>5. TaskOf(i, l, World)
  BY ONLY <1>2, <1>4 DEF TaskOf
<1>6. Still
  BY InvParts DEF ApplyBegin, Still
<1>7. CASE EndpointAllowed(loc[i].host, loc[i].req.scheme, None)
  <2>1. Moves(i, "apply_ns", l)
    BY <1>7, Goes DEF ApplyBegin
  <2> HIDE DEF l
  <2>2. Permitted("apply_ns", l, World)
    BY <1>2, <1>4, <1>7 DEF Permitted, EndpointAllowed, TaskOf
  <2>3. Manifested("apply_ns", l) /\ Looked("apply_ns", l, World) /\ Held("apply_ns", l, World)
    BY DEF Manifested, Looked, Held, Holds, Withdraws, Retires
  <2>4. "apply_ns" \in Applying /\ "apply_ns" \in Pc
    BY DEF Applying, Pc
  <2>5. Placed(i, "apply_ns", l, World)
    BY <1>2, <1>4, <1>5, <2>2, <2>3, <2>4, TaskPlaced
  <2>6. Learns(i, "apply_ns", l)
    BY <1>2, <1>4, KnowsNothing DEF TaskOf
  <2> QED BY <1>2, <1>4, <1>6, <2>1, <2>4, <2>5, <2>6, QuietKeeps
<1>8. CASE ~EndpointAllowed(loc[i].host, loc[i].req.scheme, None)
  <2>1. Moves(i, "apply_failed", l)
    BY <1>8, Goes DEF ApplyBegin
  <2> QED BY <1>4, <1>5, <1>6, <2>1, FailedQuietly
<1> QED BY <1>7, <1>8

LEMMA Touched ==
  ASSUME NEW o \in Objects, NEW t \in Nat
  PROVE  LET q == [o EXCEPT !.touched = t]
         IN q \in Objects /\ q.touched = t /\ q.ingress = o.ingress /\ q.dep = o.dep
BY DEF Objects

LEMMA EnsureNamespaceKeeps ==
  ASSUME Inv, NEW i \in Ids, EnsureNamespace(i)
  PROVE  Inv'
<1>1. pc[i] = "apply_ns" /\ pc[i] \in Applying
  BY DEF EnsureNamespace, At, Applying
<1>2. /\ i \in Procs /\ loc[i] \in Local /\ TaskOf(i, loc[i], World) /\ loc[i].new = None
      /\ loc[i].name \in Names /\ Permitted("apply_ns", loc[i], World)
  BY <1>1, TaskParts
<1> DEFINE n == loc[i].name
           a == [k8s[n] EXCEPT !.ns = "active"]
           o == [a EXCEPT !.touched = clock + 1]
<1>3. Others /\ faults' \in Nat
  BY InvParts, BoundAssumption DEF EnsureNamespace, Call, Others, db
<1>4. \/ Moves(i, "apply_check", loc[i]) /\ UNCHANGED cluster
      \/ Moves(i, "apply_failed", loc[i]) /\ UNCHANGED cluster
      \/ /\ Moves(i, "apply_check", loc[i]) \/ Moves(i, "apply_failed", loc[i])
         /\ k8s' = [k8s EXCEPT ![n] = o]
         /\ clock' = clock + 1 /\ auth' = auth
  BY Goes DEF EnsureNamespace, Call, Writes, NewVersion, cluster
<1>5. ASSUME World' \in Worlds, Sound(World'), Bears(World, World', {}, {}),
             Moves(i, "apply_check", loc[i]) \/ Moves(i, "apply_failed", loc[i])
      PROVE  Inv'
  <2>1. CASE Moves(i, "apply_failed", loc[i])
    BY <1>2, <1>3, <1>5, <2>1, OwnsNothing, FailedKeeps
  <2>2. CASE Moves(i, "apply_check", loc[i])
    <3>1. TaskOf(i, loc[i], World')
      BY <1>2, <1>5, InvParts, TaskStays
    <3>2. Permitted("apply_check", loc[i], World')
      BY <1>2 DEF Permitted, Exposing, AfterRead
    <3>3. Manifested("apply_check", loc[i]) /\ Looked("apply_check", loc[i], World') /\ Held("apply_check", loc[i], World')
      BY DEF Manifested, Looked, Held, Holds, Withdraws, Retires
    <3>4. "apply_check" \in Applying /\ "apply_check" \in Pc
      BY DEF Applying, Pc
    <3>5. Placed(i, "apply_check", loc[i], World')
      BY <1>2, <3>1, <3>2, <3>3, <3>4, TaskPlaced
    <3>6. Learns(i, "apply_check", loc[i])
      BY <1>2, KnowsNothing DEF TaskOf
    <3> QED BY <1>2, <1>3, <1>5, <2>2, <3>4, <3>5, <3>6, OwnsNothing, StepKeeps
  <2> QED BY <1>5, <2>1, <2>2
<1>6. CASE UNCHANGED cluster
  <2>1. Still
    BY <1>3, <1>6, InvParts DEF EnsureNamespace, Still
  <2> QED BY <1>4, <1>5, <2>1, StillWorld
<1>7. CASE /\ k8s' = [k8s EXCEPT ![n] = o]
           /\ clock' = clock + 1 /\ auth' = auth
           /\ Moves(i, "apply_check", loc[i]) \/ Moves(i, "apply_failed", loc[i])
  <2>1. k8s[n] \in Objects /\ clock + 1 \in Nat
    BY <1>2 DEF Inv, TypeOK
  <2>2. a \in Objects /\ a.ingress = k8s[n].ingress /\ a.dep = k8s[n].dep
    BY ONLY <2>1 DEF Objects
  <2>3. o \in Objects /\ o.touched = clock + 1 /\ o.ingress = k8s[n].ingress /\ o.dep = k8s[n].dep
    BY <2>1, <2>2, Touched
  <2> HIDE DEF o
  <2>4. World' \in Worlds
    BY <1>2, <1>7, <2>3, InvParts DEF EnsureNamespace, db, World, Worlds
  <2>5. Sound(World') /\ Bears(World, World', {}, {})
    BY <1>2, <1>7, <2>3, <2>4, InvParts, Written DEF EnsureNamespace, db, World
  <2> QED BY <1>5, <1>7, <2>4, <2>5
<1> QED BY <1>4, <1>6, <1>7

(* A handler that goes on with what it has of the request and the Ingress.  *)
GoesOn(k, l) ==
  /\ l.id = k.id /\ l.name = k.name /\ l.req = k.req /\ l.prev = k.prev
  /\ l.old = k.old /\ l.host = k.host /\ l.http = k.http

LEMMA ApplyCheckKeeps ==
  ASSUME Inv, NEW i \in Ids, ApplyCheck(i)
  PROVE  Inv'
<1>1. pc[i] = "apply_check" /\ pc[i] \in Applying
  BY DEF ApplyCheck, At, Applying
<1>2. /\ i \in Procs /\ loc[i] \in Local /\ TaskOf(i, loc[i], World) /\ loc[i].new = None
      /\ loc[i].name \in Names /\ Permitted("apply_check", loc[i], World)
  BY <1>1, TaskParts
<1> DEFINE list == Manifests(loc[i].req, loc[i].pull)
           j == [loc[i] EXCEPT !.todo = list]
           l == [j EXCEPT !.checked = clock]
<1>3. /\ list \in Seq(Kinds) /\ Ordered(list) /\ list # <<>> /\ Head(list) \in {"pull", "s3"}
      /\ \A k \in 1..Len(list) : list[k] = "ingress" => loc[i].req.host # None
  BY <1>2, ManifestsOrdered DEF TaskOf, Local
<1> HIDE DEF list
<1>4. clock \in Nat /\ list \in Seq(Kinds) /\ loc[i] \in Local
  BY <1>2, <1>3, InvParts
<1>5. \/ Moves(i, "apply_failed", l)
      \/ HostnameAvailable(loc[i].host, None) /\ Moves(i, "apply", l)
  BY Goes DEF ApplyCheck, Call, list
<1>6. /\ l \in Local /\ GoesOn(loc[i], l) /\ l.new = loc[i].new /\ l.todo = list /\ l.checked = clock
      /\ TaskOf(i, l, World)
  <2>1. j \in Local /\ GoesOn(loc[i], j) /\ j.new = loc[i].new /\ j.todo = list
    BY ONLY <1>4 DEF Local, GoesOn
  <2> HIDE DEF j
  <2>2. j \in Local /\ clock \in Nat
    BY <1>4, <2>1
  <2>3. l \in Local /\ GoesOn(j, l) /\ l.new = j.new /\ l.todo = j.todo /\ l.checked = clock
    BY ONLY <2>2 DEF Local, GoesOn
  <2> HIDE DEF l
  <2> QED BY ONLY <1>2, <2>1, <2>3 DEF TaskOf, GoesOn
<1> HIDE DEF l
<1>7. Still
  BY InvParts, BoundAssumption DEF ApplyCheck, Call, Still, cluster
<1>8. CASE Moves(i, "apply_failed", l)
  BY <1>6, <1>7, <1>8, FailedQuietly
<1>9. CASE HostnameAvailable(loc[i].host, None) /\ Moves(i, "apply", l)
  <2>1. Permitted("apply", l, World)
    BY ONLY <1>2, <1>6 DEF Permitted, GoesOn
  <2>2. Looked("apply", l, World)
    <3>1. \A m \in Names : l.host # None /\ k8s[m].ingress # None => ~HostsOverlap(l.host, k8s[m].ingress.host)
      BY <1>6, <1>9, InvParts DEF HostnameAvailable, GoesOn
    <3> QED BY <1>4, <1>6, <3>1 DEF Looked, World
  <2>3. Manifested("apply", l)
    BY <1>2, <1>3, <1>6 DEF Manifested, TaskOf, GoesOn
  <2>4. Held("apply", l, World)
    BY <1>2, <1>6 DEF TaskOf, Held, Holds, Withdraws, Retires
  <2>5. "apply" \in Applying /\ "apply" \in Pc
    BY DEF Applying, Pc
  <2>6. Placed(i, "apply", l, World)
    BY <1>2, <1>6, <2>1, <2>2, <2>3, <2>4, <2>5, TaskPlaced
  <2>7. Learns(i, "apply", l)
    BY <1>2, <1>6, KnowsNothing DEF TaskOf
  <2> QED BY <1>2, <1>6, <1>7, <1>9, <2>5, <2>6, <2>7, QuietKeeps
<1> QED BY <1>5, <1>8, <1>9

LEMMA NextPlaced ==
  ASSUME Inv, NEW i \in Ids, pc[i] = "apply", NEW l \in Local, GoesOn(loc[i], l), l.checked = loc[i].checked,
         loc[i].todo # <<>>, l.todo = Tail(loc[i].todo),
         NEW v \in Worlds, NEW spent, NEW given, Bears(World, v, spent, given), v.http = World.http,
         l.new # None => v.auth[l.new].state # "unborn",
         l.todo # <<>> => (l.new # None <=> loc[i].todo[1] \in {"auth", "middleware"}),
         Held("apply", l, v)
  PROVE  TaskOf(i, l, World) /\ Placed(i, "apply", l, v)
<1>1. "apply" \in Applying /\ "apply" \in Pc
  BY DEF Applying, Pc
<1>2. /\ i \in Procs /\ loc[i] \in Local /\ TaskOf(i, loc[i], World) /\ loc[i].name \in Names
      /\ Permitted("apply", loc[i], World) /\ Looked("apply", loc[i], World) /\ Manifested("apply", loc[i])
  BY <1>1, TaskParts
<1>3. TaskOf(i, l, World)
  BY ONLY <1>2, GoesOn(loc[i], l) DEF TaskOf, GoesOn
<1>4. TaskOf(i, l, v)
  BY <1>3, InvParts, TaskStays
<1>5. Permitted("apply", l, v)
  BY ONLY <1>2, GoesOn(loc[i], l) DEF Permitted, GoesOn
<1>6. Looked("apply", loc[i], v)
  BY <1>1, <1>2, InvParts, LookedStay
<1>7. Looked("apply", l, v)
  BY ONLY <1>6, GoesOn(loc[i], l), l.checked = loc[i].checked DEF Looked, GoesOn
<1>8. Manifested("apply", l)
  <2>1. loc[i].todo \in Seq(Kinds)
    BY <1>2 DEF Local
  <2>2. Ordered(loc[i].todo)
    BY <1>2 DEF Manifested
  <2>3. Ordered(l.todo)
    BY <2>1, <2>2, TailOrdered
  <2>4. \A k \in 1..Len(l.todo) : l.todo[k] = "ingress" => l.host # None
    <3>1. \A k \in 1..Len(l.todo) : k + 1 \in 1..Len(loc[i].todo) /\ l.todo[k] = loc[i].todo[k + 1]
      BY <2>1, TailParts
    <3> QED BY <1>2, <3>1 DEF Manifested, GoesOn
  <2>5. ASSUME l.todo # <<>>
        PROVE  /\ l.new # None => Head(l.todo) \in {"middleware", "ingress"}
               /\ Head(l.todo) = "middleware" => l.new # None
    <3>1. Len(loc[i].todo) >= 2 /\ Len(loc[i].todo) \in Nat /\ Head(l.todo) = loc[i].todo[2]
      BY <2>1, <2>5, TailParts
    <3>2. /\ loc[i].todo[1] = "auth" => loc[i].todo[2] = "middleware"
          /\ loc[i].todo[1] = "middleware" => loc[i].todo[2] = "ingress"
          /\ loc[i].todo[2] = "middleware" => loc[i].todo[1] = "auth"
      BY <2>2, <3>1 DEF Ordered
    <3> QED BY <2>5, <3>1, <3>2
  <2> QED BY <2>3, <2>4, <2>5 DEF Manifested
<1> QED BY <1>1, <1>3, <1>4, <1>5, <1>7, <1>8, TaskPlaced

(* The call was carried out, and answered or not.                           *)
LEMMA AppliedKeeps ==
  ASSUME Inv, NEW i \in Ids, pc[i] = "apply", NEW l \in Local, GoesOn(loc[i], l), l.checked = loc[i].checked,
         loc[i].todo # <<>>, l.todo = Tail(loc[i].todo),
         Moves(i, "apply", l) \/ Moves(i, "apply_failed", l), Others,
         NEW given, World' \in Worlds, Sound(World'), Bears(World, World', {}, given), Owns(i, {}, given),
         l.new # None => World'.auth[l.new].state # "unborn",
         l.todo # <<>> => (l.new # None <=> loc[i].todo[1] \in {"auth", "middleware"}),
         Learns(i, "apply", l), Held("apply", l, World')
  PROVE  Inv'
<1>1. World'.http = World.http
  BY DEF Others, World
<1>2. TaskOf(i, l, World) /\ Placed(i, "apply", l, World')
  BY <1>1, NextPlaced
<1>3. CASE Moves(i, "apply_failed", l)
  BY <1>2, <1>3, FailedKeeps
<1>4. CASE Moves(i, "apply", l)
  <2>1. "apply" \in Pc /\ i \in Procs
    BY TaskProcs DEF Pc, Applying
  <2> QED BY <1>2, <1>4, <2>1, StepKeeps
<1> QED BY <1>3, <1>4

LEMMA ApplyParts ==
  ASSUME Inv, NEW i \in Ids, pc[i] = "apply", loc[i].todo # <<>>
  PROVE  /\ i \in Procs /\ loc[i] \in Local /\ TaskOf(i, loc[i], World) /\ loc[i].name \in Names
         /\ loc[i].todo \in Seq(Kinds) /\ Tail(loc[i].todo) \in Seq(Kinds) /\ Ordered(loc[i].todo)
         /\ Head(loc[i].todo) = loc[i].todo[1] /\ loc[i].todo[1] \in Kinds
         /\ loc[i].new # None => loc[i].todo[1] \in {"middleware", "ingress"}
         /\ loc[i].todo[1] = "middleware" => loc[i].new # None
         /\ loc[i].todo[1] = "ingress" => loc[i].host # None /\ Tail(loc[i].todo) = <<>>
         /\ Looked("apply", loc[i], World) /\ Held("apply", loc[i], World)
         /\ Holds("apply", loc[i]) <=> loc[i].new # None
         /\ loc[i].new # None => loc[i].new \in Secrets /\ auth[loc[i].new].state # "unborn"
<1>1. pc[i] \in Applying
  BY DEF Applying
<1>2. /\ i \in Procs /\ loc[i] \in Local /\ TaskOf(i, loc[i], World) /\ loc[i].name \in Names
      /\ Manifested("apply", loc[i]) /\ Looked("apply", loc[i], World) /\ Held("apply", loc[i], World)
      /\ Begun(i, "apply", loc[i], World)
  BY <1>1, TaskParts
<1>3. loc[i].todo \in Seq(Kinds) /\ Ordered(loc[i].todo)
  BY <1>2 DEF Local, Manifested
<1>4. /\ Tail(loc[i].todo) \in Seq(Kinds) /\ Head(loc[i].todo) = loc[i].todo[1] /\ loc[i].todo[1] \in Kinds
      /\ 1 \in 1..Len(loc[i].todo) /\ Len(Tail(loc[i].todo)) = Len(loc[i].todo) - 1 /\ Len(loc[i].todo) \in Nat
  BY <1>3, TailParts
<1>5. loc[i].todo[1] = "ingress" => loc[i].host # None /\ Tail(loc[i].todo) = <<>>
  <2> SUFFICES ASSUME loc[i].todo[1] = "ingress" PROVE loc[i].host # None /\ Tail(loc[i].todo) = <<>>
    OBVIOUS
  <2>1. loc[i].host # None
    BY <1>2, <1>4 DEF Manifested
  <2>2. 1 = Len(loc[i].todo)
    BY <1>3, <1>4 DEF Ordered
  <2>3. Len(Tail(loc[i].todo)) = 0
    BY <1>4, <2>2
  <2> QED BY <1>4, <2>1, <2>3, EmptySeq
<1>6. loc[i].new # None => loc[i].new \in Secrets /\ auth[loc[i].new].state # "unborn"
  BY <1>2 DEF Local, Begun, World
<1>7. Holds("apply", loc[i]) <=> loc[i].new # None
  BY DEF Holds
<1> QED BY <1>2, <1>3, <1>4, <1>5, <1>6, <1>7 DEF Manifested

(* The pull Secret, the S3 Secret, the Deployment and the Service.          *)
LEMMA ApplyPlain ==
  ASSUME Inv, NEW i \in Ids, pc[i] = "apply", loc[i].todo # <<>>,
         loc[i].todo[1] \in {"pull", "s3", "deployment", "service"},
         NEW l \in Local, GoesOn(loc[i], l), l.checked = loc[i].checked, l.new = loc[i].new,
         l.todo = Tail(loc[i].todo),
         Moves(i, "apply", l) \/ Moves(i, "apply_failed", l), Others, rows' = rows,
         NEW objects \in Objects, objects.ingress = k8s[loc[i].name].ingress,
         k8s[loc[i].name].dep # None => objects.dep = k8s[loc[i].name].dep,
         Writes(loc[i].name, objects), auth' = auth
  PROVE  Inv'
<1>1. loc[i].name \in Names /\ loc[i].new = None /\ TaskOf(i, loc[i], World)
  BY ApplyParts
<1> DEFINE n == loc[i].name
           o == [objects EXCEPT !.touched = clock + 1]
<1>2. clock \in Nat
  BY InvParts
<1>3. o \in Objects /\ o.touched = clock + 1 /\ o.ingress = objects.ingress /\ o.dep = objects.dep
  BY <1>2, Touched
<1>4. k8s' = [k8s EXCEPT ![n] = o] /\ clock' = clock + 1
  BY DEF Writes, NewVersion
<1> HIDE DEF o
<1>5. World' \in Worlds
  BY <1>1, <1>3, <1>4, InvParts DEF Others, World, Worlds
<1>6. Sound(World') /\ Bears(World, World', {}, {})
  BY <1>1, <1>3, <1>4, <1>5, InvParts, Written DEF World
<1>7. Held("apply", l, World') /\ Learns(i, "apply", l)
  BY <1>1 DEF Held, Holds, Withdraws, Retires, Learns, GoesOn
<1> QED BY <1>1, <1>5, <1>6, <1>7, AppliedKeeps, OwnsNothing

(* A Secret or its Middleware is written.                                   *)
Made(s, a, n) == /\ auth[s].state = "unborn" \/ (a.owner = auth[s].owner /\ auth[s].name = n)
                 /\ auth[s].state # "gone" /\ a.state = "live" /\ a.name = n
                 /\ auth[s].middleware => a.middleware

LEMMA SecretWritten ==
  ASSUME Inv, NEW n \in Names, NEW s \in Secrets, NEW a \in Auth, Others, rows' = rows,
         auth' = [auth EXCEPT ![s] = a], Writes(n, k8s[n]), Made(s, a, n)
  PROVE  /\ World' \in Worlds /\ Sound(World') /\ Bears(World, World', {}, {})
         /\ World'.auth[s] = a /\ (~Named(World, s) => ~Named(World', s))
         /\ \A m \in Names : World'.k8s[m].dep = World.k8s[m].dep
         /\ \A i \in Ids : Calm(World', i) <=> Calm(World, i)
<1>1. clock \in Nat /\ k8s \in [Names -> Objects] /\ auth \in [Secrets -> Auth]
  BY DEF Inv, TypeOK
<1> DEFINE o == [k8s[n] EXCEPT !.touched = clock + 1]
<1>2. o \in Objects /\ o.ingress = k8s[n].ingress /\ o.dep = k8s[n].dep
  BY <1>1, Touched
<1>3. k8s' = [k8s EXCEPT ![n] = o] /\ clock' = clock + 1
  BY DEF Writes, NewVersion
<1>4. World' \in Worlds
  BY <1>2, <1>3, InvParts DEF Others, World, Worlds
<1>5. Sound(World') /\ Bears(World, World', {}, {})
  <2>1. /\ World'.rows = World.rows /\ World'.clock = World.clock + 1
        /\ World'.auth = [World.auth EXCEPT ![s] = a]
        /\ World'.k8s = [World.k8s EXCEPT ![n] = [World.k8s[n] EXCEPT !.touched = World.clock + 1]]
    BY <1>3 DEF World
  <2>2. /\ World.auth[s].state = "unborn" \/ (a.owner = World.auth[s].owner /\ World.auth[s].name = n)
        /\ World.auth[s].state # "gone" /\ a.state = "live" /\ a.name = n
        /\ World.auth[s].middleware => a.middleware
    BY DEF World, Made
  <2>3. World \in Worlds /\ Sound(World)
    BY InvParts
  <2> QED BY ONLY n \in Names, s \in Secrets, a \in Auth, <1>4, <2>1, <2>2, <2>3, Created
<1> HIDE DEF o
<1>6. \A m \in Names : k8s'[m].ingress = k8s[m].ingress /\ k8s'[m].dep = k8s[m].dep
  BY <1>1, <1>2, <1>3
<1>7. ~Named(World, s) => ~Named(World', s)
  BY <1>6 DEF Named, World
<1>8. auth'[s] = a
  BY <1>1
<1> QED BY <1>4, <1>5, <1>6, <1>7, <1>8 DEF World, Calm

LEMMA ApplySecret ==
  ASSUME Inv, NEW i \in Ids, pc[i] = "apply", loc[i].todo # <<>>, loc[i].todo[1] = "auth",
         NEW s \in Secrets, auth[s].state = "unborn",
         NEW l \in Local, GoesOn(loc[i], l), l.checked = loc[i].checked, l.new = s,
         l.todo = Tail(loc[i].todo),
         Moves(i, "apply", l) \/ Moves(i, "apply_failed", l), Others, rows' = rows,
         auth' = [auth EXCEPT ![s] = [state |-> "live", name |-> loc[i].name, owner |-> None,
                                      middleware |-> FALSE]],
         Writes(loc[i].name, k8s[loc[i].name])
  PROVE  Inv'
<1>1. loc[i].name \in Names /\ loc[i].old = None /\ TaskOf(i, loc[i], World) /\ Ordered(loc[i].todo)
      /\ loc[i].todo \in Seq(Kinds)
  BY ApplyParts DEF TaskOf
<1> DEFINE a == [state |-> "live", name |-> loc[i].name, owner |-> None, middleware |-> FALSE]
<1>2. a \in Auth /\ a.state = "live" /\ a.name = loc[i].name /\ a.owner = None /\ ~a.middleware
  BY ONLY <1>1 DEF Auth
<1>3. auth[s] \in Auth /\ ~auth[s].middleware /\ s # None
  BY InvParts, SoundParts DEF Inv, TypeOK, World
<1> HIDE DEF a
<1>4. auth' = [auth EXCEPT ![s] = a]
  BY DEF a
<1>5. /\ World' \in Worlds /\ Sound(World') /\ Bears(World, World', {}, {})
      /\ World'.auth[s] = a /\ (~Named(World, s) => ~Named(World', s))
  <2>1. Made(s, a, loc[i].name)
    BY <1>2, <1>3 DEF Made
  <2>2. loc[i].name \in Names /\ a \in Auth /\ s \in Secrets
    BY <1>1, <1>2
  <2>3. /\ World' \in Worlds /\ Sound(World') /\ Bears(World, World', {}, {})
        /\ World'.auth[s] = a /\ (~Named(World, s) => ~Named(World', s))
        /\ \A m \in Names : World'.k8s[m].dep = World.k8s[m].dep
        /\ \A j \in Ids : Calm(World', j) <=> Calm(World, j)
    BY ONLY Inv, Others, rows' = rows, Writes(loc[i].name, k8s[loc[i].name]), <1>4, <2>1, <2>2, SecretWritten, Zenon
  <2> QED BY <2>3
<1>6. ~Named(World', s)
  BY <1>3, <1>5, NamedKnown
<1>7. l.todo # <<>> => Head(l.todo) = "middleware"
  <2>1. l.todo # <<>> => Head(l.todo) = loc[i].todo[2] /\ 1 \in 1..Len(loc[i].todo)
    BY <1>1, TailParts
  <2> QED BY <1>1, <2>1 DEF Ordered
<1>8. Held("apply", l, World')
  BY <1>1, <1>2, <1>5, <1>6, <1>7 DEF Held, Holds, Withdraws, Retires, GoesOn
<1>9. Learns(i, "apply", l)
  BY <1>1 DEF Learns, GoesOn
<1>10. World'.auth[l.new].state # "unborn" /\ l.new # None
  BY <1>2, <1>3, <1>5
<1> QED BY <1>5, <1>8, <1>9, <1>10, AppliedKeeps, OwnsNothing

LEMMA ApplyMiddleware ==
  ASSUME Inv, NEW i \in Ids, pc[i] = "apply", loc[i].todo # <<>>, loc[i].todo[1] = "middleware",
         auth[loc[i].new].state = "live",
         NEW l \in Local, GoesOn(loc[i], l), l.checked = loc[i].checked, l.new = loc[i].new,
         l.todo = Tail(loc[i].todo),
         Moves(i, "apply", l) \/ Moves(i, "apply_failed", l), Others, rows' = rows,
         auth' = [auth EXCEPT ![loc[i].new].middleware = TRUE],
         Writes(loc[i].name, k8s[loc[i].name])
  PROVE  Inv'
<1>1. loc[i].name \in Names /\ loc[i].old = None /\ TaskOf(i, loc[i], World) /\ loc[i].id = i
      /\ loc[i].new \in Secrets /\ loc[i].new # None /\ Holds("apply", loc[i]) /\ Held("apply", loc[i], World)
  BY ApplyParts DEF TaskOf
<1>2. PICK s \in Secrets : s = loc[i].new
  BY <1>1
<1> DEFINE a == [auth[s] EXCEPT !.middleware = TRUE]
<1>3. auth[s] \in Auth
  BY DEF Inv, TypeOK
<1>4. a \in Auth /\ a.state = auth[s].state /\ a.name = auth[s].name /\ a.owner = auth[s].owner /\ a.middleware
  BY ONLY <1>3 DEF Auth
<1>5. auth' = [auth EXCEPT ![s] = a]
  BY <1>2
<1> HIDE DEF a
<1>6. /\ auth[s].name = loc[i].name /\ ~Named(World, s)
      /\ Calm(World, i) => auth[s].owner \in {None, World.k8s[loc[i].name].dep}
  BY <1>1, <1>2 DEF Held, World
<1>7. /\ World' \in Worlds /\ Sound(World') /\ Bears(World, World', {}, {})
      /\ World'.auth[s] = a /\ ~Named(World', s)
      /\ World'.k8s[loc[i].name].dep = World.k8s[loc[i].name].dep
      /\ (Calm(World', i) <=> Calm(World, i))
  <2>1. Made(s, a, loc[i].name)
    BY <1>2, <1>4, <1>6 DEF Made
  <2>2. loc[i].name \in Names /\ a \in Auth /\ s \in Secrets
    BY <1>1, <1>4
  <2>3. /\ World' \in Worlds /\ Sound(World') /\ Bears(World, World', {}, {})
        /\ World'.auth[s] = a /\ (~Named(World, s) => ~Named(World', s))
        /\ \A m \in Names : World'.k8s[m].dep = World.k8s[m].dep
        /\ \A j \in Ids : Calm(World', j) <=> Calm(World, j)
    BY <1>5, <2>1, <2>2, SecretWritten, Zenon
  <2> QED BY <1>6, <2>2, <2>3
<1>8. Held("apply", l, World')
  BY <1>1, <1>2, <1>4, <1>6, <1>7 DEF Held, Holds, Withdraws, Retires, GoesOn, Good
<1>9. Learns(i, "apply", l)
  BY <1>1 DEF Learns, GoesOn
<1>10. World'.auth[l.new].state # "unborn"
  BY <1>2, <1>4, <1>7
<1> QED BY <1>1, <1>7, <1>8, <1>9, <1>10, AppliedKeeps, OwnsNothing

(* Something is written on an Ingress, or it goes.                          *)
LEMMA IngressStep ==
  ASSUME Inv, NEW n \in Names, NEW g \in Ingress \cup {None}, NEW given, Others, rows' = rows, auth' = auth,
         NEW o, o = [k8s[n] EXCEPT !.ingress = g], Writes(n, o),
         g # None =>
           /\ g.version = clock + 1 /\ g.checked <= clock
           /\ rows[g.by].state # "unborn" /\ rows[g.by].name = n
           /\ g.auth # None => /\ auth[g.auth].state # "unborn" /\ auth[g.auth].name = n
                               /\ ~g.repeated /\ Calm(World, g.by) => Good(World, g.auth, n)
                               /\ \/ g.auth \in given
                                  \/ /\ k8s[n].ingress # None /\ k8s[n].ingress.auth = g.auth
                                     /\ k8s[n].ingress.repeated => g.repeated
           /\ \A m \in Names : LET h == k8s[m].ingress
                               IN m # n /\ h # None /\ HostsOverlap(g.host, h.host) => h.version > g.checked
  PROVE  /\ World' \in Worlds /\ Sound(World') /\ Bears(World, World', {}, given)
         /\ \A m \in Names : m # n => k8s'[m] = k8s[m]
         /\ k8s'[n].ingress = g
<1>1. clock \in Nat /\ clock + 1 \in Nat /\ k8s \in [Names -> Objects]
  BY DEF Inv, TypeOK
<1>2. k8s[n] \in Objects
  BY <1>1
<1>3. o \in Objects /\ o.ingress = g
  BY ONLY <1>2, o = [k8s[n] EXCEPT !.ingress = g], g \in Ingress \cup {None} DEF Objects
<1>4. k8s' = [k8s EXCEPT ![n] = [o EXCEPT !.touched = clock + 1]] /\ clock' = clock + 1
  BY DEF Writes, NewVersion
<1>5. [o EXCEPT !.touched = clock + 1] = [k8s[n] EXCEPT !.ingress = g, !.touched = clock + 1]
  BY ONLY o = [k8s[n] EXCEPT !.ingress = g]
<1>6. [o EXCEPT !.touched = clock + 1] \in Objects /\ [o EXCEPT !.touched = clock + 1].ingress = g
  BY <1>1, <1>3, Touched
<1>7. World' \in Worlds
  BY <1>1, <1>4, <1>6, InvParts DEF Others, World, Worlds
<1>8. Sound(World') /\ Bears(World, World', {}, given)
  <2>1. /\ World'.rows = World.rows /\ World'.auth = World.auth /\ World'.clock = World.clock + 1
        /\ World'.k8s = [World.k8s EXCEPT ![n] = [World.k8s[n] EXCEPT !.ingress = g, !.touched = World.clock + 1]]
    BY <1>4, <1>5 DEF World
  <2>2. World.k8s = k8s /\ World.auth = auth /\ World.rows = rows /\ World.clock = clock
    BY DEF World
  <2>3. World \in Worlds /\ Sound(World)
    BY InvParts
  <2> QED BY <1>7, <2>1, <2>2, <2>3, IngressWritten
<1> QED BY <1>1, <1>4, <1>6, <1>7, <1>8

LEMMA ApplyIngressKeeps ==
  ASSUME Inv, NEW i \in Ids, pc[i] = "apply", loc[i].todo # <<>>, loc[i].todo[1] = "ingress",
         NEW l \in Local, GoesOn(loc[i], l), l.checked = loc[i].checked, l.new = loc[i].new,
         l.todo = Tail(loc[i].todo),
         Moves(i, "apply", l) \/ Moves(i, "apply_failed", l), Others, rows' = rows, auth' = auth,
         NEW o, o = [k8s[loc[i].name] EXCEPT !.ingress = ApplyIngress(k8s[loc[i].name].ingress, loc[i])],
         Writes(loc[i].name, o)
  PROVE  Inv'
<1>1. /\ loc[i] \in Local /\ loc[i].name \in Names /\ TaskOf(i, loc[i], World) /\ loc[i].host # None
      /\ Tail(loc[i].todo) = <<>> /\ Looked("apply", loc[i], World) /\ Held("apply", loc[i], World)
      /\ (Holds("apply", loc[i]) <=> loc[i].new # None) /\ Head(loc[i].todo) = "ingress"
      /\ (loc[i].new # None => loc[i].new \in Secrets /\ auth[loc[i].new].state # "unborn")
  BY ApplyParts
<1> DEFINE n == loc[i].name
           was == k8s[n].ingress
           kept == was # None /\ "auth" \in was.edited
           g == ApplyIngress(was, loc[i])
           given == {loc[i].new} \ {None}
<1>2. was \in Ingress \cup {None} /\ clock \in Nat
  BY <1>1 DEF Inv, TypeOK, Objects
<1>3. /\ loc[i].host \in HostNames /\ loc[i].req \in Access /\ loc[i].req.scheme \in {"http", "https"}
      /\ loc[i].new \in Secrets \cup {None} /\ loc[i].checked \in Nat /\ loc[i].id = i
      /\ rows[i].state # "unborn" /\ rows[i].name = n
  BY <1>1 DEF Local, TaskOf, Access, World
<1>4. /\ g.host = loc[i].host /\ g.scheme = loc[i].req.scheme /\ g.version = clock + 1
      /\ g.checked = loc[i].checked /\ g.auth = (IF kept THEN was.auth ELSE loc[i].new)
      /\ g.by = (IF kept THEN was.by ELSE i) /\ (kept /\ was.repeated => g.repeated)
  BY <1>3 DEF ApplyIngress, NewVersion
<1>5. g \in Ingress
  <2> DEFINE e == IF was = None THEN {} ELSE was.edited
             a == IF kept THEN was.auth ELSE loc[i].new
             b == IF kept THEN was.by ELSE i
             r == kept /\ was.repeated
  <2>1. e \in SUBSET {"host", "scheme", "auth"} /\ a \in Secrets \cup {None} /\ b \in Ids /\ clock + 1 \in Nat
        /\ r \in BOOLEAN
    BY <1>2, <1>3 DEF Ingress
  <2>2. g = [host |-> loc[i].host, scheme |-> loc[i].req.scheme, version |-> clock + 1,
             checked |-> loc[i].checked, edited |-> e, auth |-> a, by |-> b, repeated |-> r]
    BY <1>3 DEF ApplyIngress, NewVersion
  <2> HIDE DEF e, a, b, g, r
  <2> QED BY ONLY <1>3, <2>1, <2>2 DEF Ingress
<1> HIDE DEF g
<1>6. kept => /\ rows[was.by].state # "unborn" /\ rows[was.by].name = n
              /\ was.auth # None => auth[was.auth].state # "unborn" /\ auth[was.auth].name = n
                                    /\ (~was.repeated /\ Calm(World, was.by) => Good(World, was.auth, n))
  BY <1>1, InvParts DEF Sound, Related, Guarded, World, Good, Calm
<1>7. loc[i].new # None => auth[loc[i].new].name = n /\ (Calm(World, i) => Good(World, loc[i].new, n))
  BY <1>1, <1>3 DEF Held, World
<1>8. /\ loc[i].checked <= clock
      /\ \A m \in Names : LET h == k8s[m].ingress
                          IN m # n /\ h # None /\ HostsOverlap(g.host, h.host) => h.version > g.checked
  BY <1>1, <1>4 DEF Looked, World
<1>9. g.auth # None => /\ auth[g.auth].state # "unborn" /\ auth[g.auth].name = n
                       /\ ~g.repeated /\ Calm(World, g.by) => Good(World, g.auth, n)
                       /\ \/ g.auth \in given
                          \/ was # None /\ was.auth = g.auth /\ (was.repeated => g.repeated)
  <2>1. CASE kept
    BY <1>4, <1>6, <2>1
  <2>2. CASE ~kept
    BY <1>1, <1>4, <1>7, <2>2
  <2> QED BY <2>1, <2>2
<1>10. rows[g.by].state # "unborn" /\ rows[g.by].name = n
  BY <1>3, <1>4, <1>6
<1>11. World' \in Worlds /\ Sound(World') /\ Bears(World, World', {}, given)
  BY <1>1, <1>4, <1>5, <1>8, <1>9, <1>10, IngressStep DEF g
<1>12. Owns(i, {}, given)
  BY <1>1 DEF Owns
<1>13. Held("apply", l, World') /\ Learns(i, "apply", l)
  BY <1>1 DEF Held, Holds, Withdraws, Retires, Learns, TaskOf, GoesOn
<1>14. l.new # None => World'.auth[l.new].state # "unborn"
  BY <1>1 DEF World
<1> QED BY <1>1, <1>11, <1>12, <1>13, <1>14, AppliedKeeps

LEMMA ApplyNextKeeps ==
  ASSUME Inv, NEW i \in Ids, ApplyNext(i)
  PROVE  Inv'
<1>1. pc[i] = "apply" /\ loc[i].todo # <<>>
  BY DEF ApplyNext, At
<1>2. /\ loc[i] \in Local /\ loc[i].name \in Names /\ TaskOf(i, loc[i], World)
      /\ Tail(loc[i].todo) \in Seq(Kinds) /\ Head(loc[i].todo) = loc[i].todo[1] /\ loc[i].todo[1] \in Kinds
      /\ (loc[i].todo[1] = "middleware" => loc[i].new # None)
      /\ (loc[i].new # None => loc[i].new \in Secrets)
  BY <1>1, ApplyParts
<1> DEFINE n == loc[i].name
           kind == loc[i].todo[1]
           l == [loc[i] EXCEPT !.todo = Tail(loc[i].todo)]
<1>3. /\ l \in Local /\ GoesOn(loc[i], l) /\ l.checked = loc[i].checked /\ l.new = loc[i].new
      /\ l.todo = Tail(loc[i].todo)
  BY ONLY <1>2 DEF Local, GoesOn
<1>4. TaskOf(i, l, World)
  BY ONLY <1>2, <1>3 DEF TaskOf, GoesOn
<1>5. Others /\ rows' = rows /\ faults' \in Nat /\ (UNCHANGED cluster => Still)
  <2>1. UNCHANGED <<inCluster, db, sent>>
    BY DEF ApplyNext
  <2>2. faults' \in {faults, faults + 1}
    <3>1. kind \in Kinds /\ Head(loc[i].todo) = kind
      BY <1>2
    <3> QED BY <3>1 DEF ApplyNext, CreateSecret, CreateAuthMiddleware, Call, Kinds
  <2> QED BY <2>1, <2>2, InvParts DEF Others, Still, db
<1>6. k8s[n] \in Objects /\ clock + 1 \in Nat
  BY <1>2 DEF Inv, TypeOK
<1>7. CASE ~Writable(n)
  <2>1. Moves(i, "apply_failed", loc[i]) /\ UNCHANGED cluster
    BY <1>1, <1>7, Goes DEF ApplyNext
  <2> QED BY <1>2, <1>5, <2>1, FailedQuietly
<1>8. CASE Moves(i, "apply_failed", l) /\ UNCHANGED cluster
  BY <1>3, <1>4, <1>5, <1>8, FailedQuietly
<1>9. CASE Writable(n) /\ kind \in {"pull", "s3", "service"}
  <2> DEFINE o == [k8s[n] EXCEPT ![kind] = TRUE]
  <2>1. \/ (Moves(i, "apply", l) \/ Moves(i, "apply_failed", l)) /\ Writes(n, o) /\ auth' = auth
        \/ Moves(i, "apply_failed", l) /\ UNCHANGED cluster
    BY <1>2, <1>9, Goes DEF ApplyNext, Call
  <2>2. o \in Objects /\ o.ingress = k8s[n].ingress /\ o.dep = k8s[n].dep
    <3> HIDE DEF kind
    <3>1. kind \in {"pull", "s3", "service"}
      BY <1>9
    <3>2. CASE kind = "pull"
      BY ONLY <1>6, <3>2 DEF Objects
    <3>3. CASE kind = "s3"
      BY ONLY <1>6, <3>3 DEF Objects
    <3>4. CASE kind = "service"
      BY ONLY <1>6, <3>4 DEF Objects
    <3> QED BY <3>1, <3>2, <3>3, <3>4
  <2> HIDE DEF o, l
  <2> QED BY <1>1, <1>3, <1>5, <1>8, <1>9, <2>1, <2>2, ApplyPlain
<1>10. CASE Writable(n) /\ kind = "deployment"
  <2> DEFINE d == IF k8s[n].dep = None THEN clock + 1 ELSE k8s[n].dep
             o == [k8s[n] EXCEPT !.dep = d]
  <2>1. \/ (Moves(i, "apply", l) \/ Moves(i, "apply_failed", l)) /\ Writes(n, o) /\ auth' = auth
        \/ Moves(i, "apply_failed", l) /\ UNCHANGED cluster
    BY <1>2, <1>10, Goes DEF ApplyNext, Call, NewVersion
  <2>2. d \in Nat \cup {None} /\ (k8s[n].dep # None => d = k8s[n].dep)
    BY <1>6 DEF Objects
  <2> HIDE DEF d
  <2>3. o \in Objects /\ o.ingress = k8s[n].ingress /\ o.dep = d
    BY ONLY <1>6, <2>2 DEF Objects
  <2> HIDE DEF o, l
  <2> QED BY <1>1, <1>3, <1>5, <1>8, <1>10, <2>1, <2>2, <2>3, ApplyPlain
<1>11. CASE Writable(n) /\ kind = "auth"
  <2>1. PICK s \in Secrets :
          /\ auth[s].state = "unborn"
          /\ Call(i, /\ auth' = [auth EXCEPT ![s] = [state |-> "live", name |-> n, owner |-> None,
                                                     middleware |-> FALSE]]
                     /\ Writes(n, k8s[n]),
                  "apply", "apply_failed", [loc[i] EXCEPT !.new = s, !.todo = IF @ = <<>> THEN @ ELSE Tail(@)])
    BY <1>2, <1>11 DEF ApplyNext, CreateSecret
  <2> DEFINE j == [loc[i] EXCEPT !.new = s]
             k == [j EXCEPT !.todo = IF @ = <<>> THEN @ ELSE Tail(@)]
  <2>2. j \in Local /\ GoesOn(loc[i], j) /\ j.checked = loc[i].checked /\ j.new = s /\ j.todo = loc[i].todo
    BY ONLY <1>2, s \in Secrets DEF Local, GoesOn
  <2>3. \/ /\ Moves(i, "apply", k) \/ Moves(i, "apply_failed", k)
           /\ auth' = [auth EXCEPT ![s] = [state |-> "live", name |-> n, owner |-> None, middleware |-> FALSE]]
           /\ Writes(n, k8s[n])
        \/ Moves(i, "apply_failed", k) /\ UNCHANGED cluster
    BY <2>1, Goes DEF Call
  <2> HIDE DEF j
  <2>4. k \in Local /\ GoesOn(j, k) /\ k.checked = j.checked /\ k.new = s /\ k.todo = Tail(loc[i].todo)
    <3>1. k = [j EXCEPT !.todo = Tail(loc[i].todo)]
      BY <1>1, <2>2
    <3>2. j \in Local /\ Tail(loc[i].todo) \in Seq(Kinds) /\ j.new = s
      BY <1>2, <2>2
    <3> HIDE DEF k
    <3> QED BY ONLY <3>1, <3>2 DEF Local, GoesOn
  <2> HIDE DEF k
  <2>5. GoesOn(loc[i], k) /\ TaskOf(i, k, World)
    BY ONLY <1>2, <2>2, <2>4 DEF TaskOf, GoesOn
  <2>6. CASE Moves(i, "apply_failed", k) /\ UNCHANGED cluster
    BY <1>5, <2>4, <2>5, <2>6, FailedQuietly
  <2>7. CASE /\ Moves(i, "apply", k) \/ Moves(i, "apply_failed", k)
             /\ auth' = [auth EXCEPT ![s] = [state |-> "live", name |-> n, owner |-> None, middleware |-> FALSE]]
             /\ Writes(n, k8s[n])
    BY <1>1, <1>5, <1>11, <2>1, <2>2, <2>4, <2>5, <2>7, ApplySecret
  <2> QED BY <2>3, <2>6, <2>7
<1>12. CASE Writable(n) /\ kind = "middleware"
  <2>1. l = [loc[i] EXCEPT !.todo = IF @ = <<>> THEN @ ELSE Tail(@)]
    BY <1>1
  <2>2. \/ /\ auth[loc[i].new].state = "live"
           /\ Moves(i, "apply", l) \/ Moves(i, "apply_failed", l)
           /\ auth' = [auth EXCEPT ![loc[i].new].middleware = TRUE] /\ Writes(n, k8s[n])
        \/ Moves(i, "apply_failed", l) /\ UNCHANGED cluster
    BY <1>2, <1>12, <2>1, Goes DEF ApplyNext, CreateAuthMiddleware, Call
  <2> HIDE DEF l
  <2> QED BY <1>1, <1>3, <1>5, <1>8, <1>12, <2>2, ApplyMiddleware
<1>13. CASE Writable(n) /\ kind = "ingress"
  <2> DEFINE o == [k8s[n] EXCEPT !.ingress = ApplyIngress(k8s[n].ingress, loc[i])]
  <2>1. \/ (Moves(i, "apply", l) \/ Moves(i, "apply_failed", l)) /\ Writes(n, o) /\ auth' = auth
        \/ Moves(i, "apply_failed", l) /\ UNCHANGED cluster
        \/ Moves(i, "apply_failed", loc[i]) /\ UNCHANGED cluster
    BY <1>2, <1>13, Goes DEF ApplyNext, Call
  <2>2. CASE Moves(i, "apply_failed", loc[i]) /\ UNCHANGED cluster
    BY <1>2, <1>5, <2>2, FailedQuietly
  <2>3. CASE (Moves(i, "apply", l) \/ Moves(i, "apply_failed", l)) /\ Writes(n, o) /\ auth' = auth
    <3> HIDE DEF l
    <3> QED BY <1>1, <1>3, <1>5, <1>13, <2>3, ApplyIngressKeeps
  <2> QED BY <1>8, <2>1, <2>2, <2>3
<1> QED BY <1>2, <1>7, <1>9, <1>10, <1>11, <1>12, <1>13 DEF Kinds

LEMMA PatchRows ==
  ASSUME Inv, NEW i \in Ids, NEW status \in {"applied", "failed"}, Patch(i, status)
  PROVE  /\ rows' \in [Ids -> Row]
         /\ \A j \in Ids : rows'[j].state = rows[j].state /\ rows'[j].name = rows[j].name /\ rows'[j].calm = rows[j].calm
<1>2. rows \in [Ids -> Row] /\ rows[i] \in Row
  BY DEF Inv, TypeOK
<1> DEFINE r == [rows[i] EXCEPT !.status = status]
<1>3. r \in Row /\ r.state = rows[i].state /\ r.name = rows[i].name /\ r.calm = rows[i].calm
  BY ONLY <1>2, status \in {"applied", "failed"} DEF Row
<1>4. rows' = IF rows[i].state = "live" THEN [rows EXCEPT ![i] = r] ELSE rows
  BY DEF Patch
<1> HIDE DEF r
<1> QED BY <1>2, <1>3, <1>4

LEMMA PatchKeeps ==
  ASSUME Inv, NEW i \in Ids, NEW status \in {"applied", "failed"}, Patch(i, status)
  PROVE  Inv'
<1>1. Others /\ Moves(i, "idle", NoLocal) /\ i \in Procs
  BY InvParts, Ends, TaskProcs DEF Patch, Others
<1>5. /\ rows' \in [Ids -> Row]
      /\ \A j \in Ids : rows'[j].state = rows[j].state /\ rows'[j].name = rows[j].name /\ rows'[j].calm = rows[j].calm
  BY PatchRows
<1>6. World' \in Worlds /\ World'.rows = rows'
      /\ World'.clock = World.clock /\ World'.k8s = World.k8s /\ World'.auth = World.auth
  BY <1>5, InvParts DEF Patch, cluster, World, Worlds
<1>7. Sound(World') /\ Bears(World, World', {}, {})
  <2>1. World \in Worlds /\ Sound(World) /\ World.rows = rows
    BY InvParts DEF World
  <2> QED BY <1>5, <1>6, <2>1, SoundParts, RowsChange DEF Calm
<1> QED BY <1>1, <1>6, <1>7, OwnsNothing, EndKeeps

LEMMA TaskKeeps ==
  ASSUME Inv, NEW i \in Ids, Task(i)
  PROVE  Inv'
<1>1. CASE UpdateInstanceAfterApply(i)
  BY <1>1, PatchKeeps DEF UpdateInstanceAfterApply
<1>2. CASE RecordDeploymentFailure(i)
  BY <1>2, PatchKeeps DEF RecordDeploymentFailure
<1> QED BY <1>1, <1>2, ApplyBeginKeeps, EnsureNamespaceKeeps, ApplyCheckKeeps, ApplyNextKeeps DEF Task

-----------------------------------------------------------------------------
(* delete_deployment_instance(), and what the cluster does by itself.       *)

LEMMA StandKeeps ==
  ASSUME Inv, pc' = pc, loc' = loc, Others, World' \in Worlds, Sound(World'), Bears(World, World', {}, {})
  PROVE  Inv'
<1>1. TypeOK'
  <2>1. Related(rows', k8s', auth', clock')
    BY DEF World, Sound
  <2> QED BY <2>1 DEF TypeOK, Inv, Others, World, Worlds
<1>2. ASSUME NEW p \in Procs PROVE Placed(p, pc'[p], loc'[p], World') /\ Apart(p)'
  <2>1. World'.http = World.http
    BY DEF World, Others
  <2> QED BY <2>1, InvParts, PlacedStay DEF Apart
<1>3. ASSUME NEW i \in Ids, rows'[i].state = "unborn" PROVE pc'[i] = "idle"
  BY <1>3 DEF Bears, World, Inv
<1> QED BY <1>1, <1>2, <1>3 DEF Inv

(* A deletion that stands at its place. *)
DeletionOf(l, w) ==
  /\ l.name \in Names /\ l.id \in Ids /\ w.rows[l.id].state # "unborn" /\ w.rows[l.id].name = l.name
  /\ l.new # None => w.auth[l.new].state # "unborn"
  /\ l.old # None => w.auth[l.old].state # "unborn"

LEMMA DeletingPlaced ==
  ASSUME NEW p \in Clients, NEW at \in Deleting, NEW l \in Local, NEW w, DeletionOf(l, w), Removed(at, l, w)
  PROVE  Placed(p, at, l, w)
<1>1. at \notin Exposing \cup Creating \cup Applying \cup {"idle"} \cup NotDrawn \cup AfterRead
  BY DEF Applying, Exposing, Creating, Deleting, NotDrawn, AfterRead
<1>2. Begun(p, at, l, w)
  BY <1>1, ClientProcs DEF DeletionOf, Begun
<1>3. Manifested(at, l) /\ ReadOnce(at, l, w) /\ Worked(at, l, w) /\ Permitted(at, l, w) /\ Looked(at, l, w)
      /\ Held(at, l, w)
  BY <1>1 DEF Manifested, ReadOnce, Worked, Permitted, Looked, Held, Holds, Withdraws, Retires, AfterRead, Exposing, Applying
<1> QED BY <1>2, <1>3 DEF Placed

LEMMA DeletionParts ==
  ASSUME Inv, NEW c \in Clients, pc[c] \in Deleting
  PROVE  /\ c \in Procs /\ loc[c] \in Local /\ loc[c].name \in Names /\ DeletionOf(loc[c], World)
         /\ Removed(pc[c], loc[c], World)
<1>1. c \in Procs /\ Placed(c, pc[c], loc[c], World) /\ loc[c] \in Local
  BY ClientProcs, InvParts
<1> QED BY <1>1 DEF Placed, Begun, DeletionOf, Deleting

LEMMA DeletionKeeps ==
  ASSUME Inv, NEW c \in Clients, pc[c] \in Deleting, NEW at \in Deleting, NEW l \in Local,
         l.name = loc[c].name, l.id = loc[c].id, l.new = loc[c].new, l.old = loc[c].old,
         Moves(c, at, l), Others, World' \in Worlds, Sound(World'), Bears(World, World', {}, {}),
         Removed(at, l, World')
  PROVE  Inv'
<1>1. DeletionOf(l, World')
  <2>1. DeletionOf(loc[c], World) /\ loc[c] \in Local
    BY DeletionParts
  <2> QED BY <2>1 DEF DeletionOf, Bears, Local
<1>2. Placed(c, at, l, World')
  BY <1>1, DeletingPlaced
<1>3. Learns(c, at, l) /\ at \in Pc /\ c \in Procs
  BY ClientProcs DEF Learns, Holds, Deleting, Pc
<1> QED BY <1>2, <1>3, OwnsNothing, StepKeeps

(* What a step of a deletion does to the world. *)
LEMMA Deletes ==
  ASSUME Inv, NEW n \in Names, Disturb(n), Others, clock' = clock, NEW o \in Objects,
         k8s' = [k8s EXCEPT ![n] = o], Less(k8s[n], o), auth' \in [Secrets -> Auth], Loses(World, World', n)
  PROVE  World' \in Worlds /\ Sound(World') /\ Bears(World, World', {}, {})
<1>1. Disturbed(World, World', n)
  BY DEF Disturb, Disturbed, World
<1>2. rows' \in [Ids -> Row]
  <2>1. rows \in [Ids -> Row] /\ rows' = [i \in Ids |-> IF rows[i].name = n THEN [rows[i] EXCEPT !.calm = FALSE] ELSE rows[i]]
    BY DEF Disturb, Inv, TypeOK
  <2>2. \A r \in Row : [r EXCEPT !.calm = FALSE] \in Row
    BY DEF Row
  <2> QED BY <2>1, <2>2
<1>3. World' \in Worlds
  BY <1>2, InvParts DEF Others, World, Worlds
<1>4. World'.clock = World.clock /\ World'.k8s = [World.k8s EXCEPT ![n] = o] /\ Less(World.k8s[n], o)
  BY DEF World
<1> QED BY <1>1, <1>3, <1>4, InvParts, TakenAway

LEMMA DeletesNothing ==
  ASSUME Inv, NEW n \in Names, Disturb(n), Others, UNCHANGED cluster
  PROVE  World' \in Worlds /\ Sound(World') /\ Bears(World, World', {}, {})
<1>1. k8s' = k8s /\ auth' = auth /\ clock' = clock /\ k8s \in [Names -> Objects] /\ auth \in [Secrets -> Auth]
  BY DEF cluster, Inv, TypeOK
<1>2. k8s' = [k8s EXCEPT ![n] = k8s[n]] /\ Less(k8s[n], k8s[n]) /\ Loses(World, World', n)
  BY <1>1 DEF Less, Loses, World
<1> QED BY <1>1, <1>2, Deletes

LEMMA DeleteDeploymentKeeps ==
  ASSUME Inv, NEW c \in Clients, DeleteDeployment(c)
  PROVE  Inv'
<1>1. PICK i \in Live :
        /\ Disturb(rows[i].name)
        /\ Goto(c, IF inCluster THEN "delete" ELSE "delete_ns",
                [NoLocal EXCEPT !.id = i, !.name = rows[i].name, !.from = k8s[rows[i].name].touched,
                                !.todo = <<"deployment", "service", "s3", "pull", "ingress">>])
  BY DEF DeleteDeployment
<1> DEFINE n == rows[i].name
           at == IF inCluster THEN "delete" ELSE "delete_ns"
           all == <<"deployment", "service", "s3", "pull", "ingress">>
           time == k8s[n].touched
           l == [NoLocal EXCEPT !.id = i, !.name = n, !.from = time, !.todo = all]
<1>2. c \in Procs /\ Others /\ UNCHANGED cluster
  BY InvParts, BoundAssumption, ClientProcs DEF DeleteDeployment, Begin, Others
<1>3. i \in Ids /\ rows[i].state = "live" /\ n \in Names
  BY InvParts, SoundParts DEF Live, World
<1>4. time \in Nat /\ time <= clock
  BY <1>3, InvParts, SoundParts DEF World
<1>5. Moves(c, at, l)
  BY <1>1, Goes
<1>6. all \in Seq(Kinds) /\ Len(all) = 5 /\ all[1] = "deployment" /\ all[2] = "service" /\ all[3] = "s3"
      /\ all[4] = "pull" /\ all[5] = "ingress"
  BY DEF Kinds
<1> HIDE DEF n, all, time
<1>7. l \in Local /\ l.id = i /\ l.name = n /\ l.from = time /\ l.todo = all /\ l.new = None /\ l.old = None
  <2>1. i \in Ids /\ n \in Names /\ time \in Nat /\ all \in Seq(Kinds)
    BY <1>3, <1>4, <1>6
  <2> QED BY ONLY <2>1, EmptyLocal DEF NoLocal, Local
<1> HIDE DEF l
<1>8. World' \in Worlds /\ Sound(World') /\ Bears(World, World', {}, {})
  BY <1>1, <1>2, <1>3, DeletesNothing DEF n
<1>9. rows'[i].state # "unborn" /\ rows'[i].name = n
  BY <1>3, <1>8 DEF Bears, World, n
<1>10. at \in Deleting /\ at \in {"delete", "delete_ns"} /\ at \in Pc
  BY DEF Deleting, Pc
<1>11. Removed(at, l, World')
  <2>1. l.from <= World'.clock
    BY <1>2, <1>4, <1>7 DEF cluster, World
  <2>2. \A k \in 1..Len(l.todo) : l.todo[k] \in DelKinds
    <3>1. \A k \in 1..5 : k = 1 \/ k = 2 \/ k = 3 \/ k = 4 \/ k = 5
      OBVIOUS
    <3> QED BY ONLY <1>6, <1>7, <3>1 DEF DelKinds
  <2>3. \A kind \in DelKinds : \E k \in 1..Len(l.todo) : l.todo[k] = kind
    <3>1. 1 \in 1..5 /\ 2 \in 1..5 /\ 3 \in 1..5 /\ 4 \in 1..5 /\ 5 \in 1..5
      OBVIOUS
    <3> QED BY ONLY <1>6, <1>7, <3>1 DEF DelKinds
  <2> QED BY <1>10, <2>1, <2>2, <2>3 DEF Removed
<1>12. Placed(c, at, l, World')
  BY <1>3, <1>7, <1>9, <1>10, <1>11, DeletingPlaced DEF DeletionOf, World
<1>13. Learns(c, at, l)
  BY <1>7, KnowsNothing
<1> QED BY <1>2, <1>5, <1>7, <1>8, <1>10, <1>12, <1>13, OwnsNothing, StepKeeps

LEMMA WithoutIsLess ==
  ASSUME NEW o \in Objects, NEW kind \in DelKinds
  PROVE  Without(o, kind) \in Objects /\ Less(o, Without(o, kind))
<1>1. CASE kind = "deployment"
  BY <1>1 DEF Without, Objects, Less
<1>2. CASE kind = "ingress"
  BY <1>2 DEF Without, Objects, Less
<1>3. CASE kind = "service"
  <2>1. Without(o, kind) = [o EXCEPT !.service = FALSE]
    BY <1>3 DEF Without
  <2> QED BY <2>1 DEF Objects, Less
<1>4. CASE kind = "s3"
  <2>1. Without(o, kind) = [o EXCEPT !.s3 = FALSE]
    BY <1>4 DEF Without
  <2> QED BY <2>1 DEF Objects, Less
<1>5. CASE kind = "pull"
  <2>1. Without(o, kind) = [o EXCEPT !.pull = FALSE]
    BY <1>5 DEF Without
  <2> QED BY <2>1 DEF Objects, Less
<1> QED BY <1>1, <1>2, <1>3, <1>4, <1>5 DEF DelKinds

LEMMA WithoutLacks ==
  ASSUME NEW w, NEW o \in Objects, NEW n, NEW kind \in DelKinds, w.k8s[n] = Without(o, kind)
  PROVE  Absent(w, n, kind)
<1>1. CASE kind = "deployment"
  BY <1>1 DEF Without, Objects, Absent
<1>2. CASE kind = "ingress"
  BY <1>2 DEF Without, Objects, Absent
<1>3. CASE kind = "service"
  <2>1. Without(o, kind) = [o EXCEPT !.service = FALSE]
    BY <1>3 DEF Without
  <2> QED BY <1>3, <2>1 DEF Objects, Absent
<1>4. CASE kind = "s3"
  <2>1. Without(o, kind) = [o EXCEPT !.s3 = FALSE]
    BY <1>4 DEF Without
  <2> QED BY <1>4, <2>1 DEF Objects, Absent
<1>5. CASE kind = "pull"
  <2>1. Without(o, kind) = [o EXCEPT !.pull = FALSE]
    BY <1>5 DEF Without
  <2> QED BY <1>5, <2>1 DEF Objects, Absent
<1> QED BY <1>1, <1>2, <1>3, <1>4, <1>5 DEF DelKinds

LEMMA DeleteNextKeeps ==
  ASSUME Inv, NEW c \in Clients, DeleteNext(c)
  PROVE  Inv'
<1>1. pc[c] = "delete" /\ loc[c].todo # <<>> /\ pc[c] \in Deleting /\ "delete" \in Pc
  BY DEF DeleteNext, At, Deleting, Pc
<1>2. /\ c \in Procs /\ loc[c] \in Local /\ loc[c].name \in Names /\ DeletionOf(loc[c], World)
      /\ Removed("delete", loc[c], World)
  BY <1>1, DeletionParts
<1> DEFINE n == loc[c].name
           todo == loc[c].todo
           l == [loc[c] EXCEPT !.todo = Tail(todo)]
           o == Without(k8s[n], Head(todo))
<1>3. Others /\ Disturb(n)
  BY InvParts, BoundAssumption DEF DeleteNext, Call, Others
<1>4. /\ todo \in Seq(Kinds) /\ Tail(todo) \in Seq(Kinds) /\ Head(todo) = todo[1] /\ Len(todo) \in Nat /\ Len(todo) >= 1
      /\ Len(Tail(todo)) = Len(todo) - 1 /\ \A k \in 1..Len(Tail(todo)) : Tail(todo)[k] = todo[k + 1]
  <2>1. todo \in Seq(Kinds)
    BY <1>2 DEF Local
  <2> QED BY <1>1, <2>1, TailParts
<1>5. \/ Moves(c, "idle", NoLocal) /\ UNCHANGED cluster
      \/ /\ Moves(c, "delete", l) \/ Moves(c, "idle", NoLocal)
         /\ k8s' = [k8s EXCEPT ![n] = o] /\ auth' = auth /\ clock' = clock
  BY <1>1, Goes, Ends DEF DeleteNext, Call
<1>6. CASE Moves(c, "idle", NoLocal) /\ UNCHANGED cluster
  BY <1>2, <1>3, <1>6, DeletesNothing, OwnsNothing, EndKeeps
<1>7. CASE /\ Moves(c, "delete", l) \/ Moves(c, "idle", NoLocal)
           /\ k8s' = [k8s EXCEPT ![n] = o] /\ auth' = auth /\ clock' = clock
  <2>1. k8s[n] \in Objects /\ Head(todo) \in DelKinds /\ k8s \in [Names -> Objects] /\ auth \in [Secrets -> Auth]
    <3>1. 1 \in 1..Len(todo)
      BY <1>4
    <3> QED BY <1>2, <1>4, <3>1 DEF Inv, TypeOK, Removed
  <2>2. o \in Objects /\ Less(k8s[n], o)
    BY <2>1, WithoutIsLess
  <2> HIDE DEF o
  <2>3. Loses(World, World', n)
    BY <1>7 DEF Loses, World
  <2>4. World' \in Worlds /\ Sound(World') /\ Bears(World, World', {}, {})
    BY <1>2, <1>3, <1>7, <2>1, <2>2, <2>3, Deletes
  <2>5. CASE Moves(c, "idle", NoLocal)
    BY <1>2, <1>3, <2>4, <2>5, OwnsNothing, EndKeeps
  <2>6. CASE Moves(c, "delete", l)
    <3>1. /\ l \in Local /\ l.todo = Tail(todo) /\ l.id = loc[c].id /\ l.name = n /\ l.from = loc[c].from
          /\ l.new = loc[c].new /\ l.old = loc[c].old
      BY ONLY <1>2, <1>4 DEF Local
    <3> HIDE DEF l
    <3>2. World'.k8s[n] = o /\ World'.clock = World.clock
      BY <1>2, <1>7, <2>1 DEF World
    <3>3. \A k \in 1..Len(l.todo) : l.todo[k] \in DelKinds
      BY <1>2, <1>4, <3>1 DEF Removed
    <3>4. ASSUME Alone(l, World'), NEW kind \in DelKinds
          PROVE  Absent(World', n, kind) \/ \E k \in 1..Len(l.todo) : l.todo[k] = kind
      <4>1. Alone(loc[c], World) /\ Fewer(World, World', n)
        <5>1. World'.k8s[n].touched = World.k8s[n].touched
          BY <2>2, <3>2 DEF Less, World
        <5>2. World.k8s[n].touched <= World.clock /\ World.k8s[n].touched \in Nat /\ World.clock \in Nat
          BY <1>2, InvParts, SoundParts
        <5>3. Fewer(World, World', n)
          BY ONLY <1>2, <2>4, <5>1, <5>2 DEF Bears
        <5> QED BY <3>1, <3>4, <5>1, <5>3 DEF Alone
      <4>2. CASE Absent(World, n, kind)
        BY <4>1, <4>2 DEF Fewer
      <4>3. CASE Head(todo) = kind
        BY <2>1, <3>2, <4>3, WithoutLacks DEF o
      <4>4. CASE ~Absent(World, n, kind) /\ Head(todo) # kind
        <5>1. PICK k \in 1..Len(todo) : todo[k] = kind
          BY <1>2, <4>1, <4>4 DEF Removed
        <5>2. k - 1 \in 1..Len(l.todo) /\ l.todo[k - 1] = kind
          BY <1>4, <3>1, <4>4, <5>1
        <5> QED BY <5>2
      <4> QED BY <4>2, <4>3, <4>4
    <3>5. Removed("delete", l, World')
      BY <1>1, <1>2, <3>1, <3>2, <3>3, <3>4 DEF Removed
    <3> QED BY <1>1, <1>3, <2>4, <2>6, <3>1, <3>5, DeletionKeeps
  <2> QED BY <1>7, <2>5, <2>6
<1> QED BY <1>5, <1>6, <1>7

LEMMA DeleteListKeeps ==
  ASSUME Inv, NEW c \in Clients, DeleteList(c)
  PROVE  Inv'
<1>1. pc[c] = "delete" /\ loc[c].todo = <<>> /\ pc[c] \in Deleting /\ "delete_sweep" \in Deleting
  BY DEF DeleteList, At, Deleting
<1>2. /\ c \in Procs /\ loc[c] \in Local /\ loc[c].name \in Names /\ Removed("delete", loc[c], World)
  BY <1>1, DeletionParts
<1> DEFINE found == Secreted(World, loc[c].name)
           l == [loc[c] EXCEPT !.sweep = found]
<1>3. Moves(c, "delete_sweep", l) /\ Still
  BY InvParts, Goes DEF DeleteList, Secreted, World, Still
<1>4. found \in SUBSET Secrets
  BY DEF Secreted
<1>5. found \subseteq Secreted(World, loc[c].name)
  OBVIOUS
<1> HIDE DEF found
<1>6. /\ l \in Local /\ l.sweep = found /\ l.id = loc[c].id /\ l.name = loc[c].name /\ l.from = loc[c].from
      /\ l.new = loc[c].new /\ l.old = loc[c].old
  BY ONLY <1>2, <1>4 DEF Local
<1> HIDE DEF l
<1>7. Removed("delete_sweep", l, World)
  <2>1. \A kind \in DelKinds : Alone(loc[c], World) => Absent(World, loc[c].name, kind)
    BY <1>1, <1>2 DEF Removed
  <2>2. l.from <= World.clock
    BY <1>2, <1>6 DEF Removed, Deleting
  <2> QED BY <1>6, <2>1, <2>2 DEF Removed, Bare, Alone, Secreted, found
<1> QED BY <1>1, <1>3, <1>6, <1>7, StillWorld, DeletionKeeps

(* The Secrets of a name, one less. *)
LEMMA GoneLoses ==
  ASSUME Inv, NEW s \in Secrets, auth[s].state # "unborn", auth' = Gone(s)
  PROVE  /\ auth' \in [Secrets -> Auth] /\ Loses(World, World', auth[s].name)
         /\ World'.auth[s].state # "live"
<1>1. auth \in [Secrets -> Auth]
  BY DEF Inv, TypeOK
<1> DEFINE a == [auth[s] EXCEPT !.state = "gone", !.middleware = FALSE]
<1>2. auth[s] \in Auth
  BY <1>1
<1>3. a \in Auth /\ a.state = "gone"
  BY ONLY <1>2 DEF Auth
<1>4. auth' = IF auth[s].state = "live" THEN [auth EXCEPT ![s] = a] ELSE auth
  BY DEF Gone
<1>5. Loses(World, World', auth[s].name)
  BY <1>1, <1>4 DEF Loses, World
<1> HIDE DEF a
<1> QED BY <1>1, <1>3, <1>4, <1>5 DEF World

LEMMA SweptAlone ==
  ASSUME Inv, NEW n \in Names, World'.k8s[n].touched = World.k8s[n].touched,
         NEW spent, NEW given, Bears(World, World', spent, given)
  PROVE  Fewer(World, World', n)
<1>1. World.k8s[n].touched <= World.clock /\ World.k8s[n].touched \in Nat /\ World.clock \in Nat
  BY InvParts, SoundParts
<1> QED BY <1>1 DEF Bears

LEMMA DeleteSweepKeeps ==
  ASSUME Inv, NEW c \in Clients, DeleteSweep(c)
  PROVE  Inv'
<1>1. pc[c] = "delete_sweep" /\ pc[c] \in Deleting /\ "delete_sweep" \in Deleting /\ "delete_record" \in Deleting
  BY DEF DeleteSweep, At, Deleting
<1>2. /\ c \in Procs /\ loc[c] \in Local /\ loc[c].name \in Names /\ Removed("delete_sweep", loc[c], World)
  BY <1>1, DeletionParts
<1> DEFINE n == loc[c].name
           l(s) == [loc[c] EXCEPT !.sweep = loc[c].sweep \ {s}]
<1>3. Others /\ Disturb(n)
  <2>1. UNCHANGED <<inCluster, allowHttp, registry, sent>> /\ Disturb(n)
    BY DEF DeleteSweep
  <2>2. faults' \in {faults, faults + 1}
    BY DEF DeleteSweep, Call
  <2> QED BY <2>1, <2>2, InvParts DEF Others
<1>4. \/ loc[c].sweep = {} /\ Moves(c, "delete_record", loc[c]) /\ UNCHANGED cluster
      \/ Moves(c, "idle", NoLocal) /\ UNCHANGED cluster
      \/ \E s \in loc[c].sweep : /\ Moves(c, "delete_sweep", l(s)) \/ Moves(c, "idle", NoLocal)
                                 /\ auth' = Gone(s) /\ UNCHANGED <<k8s, clock>>
  BY Goes, Ends DEF DeleteSweep, Call
<1>5. CASE Moves(c, "idle", NoLocal) /\ UNCHANGED cluster
  BY <1>2, <1>3, <1>5, DeletesNothing, OwnsNothing, EndKeeps
<1>6. CASE loc[c].sweep = {} /\ Moves(c, "delete_record", loc[c]) /\ UNCHANGED cluster
  <2>1. World' \in Worlds /\ Sound(World') /\ Bears(World, World', {}, {})
    BY <1>2, <1>3, <1>6, DeletesNothing
  <2>2. World'.k8s = World.k8s /\ World'.clock = World.clock /\ World'.auth = World.auth
    BY <1>6 DEF cluster, World
  <2>3. Removed("delete_record", loc[c], World')
    BY <1>1, <1>2, <1>6, <2>2 DEF Removed, Alone, Bare, Absent, DelKinds, Secreted
  <2> QED BY <1>1, <1>2, <1>3, <1>6, <2>1, <2>3, DeletionKeeps
<1>7. ASSUME NEW s \in loc[c].sweep, Moves(c, "delete_sweep", l(s)) \/ Moves(c, "idle", NoLocal),
             auth' = Gone(s), UNCHANGED <<k8s, clock>>
      PROVE  Inv'
  <2>1. s \in Secrets /\ auth[s].state # "unborn" /\ auth[s].name = n
    BY <1>2 DEF Local, Removed, World
  <2>2. auth' \in [Secrets -> Auth] /\ Loses(World, World', n) /\ World'.auth[s].state # "live"
    BY <1>7, <2>1, GoneLoses
  <2>3. k8s[n] \in Objects /\ k8s' = [k8s EXCEPT ![n] = k8s[n]] /\ Less(k8s[n], k8s[n])
    BY <1>2, <1>7 DEF Less, Inv, TypeOK
  <2>4. World' \in Worlds /\ Sound(World') /\ Bears(World, World', {}, {})
    BY <1>2, <1>3, <1>7, <2>2, <2>3, Deletes
  <2>5. CASE Moves(c, "idle", NoLocal)
    BY <1>2, <1>3, <2>4, <2>5, OwnsNothing, EndKeeps
  <2>6. CASE Moves(c, "delete_sweep", l(s))
    <3> DEFINE k == l(s)
    <3>1. /\ k \in Local /\ k.sweep = loc[c].sweep \ {s} /\ k.id = loc[c].id /\ k.name = n
          /\ k.from = loc[c].from /\ k.new = loc[c].new /\ k.old = loc[c].old
      BY ONLY <1>2 DEF Local
    <3>2. Moves(c, "delete_sweep", k)
      BY <2>6
    <3> HIDE DEF k
    <3>3. World'.k8s = World.k8s /\ World'.clock = World.clock
      BY <1>7 DEF World
    <3>4. Fewer(World, World', n)
      BY <1>2, <2>4, <3>3, SweptAlone
    <3>5. \A t \in k.sweep : World'.auth[t].state # "unborn" /\ World'.auth[t].name = n
      BY <1>2, <2>4, <3>1 DEF Removed, Bears, Local
    <3>6. ASSUME Alone(k, World') PROVE Bare(World', n) /\ Secreted(World', n) \subseteq k.sweep
      <4>1. Bare(World, n) /\ Secreted(World, n) \subseteq loc[c].sweep
        BY <1>2, <3>1, <3>3, <3>6 DEF Removed, Alone
      <4>2. s \notin Secreted(World', n)
        BY <2>2 DEF Secreted
      <4> QED BY <3>1, <3>4, <4>1, <4>2 DEF Fewer, Bare
    <3>7. Removed("delete_sweep", k, World')
      BY <1>1, <1>2, <3>1, <3>3, <3>5, <3>6 DEF Removed
    <3> QED BY <1>1, <1>3, <2>4, <3>1, <3>7, <3>2, DeletionKeeps
  <2> QED BY <1>7, <2>5, <2>6
<1> QED BY <1>4, <1>5, <1>6, <1>7

LEMMA DeleteNamespaceKeeps ==
  ASSUME Inv, NEW c \in Clients, DeleteNamespace(c)
  PROVE  Inv'
<1>1. pc[c] = "delete_ns" /\ pc[c] \in Deleting /\ "delete_record" \in Deleting
  BY DEF DeleteNamespace, At, Deleting
<1>2. /\ c \in Procs /\ loc[c] \in Local /\ loc[c].name \in Names /\ Removed("delete_ns", loc[c], World)
  BY <1>1, DeletionParts
<1> DEFINE n == loc[c].name
           ns == IF k8s[n].ns = "active" THEN "terminating" ELSE k8s[n].ns
           o == [k8s[n] EXCEPT !.ns = ns]
<1>3. Others /\ Disturb(n)
  BY InvParts, BoundAssumption DEF DeleteNamespace, Call, Others
<1>4. \/ Moves(c, "idle", NoLocal) /\ UNCHANGED cluster
      \/ /\ Moves(c, "delete_record", loc[c]) \/ Moves(c, "idle", NoLocal)
         /\ k8s' = [k8s EXCEPT ![n] = o] /\ auth' = auth /\ clock' = clock
  BY Goes, Ends DEF DeleteNamespace, Call
<1>5. CASE Moves(c, "idle", NoLocal) /\ UNCHANGED cluster
  BY <1>2, <1>3, <1>5, DeletesNothing, OwnsNothing, EndKeeps
<1>6. CASE /\ Moves(c, "delete_record", loc[c]) \/ Moves(c, "idle", NoLocal)
           /\ k8s' = [k8s EXCEPT ![n] = o] /\ auth' = auth /\ clock' = clock
  <2>1. k8s[n] \in Objects /\ k8s \in [Names -> Objects] /\ auth \in [Secrets -> Auth]
    BY <1>2 DEF Inv, TypeOK
  <2>2. ns \in {"absent", "active", "terminating"} /\ ns # "active"
    BY <2>1 DEF Objects
  <2> HIDE DEF ns
  <2>3. o \in Objects /\ Less(k8s[n], o) /\ o.ns # "active"
    BY ONLY <2>1, <2>2 DEF Objects, Less
  <2> HIDE DEF o
  <2>4. Loses(World, World', n)
    BY <1>6 DEF Loses, World
  <2>5. World' \in Worlds /\ Sound(World') /\ Bears(World, World', {}, {})
    BY <1>2, <1>3, <1>6, <2>1, <2>3, <2>4, Deletes
  <2>6. World'.k8s[n].ns # "active" /\ World'.clock = World.clock
    BY <1>2, <1>6, <2>1, <2>3 DEF World
  <2>7. Removed("delete_record", loc[c], World')
    BY <1>1, <1>2, <2>6 DEF Removed
  <2>8. CASE Moves(c, "idle", NoLocal)
    BY <1>2, <1>3, <2>5, <2>8, OwnsNothing, EndKeeps
  <2>9. CASE Moves(c, "delete_record", loc[c])
    BY <1>1, <1>2, <1>3, <2>5, <2>7, <2>9, DeletionKeeps
  <2> QED BY <1>6, <2>8, <2>9
<1> QED BY <1>4, <1>5, <1>6

LEMMA DeleteInstanceRecordKeeps ==
  ASSUME Inv, NEW c \in Clients, DeleteInstanceRecord(c)
  PROVE  Inv'
<1>1. Others /\ Moves(c, "idle", NoLocal) /\ c \in Procs
  BY InvParts, Ends, ClientProcs DEF DeleteInstanceRecord, Others
<1>2. rows \in [Ids -> Row]
  BY DEF Inv, TypeOK
<1>3. /\ rows' \in [Ids -> Row]
      /\ \A j \in Ids : /\ rows'[j].state \in {rows[j].state, "gone"} /\ (rows[j].state = "unborn" => rows'[j].state = "unborn")
                        /\ rows'[j].name = rows[j].name /\ rows'[j].calm = rows[j].calm
  <2>1. CASE loc[c].id \in Live
    <3>1. PICK i \in Ids : i = loc[c].id /\ rows[i].state = "live"
      BY <2>1 DEF Live
    <3> DEFINE r == [rows[i] EXCEPT !.state = "gone"]
    <3>2. r \in Row /\ r.state = "gone" /\ r.name = rows[i].name /\ r.calm = rows[i].calm
      BY <1>2 DEF Row
    <3>3. rows' = [rows EXCEPT ![i] = r]
      BY <2>1, <3>1 DEF DeleteInstanceRecord
    <3> HIDE DEF r
    <3> QED BY <1>2, <3>1, <3>2, <3>3
  <2>2. CASE loc[c].id \notin Live
    BY <1>2, <2>2 DEF DeleteInstanceRecord
  <2> QED BY <2>1, <2>2
<1>4. World' \in Worlds /\ World'.rows = rows'
      /\ World'.clock = World.clock /\ World'.k8s = World.k8s /\ World'.auth = World.auth
  BY <1>3, InvParts DEF DeleteInstanceRecord, cluster, World, Worlds
<1>5. Sound(World') /\ Bears(World, World', {}, {})
  <2>1. World \in Worlds /\ Sound(World) /\ World.rows = rows
    BY InvParts DEF World
  <2> QED BY <1>3, <1>4, <2>1, SoundParts, RowsChange DEF Calm
<1> QED BY <1>1, <1>4, <1>5, OwnsNothing, EndKeeps

LEMMA DeleteKeeps ==
  ASSUME Inv, NEW c \in Clients, Delete(c)
  PROVE  Inv'
BY DeleteDeploymentKeeps, DeleteNextKeeps, DeleteListKeeps, DeleteSweepKeeps, DeleteNamespaceKeeps,
   DeleteInstanceRecordKeeps DEF Delete

LEMMA NamespaceGoneKeeps ==
  ASSUME Inv, NEW n \in Names, NamespaceGone(n)
  PROVE  Inv'
<1>1. Others /\ Disturb(n) /\ clock' = clock /\ pc' = pc /\ loc' = loc
  BY InvParts DEF NamespaceGone, Others
<1>2. k8s[n] \in Objects /\ k8s \in [Names -> Objects] /\ auth \in [Secrets -> Auth] /\ k8s[n].ns # "active"
  BY DEF Inv, TypeOK, NamespaceGone
<1> DEFINE o == [NoObjects EXCEPT !.touched = k8s[n].touched]
<1>3. o \in Objects /\ Less(k8s[n], o)
  BY ONLY <1>2 DEF NoObjects, Objects, Less
<1>4. k8s' = [k8s EXCEPT ![n] = o]
  BY DEF NamespaceGone
<1> HIDE DEF o
<1>5. \A s \in Secrets : auth'[s] = IF auth[s].name = n /\ auth[s].state = "live"
                                    THEN [auth[s] EXCEPT !.state = "gone", !.middleware = FALSE] ELSE auth[s]
  BY DEF NamespaceGone
<1>6. auth' \in [Secrets -> Auth]
  <2>1. \A a \in Auth : [a EXCEPT !.state = "gone", !.middleware = FALSE] \in Auth
    BY DEF Auth
  <2> QED BY <1>2, <1>5, <2>1 DEF NamespaceGone
<1>7. Loses(World, World', n)
  BY <1>5 DEF Loses, World
<1>8. World' \in Worlds /\ Sound(World') /\ Bears(World, World', {}, {})
  BY <1>1, <1>3, <1>4, <1>6, <1>7, Deletes
<1> QED BY <1>1, <1>8, StandKeeps

LEMMA GarbageCollectKeeps ==
  ASSUME Inv, NEW s \in Secrets, GarbageCollect(s)
  PROVE  Inv'
<1>1. /\ Others /\ pc' = pc /\ loc' = loc /\ rows' = rows /\ k8s' = k8s /\ clock' = clock
      /\ auth' = [auth EXCEPT ![s].state = "gone", ![s].middleware = FALSE]
      /\ auth[s].state # "unborn" /\ auth[s].owner # None /\ k8s[auth[s].name].dep # auth[s].owner
  BY InvParts DEF GarbageCollect, Others, db
<1>2. auth \in [Secrets -> Auth]
  BY DEF Inv, TypeOK
<1>3. auth' \in [Secrets -> Auth]
  <2>1. \A a \in Auth : [a EXCEPT !.state = "gone", !.middleware = FALSE] \in Auth
    BY DEF Auth
  <2>2. auth' = [auth EXCEPT ![s] = [auth[s] EXCEPT !.state = "gone", !.middleware = FALSE]]
    BY <1>1, <1>2
  <2> QED BY <1>2, <2>1, <2>2
<1>4. World' \in Worlds
  BY <1>1, <1>3, InvParts DEF Others, World, Worlds
<1>5. \A n \in Names : ~Good(World, s, n)
  BY <1>1 DEF Good, World
<1>6. Sound(World') /\ Bears(World, World', {}, {})
  <2>1. /\ World'.rows = World.rows /\ World'.clock = World.clock /\ World'.k8s = World.k8s
        /\ World'.auth = [World.auth EXCEPT ![s].state = "gone", ![s].middleware = FALSE]
        /\ World.auth[s].state # "unborn"
    BY <1>1 DEF World
  <2> QED BY <1>4, <1>5, <2>1, InvParts, Discarded
<1> QED BY <1>1, <1>4, <1>6, StandKeeps

-----------------------------------------------------------------------------
(* update_access()                                                          *)

(* An access update that stands at its place. *)
UpdateOf(l, w) ==
  /\ l.name \in Names /\ l.req \in Access
  /\ l.id \in Ids /\ w.rows[l.id].state # "unborn" /\ w.rows[l.id].name = l.name
  /\ l.new # None => w.auth[l.new].state # "unborn"
  /\ l.old # None => w.auth[l.old].state # "unborn"

LEMMA UpdatePlaced ==
  ASSUME NEW c \in Clients, NEW at \in Exposing, NEW l \in Local, NEW w, UpdateOf(l, w),
         at \in NotDrawn => l.new = None,
         ReadOnce(at, l, w), Worked(at, l, w), Permitted(at, l, w), Looked(at, l, w), Held(at, l, w)
  PROVE  Placed(c, at, l, w)
<1>1. at \notin Deleting \cup Creating \cup Applying \cup {"idle"}
  BY DEF Applying, Exposing, Creating, Deleting
<1>2. Begun(c, at, l, w)
  BY <1>1, ClientProcs DEF UpdateOf, Begun
<1>3. Manifested(at, l) /\ Removed(at, l, w)
  BY <1>1 DEF Manifested, Removed, Applying, Deleting
<1> QED BY <1>2, <1>3 DEF Placed

LEMMA UpdateParts ==
  ASSUME Inv, NEW c \in Clients, pc[c] \in Exposing
  PROVE  /\ c \in Procs /\ loc[c] \in Local /\ loc[c].name \in Names /\ UpdateOf(loc[c], World)
         /\ pc[c] \in NotDrawn => loc[c].new = None
         /\ Begun(c, pc[c], loc[c], World)
         /\ ReadOnce(pc[c], loc[c], World) /\ Worked(pc[c], loc[c], World) /\ Permitted(pc[c], loc[c], World)
         /\ Looked(pc[c], loc[c], World) /\ Held(pc[c], loc[c], World)
<1>1. c \in Procs /\ Placed(c, pc[c], loc[c], World) /\ loc[c] \in Local
  BY ClientProcs, InvParts
<1>2. pc[c] \notin Deleting \cup Applying \cup {"apply_failed", "idle"}
  BY DEF Applying, Exposing, Deleting
<1> QED BY <1>1, <1>2 DEF Placed, Begun, UpdateOf

(* A step of the update itself, which leaves tables and cluster alone. *)
LEMMA UpdateGoesOn ==
  ASSUME Inv, NEW c \in Clients, pc[c] \in Exposing, NEW at \in Exposing, NEW l \in Local, Moves(c, at, l), Still,
         l.name = loc[c].name, l.id = loc[c].id, l.req = loc[c].req, l.new = loc[c].new,
         l.old = loc[c].old, at \in NotDrawn => l.new = None, Holds(at, l) => Holds(pc[c], loc[c]),
         ReadOnce(at, l, World), Worked(at, l, World), Permitted(at, l, World), Looked(at, l, World),
         Held(at, l, World)
  PROVE  Inv'
<1>1. UpdateOf(l, World)
  BY UpdateParts DEF UpdateOf
<1>2. Placed(c, at, l, World)
  BY <1>1, UpdatePlaced
<1>3. Learns(c, at, l)
  <2>1. pc[c] # "apply_failed"
    BY DEF Exposing
  <2> QED BY <2>1, KnowsSame
<1>4. c \in Procs /\ at \in Pc
  BY ClientProcs DEF Pc
<1> QED BY <1>2, <1>3, <1>4, QuietKeeps

LEMMA UpdateAccessKeeps ==
  ASSUME Inv, NEW c \in Clients, UpdateAccess(c)
  PROVE  Inv'
<1>1. PICK i \in Live, r \in Access :
        Goto(c, "read_workload", [NoLocal EXCEPT !.id = i, !.name = rows[i].name, !.req = r, !.http = allowHttp])
  BY DEF UpdateAccess
<1> DEFINE n == rows[i].name
           l == [NoLocal EXCEPT !.id = i, !.name = n, !.req = r, !.http = allowHttp]
<1>2. i \in Ids /\ rows[i].state = "live" /\ n \in Names /\ allowHttp \in BOOLEAN /\ c \in Procs
  BY InvParts, SoundParts, ClientProcs DEF Live, World
<1>3. Still
  BY InvParts, BoundAssumption DEF UpdateAccess, Begin, Still
<1>4. Moves(c, "read_workload", l)
  BY <1>1, Goes
<1> HIDE DEF n
<1>5. l \in Local /\ l.id = i /\ l.name = n /\ l.req = r /\ l.http = allowHttp /\ l.new = None /\ l.old = None
      /\ l.keep = None
  BY ONLY <1>2, r \in Access, EmptyLocal DEF NoLocal, Local
<1> HIDE DEF l
<1>6. UpdateOf(l, World)
  BY <1>2, <1>5 DEF UpdateOf, World, n
<1>7. /\ ReadOnce("read_workload", l, World) /\ Worked("read_workload", l, World)
      /\ Permitted("read_workload", l, World) /\ Looked("read_workload", l, World)
      /\ Held("read_workload", l, World)
  BY <1>5 DEF ReadOnce, Worked, Permitted, Looked, Held, Holds, Withdraws, Retires, AfterRead, Exposing, World
<1>8. "read_workload" \in Exposing /\ "read_workload" \in Pc
  BY DEF Exposing, Pc
<1>9. Placed(c, "read_workload", l, World)
  BY <1>5, <1>6, <1>7, <1>8, UpdatePlaced
<1>10. Learns(c, "read_workload", l)
  BY <1>5, KnowsNothing
<1> QED BY <1>2, <1>3, <1>4, <1>5, <1>8, <1>9, <1>10, QuietKeeps

LEMMA ReadWorkloadKeeps ==
  ASSUME Inv, NEW c \in Clients, ReadWorkload(c)
  PROVE  Inv'
<1>1. pc[c] = "read_workload" /\ pc[c] \in Exposing /\ pc[c] \in NotDrawn /\ "read_ingress" \in Exposing
  BY DEF ReadWorkload, At, Exposing, NotDrawn
<1>2. /\ c \in Procs /\ loc[c] \in Local /\ loc[c].name \in Names /\ loc[c].new = None
      /\ Permitted("read_workload", loc[c], World) /\ ReadOnce("read_workload", loc[c], World)
  BY <1>1, UpdateParts
<1>3. Still
  BY InvParts DEF ReadWorkload, Still
<1> DEFINE uid == k8s[loc[c].name].dep
           l == [loc[c] EXCEPT !.uid = uid]
<1>4. Moves(c, "idle", NoLocal) \/ (uid # None /\ Moves(c, "read_ingress", l))
  BY Goes, Ends DEF ReadWorkload
<1>5. uid \in Nat \cup {None}
  BY <1>2 DEF Inv, TypeOK, Objects
<1>6. CASE Moves(c, "idle", NoLocal)
  BY <1>2, <1>3, <1>6, QuietEnds
<1>7. CASE uid # None /\ Moves(c, "read_ingress", l)
  <2>1. uid = World.k8s[loc[c].name].dep /\ uid # None
    BY <1>7 DEF World
  <2> HIDE DEF uid
  <2>2. l \in Local /\ GoesOn(loc[c], l) /\ l.uid = uid /\ l.new = loc[c].new /\ l.keep = loc[c].keep
    BY ONLY <1>2, <1>5 DEF Local, GoesOn
  <2>3. Moves(c, "read_ingress", l)
    BY <1>7
  <2> HIDE DEF l
  <2>4. /\ ReadOnce("read_ingress", l, World) /\ Worked("read_ingress", l, World)
        /\ Permitted("read_ingress", l, World) /\ Looked("read_ingress", l, World)
        /\ Held("read_ingress", l, World)
    BY <1>2, <2>1, <2>2
       DEF ReadOnce, Worked, Permitted, Looked, Held, Holds, Withdraws, Retires, AfterRead, Exposing, GoesOn
  <2>5. l.name = loc[c].name /\ l.id = loc[c].id /\ l.req = loc[c].req /\ l.old = loc[c].old
    BY <2>2 DEF GoesOn
  <2>6. ~Holds("read_ingress", l)
    BY DEF Holds
  <2> QED BY <1>1, <1>2, <1>3, <2>2, <2>3, <2>4, <2>5, <2>6, UpdateGoesOn
<1> QED BY <1>4, <1>6, <1>7

(* What is known of an Ingress that is there. *)
LEMMA IngressParts ==
  ASSUME Inv, NEW n \in Names, k8s[n].ingress # None
  PROVE  LET g == k8s[n].ingress
         IN /\ g \in Ingress /\ g.version <= clock /\ g.version \in Nat /\ g.host \in HostNames
            /\ g.by \in Ids /\ rows[g.by].state # "unborn" /\ rows[g.by].name = n
            /\ g.auth \in Secrets \cup {None}
            /\ g.auth # None => /\ Named(World, g.auth) /\ auth[g.auth].state # "unborn" /\ auth[g.auth].name = n
                                /\ ~g.repeated /\ Calm(World, g.by) => Good(World, g.auth, n)
<1>1. k8s[n].ingress \in Ingress
  BY DEF Inv, TypeOK, Objects
<1>2. /\ k8s[n].ingress.version \in Nat /\ k8s[n].ingress.host \in HostNames /\ k8s[n].ingress.by \in Ids
      /\ k8s[n].ingress.auth \in Secrets \cup {None}
  BY <1>1 DEF Ingress
<1>3. k8s[n].ingress.auth # None => Named(World, k8s[n].ingress.auth)
  BY DEF Named, World
<1>4. /\ k8s[n].ingress.version <= clock
      /\ rows[k8s[n].ingress.by].state # "unborn" /\ rows[k8s[n].ingress.by].name = n
      /\ k8s[n].ingress.auth # None =>
           auth[k8s[n].ingress.auth].state # "unborn" /\ auth[k8s[n].ingress.auth].name = n
  BY DEF Inv, TypeOK, Related
<1>5. k8s[n].ingress.auth # None /\ ~k8s[n].ingress.repeated /\ Calm(World, k8s[n].ingress.by) =>
        Good(World, k8s[n].ingress.auth, n)
  BY <1>4 DEF Inv, Sound, Guarded, World, Good, Calm
<1> QED BY <1>1, <1>2, <1>3, <1>4, <1>5

LEMMA ReadIngressKeeps ==
  ASSUME Inv, NEW c \in Clients, ReadIngress(c)
  PROVE  Inv'
<1>1. pc[c] = "read_ingress" /\ pc[c] \in Exposing /\ pc[c] \in NotDrawn /\ "read_retained" \in Exposing
      /\ "read_retained" \in AfterRead
  BY DEF ReadIngress, At, Exposing, NotDrawn, AfterRead
<1>2. /\ c \in Procs /\ loc[c] \in Local /\ loc[c].name \in Names /\ UpdateOf(loc[c], World) /\ loc[c].new = None
      /\ Permitted("read_ingress", loc[c], World) /\ ReadOnce("read_ingress", loc[c], World)
      /\ Worked("read_ingress", loc[c], World)
  BY <1>1, UpdateParts
<1>3. Still
  BY InvParts DEF ReadIngress, Still
<1> DEFINE n == loc[c].name
           prev == k8s[n].ingress
           was == IF prev = None THEN None ELSE prev.host
           host == ResolveHostname(loc[c].req.host, was)
           old == IF prev = None THEN None ELSE prev.auth
           j == [loc[c] EXCEPT !.prev = prev]
           k == [j EXCEPT !.host = host]
           l == [k EXCEPT !.old = old]
<1>4. \/ Moves(c, "idle", NoLocal)
      \/ EndpointAllowed(host, loc[c].req.scheme, prev) /\ Moves(c, "read_retained", l)
  BY Goes, Ends DEF ReadIngress
<1>5. CASE Moves(c, "idle", NoLocal)
  BY <1>2, <1>3, <1>5, QuietEnds
<1>6. CASE EndpointAllowed(host, loc[c].req.scheme, prev) /\ Moves(c, "read_retained", l)
  <2>1. prev \in Ingress \cup {None}
    BY <1>2 DEF Inv, TypeOK, Objects
  <2>2. prev # None => /\ prev.version <= clock /\ rows[prev.by].state # "unborn" /\ rows[prev.by].name = n
                       /\ prev.host \in HostNames /\ prev.auth \in Secrets \cup {None}
                       /\ prev.auth # None => /\ Named(World, prev.auth) /\ auth[prev.auth].state # "unborn"
                                              /\ auth[prev.auth].name = n
    BY <1>2, IngressParts
  <2>3. old \in Secrets \cup {None}
    BY <2>2
  <2>4. host \in HostNames \cup {None}
    <3>1. loc[c].req.host \in Hosts \cup {None}
      BY <1>2 DEF UpdateOf, Access
    <3>2. was \in HostNames \cup {None}
      BY <2>2
    <3> QED BY <3>1, <3>2, Resolved
  <2>5. prev = World.k8s[n].ingress
    BY DEF World
  <2>6. /\ old = (IF prev = None THEN None ELSE prev.auth)
        /\ old # None => Named(World, old) /\ World.auth[old].state # "unborn" /\ World.auth[old].name = n
    BY <2>2 DEF World
  <2>7. Moves(c, "read_retained", l)
    BY <1>6
  <2>8. EndpointAllowed(host, loc[c].req.scheme, prev)
    BY <1>6
  <2> HIDE DEF host, old
  <2>9. prev # None => World.rows[prev.by].state # "unborn" /\ World.rows[prev.by].name = n
                       /\ prev.version <= World.clock
    BY <2>2 DEF World
  <2> HIDE DEF prev
  <2>10. /\ j \in Local /\ j.prev = prev /\ j.id = loc[c].id /\ j.name = n /\ j.req = loc[c].req
         /\ j.new = loc[c].new /\ j.uid = loc[c].uid /\ j.http = loc[c].http /\ j.keep = loc[c].keep
    BY ONLY <1>2, <2>1 DEF Local
  <2> HIDE DEF j
  <2>11. /\ k \in Local /\ k.prev = j.prev /\ k.id = j.id /\ k.name = j.name /\ k.req = j.req /\ k.host = host
         /\ k.new = j.new /\ k.uid = j.uid /\ k.http = j.http /\ k.keep = j.keep
    BY ONLY <2>10, <2>4 DEF Local
  <2> HIDE DEF k
  <2>12. /\ l \in Local /\ l.prev = k.prev /\ l.id = k.id /\ l.name = k.name /\ l.req = k.req /\ l.host = k.host
         /\ l.new = k.new /\ l.uid = k.uid /\ l.http = k.http /\ l.keep = k.keep /\ l.old = old
    BY ONLY <2>11, <2>3 DEF Local
  <2> HIDE DEF l
  <2>13. UpdateOf(l, World)
    BY <1>2, <2>6, <2>10, <2>11, <2>12 DEF UpdateOf
  <2>14. ReadOnce("read_retained", l, World)
    BY <1>2, <2>5, <2>6, <2>9, <2>10, <2>11, <2>12 DEF ReadOnce
  <2>15. Worked("read_retained", l, World)
    BY <1>1, <1>2, <2>10, <2>11, <2>12 DEF Worked, Exposing
  <2>16. Permitted("read_retained", l, World)
    BY <1>1, <1>2, <2>8, <2>10, <2>11, <2>12 DEF Permitted, EndpointAllowed, Http, World
  <2>17. Looked("read_retained", l, World) /\ Held("read_retained", l, World)
    BY DEF Looked, Held, Holds, Withdraws, Retires
  <2>18. Placed(c, "read_retained", l, World)
    BY <1>1, <1>2, <2>10, <2>11, <2>12, <2>13, <2>14, <2>15, <2>16, <2>17, UpdatePlaced
  <2>19. Learns(c, "read_retained", l)
    BY <1>2, <2>6, <2>10, <2>11, <2>12 DEF Learns, Holds
  <2>20. "read_retained" \in Pc
    BY <1>1 DEF Pc
  <2> QED BY <1>2, <1>3, <2>7, <2>12, <2>18, <2>19, <2>20, QuietKeeps
<1> QED BY <1>4, <1>5, <1>6

LEMMA ReadRetainedKeeps ==
  ASSUME Inv, NEW c \in Clients, ReadRetained(c)
  PROVE  Inv'
<1>1. /\ pc[c] = "read_retained" /\ pc[c] \in Exposing /\ pc[c] \in NotDrawn /\ "check_host" \in Exposing
      /\ {"read_retained", "check_host"} \subseteq AfterRead
  BY DEF ReadRetained, At, Exposing, NotDrawn, AfterRead
<1>2. /\ c \in Procs /\ loc[c] \in Local /\ loc[c].name \in Names /\ loc[c].new = None
      /\ Permitted("read_retained", loc[c], World) /\ ReadOnce("read_retained", loc[c], World)
      /\ Worked("read_retained", loc[c], World) /\ UpdateOf(loc[c], World)
  BY <1>1, UpdateParts
<1>3. Still
  BY InvParts DEF ReadRetained, Still
<1> DEFINE k == [loc[c] EXCEPT !.keep = loc[c].old]
<1>4. \/ Moves(c, "idle", NoLocal)
      \/ loc[c].req.auth # "keep" /\ Moves(c, "check_host", loc[c])
      \/ loc[c].req.auth = "keep" /\ loc[c].old # None /\ Moves(c, "check_host", k)
  BY Goes, Ends DEF ReadRetained
<1>5. ASSUME NEW l \in Local, GoesOn(loc[c], l), l.new = loc[c].new, l.uid = loc[c].uid,
             l.keep = (IF l.req.auth = "keep" THEN l.old ELSE None),
             l.req.auth = "keep" => l.old # None, Moves(c, "check_host", l)
      PROVE  Inv'
  <2>1. ReadOnce("check_host", l, World)
    BY ONLY <1>1, <1>2, <1>5 DEF ReadOnce, GoesOn
  <2>2. Worked("check_host", l, World) /\ Permitted("check_host", l, World)
    BY ONLY <1>1, <1>2, <1>5 DEF Worked, Permitted, GoesOn, Exposing
  <2>3. Looked("check_host", l, World) /\ Held("check_host", l, World) /\ ~Holds("check_host", l)
    BY DEF Looked, Held, Holds, Withdraws, Retires
  <2>4. l.name = loc[c].name /\ l.id = loc[c].id /\ l.req = loc[c].req /\ l.old = loc[c].old
    BY <1>5 DEF GoesOn
  <2> QED BY <1>1, <1>2, <1>3, <1>5, <2>1, <2>2, <2>3, <2>4, UpdateGoesOn
<1>6. CASE Moves(c, "idle", NoLocal)
  BY <1>2, <1>3, <1>6, QuietEnds
<1>7. CASE loc[c].req.auth # "keep" /\ Moves(c, "check_host", loc[c])
  <2>1. GoesOn(loc[c], loc[c]) /\ loc[c].keep = None
    BY <1>2 DEF GoesOn, ReadOnce
  <2> QED BY <1>2, <1>5, <1>7, <2>1
<1>8. CASE loc[c].req.auth = "keep" /\ loc[c].old # None /\ Moves(c, "check_host", k)
  <2>1. k \in Local /\ GoesOn(loc[c], k) /\ k.new = loc[c].new /\ k.uid = loc[c].uid /\ k.keep = loc[c].old
    <3>1. loc[c].old \in Secrets \cup {None}
      BY <1>2 DEF Local
    <3> QED BY ONLY <1>2, <3>1 DEF Local, GoesOn
  <2>2. k.req = loc[c].req /\ k.old = loc[c].old
    BY <2>1 DEF GoesOn
  <2>3. Moves(c, "check_host", k)
    BY <1>8
  <2> HIDE DEF k
  <2> QED BY <1>5, <1>8, <2>1, <2>2, <2>3
<1> QED BY <1>4, <1>6, <1>7, <1>8

(* An update that has read goes on, whatever becomes of the world.          *)
Underway == AfterRead \ {"read_retained"}

LEMMA ReadOn ==
  ASSUME NEW from \in Underway, NEW to \in Underway, NEW k, NEW l, NEW w,
         GoesOn(k, l), l.keep = k.keep, l.uid = k.uid,
         ReadOnce(from, k, w), Worked(from, k, w), Permitted(from, k, w)
  PROVE  ReadOnce(to, l, w) /\ Worked(to, l, w) /\ Permitted(to, l, w)
<1>1. to \notin {"read_workload", "read_ingress", "read_retained"} /\ to \in AfterRead /\ to \in Exposing
      /\ from \in AfterRead /\ from \in Exposing /\ from \notin {"read_workload", "read_ingress", "read_retained"}
  BY DEF Underway, AfterRead, Exposing
<1>2. ReadOnce(to, l, w)
  BY ONLY <1>1, GoesOn(k, l), l.keep = k.keep, ReadOnce(from, k, w) DEF ReadOnce, GoesOn
<1>3. Worked(to, l, w)
  BY ONLY <1>1, GoesOn(k, l), l.uid = k.uid, Worked(from, k, w) DEF Worked, GoesOn
<1>4. Permitted(to, l, w)
  BY ONLY <1>1, GoesOn(k, l), Permitted(from, k, w) DEF Permitted, GoesOn
<1> QED BY <1>2, <1>3, <1>4

LEMMA UpdateStands ==
  ASSUME Inv, NEW c \in Clients, pc[c] \in Exposing, World' \in Worlds, World'.http = World.http,
         NEW spent, NEW given, Bears(World, World', spent, given)
  PROVE  /\ UpdateOf(loc[c], World') /\ ReadOnce(pc[c], loc[c], World') /\ Worked(pc[c], loc[c], World')
         /\ Permitted(pc[c], loc[c], World') /\ Looked(pc[c], loc[c], World')
<1>1. /\ loc[c] \in Local /\ UpdateOf(loc[c], World) /\ Begun(c, pc[c], loc[c], World)
      /\ ReadOnce(pc[c], loc[c], World) /\ Worked(pc[c], loc[c], World) /\ Permitted(pc[c], loc[c], World)
      /\ Looked(pc[c], loc[c], World)
  BY UpdateParts
<1>2. World \in Worlds /\ pc[c] \in Pc
  BY InvParts, ClientProcs
<1>3. UpdateOf(loc[c], World')
  BY <1>1 DEF UpdateOf, Bears, Local
<1>4. ReadOnce(pc[c], loc[c], World')
  BY <1>1, <1>2, ReadOnceStay
<1>5. Worked(pc[c], loc[c], World')
  BY <1>1, <1>2, WorkedStay
<1>6. Permitted(pc[c], loc[c], World')
  BY <1>1 DEF Permitted
<1>7. Looked(pc[c], loc[c], World')
  BY <1>1, <1>2, LookedStay
<1> QED BY <1>3, <1>4, <1>5, <1>6, <1>7

LEMMA UpdateOn ==
  ASSUME Inv, NEW c \in Clients, pc[c] \in Underway, NEW at \in Underway, NEW l \in Local, Moves(c, at, l),
         GoesOn(loc[c], l), l.keep = loc[c].keep, l.uid = loc[c].uid, Others,
         NEW spent, NEW given, World' \in Worlds, Sound(World'), Bears(World, World', spent, given),
         Owns(c, spent, given),
         at \in NotDrawn => l.new = None,
         l.new # None => /\ World'.auth[l.new].state # "unborn"
                         /\ l.new = loc[c].new \/ auth[l.new].state = "unborn",
         Holds(at, l) => Holds(pc[c], loc[c]) \/ auth[l.new].state = "unborn",
         Looked(at, l, World'), Held(at, l, World')
  PROVE  Inv'
<1>1. pc[c] \in Exposing /\ at \in Exposing /\ pc[c] # "apply_failed" /\ at \in Pc
  BY DEF Underway, AfterRead, Exposing, Pc
<1>2. World'.http = World.http
  BY DEF Others, World
<1>3. /\ UpdateOf(loc[c], World') /\ ReadOnce(pc[c], loc[c], World') /\ Worked(pc[c], loc[c], World')
      /\ Permitted(pc[c], loc[c], World')
  BY <1>1, <1>2, UpdateStands
<1>4. ReadOnce(at, l, World') /\ Worked(at, l, World') /\ Permitted(at, l, World')
  BY <1>3, ReadOn
<1>5. UpdateOf(l, World')
  BY ONLY <1>3, GoesOn(loc[c], l), l.new # None => World'.auth[l.new].state # "unborn" DEF UpdateOf, GoesOn
<1>6. Placed(c, at, l, World')
  BY <1>1, <1>4, <1>5, UpdatePlaced
<1>7. Learns(c, at, l)
  <2>1. l.old = loc[c].old /\ (Holds(at, l) => l.new # None)
    BY DEF GoesOn, Holds
  <2> QED BY <1>1, <2>1 DEF Learns
<1>8. c \in Procs
  BY ClientProcs
<1> QED BY <1>1, <1>6, <1>7, <1>8, StepKeeps

(* The same when tables and cluster stay as they are. *)
LEMMA UpdateOnQuietly ==
  ASSUME Inv, NEW c \in Clients, pc[c] \in Underway, NEW at \in Underway, NEW l \in Local, Moves(c, at, l),
         GoesOn(loc[c], l), l.keep = loc[c].keep, l.uid = loc[c].uid, l.new = loc[c].new, Still,
         at \in NotDrawn => l.new = None,
         Holds(at, l) => Holds(pc[c], loc[c]),
         Looked(at, l, World), Held(at, l, World)
  PROVE  Inv'
<1>1. Others /\ World' = World /\ World' \in Worlds /\ Sound(World') /\ Bears(World, World', {}, {})
  BY StillWorld
<1>2. pc[c] \in Exposing
  BY DEF Underway, AfterRead
<1>3. l.new # None => World'.auth[l.new].state # "unborn"
  BY <1>1, <1>2, UpdateParts DEF UpdateOf
<1>4. Looked(at, l, World') /\ Held(at, l, World')
  BY <1>1
<1> QED BY <1>1, <1>3, <1>4, OwnsNothing, UpdateOn

LEMMA CheckHostKeeps ==
  ASSUME Inv, NEW c \in Clients, CheckHost(c)
  PROVE  Inv'
<1>1. pc[c] = "check_host" /\ pc[c] \in Exposing /\ pc[c] \in NotDrawn /\ pc[c] \in Underway
  BY DEF CheckHost, At, Exposing, NotDrawn, AfterRead, Underway
<1>2. /\ c \in Procs /\ loc[c] \in Local /\ loc[c].name \in Names /\ loc[c].new = None
      /\ UpdateOf(loc[c], World)
  BY <1>1, UpdateParts
<1>3. Still
  BY InvParts DEF CheckHost, Still
<1> DEFINE at == CASE loc[c].req.auth = "none" -> "write_ingress"
                   [] loc[c].req.auth = "new"  -> "write_secret"
                   [] loc[c].req.auth = "keep" -> "validate_middleware"
           own == IF loc[c].prev = None THEN None ELSE loc[c].name
           l == [loc[c] EXCEPT !.checked = clock]
<1>4. loc[c].req.auth \in {"none", "new", "keep"}
  BY <1>2 DEF UpdateOf, Access
<1>5. /\ at \in {"write_ingress", "write_secret", "validate_middleware"} /\ at \in Underway /\ at # "idle"
      /\ at = "write_secret" => loc[c].req.auth = "new"
  BY <1>4 DEF Underway, AfterRead, Exposing
<1>6. Moves(c, "idle", NoLocal) \/ (HostnameAvailable(loc[c].host, own) /\ Moves(c, at, l))
  <2>1. CASE HostnameAvailable(loc[c].host, own)
    <3>1. Goto(c, at, l)
      BY <2>1 DEF CheckHost
    <3> QED BY <1>5, <2>1, <3>1, Goes
  <2>2. CASE ~HostnameAvailable(loc[c].host, own)
    BY <2>2, Ends DEF CheckHost
  <2> QED BY <2>1, <2>2
<1>7. CASE Moves(c, "idle", NoLocal)
  BY <1>2, <1>3, <1>7, QuietEnds
<1>8. CASE HostnameAvailable(loc[c].host, own) /\ Moves(c, at, l)
  <2>1. Moves(c, at, l)
    BY <1>8
  <2>2. own \in {None, loc[c].name} /\ None \notin Names /\ clock \in Nat
    BY InvParts
  <2> HIDE DEF own, at
  <2>3. /\ l \in Local /\ GoesOn(loc[c], l) /\ l.keep = loc[c].keep /\ l.uid = loc[c].uid /\ l.new = loc[c].new
        /\ l.checked = clock
    <3>1. clock \in Nat /\ loc[c] \in Local
      BY <1>2, <2>2
    <3> QED BY ONLY <3>1 DEF Local, GoesOn
  <2> HIDE DEF l
  <2>4. l.host = loc[c].host /\ l.name = loc[c].name /\ l.req = loc[c].req
    BY <2>3 DEF GoesOn
  <2>5. Looked(at, l, World)
    <3>1. \A m \in Names : l.host # None /\ m # l.name /\ k8s[m].ingress # None
                             => ~HostsOverlap(l.host, k8s[m].ingress.host)
      BY <1>8, <2>2, <2>4 DEF HostnameAvailable
    <3> QED BY <2>2, <2>3, <3>1 DEF Looked, World
  <2>6. Held(at, l, World) /\ ~Holds(at, l)
    BY <1>2, <1>5, <2>3, <2>4 DEF Held, Holds, Withdraws, Retires
  <2> QED BY <1>1, <1>2, <1>3, <1>5, <2>1, <2>3, <2>5, <2>6, UpdateOnQuietly
<1> QED BY <1>6, <1>7, <1>8

LEMMA Trimmed ==
  ASSUME NEW k \in Local, NEW l, l = [k EXCEPT !.todo = IF @ = <<>> THEN @ ELSE Tail(@)]
  PROVE  /\ l \in Local /\ GoesOn(k, l) /\ l.keep = k.keep /\ l.uid = k.uid /\ l.new = k.new
         /\ l.checked = k.checked
<1> DEFINE t == IF k.todo = <<>> THEN k.todo ELSE Tail(k.todo)
<1>1. t \in Seq(Kinds)
  <2>1. k.todo \in Seq(Kinds)
    BY DEF Local
  <2> QED BY <2>1, TailParts
<1>2. l = [k EXCEPT !.todo = t]
  OBVIOUS
<1> HIDE DEF t
<1> QED BY ONLY k \in Local, <1>1, <1>2 DEF Local, GoesOn

LEMMA WriteSecretKeeps ==
  ASSUME Inv, NEW c \in Clients, WriteSecret(c)
  PROVE  Inv'
<1>1. /\ pc[c] = "write_secret" /\ pc[c] \in Exposing /\ pc[c] \in NotDrawn /\ pc[c] \in Underway
      /\ "write_middleware" \in Underway /\ "write_middleware" \notin NotDrawn
  BY DEF WriteSecret, At, Exposing, NotDrawn, AfterRead, Underway, Creating
<1>2. /\ c \in Procs /\ loc[c] \in Local /\ loc[c].name \in Names /\ loc[c].new = None
      /\ UpdateOf(loc[c], World) /\ Worked("write_secret", loc[c], World)
      /\ Looked("write_secret", loc[c], World) /\ Held("write_secret", loc[c], World)
  BY <1>1, UpdateParts
<1> DEFINE n == loc[c].name
           uid == loc[c].uid
<1>3. Others /\ rows' = rows /\ faults' \in Nat /\ (UNCHANGED cluster => Still)
  <2>1. UNCHANGED <<inCluster, db, sent>>
    BY DEF WriteSecret
  <2>2. faults' \in {faults, faults + 1}
    BY DEF WriteSecret, CreateSecret, Call
  <2> QED BY <2>1, <2>2, InvParts DEF Others, Still, db
<1>4. CASE ~Writable(n)
  <2>1. Moves(c, "idle", NoLocal) /\ UNCHANGED cluster
    BY <1>4, Ends DEF WriteSecret
  <2> QED BY <1>2, <1>3, <2>1, QuietEnds
<1>5. CASE Writable(n)
  <2>1. PICK s \in Secrets :
          /\ auth[s].state = "unborn"
          /\ Call(c, /\ auth' = [auth EXCEPT ![s] = [state |-> "live", name |-> n, owner |-> uid,
                                                     middleware |-> FALSE]]
                     /\ Writes(n, k8s[n]),
                  "write_middleware", "idle", [loc[c] EXCEPT !.new = s, !.todo = IF @ = <<>> THEN @ ELSE Tail(@)])
    BY <1>2, <1>5 DEF WriteSecret, CreateSecret
  <2> DEFINE a == [state |-> "live", name |-> n, owner |-> uid, middleware |-> FALSE]
             j == [loc[c] EXCEPT !.new = s]
             k == [j EXCEPT !.todo = IF @ = <<>> THEN @ ELSE Tail(@)]
  <2>2. \/ /\ Moves(c, "write_middleware", k) \/ Moves(c, "idle", NoLocal)
           /\ auth' = [auth EXCEPT ![s] = a] /\ Writes(n, k8s[n])
        \/ Moves(c, "idle", NoLocal) /\ UNCHANGED cluster
    BY <2>1, Goes, Ends DEF Call
  <2>3. /\ j \in Local /\ GoesOn(loc[c], j) /\ j.checked = loc[c].checked /\ j.new = s
        /\ j.keep = loc[c].keep /\ j.uid = uid
    BY ONLY <1>2, s \in Secrets DEF Local, GoesOn
  <2> HIDE DEF j
  <2>4. /\ k \in Local /\ GoesOn(j, k) /\ k.checked = j.checked /\ k.new = j.new /\ k.keep = j.keep
        /\ k.uid = j.uid
    BY <2>3, Trimmed
  <2> HIDE DEF k
  <2>5. GoesOn(loc[c], k)
    BY ONLY <2>3, <2>4 DEF GoesOn
  <2>6. CASE Moves(c, "idle", NoLocal) /\ UNCHANGED cluster
    BY <1>2, <1>3, <2>6, QuietEnds
  <2>7. CASE /\ Moves(c, "write_middleware", k) \/ Moves(c, "idle", NoLocal)
             /\ auth' = [auth EXCEPT ![s] = a] /\ Writes(n, k8s[n])
    <3>1. a \in Auth /\ a.state = "live" /\ a.name = n /\ a.owner = uid /\ ~a.middleware
      <4>1. uid \in Nat \cup {None} /\ n \in Names
        BY <1>2 DEF Local
      <4> QED BY ONLY <4>1 DEF Auth
    <3>2. ~auth[s].middleware /\ s # None
      BY <2>1, InvParts, SoundParts DEF World
    <3>3. auth' = [auth EXCEPT ![s] = a] /\ Writes(n, k8s[n])
      BY <2>7
    <3> HIDE DEF a
    <3>4. /\ World' \in Worlds /\ Sound(World') /\ Bears(World, World', {}, {})
          /\ World'.auth[s] = a /\ (~Named(World, s) => ~Named(World', s))
          /\ \A m \in Names : World'.k8s[m].dep = World.k8s[m].dep
          /\ \A i \in Ids : Calm(World', i) <=> Calm(World, i)
      <4>1. Made(s, a, n)
        BY <2>1, <3>1, <3>2 DEF Made
      <4>2. n \in Names /\ a \in Auth /\ s \in Secrets
        BY <1>2, <3>1
      <4> QED BY ONLY Inv, <1>3, <3>3, <4>1, <4>2, SecretWritten, Zenon
    <3>5. CASE Moves(c, "idle", NoLocal)
      BY <1>2, <1>3, <3>4, <3>5, OwnsNothing, EndKeeps
    <3>6. CASE Moves(c, "write_middleware", k)
      <4>1. ~Named(World', s)
        BY <2>1, <3>2, <3>4, NamedKnown
      <4>2. Calm(World', loc[c].id) => uid = World'.k8s[n].dep
        BY <1>1, <1>2, <3>4 DEF Worked, UpdateOf
      <4>3. k.new = s /\ k.name = n /\ k.id = loc[c].id /\ k.req = loc[c].req /\ k.host = loc[c].host
            /\ k.old = loc[c].old
        BY <2>3, <2>4, <2>5 DEF GoesOn
      <4>4. loc[c].req.auth = "new"
        BY <1>2 DEF Held
      <4>5. Held("write_middleware", k, World')
        BY <3>1, <3>2, <3>4, <4>1, <4>2, <4>3, <4>4 DEF Held, Holds, Withdraws, Retires
      <4>6. Looked("write_middleware", k, World')
        <5>1. Looked("write_secret", loc[c], World')
          BY <1>1, <1>2, <1>3, <3>4, UpdateStands DEF Others, World
        <5> QED BY <2>3, <2>4, <4>3, <5>1 DEF Looked
      <4>7. World'.auth[k.new].state # "unborn" /\ auth[k.new].state = "unborn"
        BY <2>1, <3>1, <3>4, <4>3
      <4> QED BY <1>1, <1>3, <2>3, <2>4, <2>5, <3>4, <3>6, <4>5, <4>6, <4>7, OwnsNothing, UpdateOn
    <3> QED BY <2>7, <3>5, <3>6
  <2> QED BY <2>2, <2>6, <2>7
<1> QED BY <1>4, <1>5

LEMMA WriteMiddlewareKeeps ==
  ASSUME Inv, NEW c \in Clients, WriteMiddleware(c)
  PROVE  Inv'
<1>1. /\ pc[c] = "write_middleware" /\ pc[c] \in Exposing /\ pc[c] \in Underway
      /\ {"write_ingress", "withdraw"} \subseteq Underway \ NotDrawn
  BY DEF WriteMiddleware, At, Exposing, NotDrawn, AfterRead, Underway, Creating
<1>2. /\ c \in Procs /\ loc[c] \in Local /\ loc[c].name \in Names /\ UpdateOf(loc[c], World)
      /\ Looked("write_middleware", loc[c], World) /\ Held("write_middleware", loc[c], World)
  BY <1>1, UpdateParts
<1>3. loc[c].new # None /\ loc[c].new \in Secrets /\ Holds("write_middleware", loc[c]) /\ loc[c].req.auth # "keep"
      /\ auth[loc[c].new].state # "unborn"
  BY <1>2 DEF Held, Holds, Local, UpdateOf, World
<1>4. PICK s \in Secrets : s = loc[c].new
  BY <1>3
<1> DEFINE n == loc[c].name
           l == [loc[c] EXCEPT !.todo = IF @ = <<>> THEN @ ELSE Tail(@)]
           a == [auth[s] EXCEPT !.middleware = TRUE]
<1>5. Others /\ rows' = rows /\ faults' \in Nat /\ (UNCHANGED cluster => Still)
  <2>1. UNCHANGED <<inCluster, db, sent>>
    BY DEF WriteMiddleware
  <2>2. faults' \in {faults, faults + 1}
    BY DEF WriteMiddleware, CreateAuthMiddleware, Call
  <2> QED BY <2>1, <2>2, InvParts DEF Others, Still, db
<1>6. \/ Moves(c, "withdraw", l) /\ UNCHANGED cluster
      \/ /\ Moves(c, "write_ingress", l) \/ Moves(c, "withdraw", l)
         /\ auth[s].state = "live" /\ auth' = [auth EXCEPT ![s] = a] /\ Writes(n, k8s[n])
  BY <1>4, Goes DEF WriteMiddleware, CreateAuthMiddleware, Call
<1>7. /\ l \in Local /\ GoesOn(loc[c], l) /\ l.keep = loc[c].keep /\ l.uid = loc[c].uid /\ l.new = loc[c].new
      /\ l.checked = loc[c].checked
  BY <1>2, Trimmed
<1> HIDE DEF l
<1>8. l.new = s /\ l.name = n /\ l.id = loc[c].id /\ l.req = loc[c].req /\ l.host = loc[c].host /\ l.old = loc[c].old
  BY <1>4, <1>7 DEF GoesOn
<1>9. /\ auth[s].name = n /\ ~Named(World, s)
      /\ Calm(World, loc[c].id) => auth[s].owner \in {None, World.k8s[n].dep}
  BY <1>2, <1>3, <1>4 DEF Held, World
<1>10. CASE Moves(c, "withdraw", l) /\ UNCHANGED cluster
  <2>1. Held("withdraw", l, World) /\ Looked("withdraw", l, World)
    BY <1>8, <1>9, VouchedNamed DEF Held, Holds, Withdraws, Retires, Looked, World
  <2> QED BY <1>1, <1>3, <1>5, <1>7, <1>10, <2>1, UpdateOnQuietly
<1>11. CASE /\ Moves(c, "write_ingress", l) \/ Moves(c, "withdraw", l)
            /\ auth[s].state = "live" /\ auth' = [auth EXCEPT ![s] = a] /\ Writes(n, k8s[n])
  <2>1. a \in Auth /\ a.state = "live" /\ a.name = n /\ a.owner = auth[s].owner /\ a.middleware
    <3>1. auth[s] \in Auth
      BY DEF Inv, TypeOK
    <3> QED BY ONLY <1>9, <1>11, <3>1 DEF Auth
  <2>2. auth' = [auth EXCEPT ![s] = a] /\ Writes(n, k8s[n])
    BY <1>11
  <2> HIDE DEF a
  <2>3. /\ World' \in Worlds /\ Sound(World') /\ Bears(World, World', {}, {})
        /\ World'.auth[s] = a /\ (~Named(World, s) => ~Named(World', s))
        /\ \A m \in Names : World'.k8s[m].dep = World.k8s[m].dep
        /\ \A i \in Ids : Calm(World', i) <=> Calm(World, i)
    <3>1. Made(s, a, n)
      BY <1>9, <1>11, <2>1 DEF Made
    <3>2. n \in Names /\ a \in Auth /\ s \in Secrets
      BY <1>2, <2>1
    <3> QED BY ONLY Inv, <1>5, <2>2, <3>1, <3>2, SecretWritten, Zenon
  <2>4. ~Named(World', s)
    BY <1>9, <2>3
  <2>5. Calm(World', loc[c].id) => auth[s].owner \in {None, World'.k8s[n].dep}
    BY <1>2, <1>9, <2>3 DEF UpdateOf
  <2>6. /\ Held("write_ingress", l, World') /\ Held("withdraw", l, World')
    BY <1>3, <1>8, <2>1, <2>3, <2>4, <2>5, VouchedNamed DEF Held, Holds, Withdraws, Retires, Good
  <2>7. Looked("write_ingress", l, World') /\ Looked("withdraw", l, World')
    <3>1. Looked("write_middleware", loc[c], World')
      BY <1>1, <1>5, <2>3, UpdateStands DEF Others, World
    <3> QED BY <1>7, <1>8, <3>1 DEF Looked
  <2>8. World'.auth[l.new].state # "unborn"
    BY <1>8, <2>1, <2>3
  <2> QED BY <1>1, <1>3, <1>5, <1>7, <1>11, <2>3, <2>6, <2>7, <2>8, OwnsNothing, UpdateOn
<1> QED BY <1>6, <1>10, <1>11

LEMMA ValidateMiddlewareKeeps ==
  ASSUME Inv, NEW c \in Clients, ValidateMiddleware(c)
  PROVE  Inv'
<1>1. /\ pc[c] = "validate_middleware" /\ pc[c] \in Exposing /\ pc[c] \in Underway /\ pc[c] \in NotDrawn
      /\ "write_ingress" \in Underway \ NotDrawn
  BY DEF ValidateMiddleware, At, Exposing, NotDrawn, AfterRead, Underway, Creating
<1>2. /\ c \in Procs /\ loc[c] \in Local /\ loc[c].new = None
      /\ Looked("validate_middleware", loc[c], World)
  BY <1>1, UpdateParts
<1>3. Still
  BY InvParts DEF ValidateMiddleware, Still
<1>4. Moves(c, "idle", NoLocal) \/ Moves(c, "write_ingress", loc[c])
  BY Goes, Ends DEF ValidateMiddleware
<1>5. Held("write_ingress", loc[c], World) /\ Looked("write_ingress", loc[c], World)
  BY <1>2 DEF Held, Holds, Withdraws, Retires, Looked
<1>6. GoesOn(loc[c], loc[c]) /\ ~Holds("write_ingress", loc[c])
  BY <1>2 DEF GoesOn, Holds
<1> QED BY <1>1, <1>2, <1>3, <1>4, <1>5, <1>6, QuietEnds, UpdateOnQuietly

(* What is written on an Ingress. *)
LEMMA ExposedParts ==
  ASSUME NEW l \in Local, l.req \in Access, l.id \in Ids, clock \in Nat, l.host # None,
         l.req.auth = "keep" => l.prev # None
  PROVE  LET g == Exposed(l)
         IN /\ g \in Ingress /\ g.host = l.host /\ g.scheme = l.req.scheme /\ g.version = clock + 1
            /\ g.checked = l.checked /\ g.by = (IF l.req.auth = "keep" THEN l.prev.by ELSE l.id)
            /\ g.auth = (IF l.req.auth = "keep" THEN l.keep ELSE l.new)
            /\ l.req.auth = "keep" /\ l.prev.repeated => g.repeated
<1> DEFINE b == IF l.req.auth = "keep" THEN l.prev.by ELSE l.id
           a == IF l.req.auth = "keep" THEN l.keep ELSE l.new
           h == [host |-> l.host, scheme |-> l.req.scheme, version |-> clock + 1, by |-> b,
                 checked |-> l.checked, auth |-> a]
           was == IF l.prev = None THEN {} ELSE l.prev.edited
           changed == {f \in {"host", "scheme", "auth"} : l.prev = None \/ l.prev[f] # h[f]}
           e == {f \in was \cup changed : f = "auth" => a # None}
           r == l.req.auth = "keep" /\ l.prev.repeated
<1>1. /\ l.host \in HostNames /\ l.req.scheme \in {"http", "https"} /\ l.checked \in Nat
      /\ l.keep \in Secrets \cup {None} /\ l.new \in Secrets \cup {None} /\ l.prev \in Ingress \cup {None}
  BY DEF Local, Access
<1>2. was \in SUBSET {"host", "scheme", "auth"} /\ b \in Ids /\ a \in Secrets \cup {None} /\ r \in BOOLEAN
  BY <1>1 DEF Ingress
<1>3. e \in SUBSET {"host", "scheme", "auth"}
  BY <1>2
<1>4. Exposed(l) = [host |-> h.host, scheme |-> h.scheme, version |-> h.version, by |-> h.by,
                    checked |-> h.checked, auth |-> h.auth, repeated |-> r,
                    edited |-> {f \in was \cup changed : f = "auth" => h.auth # None}]
  BY DEF Exposed, NewVersion
<1>5. /\ h.host = l.host /\ h.scheme = l.req.scheme /\ h.version = clock + 1 /\ h.by = b
      /\ h.checked = l.checked /\ h.auth = a
  OBVIOUS
<1>6. Exposed(l) = [host |-> l.host, scheme |-> l.req.scheme, version |-> clock + 1, by |-> b,
                    checked |-> l.checked, auth |-> a, repeated |-> r, edited |-> e]
  BY ONLY <1>4, <1>5
<1> HIDE DEF a, b, e, h, r, was, changed
<1>7. clock + 1 \in Nat
  OBVIOUS
<1>8. /\ Exposed(l) \in Ingress /\ Exposed(l).host = l.host /\ Exposed(l).scheme = l.req.scheme
      /\ Exposed(l).version = clock + 1 /\ Exposed(l).checked = l.checked /\ Exposed(l).by = b
      /\ Exposed(l).auth = a /\ Exposed(l).repeated = r
  BY ONLY <1>1, <1>2, <1>3, <1>6, <1>7 DEF Ingress
<1> QED BY <1>8 DEF a, b, r

(* The same where the PUT is repeated. *)
Again(l, again) ==
  IF again THEN [Exposed(l) EXCEPT !.repeated = @ \/ l.new # None] ELSE Exposed(l)

LEMMA AgainParts ==
  ASSUME NEW l \in Local, l.req \in Access, l.id \in Ids, clock \in Nat, l.host # None,
         l.req.auth = "keep" => l.prev # None, NEW again \in BOOLEAN
  PROVE  LET g == Again(l, again)
         IN /\ g \in Ingress /\ g.host = l.host /\ g.scheme = l.req.scheme /\ g.version = clock + 1
            /\ g.checked = l.checked /\ g.by = (IF l.req.auth = "keep" THEN l.prev.by ELSE l.id)
            /\ g.auth = (IF l.req.auth = "keep" THEN l.keep ELSE l.new)
            /\ l.req.auth = "keep" /\ l.prev.repeated => g.repeated
            /\ again /\ l.new # None => g.repeated
<1>1. PICK x : x = Exposed(l)
  OBVIOUS
<1>2. /\ x \in Ingress /\ x.host = l.host /\ x.scheme = l.req.scheme /\ x.version = clock + 1
      /\ x.checked = l.checked /\ x.by = (IF l.req.auth = "keep" THEN l.prev.by ELSE l.id)
      /\ x.auth = (IF l.req.auth = "keep" THEN l.keep ELSE l.new)
      /\ l.req.auth = "keep" /\ l.prev.repeated => x.repeated
  BY <1>1, ExposedParts
<1>3. PICK y : y = [x EXCEPT !.repeated = x.repeated \/ l.new # None]
  OBVIOUS
<1>4. /\ y \in Ingress /\ y.host = x.host /\ y.scheme = x.scheme /\ y.version = x.version
      /\ y.checked = x.checked /\ y.by = x.by /\ y.auth = x.auth
      /\ x.repeated \/ l.new # None => y.repeated
  <2>1. (x.repeated \/ l.new # None) \in BOOLEAN
    OBVIOUS
  <2> QED BY ONLY <1>2, <1>3, <2>1 DEF Ingress
<1>5. Again(l, again) = IF again THEN y ELSE x
  BY <1>1, <1>3 DEF Again
<1> HIDE DEF Again
<1>6. CASE again
  BY <1>2, <1>4, <1>5, <1>6
<1>7. CASE ~again
  BY <1>2, <1>5, <1>7
<1> QED BY <1>6, <1>7

LEMMA WritingParts ==
  ASSUME Inv, NEW c \in Clients, pc[c] = "write_ingress"
  PROVE  /\ c \in Procs /\ loc[c] \in Local /\ loc[c].name \in Names /\ loc[c].req \in Access /\ loc[c].id \in Ids
         /\ pc[c] \in Exposing /\ pc[c] \in Underway /\ UpdateOf(loc[c], World)
         /\ ReadOnce("write_ingress", loc[c], World) /\ Looked("write_ingress", loc[c], World)
         /\ Held("write_ingress", loc[c], World)
         /\ loc[c].old = (IF loc[c].prev = None THEN None ELSE loc[c].prev.auth)
         /\ loc[c].keep = (IF loc[c].req.auth = "keep" THEN loc[c].old ELSE None)
         /\ loc[c].req.auth = "keep" => loc[c].old # None /\ loc[c].prev # None /\ loc[c].new = None
         /\ loc[c].new # None => Holds(pc[c], loc[c]) /\ loc[c].new \in Secrets
<1>1. pc[c] \in Exposing /\ pc[c] \in Underway /\ "write_ingress" \in AfterRead
  BY DEF Exposing, AfterRead, Underway
<1>2. /\ c \in Procs /\ loc[c] \in Local /\ loc[c].name \in Names /\ UpdateOf(loc[c], World)
      /\ ReadOnce("write_ingress", loc[c], World) /\ Looked("write_ingress", loc[c], World)
      /\ Held("write_ingress", loc[c], World)
  BY <1>1, UpdateParts
<1>3. loc[c].req \in Access /\ loc[c].id \in Ids
  BY <1>2 DEF UpdateOf
<1>4. /\ loc[c].old = (IF loc[c].prev = None THEN None ELSE loc[c].prev.auth)
      /\ loc[c].keep = (IF loc[c].req.auth = "keep" THEN loc[c].old ELSE None)
      /\ loc[c].req.auth = "keep" => loc[c].old # None
  BY <1>1, <1>2 DEF ReadOnce
<1>5. loc[c].new # None => /\ Holds(pc[c], loc[c]) /\ loc[c].new \in Secrets
                           /\ loc[c].req.auth # "keep"
  BY <1>2 DEF Holds, Local, Held
<1> QED BY <1>1, <1>2, <1>3, <1>4, <1>5

(* The Ingress is still the one that was read, and is written. *)
LEMMA IngressReplaced ==
  ASSUME Inv, NEW c \in Clients, pc[c] = "write_ingress", IngressUnchanged(loc[c].name, loc[c].prev),
         Others, rows' = rows, auth' = auth,
         NEW again \in BOOLEAN, again => loc[c].host # None,
         NEW o, o = [k8s[loc[c].name] EXCEPT !.ingress = Again(loc[c], again)], Writes(loc[c].name, o)
  PROVE  /\ World' \in Worlds /\ Sound(World') /\ Bears(World, World', {}, {loc[c].new} \ {None})
         /\ Owns(c, {}, {loc[c].new} \ {None})
         /\ Held("save_row", loc[c], World') /\ (again => Held("withdraw", loc[c], World'))
<1> DEFINE n == loc[c].name
           l == loc[c]
           g == Again(l, again)
           given == {l.new} \ {None}
<1>1. /\ l \in Local /\ n \in Names /\ l.req \in Access /\ l.id \in Ids /\ clock \in Nat
      /\ UpdateOf(l, World) /\ ReadOnce("write_ingress", l, World) /\ Looked("write_ingress", l, World)
      /\ Held("write_ingress", l, World)
      /\ l.old = (IF l.prev = None THEN None ELSE l.prev.auth)
      /\ l.keep = (IF l.req.auth = "keep" THEN l.old ELSE None)
      /\ (l.req.auth = "keep" => l.old # None /\ l.prev # None /\ l.new = None)
      /\ (l.new # None => Holds(pc[c], l) /\ l.new \in Secrets)
  BY WritingParts, InvParts
<1>2. k8s[n].ingress = l.prev
  <2>1. CASE l.prev = None
    BY <2>1 DEF IngressUnchanged
  <2>2. CASE l.prev # None
    <3>1. k8s[n].ingress # None /\ k8s[n].ingress.version = l.prev.version
      BY <2>2 DEF IngressUnchanged
    <3>2. "write_ingress" \in AfterRead /\ World.k8s[n].ingress = k8s[n].ingress
      BY DEF AfterRead, Exposing, World
    <3> QED BY <1>1, <2>2, <3>1, <3>2 DEF ReadOnce
  <2> QED BY <2>1, <2>2
<1>3. g = None \/ l.host # None
  BY DEF Exposed, Again
<1>4. l.host # None =>
        /\ g \in Ingress /\ g.host = l.host /\ g.version = clock + 1
        /\ g.checked = l.checked /\ g.by = (IF l.req.auth = "keep" THEN l.prev.by ELSE l.id)
        /\ g.auth = (IF l.req.auth = "keep" THEN l.keep ELSE l.new)
        /\ l.req.auth = "keep" /\ l.prev.repeated => g.repeated
        /\ again /\ l.new # None => g.repeated
  BY <1>1, AgainParts
<1> HIDE DEF g
<1>5. l.old # None => /\ auth[l.old].state # "unborn" /\ auth[l.old].name = n /\ l.prev # None
                      /\ rows[l.prev.by].state # "unborn" /\ rows[l.prev.by].name = n
                      /\ ~l.prev.repeated /\ Calm(World, l.prev.by) => Good(World, l.old, n)
  BY <1>1, <1>2, IngressParts
<1>6. l.new # None => /\ auth[l.new].state # "unborn" /\ auth[l.new].name = n
                      /\ Calm(World, l.id) => Good(World, l.new, n)
  BY <1>1 DEF Held, Holds, World, UpdateOf
<1>7. rows[l.id].state # "unborn" /\ rows[l.id].name = n
  BY <1>1 DEF UpdateOf, World
<1>8. l.host # None =>
        /\ rows[g.by].state # "unborn" /\ rows[g.by].name = n
        /\ g.auth # None => /\ auth[g.auth].state # "unborn" /\ auth[g.auth].name = n
                            /\ ~g.repeated /\ Calm(World, g.by) => Good(World, g.auth, n)
                            /\ \/ g.auth \in given
                               \/ /\ k8s[n].ingress # None /\ k8s[n].ingress.auth = g.auth
                                  /\ k8s[n].ingress.repeated => g.repeated
  <2>1. CASE l.req.auth = "keep"
    BY <1>1, <1>2, <1>4, <1>5, <2>1
  <2>2. CASE l.req.auth # "keep"
    BY <1>4, <1>6, <1>7, <2>2
  <2> QED BY <2>1, <2>2
<1>9. l.checked <= clock
      /\ (l.host # None => \A m \in Names : LET h == k8s[m].ingress
                             IN m # n /\ h # None /\ HostsOverlap(l.host, h.host) => h.version > l.checked)
  BY <1>1 DEF Looked, World
<1>10. /\ World' \in Worlds /\ Sound(World') /\ Bears(World, World', {}, given)
       /\ \A m \in Names : m # n => k8s'[m] = k8s[m]
       /\ k8s'[n].ingress = g
  <2>1. g \in Ingress \cup {None} /\ o = [k8s[n] EXCEPT !.ingress = g] /\ Writes(n, o)
    BY <1>3, <1>4 DEF g
  <2>2. g # None =>
          /\ g.version = clock + 1 /\ g.checked <= clock
          /\ rows[g.by].state # "unborn" /\ rows[g.by].name = n
          /\ g.auth # None => /\ auth[g.auth].state # "unborn" /\ auth[g.auth].name = n
                              /\ ~g.repeated /\ Calm(World, g.by) => Good(World, g.auth, n)
                              /\ \/ g.auth \in given
                                 \/ /\ k8s[n].ingress # None /\ k8s[n].ingress.auth = g.auth
                                    /\ k8s[n].ingress.repeated => g.repeated
          /\ \A m \in Names : LET h == k8s[m].ingress
                              IN m # n /\ h # None /\ HostsOverlap(g.host, h.host) => h.version > g.checked
    BY <1>3, <1>4, <1>8, <1>9
  <2> QED BY <1>1, <2>1, <2>2, IngressStep
<1>11. Owns(c, {}, given)
  BY <1>1 DEF Owns
<1>12. ASSUME Retires("save_row", l) PROVE ~Named(World', l.old)
  <2>1. l.old # None /\ l.old # l.keep
    BY <1>12 DEF Retires
  <2>2. ASSUME NEW m \in Names, k8s'[m].ingress # None, k8s'[m].ingress.auth = l.old PROVE FALSE
    <3>1. CASE m # n
      <4>1. k8s[m].ingress # None /\ k8s[m].ingress.auth = l.old
        BY <1>10, <2>2, <3>1
      <4>2. auth[l.old].name = m
        BY <2>1, <4>1, IngressParts
      <4> QED BY <1>5, <2>1, <3>1, <4>2
    <3>2. CASE m = n
      <4>1. g # None /\ g.auth = l.old
        BY <1>10, <2>2, <3>2
      <4>2. l.new = l.old
        BY <1>1, <1>3, <1>4, <2>1, <4>1
      <4>3. c \in Procs
        BY ClientProcs
      <4> QED BY <1>1, <2>1, <4>2, <4>3, InvParts DEF Apart
    <3> QED BY <3>1, <3>2
  <2> QED BY <2>2 DEF Named, World
<1>13. Held("save_row", l, World')
  BY <1>12 DEF Held, Holds, Withdraws
<1>14. ASSUME again, Withdraws("withdraw", l) PROVE ~Vouched(World', l.new)
  <2>1. l.new # None /\ ~Named(World, l.new) /\ l.host # None
    BY <1>1, <1>14 DEF Withdraws, Held, Holds
  <2>2. ASSUME NEW m \in Names, k8s'[m].ingress # None, k8s'[m].ingress.auth = l.new
        PROVE  k8s'[m].ingress.repeated
    <3>1. CASE m # n
      BY <1>10, <2>1, <2>2, <3>1 DEF Named, World
    <3>2. CASE m = n
      BY <1>4, <1>10, <1>14, <2>1, <3>2
    <3> QED BY <3>1, <3>2
  <2> QED BY <2>2 DEF Vouched, World
<1>15. again => Held("withdraw", l, World')
  BY <1>14 DEF Held, Holds, Retires
<1> QED BY <1>10, <1>11, <1>13, <1>15

LEMMA PutOnce ==
  ASSUME Inv, NEW c \in Clients, pc[c] = "write_ingress", IngressUnchanged(loc[c].name, loc[c].prev),
         Others, rows' = rows, auth' = auth,
         Writes(loc[c].name, [k8s[loc[c].name] EXCEPT !.ingress = Exposed(loc[c])])
  PROVE  /\ World' \in Worlds /\ Sound(World') /\ Bears(World, World', {}, {loc[c].new} \ {None})
         /\ Owns(c, {}, {loc[c].new} \ {None})
         /\ Held("save_row", loc[c], World')
<1>1. Again(loc[c], FALSE) = Exposed(loc[c])
  BY DEF Again
<1> QED BY <1>1, IngressReplaced

LEMMA WriteIngressKeeps ==
  ASSUME Inv, NEW c \in Clients, WriteIngress(c)
  PROVE  Inv'
<1>1. pc[c] = "write_ingress"
  BY DEF WriteIngress, At
<1>2. /\ c \in Procs /\ loc[c] \in Local /\ loc[c].req \in Access
      /\ pc[c] \in Exposing /\ pc[c] \in Underway /\ UpdateOf(loc[c], World)
      /\ Held("write_ingress", loc[c], World)
      /\ loc[c].old = (IF loc[c].prev = None THEN None ELSE loc[c].prev.auth)
      /\ (loc[c].new # None => Holds(pc[c], loc[c]))
  BY <1>1, WritingParts
<1> DEFINE n == loc[c].name
           o == [k8s[n] EXCEPT !.ingress = Exposed(loc[c])]
           rewritten == [k8s[n] EXCEPT !.ingress = Again(loc[c], TRUE)]
<1>3. Others /\ rows' = rows /\ faults' \in Nat /\ (UNCHANGED cluster => Still)
  <2>1. UNCHANGED <<inCluster, db, sent>>
    BY DEF WriteIngress
  <2>2. faults' \in {faults, faults + 1}
    BY DEF WriteIngress, Call
  <2> QED BY <2>1, <2>2, InvParts DEF Others, Still, db
<1>4. \/ loc[c].prev = None /\ loc[c].host = None /\ Moves(c, "save_row", loc[c]) /\ UNCHANGED cluster
      \/ Moves(c, "withdraw", loc[c]) /\ UNCHANGED cluster
      \/ Moves(c, "idle", NoLocal) /\ UNCHANGED cluster
      \/ /\ IngressUnchanged(n, loc[c].prev) /\ Writes(n, o) /\ auth' = auth
         /\ Moves(c, "save_row", loc[c]) \/ Moves(c, "idle", NoLocal)
      \/ /\ IngressUnchanged(n, loc[c].prev) /\ Exposed(loc[c]) # None
         /\ Writes(n, rewritten) /\ auth' = auth /\ Moves(c, "withdraw", loc[c])
  <2>1. CASE loc[c].prev = None /\ loc[c].host = None
    <3>1. Goto(c, "save_row", loc[c]) /\ UNCHANGED cluster
      BY <2>1 DEF WriteIngress
    <3> QED BY <2>1, <3>1, Goes
  <2>2. CASE loc[c].prev # None \/ loc[c].host # None
    BY <2>2, Goes, Ends DEF WriteIngress, Call, Again
  <2> QED BY <2>1, <2>2
<1>5. "save_row" \in Underway \ NotDrawn /\ "withdraw" \in Underway \ NotDrawn
  BY DEF Exposing, NotDrawn, AfterRead, Underway, Creating
<1>6. GoesOn(loc[c], loc[c]) /\ ~Holds("save_row", loc[c])
  BY DEF GoesOn, Holds
<1>7. \A w : Looked("save_row", loc[c], w) /\ Looked("withdraw", loc[c], w)
  BY DEF Looked
<1>8. CASE loc[c].prev = None /\ loc[c].host = None /\ Moves(c, "save_row", loc[c]) /\ UNCHANGED cluster
  <2>1. Held("save_row", loc[c], World)
    BY <1>2, <1>6, <1>8 DEF Held, Retires, Withdraws
  <2> QED BY <1>2, <1>3, <1>5, <1>6, <1>7, <1>8, <2>1, UpdateOnQuietly
<1>9. CASE Moves(c, "withdraw", loc[c]) /\ UNCHANGED cluster
  <2>1. Held("withdraw", loc[c], World)
    <3>1. /\ Withdraws("withdraw", loc[c]) => Holds("write_ingress", loc[c])
          /\ ~Retires("withdraw", loc[c]) /\ ~Holds("withdraw", loc[c])
      BY DEF Holds, Withdraws, Retires
    <3>2. Holds("write_ingress", loc[c]) => ~Vouched(World, loc[c].new)
      BY <1>2, VouchedNamed DEF Held
    <3> QED BY ONLY <3>1, <3>2 DEF Held
  <2>2. ~Holds("withdraw", loc[c])
    BY DEF Holds
  <2> QED BY <1>2, <1>3, <1>5, <1>6, <1>7, <1>9, <2>1, <2>2, UpdateOnQuietly
<1>10. CASE Moves(c, "idle", NoLocal) /\ UNCHANGED cluster
  BY <1>2, <1>3, <1>10, QuietEnds
<1>11. CASE /\ IngressUnchanged(n, loc[c].prev) /\ Writes(n, o) /\ auth' = auth
            /\ Moves(c, "save_row", loc[c]) \/ Moves(c, "idle", NoLocal)
  <2>1. /\ World' \in Worlds /\ Sound(World') /\ Bears(World, World', {}, {loc[c].new} \ {None})
        /\ Owns(c, {}, {loc[c].new} \ {None})
        /\ Held("save_row", loc[c], World')
    BY <1>1, <1>3, <1>11, PutOnce
  <2>2. loc[c].new # None => World'.auth[loc[c].new].state # "unborn"
    BY <1>2, <1>11 DEF UpdateOf, World
  <2>3. CASE Moves(c, "idle", NoLocal)
    BY <1>2, <1>3, <2>1, <2>3, EndKeeps
  <2>4. CASE Moves(c, "save_row", loc[c])
    BY <1>2, <1>3, <1>5, <1>6, <1>7, <2>1, <2>2, <2>4, UpdateOn
  <2> QED BY <1>11, <2>3, <2>4
<1>12. CASE /\ IngressUnchanged(n, loc[c].prev) /\ Exposed(loc[c]) # None
            /\ Writes(n, rewritten) /\ auth' = auth /\ Moves(c, "withdraw", loc[c])
  <2>1. loc[c].host # None
    BY <1>12 DEF Exposed
  <2>2. /\ World' \in Worlds /\ Sound(World') /\ Bears(World, World', {}, {loc[c].new} \ {None})
        /\ Owns(c, {}, {loc[c].new} \ {None})
        /\ Held("withdraw", loc[c], World')
    BY <1>1, <1>3, <1>12, <2>1, IngressReplaced
  <2>3. loc[c].new # None => World'.auth[loc[c].new].state # "unborn"
    BY <1>2, <1>12 DEF UpdateOf, World
  <2>4. ~Holds("withdraw", loc[c])
    BY DEF Holds
  <2> QED BY <1>2, <1>3, <1>5, <1>6, <1>7, <1>12, <2>2, <2>3, <2>4, UpdateOn
<1> QED BY <1>4, <1>8, <1>9, <1>10, <1>11, <1>12

(* What an update discards is its own. *)
LEMMA UpdateDiscards ==
  ASSUME Inv, NEW c \in Clients, NEW s \in Secrets, auth[s].state # "unborn",
         Owns(c, {s}, {}), ~Vouched(World, s), Moves(c, "idle", NoLocal), Others, rows' = rows,
         (auth' = Gone(s) /\ UNCHANGED <<k8s, clock>>) \/ UNCHANGED cluster
  PROVE  Inv'
<1>1. c \in Procs /\ World \in Worlds /\ Sound(World)
  BY ClientProcs, InvParts
<1>2. CASE UNCHANGED <<k8s, clock, auth>>
  <2>1. World' = World /\ Owns(c, {}, {})
    BY <1>2, OwnsNothing DEF World, Others
  <2> QED BY <1>1, <2>1, NothingMoves, EndKeeps
<1>3. CASE auth[s].state = "live" /\ auth' = Gone(s) /\ UNCHANGED <<k8s, clock>>
  <2>1. auth \in [Secrets -> Auth]
    BY DEF Inv, TypeOK
  <2>2. auth' = [auth EXCEPT ![s].state = "gone", ![s].middleware = FALSE]
    BY <1>3 DEF Gone
  <2>3. auth' \in [Secrets -> Auth]
    <3>1. \A a \in Auth : [a EXCEPT !.state = "gone", !.middleware = FALSE] \in Auth
      BY DEF Auth
    <3>2. auth' = [auth EXCEPT ![s] = [auth[s] EXCEPT !.state = "gone", !.middleware = FALSE]]
      BY <2>1, <2>2
    <3> QED BY <2>1, <3>1, <3>2
  <2>4. World' \in Worlds
    BY <1>3, <2>3, InvParts DEF Others, World, Worlds
  <2>5. Sound(World') /\ Bears(World, World', {s}, {})
    <3>1. /\ World'.rows = World.rows /\ World'.clock = World.clock /\ World'.k8s = World.k8s
          /\ World'.auth = [World.auth EXCEPT ![s].state = "gone", ![s].middleware = FALSE]
          /\ World.auth[s].state # "unborn"
      BY <1>3, <2>2 DEF World
    <3>2. {s} \in SUBSET Secrets /\ s \in {s} /\ \A t \in {s} : ~Vouched(World, t)
      OBVIOUS
    <3> QED BY <1>1, <2>4, <3>1, <3>2, Discarded
  <2> QED BY <1>1, <2>4, <2>5, EndKeeps
<1>4. CASE auth[s].state # "live" /\ auth' = Gone(s) /\ UNCHANGED <<k8s, clock>>
  BY <1>2, <1>4 DEF Gone
<1> QED BY <1>2, <1>3, <1>4 DEF cluster

LEMMA WithdrawKeeps ==
  ASSUME Inv, NEW c \in Clients, Withdraw(c)
  PROVE  Inv'
<1>1. pc[c] = "withdraw" /\ pc[c] \in Exposing
  BY DEF Withdraw, At, Exposing
<1>2. /\ c \in Procs /\ loc[c] \in Local /\ UpdateOf(loc[c], World) /\ Held("withdraw", loc[c], World)
  BY <1>1, UpdateParts
<1>3. Others /\ rows' = rows /\ (UNCHANGED cluster => Still)
  <2>1. UNCHANGED <<inCluster, db, sent>>
    BY DEF Withdraw
  <2>2. faults' \in {faults, faults + 1}
    BY DEF Withdraw, Call
  <2> QED BY <2>1, <2>2, InvParts DEF Others, Still, db
<1>4. CASE loc[c].new = None
  BY <1>2, <1>3, <1>4, Ends, QuietEnds DEF Withdraw
<1>5. CASE loc[c].new # None
  <2>1. PICK s \in Secrets : s = loc[c].new
    BY <1>2, <1>5 DEF Local
  <2>2. /\ Moves(c, "idle", NoLocal)
        /\ (auth' = Gone(s) /\ UNCHANGED <<k8s, clock>>) \/ UNCHANGED cluster
    BY <1>5, <2>1, Ends DEF Withdraw, Call
  <2>3. Withdraws("withdraw", loc[c])
    BY <1>5 DEF Withdraws
  <2>4. auth[s].state # "unborn" /\ ~Vouched(World, s) /\ Owns(c, {s}, {})
    BY <1>1, <1>2, <2>1, <2>3, <1>5 DEF Held, UpdateOf, World, Owns
  <2> QED BY <1>3, <2>2, <2>4, UpdateDiscards
<1> QED BY <1>4, <1>5

LEMMA SaveRowKeeps ==
  ASSUME Inv, NEW c \in Clients, SaveRow(c)
  PROVE  Inv'
<1>1. /\ pc[c] = "save_row" /\ pc[c] \in Exposing /\ pc[c] \in Underway
      /\ "cleanup" \in Underway \ NotDrawn
  BY DEF SaveRow, At, Exposing, NotDrawn, AfterRead, Underway, Creating
<1>2. /\ c \in Procs /\ loc[c] \in Local /\ Held("save_row", loc[c], World)
  BY <1>1, UpdateParts
<1>3. Still
  BY InvParts DEF SaveRow, Still
<1>4. Moves(c, "idle", NoLocal) \/ Moves(c, "cleanup", loc[c])
  BY Goes, Ends DEF SaveRow
<1>5. Held("cleanup", loc[c], World) /\ Looked("cleanup", loc[c], World)
  BY <1>2 DEF Held, Holds, Withdraws, Retires, Looked
<1>6. GoesOn(loc[c], loc[c]) /\ ~Holds("cleanup", loc[c])
  BY DEF GoesOn, Holds
<1> QED BY <1>1, <1>2, <1>3, <1>4, <1>5, <1>6, QuietEnds, UpdateOnQuietly

LEMMA CleanupKeeps ==
  ASSUME Inv, NEW c \in Clients, Cleanup(c)
  PROVE  Inv'
<1>1. pc[c] = "cleanup" /\ pc[c] \in Exposing
  BY DEF Cleanup, At, Exposing
<1>2. /\ c \in Procs /\ loc[c] \in Local /\ UpdateOf(loc[c], World) /\ Held("cleanup", loc[c], World)
  BY <1>1, UpdateParts
<1>3. Others /\ rows' = rows /\ (UNCHANGED cluster => Still)
  <2>1. UNCHANGED <<inCluster, db, sent>>
    BY DEF Cleanup
  <2>2. faults' \in {faults, faults + 1}
    BY DEF Cleanup, Call
  <2> QED BY <2>1, <2>2, InvParts DEF Others, Still, db
<1>4. CASE ~(loc[c].old # None /\ loc[c].old # loc[c].keep)
  BY <1>2, <1>3, <1>4, Ends, QuietEnds DEF Cleanup
<1>5. CASE loc[c].old # None /\ loc[c].old # loc[c].keep
  <2>1. PICK s \in Secrets : s = loc[c].old
    BY <1>2, <1>5 DEF Local
  <2>2. /\ Moves(c, "idle", NoLocal)
        /\ (auth' = Gone(s) /\ UNCHANGED <<k8s, clock>>) \/ UNCHANGED cluster
    BY <1>5, <2>1, Ends DEF Cleanup, Call
  <2>3. Retires("cleanup", loc[c])
    BY <1>5 DEF Retires
  <2>4. auth[s].state # "unborn" /\ ~Vouched(World, s) /\ Owns(c, {s}, {})
    BY <1>1, <1>2, <2>1, <2>3, <1>5, VouchedNamed DEF Held, UpdateOf, World, Owns
  <2> QED BY <1>3, <2>2, <2>4, UpdateDiscards
<1> QED BY <1>4, <1>5

LEMMA ExposeKeeps ==
  ASSUME Inv, NEW c \in Clients, Expose(c)
  PROVE  Inv'
BY UpdateAccessKeeps, ReadWorkloadKeeps, ReadIngressKeeps, ReadRetainedKeeps, CheckHostKeeps,
   WriteSecretKeeps, WriteMiddlewareKeeps, ValidateMiddlewareKeeps, WriteIngressKeeps, WithdrawKeeps,
   SaveRowKeeps, CleanupKeeps DEF Expose

-----------------------------------------------------------------------------
(* Settings, crashes, and the whole.                                        *)

LEMMA CreateKeeps ==
  ASSUME Inv, NEW c \in Clients, Create(c)
  PROVE  Inv'
BY CreateDeploymentKeeps, ValidateNewHostnameKeeps, UpsertDeployedInstanceKeeps DEF Create

LEMMA UpdateRegistryKeeps ==
  ASSUME Inv, NEW c \in Clients, UpdateRegistry(c)
  PROVE  Inv'
<1>1. /\ rows' = rows /\ k8s' = k8s /\ auth' = auth /\ clock' = clock /\ pc' = pc /\ loc' = loc
      /\ allowHttp' = allowHttp
  BY DEF UpdateRegistry, cluster
<1>2. Others
  BY InvParts DEF UpdateRegistry, Begin, Others
<1>3. World' = World
  BY <1>1 DEF World
<1> QED BY <1>1, <1>2, <1>3, InvParts, NothingMoves, StandKeeps

LEMMA CrashKeeps ==
  ASSUME Inv, NEW p \in Procs, Crash(p)
  PROVE  Inv'
<1>1. Moves(p, "idle", NoLocal)
  BY Ends DEF Crash
<1>2. Still
  BY InvParts DEF Crash, Still
<1> QED BY <1>1, <1>2, QuietEnds

(* Only http differs. *)
Https(k, l) ==
  /\ l.id = k.id /\ l.name = k.name /\ l.req = k.req /\ l.host = k.host /\ l.pull = k.pull /\ l.todo = k.todo
  /\ l.uid = k.uid /\ l.prev = k.prev /\ l.old = k.old /\ l.keep = k.keep /\ l.new = k.new
  /\ l.checked = k.checked /\ l.sweep = k.sweep /\ l.from = k.from /\ (k.http => l.http)

LEMMA PolicyPlaced ==
  ASSUME NEW p, NEW at \in Pc, NEW k \in Local, NEW l \in Local, Https(k, l), NEW w \in Worlds, NEW v \in Worlds,
         v.rows = w.rows, v.k8s = w.k8s, v.auth = w.auth, v.clock = w.clock,
         v.http /\ at \notin {"idle", "queued"} => l.http,
         Placed(p, at, k, w)
  PROVE  Placed(p, at, l, v)
<1>1. Begun(p, at, k, w) /\ Manifested(at, k) /\ ReadOnce(at, k, w) /\ Worked(at, k, w)
      /\ Permitted(at, k, w) /\ Looked(at, k, w) /\ Held(at, k, w) /\ Removed(at, k, w)
  BY DEF Placed
<1>2. Begun(p, at, l, v) /\ Manifested(at, l)
  BY <1>1 DEF Begun, Manifested, Https
<1>3. ReadOnce(at, l, v) /\ Worked(at, l, v)
  BY <1>1 DEF ReadOnce, Worked, Https, Calm
<1>4. Permitted(at, l, v)
  BY <1>1 DEF Permitted, Https
<1>5. Looked(at, l, v)
  BY <1>1 DEF Looked, Https
<1>6. Held(at, l, v)
  <2>1. /\ Holds(at, l) <=> Holds(at, k)
        /\ Retires(at, l) <=> Retires(at, k)
        /\ Withdraws(at, l) <=> Withdraws(at, k)
    BY DEF Holds, Withdraws, Retires, Https
  <2>2. /\ \A s : (Named(v, s) <=> Named(w, s)) /\ (Vouched(v, s) <=> Vouched(w, s))
        /\ \A s, n : Good(v, s, n) <=> Good(w, s, n)
        /\ (\A i : Calm(v, i) <=> Calm(w, i))
    BY DEF Named, Vouched, Good, Calm
  <2> QED BY <1>1, <2>1, <2>2 DEF Held, Https
<1>7. Removed(at, l, v)
  <2>1. (Alone(l, v) <=> Alone(k, w)) /\ l.name = k.name /\ l.from = k.from /\ l.todo = k.todo /\ l.sweep = k.sweep
    BY DEF Alone, Https
  <2>2. /\ \A n, kind : Absent(v, n, kind) <=> Absent(w, n, kind)
        /\ \A n : Secreted(v, n) = Secreted(w, n)
    BY DEF Absent, Secreted
  <2>3. \A n : Bare(v, n) <=> Bare(w, n)
    BY <2>2 DEF Bare
  <2> QED BY ONLY <1>1, <2>1, <2>2, <2>3, v.auth = w.auth, v.k8s = w.k8s, v.clock = w.clock DEF Removed
<1> QED BY <1>2, <1>3, <1>4, <1>5, <1>6, <1>7 DEF Placed

LEMMA UpdatePolicyKeeps ==
  ASSUME Inv, NEW c \in Clients, UpdatePolicy(c)
  PROVE  Inv'
<1>1. /\ rows' = rows /\ k8s' = k8s /\ auth' = auth /\ clock' = clock /\ pc' = pc /\ inCluster' = inCluster
      /\ registry' = registry /\ faults' = faults /\ sent' = sent + 1 /\ allowHttp' = ~allowHttp
  BY DEF UpdatePolicy, cluster, Begin
<1>2. World' \in Worlds /\ World'.rows = World.rows /\ World'.k8s = World.k8s /\ World'.auth = World.auth
      /\ World'.clock = World.clock /\ World'.http = allowHttp'
  BY <1>1, InvParts DEF World, Worlds
<1>3. ASSUME NEW p \in Procs
      PROVE  /\ loc'[p] \in Local /\ Https(loc[p], loc'[p])
             /\ World'.http /\ pc[p] \notin {"idle", "queued"} => loc'[p].http
  <2> DEFINE b == loc[p].http \/ (allowHttp' /\ pc[p] \notin {"idle", "queued"})
  <2>1. loc'[p] = [loc[p] EXCEPT !.http = b]
    BY DEF UpdatePolicy
  <2>2. b \in BOOLEAN /\ (loc[p].http => b) /\ (allowHttp' /\ pc[p] \notin {"idle", "queued"} => b)
    OBVIOUS
  <2>3. loc[p] \in Local
    BY InvParts
  <2> HIDE DEF b
  <2>4. loc'[p] \in Local /\ Https(loc[p], loc'[p]) /\ loc'[p].http = b
    <3>1. PICK l : l = loc'[p]
      OBVIOUS
    <3>2. PICK k \in Local : k = loc[p]
      BY <2>3
    <3>3. k \in Local /\ l = [k EXCEPT !.http = b] /\ b \in BOOLEAN /\ (k.http => b)
      BY <2>1, <2>2, <3>1, <3>2
    <3>4. l \in Local /\ Https(k, l) /\ l.http = b
      BY ONLY <3>3 DEF Local, Https
    <3> QED BY <3>1, <3>2, <3>4
  <2> QED BY <1>2, <2>2, <2>4
<1>4. loc' \in [Procs -> Local]
  BY <1>3 DEF UpdatePolicy
<1>5. TypeOK'
  <2>1. sent + 1 \in Nat /\ allowHttp' \in BOOLEAN
    BY <1>1, InvParts
  <2> QED BY <1>1, <1>4, <2>1 DEF Inv, TypeOK
<1>6. Sound(World')
  BY <1>2, InvParts DEF Sound
<1>7. ASSUME NEW p \in Procs PROVE Placed(p, pc'[p], loc'[p], World')
  <2>1. loc[p] \in Local /\ pc[p] \in Pc /\ Placed(p, pc[p], loc[p], World) /\ World \in Worlds
    BY InvParts
  <2> QED BY <1>1, <1>2, <1>3, <2>1, PolicyPlaced
<1>8. ASSUME NEW p \in Procs PROVE Apart(p)'
  <2>1. \A q \in Procs : loc'[q].old = loc[q].old /\ loc'[q].new = loc[q].new
    BY <1>3 DEF Https
  <2>2. loc'[p].todo = loc[p].todo
    BY <1>3 DEF Https
  <2>3. Apart(p)
    BY InvParts
  <2> QED BY <1>1, <2>1, <2>2, <2>3 DEF Apart, Holds
<1> QED BY <1>1, <1>5, <1>6, <1>7, <1>8 DEF Inv

LEMMA InitInv ==
  ASSUME Init
  PROVE  Inv
<1>1. PICK s \in Seeds : /\ inCluster = s.inCluster /\ rows = s.rows /\ k8s = s.k8s /\ auth = s.auth
                         /\ allowHttp = s.allowHttp /\ sent = s.sent /\ faults = s.faults
  BY DEF Init
<1>2. /\ registry = FALSE /\ clock = 1 /\ pc = [p \in Procs |-> "idle"] /\ loc = [p \in Procs |-> NoLocal]
  BY DEF Init
<1>3. /\ rows \in [Ids -> Row] /\ k8s \in [Names -> Objects] /\ auth \in [Secrets -> Auth]
      /\ {inCluster, allowHttp} \subseteq BOOLEAN /\ {sent, faults} \subseteq Nat
      /\ Related(rows, k8s, auth, 1) /\ Guarded(rows, k8s, auth) /\ Routed(k8s)
  BY <1>1, SeedsAssumption
<1>4. TypeOK
  <2>1. "idle" \in Pc /\ NoLocal \in Local
    BY EmptyLocal DEF Pc
  <2>2. pc \in [Procs -> Pc]
    BY ONLY <1>2, <2>1
  <2>3. loc \in [Procs -> Local]
    BY ONLY <1>2, <2>1
  <2>4. pc \in [Procs -> {"idle"} \cup Creating \cup Applying \cup Deleting \cup Exposing]
    BY <2>2 DEF Pc
  <2>5. inCluster \in BOOLEAN /\ allowHttp \in BOOLEAN /\ registry \in BOOLEAN /\ clock \in Nat /\ sent \in Nat /\ faults \in Nat
    BY <1>2, <1>3
  <2>6. Related(rows, k8s, auth, clock)
    BY <1>2, <1>3
  <2> QED BY ONLY <2>6, <1>3, <2>3, <2>4, <2>5 DEF TypeOK
<1>5. World \in Worlds /\ Sound(World)
  BY <1>2, <1>3 DEF World, Worlds, Sound
<1>6. ASSUME NEW p \in Procs PROVE Placed(p, pc[p], loc[p], World) /\ Apart(p)
  <2>1. pc[p] = "idle" /\ loc[p] = NoLocal
    BY <1>2
  <2> QED BY <1>5, <2>1, IdlePlaced DEF Apart, Holds
<1>7. \A i \in Ids : pc[i] = "idle"
  BY <1>2, TaskProcs
<1> QED BY <1>4, <1>5, <1>6, <1>7 DEF Inv

LEMMA StepInv ==
  ASSUME Inv, [Next]_vars
  PROVE  Inv'
<1>1. CASE UNCHANGED vars
  <2>1. World' = World /\ Others /\ pc' = pc /\ loc' = loc
    BY <1>1, InvParts DEF vars, World, Others
  <2> QED BY <2>1, InvParts, NothingMoves, StandKeeps
<1>2. ASSUME NEW c \in Clients, Create(c) \/ Delete(c) \/ Expose(c) \/ UpdatePolicy(c) \/ UpdateRegistry(c)
      PROVE  Inv'
  BY <1>2, CreateKeeps, DeleteKeeps, ExposeKeeps, UpdatePolicyKeeps, UpdateRegistryKeeps
<1>3. ASSUME NEW i \in Ids, Task(i) PROVE Inv'
  BY <1>3, TaskKeeps
<1>4. ASSUME NEW p \in Procs, Crash(p) PROVE Inv'
  BY <1>4, CrashKeeps
<1>5. ASSUME NEW s \in Secrets, GarbageCollect(s) PROVE Inv'
  BY <1>5, GarbageCollectKeeps
<1>6. ASSUME NEW n \in Names, NamespaceGone(n) PROVE Inv'
  BY <1>6, NamespaceGoneKeeps
<1> QED BY <1>1, <1>2, <1>3, <1>4, <1>5, <1>6 DEF Next

(* The inductive invariant holds of every behaviour of the handlers, the    *)
(* queued tasks and the cluster.                                            *)
THEOREM Invariant == Spec => []Inv
<1>1. Init => Inv
  BY InitInv
<1>2. Inv /\ [Next]_vars => Inv'
  BY StepInv
<1> QED BY <1>1, <1>2, PTL DEF Spec

(* Types; names of rows are unique, and what an Ingress says of its row and *)
(* its credentials fits.                                                    *)
THEOREM TypeCorrect == Spec => []TypeOK
<1>1. Inv => TypeOK
  BY DEF Inv
<1> QED BY <1>1, Invariant, PTL

(* Only definitive rejections delete new credentials, and only those that   *)
(* an Ingress has ceased to name are cleaned up: what an Ingress names is   *)
(* there and asked for, whatever access updates, the queued task, lost      *)
(* answers and crashes come together (access.py, update_access()), unless   *)
(* the PUT that put it there was repeated.                                  *)
THEOREM CredentialsStay == Spec => []CredentialsBehindIngress
<1>1. Inv => CredentialsBehindIngress
  <2> SUFFICES ASSUME Inv, NEW n \in Names, k8s[n].ingress # None, k8s[n].ingress.auth # None,
                      ~k8s[n].ingress.repeated, rows[k8s[n].ingress.by].state = "live", rows[k8s[n].ingress.by].calm
               PROVE  /\ auth[k8s[n].ingress.auth].state = "live" /\ auth[k8s[n].ingress.auth].name = n
                      /\ auth[k8s[n].ingress.auth].middleware
    BY DEF CredentialsBehindIngress
  <2>1. Good(World, k8s[n].ingress.auth, n)
    BY IngressParts DEF Calm, World
  <2> QED BY <2>1 DEF Good, World
<1> QED BY <1>1, Invariant, PTL

-----------------------------------------------------------------------------
(* Routes.                                                                  *)

NoNewIngress == \A n \in Names : k8s'[n].ingress \in {None, k8s[n].ingress}

LEMMA WritesOther ==
  ASSUME Inv, NEW n \in Names, NEW objects, objects.ingress = k8s[n].ingress, objects \in Objects,
         Writes(n, objects)
  PROVE  NoNewIngress
<1>1. k8s \in [Names -> Objects] /\ clock \in Nat
  BY DEF Inv, TypeOK
<1>2. [objects EXCEPT !.touched = clock + 1].ingress = objects.ingress
  BY <1>1, Touched
<1> QED BY <1>1, <1>2 DEF Writes, NewVersion, NoNewIngress

LEMMA WritesSame ==
  ASSUME Inv, NEW n \in Names, Writes(n, k8s[n])
  PROVE  NoNewIngress
<1>1. k8s[n] \in Objects
  BY DEF Inv, TypeOK
<1> QED BY <1>1, WritesOther

LEMMA SameIngresses ==
  ASSUME k8s' = k8s
  PROVE  NoNewIngress
BY DEF NoNewIngress

(* A task writes the Ingress of its request. *)
LEMMA TaskRoutes ==
  ASSUME Inv, NEW i \in Ids, Task(i)
  PROVE  \/ NoNewIngress
         \/ /\ pc[i] = "apply" /\ loc[i].todo # <<>> /\ loc[i].todo[1] = "ingress"
            /\ Writes(loc[i].name, [k8s[loc[i].name] EXCEPT
                                      !.ingress = ApplyIngress(k8s[loc[i].name].ingress, loc[i])])
<1>1. CASE ApplyBegin(i) \/ ApplyCheck(i) \/ UpdateInstanceAfterApply(i) \/ RecordDeploymentFailure(i)
  <2>1. k8s' = k8s
    BY <1>1 DEF ApplyBegin, ApplyCheck, UpdateInstanceAfterApply, RecordDeploymentFailure, Patch, Call, cluster
  <2> QED BY <2>1, SameIngresses
<1>2. CASE EnsureNamespace(i)
  <2>1. loc[i].name \in Names
    <3>1. pc[i] \in Applying
      BY <1>2 DEF EnsureNamespace, At, Applying
    <3> QED BY <3>1, TaskParts
  <2> DEFINE o == [k8s[loc[i].name] EXCEPT !.ns = "active"]
  <2>2. k8s' = k8s \/ Writes(loc[i].name, o)
    BY <1>2 DEF EnsureNamespace, Call, cluster
  <2>3. k8s[loc[i].name] \in Objects
    BY <2>1 DEF Inv, TypeOK
  <2>4. o \in Objects /\ o.ingress = k8s[loc[i].name].ingress
    BY ONLY <2>3 DEF Objects
  <2> HIDE DEF o
  <2> QED BY <2>1, <2>2, <2>4, SameIngresses, WritesOther
<1>3. CASE ApplyNext(i)
  <2>1. pc[i] = "apply" /\ loc[i].todo # <<>>
    BY <1>3 DEF ApplyNext, At
  <2> DEFINE n == loc[i].name
             kind == loc[i].todo[1]
             d == IF k8s[n].dep = None THEN clock + 1 ELSE k8s[n].dep
             o == [k8s[n] EXCEPT ![kind] = TRUE]
             q == [k8s[n] EXCEPT !.dep = d]
  <2>2. n \in Names /\ Head(loc[i].todo) = kind /\ kind \in Kinds
    BY <2>1, ApplyParts
  <2>3. k8s[n] \in Objects /\ clock + 1 \in Nat
    BY <2>2 DEF Inv, TypeOK
  <2>4. \/ k8s' = k8s
        \/ kind \in {"pull", "s3", "service"} /\ Writes(n, o)
        \/ kind = "deployment" /\ Writes(n, q)
        \/ kind \in {"auth", "middleware"} /\ Writes(n, k8s[n])
        \/ kind = "ingress" /\ Writes(n, [k8s[n] EXCEPT !.ingress = ApplyIngress(k8s[n].ingress, loc[i])])
    BY <1>3, <2>2 DEF ApplyNext, CreateSecret, CreateAuthMiddleware, Call, cluster, Kinds, NewVersion
  <2>5. CASE k8s' = k8s
    BY <2>5, SameIngresses
  <2>6. CASE kind \in {"pull", "s3", "service"} /\ Writes(n, o)
    <3>1. o \in Objects /\ o.ingress = k8s[n].ingress
      <4>1. kind \in {"pull", "s3", "service"}
        BY <2>6
      <4> HIDE DEF kind
      <4>2. CASE kind = "pull"
        BY ONLY <2>3, <4>2 DEF Objects
      <4>3. CASE kind = "s3"
        BY ONLY <2>3, <4>3 DEF Objects
      <4>4. CASE kind = "service"
        BY ONLY <2>3, <4>4 DEF Objects
      <4> QED BY <4>1, <4>2, <4>3, <4>4
    <3> HIDE DEF o
    <3> QED BY <2>2, <2>6, <3>1, WritesOther
  <2>7. CASE kind = "deployment" /\ Writes(n, q)
    <3>1. d \in Nat \cup {None}
      BY <2>3 DEF Objects
    <3> HIDE DEF d
    <3>2. q \in Objects /\ q.ingress = k8s[n].ingress
      BY ONLY <2>3, <3>1 DEF Objects
    <3> HIDE DEF q
    <3> QED BY <2>2, <2>7, <3>2, WritesOther
  <2>8. CASE kind \in {"auth", "middleware"} /\ Writes(n, k8s[n])
    BY <2>2, <2>8, WritesSame
  <2> QED BY <2>1, <2>4, <2>5, <2>6, <2>7, <2>8
<1> QED BY <1>1, <1>2, <1>3 DEF Task

(* An access update writes the Ingress of its request. *)
WritesExposed(c) ==
  \E again \in BOOLEAN :
    /\ again => Exposed(loc[c]) # None
    /\ Writes(loc[c].name, [k8s[loc[c].name] EXCEPT !.ingress = Again(loc[c], again)])

LEMMA ExposeRoutes ==
  ASSUME Inv, NEW c \in Clients, Expose(c)
  PROVE  \/ NoNewIngress
         \/ /\ pc[c] = "write_ingress" /\ IngressUnchanged(loc[c].name, loc[c].prev)
            /\ WritesExposed(c)
<1>1. CASE UpdateAccess(c) \/ ReadWorkload(c) \/ ReadIngress(c) \/ ReadRetained(c) \/ CheckHost(c)
           \/ ValidateMiddleware(c) \/ SaveRow(c)
  <2>1. k8s' = k8s
    BY <1>1 DEF UpdateAccess, ReadWorkload, ReadIngress, ReadRetained, CheckHost, ValidateMiddleware, SaveRow, cluster
  <2> QED BY <2>1, SameIngresses
<1>2. CASE Withdraw(c) \/ Cleanup(c)
  <2>1. k8s' = k8s
    BY <1>2 DEF Withdraw, Cleanup, Call, cluster
  <2> QED BY <2>1, SameIngresses
<1>3. CASE WriteSecret(c) \/ WriteMiddleware(c)
  <2>1. pc[c] \in Exposing
    BY <1>3 DEF WriteSecret, WriteMiddleware, At, Exposing
  <2>2. loc[c].name \in Names
    BY <2>1, UpdateParts
  <2>3. k8s' = k8s \/ Writes(loc[c].name, k8s[loc[c].name])
    BY <1>3 DEF WriteSecret, WriteMiddleware, CreateSecret, CreateAuthMiddleware, Call, cluster
  <2> QED BY <2>2, <2>3, SameIngresses, WritesSame
<1>4. CASE WriteIngress(c)
  <2>1. \/ k8s' = k8s
        \/ /\ pc[c] = "write_ingress" /\ IngressUnchanged(loc[c].name, loc[c].prev)
           /\ WritesExposed(c)
    BY <1>4 DEF WriteIngress, WritesExposed, Again, At, Call, cluster
  <2> QED BY <2>1, SameIngresses
<1> QED BY <1>1, <1>2, <1>3, <1>4 DEF Expose

LEMMA DeleteRoutes ==
  ASSUME Inv, NEW c \in Clients, Delete(c)
  PROVE  NoNewIngress
<1>1. CASE DeleteDeployment(c) \/ DeleteList(c) \/ DeleteSweep(c) \/ DeleteInstanceRecord(c)
  <2>1. k8s' = k8s
    BY <1>1 DEF DeleteDeployment, DeleteList, DeleteSweep, DeleteInstanceRecord, Call, cluster
  <2> QED BY <2>1, SameIngresses
<1>2. CASE DeleteNext(c)
  <2>1. pc[c] = "delete" /\ pc[c] \in Deleting /\ loc[c].todo # <<>>
    BY <1>2 DEF DeleteNext, At, Deleting
  <2>2. loc[c].name \in Names /\ k8s[loc[c].name] \in Objects /\ k8s \in [Names -> Objects]
    BY <2>1, DeletionParts DEF Inv, TypeOK
  <2>3. k8s' = k8s \/ k8s' = [k8s EXCEPT ![loc[c].name] = Without(k8s[loc[c].name], Head(loc[c].todo))]
    BY <1>2 DEF DeleteNext, Call, cluster
  <2>4. Head(loc[c].todo) \in DelKinds
    <3>1. loc[c] \in Local /\ Removed("delete", loc[c], World)
      BY <2>1, DeletionParts
    <3>2. loc[c].todo \in Seq(Kinds)
      BY <3>1 DEF Local
    <3>3. 1 \in 1..Len(loc[c].todo) /\ Head(loc[c].todo) = loc[c].todo[1]
      BY <2>1, <3>2, TailParts
    <3> QED BY <3>1, <3>3 DEF Removed
  <2>5. Without(k8s[loc[c].name], Head(loc[c].todo)).ingress \in {None, k8s[loc[c].name].ingress}
    BY <2>2, <2>4, WithoutIsLess DEF Less
  <2> QED BY <2>2, <2>3, <2>5, SameIngresses DEF NoNewIngress
<1>3. CASE DeleteNamespace(c)
  <2>1. pc[c] \in Deleting
    BY <1>3 DEF DeleteNamespace, At, Deleting
  <2>2. loc[c].name \in Names /\ k8s \in [Names -> Objects]
    BY <2>1, DeletionParts DEF Inv, TypeOK
  <2>3. \/ k8s' = k8s
        \/ k8s' = [k8s EXCEPT ![loc[c].name].ns = IF @ = "active" THEN "terminating" ELSE @]
    BY <1>3 DEF DeleteNamespace, Call, cluster
  <2>4. \A o \in Objects : \A x \in {"absent", "active", "terminating"} : [o EXCEPT !.ns = x].ingress = o.ingress
    BY DEF Objects
  <2> DEFINE x == IF k8s[loc[c].name].ns = "active" THEN "terminating" ELSE k8s[loc[c].name].ns
             o == [k8s[loc[c].name] EXCEPT !.ns = x]
  <2>5. k8s' = k8s \/ k8s' = [k8s EXCEPT ![loc[c].name] = o]
    BY <2>2, <2>3
  <2>6. k8s[loc[c].name] \in Objects /\ x \in {"absent", "active", "terminating"}
    BY <2>2 DEF Objects
  <2> HIDE DEF x
  <2>7. o.ingress = k8s[loc[c].name].ingress
    BY <2>4, <2>6
  <2> HIDE DEF o
  <2> QED BY <2>2, <2>5, <2>7, SameIngresses DEF NoNewIngress
<1> QED BY <1>1, <1>2, <1>3 DEF Delete

LEMMA NewRoutes ==
  ASSUME Inv, Next
  PROVE  \/ NoNewIngress
         \/ \E i \in Ids :
              /\ pc[i] = "apply" /\ loc[i].todo # <<>> /\ loc[i].todo[1] = "ingress"
              /\ Writes(loc[i].name, [k8s[loc[i].name] EXCEPT
                                        !.ingress = ApplyIngress(k8s[loc[i].name].ingress, loc[i])])
         \/ \E c \in Clients :
              /\ pc[c] = "write_ingress" /\ IngressUnchanged(loc[c].name, loc[c].prev)
              /\ WritesExposed(c)
<1>1. ASSUME NEW c \in Clients, Create(c) \/ UpdatePolicy(c) \/ UpdateRegistry(c) PROVE k8s' = k8s
  BY <1>1 DEF Create, CreateDeployment, ValidateNewHostname, UpsertDeployedInstance, UpdatePolicy, UpdateRegistry, cluster
<1>2. ASSUME NEW p \in Procs, Crash(p) PROVE k8s' = k8s
  BY <1>2 DEF Crash, cluster
<1>3. ASSUME NEW s \in Secrets, GarbageCollect(s) PROVE k8s' = k8s
  BY <1>3 DEF GarbageCollect
<1>4. ASSUME NEW n \in Names, NamespaceGone(n) PROVE NoNewIngress
  <2>1. k8s \in [Names -> Objects] /\ k8s' = [k8s EXCEPT ![n] = [NoObjects EXCEPT !.touched = k8s[n].touched]]
    BY <1>4 DEF NamespaceGone, Inv, TypeOK
  <2>2. [NoObjects EXCEPT !.touched = k8s[n].touched].ingress = None
    BY DEF NoObjects
  <2> QED BY <2>1, <2>2 DEF NoNewIngress
<1> QED BY <1>1, <1>2, <1>3, <1>4, SameIngresses, TaskRoutes, ExposeRoutes, DeleteRoutes DEF Next

LEMMA OneIngress ==
  ASSUME Inv, NEW n \in Names, NEW g, Writes(n, [k8s[n] EXCEPT !.ingress = g])
  PROVE  k8s'[n].ingress = g /\ \A m \in Names : m # n => k8s'[m] = k8s[m]
<1>1. k8s \in [Names -> Objects]
  BY DEF Inv, TypeOK
<1>2. k8s' = [k8s EXCEPT ![n] = [[k8s[n] EXCEPT !.ingress = g] EXCEPT !.touched = clock + 1]]
  BY DEF Writes, NewVersion
<1>3. k8s[n] \in Objects
  BY <1>1
<1>4. [[k8s[n] EXCEPT !.ingress = g] EXCEPT !.touched = clock + 1].ingress = g
  BY ONLY <1>3 DEF Objects
<1> QED BY <1>1, <1>2, <1>4

(* Whoever writes an HTTP route that was not there has seen HTTP allowed.   *)
LEMMA HttpSeen ==
  ASSUME Inv, Next, NEW n \in Names, k8s'[n].ingress # None, k8s'[n].ingress.scheme = "http",
         ~Http(k8s[n].ingress, k8s'[n].ingress.host)
  PROVE  \E p \in Procs : loc[p].name = n /\ pc[p] \in {"apply", "write_ingress"} /\ loc[p].http
<1>1. k8s'[n].ingress # k8s[n].ingress
  BY DEF Http
<1>2. ~NoNewIngress
  BY <1>1 DEF NoNewIngress
<1>3. ASSUME NEW i \in Ids, pc[i] = "apply", loc[i].todo # <<>>, loc[i].todo[1] = "ingress",
             Writes(loc[i].name, [k8s[loc[i].name] EXCEPT
                                    !.ingress = ApplyIngress(k8s[loc[i].name].ingress, loc[i])])
      PROVE  i \in Procs /\ loc[i].name = n /\ loc[i].http
  <2>1. /\ i \in Procs /\ loc[i] \in Local /\ loc[i].name \in Names /\ TaskOf(i, loc[i], World)
        /\ loc[i].host # None
    BY <1>3, ApplyParts
  <2>2. Permitted("apply", loc[i], World)
    <3>1. pc[i] \in Applying
      BY <1>3 DEF Applying
    <3> QED BY <1>3, <3>1, TaskParts
  <2>3. loc[i].name = n /\ k8s'[n].ingress = ApplyIngress(k8s[n].ingress, loc[i])
    BY <1>1, <1>3, <2>1, OneIngress
  <2>4. loc[i].req.scheme = "http"
    BY <2>3 DEF ApplyIngress
  <2>5. loc[i].prev = None
    BY <2>1 DEF TaskOf
  <2> QED BY <2>1, <2>2, <2>3, <2>4, <2>5 DEF Permitted
<1>4. ASSUME NEW c \in Clients, pc[c] = "write_ingress", IngressUnchanged(loc[c].name, loc[c].prev),
             NEW again \in BOOLEAN, again => Exposed(loc[c]) # None,
             Writes(loc[c].name, [k8s[loc[c].name] EXCEPT !.ingress = Again(loc[c], again)])
      PROVE  c \in Procs /\ loc[c].name = n /\ loc[c].http
  <2>1. /\ c \in Procs /\ loc[c] \in Local /\ loc[c].name \in Names /\ loc[c].req \in Access /\ loc[c].id \in Ids
        /\ pc[c] \in Exposing /\ ReadOnce("write_ingress", loc[c], World)
        /\ (loc[c].req.auth = "keep" => loc[c].prev # None)
    BY <1>4, WritingParts
  <2>2. Permitted("write_ingress", loc[c], World)
    BY <1>4, <2>1, UpdateParts
  <2>3. loc[c].name = n /\ k8s'[n].ingress = Again(loc[c], again)
    BY <1>1, <1>4, <2>1, OneIngress
  <2>4. loc[c].host # None
    BY <1>4, <2>3 DEF Exposed, Again
  <2>5. k8s'[n].ingress.host = loc[c].host /\ loc[c].req.scheme = "http"
    BY <2>1, <2>3, <2>4, AgainParts, InvParts
  <2>6. "write_ingress" \in AfterRead
    BY DEF AfterRead, Exposing
  <2>7. loc[c].prev # None => k8s[n].ingress = loc[c].prev
    BY <1>4, <2>1, <2>3, <2>6 DEF IngressUnchanged, ReadOnce, World
  <2>8. ~(loc[c].prev # None /\ Http(loc[c].prev, loc[c].host))
    BY <2>5, <2>7
  <2> QED BY <2>1, <2>2, <2>3, <2>4, <2>5, <2>6, <2>8 DEF Permitted
<1> QED BY <1>2, <1>3, <1>4, NewRoutes DEF WritesExposed

(* Creation and access updates check host name and policy before they       *)
(* write: routes overlap only where each writer looked before the other had *)
(* written, and a new HTTP route is written by a handler during which HTTP  *)
(* was allowed (access.py, policy.py).                                      *)
THEOREM RoutesPermitted == Spec => RoutesArePermitted
<1>1. Inv => OverlapsOnlyRace
  BY DEF Inv, Sound, OverlapsOnlyRace, World
<1>2. Inv /\ [Next]_vars =>
        [\A n \in Names :
           LET g == k8s'[n].ingress
           IN g # None /\ g.scheme = "http" /\ ~Http(k8s[n].ingress, g.host) =>
                \E p \in Procs : loc[p].name = n /\ pc[p] \in {"apply", "write_ingress"} /\ loc[p].http]_vars
  BY HttpSeen
<1> QED BY <1>1, <1>2, Invariant, PTL DEF Spec, RoutesArePermitted, HttpIsPermitted

-----------------------------------------------------------------------------
(* Deletion.                                                                *)

NoneGone == \A i \in Ids : rows[i].state = "live" => rows'[i].state = "live"

LEMMA DisturbedLive ==
  ASSUME Inv, NEW n, Disturb(n)
  PROVE  NoneGone
<1>1. \A r \in Row : [r EXCEPT !.calm = FALSE].state = r.state
  BY DEF Row
<1>2. rows \in [Ids -> Row]
  BY DEF Inv, TypeOK
<1> QED BY <1>1, <1>2 DEF Disturb, NoneGone

(* A row goes in the last step of a deletion only. *)
LEMMA OnlyDeletionsDelete ==
  ASSUME Inv, Next
  PROVE  NoneGone \/ \E c \in Clients : DeleteInstanceRecord(c)
<1>1. rows \in [Ids -> Row]
  BY DEF Inv, TypeOK
<1>2. ASSUME rows' = rows PROVE NoneGone
  BY <1>2 DEF NoneGone
<1>3. ASSUME NEW c \in Clients, Create(c) PROVE NoneGone
  <2>1. CASE CreateDeployment(c) \/ ValidateNewHostname(c)
    BY <1>2, <2>1 DEF CreateDeployment, ValidateNewHostname, db
  <2>2. CASE UpsertDeployedInstance(c)
    <3>1. \/ rows' = rows
          \/ \E i \in Ids : /\ rows[i].state = "unborn"
                            /\ rows' = [rows EXCEPT ![i] = [state |-> "live", name |-> loc[c].name,
                                                            status |-> "deploying", calm |-> TRUE]]
      BY <2>2 DEF UpsertDeployedInstance
    <3> QED BY <1>1, <3>1 DEF NoneGone
  <2> QED BY <1>3, <2>1, <2>2 DEF Create
<1>4. ASSUME NEW c \in Clients, Delete(c), ~DeleteInstanceRecord(c) PROVE NoneGone
  <2>1. (\E n : Disturb(n)) \/ rows' = rows
    BY <1>4 DEF Delete, DeleteDeployment, DeleteNext, DeleteList, DeleteSweep, DeleteNamespace, db
  <2> QED BY <1>2, <2>1, DisturbedLive
<1>5. ASSUME NEW c \in Clients, Expose(c) PROVE NoneGone
  <2>1. rows' = rows
    BY <1>5 DEF Expose, UpdateAccess, ReadWorkload, ReadIngress, ReadRetained, CheckHost, WriteSecret,
                WriteMiddleware, ValidateMiddleware, WriteIngress, Withdraw, SaveRow, Cleanup, db
  <2> QED BY <1>2, <2>1
<1>6. ASSUME NEW c \in Clients, UpdatePolicy(c) \/ UpdateRegistry(c) PROVE NoneGone
  BY <1>2, <1>6 DEF UpdatePolicy, UpdateRegistry
<1>7. ASSUME NEW i \in Ids, Task(i) PROVE NoneGone
  <2>1. rows' = rows \/ Patch(i, "applied") \/ Patch(i, "failed")
    BY <1>7 DEF Task, ApplyBegin, EnsureNamespace, ApplyCheck, ApplyNext, UpdateInstanceAfterApply,
                RecordDeploymentFailure, db
  <2> QED BY <1>2, <2>1, PatchRows DEF NoneGone
<1>8. ASSUME NEW p \in Procs, Crash(p) PROVE NoneGone
  BY <1>2, <1>8 DEF Crash, db
<1>9. ASSUME NEW s \in Secrets, GarbageCollect(s) PROVE NoneGone
  BY <1>2, <1>9 DEF GarbageCollect, db
<1>10. ASSUME NEW n \in Names, NamespaceGone(n) PROVE NoneGone
  BY <1>10, DisturbedLive DEF NamespaceGone
<1> QED BY <1>3, <1>4, <1>5, <1>6, <1>7, <1>8, <1>9, <1>10 DEF Next

LEMMA BareIsNothing ==
  ASSUME Inv, NEW n \in Names, k8s[n].ns # "active" \/ (Bare(World, n) /\ Secreted(World, n) = {})
  PROVE  Nothing(n)
<1> SUFFICES ASSUME k8s[n].ns = "active", Bare(World, n), Secreted(World, n) = {} PROVE Nothing(n)
  BY DEF Nothing
<1>1. \A s \in Secrets : auth[s].state = "live" => auth[s].name # n
  BY DEF Secreted, World
<1>2. k8s[n] \in Objects
  BY DEF Inv, TypeOK
<1>3. k8s[n].dep = None /\ k8s[n].ingress = None /\ ~k8s[n].service /\ ~k8s[n].s3 /\ ~k8s[n].pull
  BY DEF Bare, Absent, DelKinds, World
<1>4. k8s[n].service = FALSE /\ k8s[n].s3 = FALSE /\ k8s[n].pull = FALSE
  BY <1>2, <1>3 DEF Objects
<1>5. k8s[n] = [ns |-> "active", dep |-> None, service |-> FALSE, s3 |-> FALSE, pull |-> FALSE,
                ingress |-> None, touched |-> k8s[n].touched]
  <2>1. PICK o : o = k8s[n]
    OBVIOUS
  <2>2. o \in Objects /\ o.ns = "active" /\ o.dep = None /\ o.ingress = None /\ o.service = FALSE
        /\ o.s3 = FALSE /\ o.pull = FALSE
    BY <1>2, <1>3, <1>4, <2>1
  <2>3. o = [ns |-> "active", dep |-> None, service |-> FALSE, s3 |-> FALSE, pull |-> FALSE,
             ingress |-> None, touched |-> o.touched]
    BY ONLY <2>2 DEF Objects
  <2> QED BY <2>1, <2>3
<1>6. [NoObjects EXCEPT !.ns = "active", !.touched = k8s[n].touched] =
        [ns |-> "active", dep |-> None, service |-> FALSE, s3 |-> FALSE, pull |-> FALSE,
         ingress |-> None, touched |-> k8s[n].touched]
  <2>1. PICK t \in Nat : t = k8s[n].touched
    BY <1>2 DEF Objects
  <2>3. [NoObjects EXCEPT !.ns = "active", !.touched = t] =
          [ns |-> "active", dep |-> None, service |-> FALSE, s3 |-> FALSE, pull |-> FALSE,
           ingress |-> None, touched |-> t]
    <3>1. PICK o : o = [NoObjects EXCEPT !.ns = "active"]
      OBVIOUS
    <3>2. o = [ns |-> "active", dep |-> None, service |-> FALSE, s3 |-> FALSE, pull |-> FALSE,
               ingress |-> None, touched |-> 0]
      BY ONLY <3>1 DEF NoObjects
    <3>3. PICK q : q = [o EXCEPT !.touched = t]
      OBVIOUS
    <3>4. o \in Objects
      BY ONLY <3>2 DEF Objects
    <3>5. /\ q \in Objects /\ q.touched = t /\ q.ns = o.ns /\ q.dep = o.dep /\ q.service = o.service
          /\ q.s3 = o.s3 /\ q.pull = o.pull /\ q.ingress = o.ingress
      BY ONLY <3>3, <3>4, t \in Nat DEF Objects
    <3>6. q = [ns |-> "active", dep |-> None, service |-> FALSE, s3 |-> FALSE, pull |-> FALSE,
               ingress |-> None, touched |-> t]
      BY ONLY <3>2, <3>5 DEF Objects
    <3> QED BY <3>1, <3>3, <3>6
  <2> QED BY <2>1, <2>3
<1> QED BY <1>1, <1>5, <1>6 DEF Nothing

LEMMA DeletedIsNothing ==
  ASSUME Inv, Next, NEW i \in Ids, rows[i].state = "live", rows'[i].state = "gone"
  PROVE  \E c \in Clients : /\ pc[c] = "delete_record" /\ loc[c].id = i
                            /\ k8s[rows[i].name].touched = loc[c].from => Nothing(rows[i].name)
<1>1. PICK c \in Clients : DeleteInstanceRecord(c)
  BY OnlyDeletionsDelete DEF NoneGone
<1>2. pc[c] = "delete_record" /\ pc[c] \in Deleting
  BY <1>1 DEF DeleteInstanceRecord, At, Deleting
<1>3. /\ loc[c].name \in Names /\ rows[loc[c].id].name = loc[c].name /\ loc[c].id \in Ids
      /\ Removed("delete_record", loc[c], World)
  BY <1>2, DeletionParts DEF DeletionOf, World
<1>4. loc[c].id = i
  <2>1. rows \in [Ids -> Row]
    BY DEF Inv, TypeOK
  <2>2. rows' = rows \/ rows' = [rows EXCEPT ![loc[c].id].state = "gone"]
    BY <1>1 DEF DeleteInstanceRecord
  <2> QED BY <1>3, <2>1, <2>2
<1>5. ASSUME k8s[rows[i].name].touched = loc[c].from PROVE Nothing(rows[i].name)
  <2>1. rows[i].name = loc[c].name
    BY <1>3, <1>4
  <2>2. k8s[loc[c].name].ns # "active" \/ (Bare(World, loc[c].name) /\ Secreted(World, loc[c].name) = {})
    BY <1>3, <1>5, <2>1 DEF Removed, Alone, World
  <2> QED BY <1>3, <2>1, <2>2, BareIsNothing
<1> QED BY <1>2, <1>4, <1>5

(* The row goes last: when it goes and nobody has written under the name    *)
(* since the deletion began, no object and no Secret is left, those of      *)
(* failed tasks, updates and deletions included (deployment.py, access.py). *)
THEOREM DeletionComplete == Spec => DeletionIsComplete
<1>1. Inv /\ [Next]_vars =>
        [\A i \in Ids : rows[i].state = "live" /\ rows'[i].state = "gone" =>
           \E c \in Clients : /\ pc[c] = "delete_record" /\ loc[c].id = i
                              /\ k8s[rows[i].name].touched = loc[c].from => Nothing(rows[i].name)]_vars
  BY DeletedIsNothing
<1> QED BY <1>1, Invariant, PTL DEF Spec, DeletionIsComplete

=============================================================================
