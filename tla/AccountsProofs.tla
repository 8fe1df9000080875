--------------------------- MODULE AccountsProofs ---------------------------
(***************************************************************************)
(* Proofs about Accounts: the types and the rules of the tables, what a    *)
(* completed link promises, and that no old row brings back OIDC or a role.*)
(*                                                                         *)
(* Every request stands at a place of its handler with local variables     *)
(* that fit it (Placed).  A request that completes a link still owes       *)
(* something until it answers (Finishing); what the others do to the       *)
(* tables meanwhile (Grows) takes nothing of that away.                    *)
(***************************************************************************)
EXTENDS Accounts, TLAPS

(* What a handler has at hand at each place. *)
Placed(at, l, pre) ==
  /\ at = "insert" => l.next \in {"idle", "login", "issue"} /\ l.new.state = "live"
  /\ at = "insert" /\ l.next = "login" => l.email \in Emails
  /\ at \in {"login", "count"} => l.email \in Emails
  /\ at \in {"save", "complete"} => l.id \in Ids
  /\ at \in {"save", "complete", "pre_account"} => l.new.state = "live"
  /\ at = "complete" => l.new.role = l.base.role /\ l.new.version = l.base.version + 1
  /\ at = "revoke" => l.next \in {"idle", "create", "retired"}
  /\ at \in {"complete", "consume", "deliver"} => l.link \in Links
  /\ at \in {"oidc_load", "oidc_save"} => (l.will.enabled => l.found)
  /\ at \in {"pre_account", "pre_load", "pre_settings"} => pre # None

(* The account of a completed link is saved, and the answer is still to    *)
(* come.                                                                   *)
Tail(at, l) == at \in {"consume", "retire", "retired"} \/ (at = "revoke" /\ l.next = "retired")

DeadIn(ls, t) == ls[t].state = "gone" \/ ls[t].consumed \/ ls[t].revoked

(* What a request that completes a link has reached at each place. *)
Finishing(c, at, l, us, ls, over) ==
  /\ at = "complete" \/ Tail(at, l) =>
       l.id \in Ids /\ \A t \in l.seen : ls[t].state # "unborn" /\ ls[t].user = l.id
  /\ at = "revoke" /\ l.next = "retired" => \A t \in l.seen : t \in l.todo \/ DeadIn(ls, t)
  /\ at = "retired" => \A t \in l.seen : DeadIn(ls, t)
  /\ Tail(at, l) => us[l.id].state # "unborn"
  /\ Tail(at, l) /\ c \notin over => us[l.id].version > l.base.version

Fine(c) == /\ Placed(pc[c], local[c], preflight[c])
           /\ Finishing(c, pc[c], local[c], users, links, overtaken)

(* The inductive invariant. *)
Inv == TypeOK /\ \A c \in Clients : Fine(c)

-----------------------------------------------------------------------------
(* One client moves, and the others keep what they have.                    *)

Tables == /\ users \in [Ids -> User] /\ links \in [Links -> Link] /\ Consistent(users, links)
          /\ overtaken \subseteq Clients
Aside  == /\ oidc \in Oidc /\ mail \in Modes /\ bucket \in [Emails -> Nat]
          /\ session \in [Clients -> Session \cup {None}]
          /\ preflight \in [Clients -> [email : Emails, config : Configs] \cup {None}]
          /\ sent \in Nat /\ crashes \in Nat

LEMMA TypeParts ==
  TypeOK <=> Tables /\ Aside /\ pc \in [Clients -> Pc] /\ local \in [Clients -> Local]
BY DEF TypeOK, Tables, Aside

(* What a step of one client may do to what the others rely on: rows and   *)
(* links stay, dead links stay dead, and a version only falls for those    *)
(* who are overtaken.                                                      *)
Grows(others) ==
  /\ \A i \in Ids : users[i].state # "unborn" => users'[i].state # "unborn"
  /\ \A t \in Links : links[t].state # "unborn" =>
       /\ links'[t].state # "unborn" /\ links'[t].user = links[t].user
       /\ DeadIn(links, t) => DeadIn(links', t)
  /\ \A d \in others : d \notin overtaken' =>
       /\ d \notin overtaken
       /\ local[d].id \in Ids /\ users[local[d].id].state # "unborn" =>
            users'[local[d].id].version >= users[local[d].id].version

Moves(c, at, l) ==
  /\ pc' = [pc EXCEPT ![c] = at] /\ local' = [local EXCEPT ![c] = l]
  /\ \A d \in Clients \ {c} : preflight'[d] = preflight[d]

LEMMA OthersFinish ==
  ASSUME TypeOK, Tables', NEW others \in SUBSET Clients, Grows(others), NEW d \in others,
         Finishing(d, pc[d], local[d], users, links, overtaken)
  PROVE  Finishing(d, pc[d], local[d], users', links', overtaken')
<1> PICK at \in Pc : at = pc[d]
  BY DEF TypeOK
<1> PICK l \in Local : l = local[d]
  BY DEF TypeOK
<1>1. l.seen \subseteq Links
  BY DEF Local
<1>2. Finishing(d, at, l, users, links, overtaken)
  OBVIOUS
<1>3. at = "complete" \/ Tail(at, l) =>
        l.id \in Ids /\ \A t \in l.seen : links'[t].state # "unborn" /\ links'[t].user = l.id
  BY <1>1, <1>2 DEF Grows, Finishing
<1>4. at = "revoke" /\ l.next = "retired" => \A t \in l.seen : t \in l.todo \/ DeadIn(links', t)
  BY <1>1, <1>2 DEF Grows, Finishing, Tail
<1>5. at = "retired" => \A t \in l.seen : DeadIn(links', t)
  BY <1>1, <1>2 DEF Grows, Finishing, Tail
<1>6. ASSUME Tail(at, l)
      PROVE  users'[l.id].state # "unborn" /\ (d \notin overtaken' => users'[l.id].version > l.base.version)
  <2>1. l.id \in Ids /\ users[l.id].state # "unborn"
    BY <1>2, <1>6 DEF Finishing
  <2>2. users'[l.id].state # "unborn"
    BY <2>1 DEF Grows
  <2>3. /\ users[l.id].version \in Nat /\ users'[l.id].version \in Nat /\ l.base.version \in Nat
    <3>1. users[l.id] \in User /\ users'[l.id] \in User /\ l.base \in User
      BY <2>1 DEF TypeOK, Tables, Local
    <3> QED
      BY <3>1 DEF User
  <2>4. ASSUME d \notin overtaken' PROVE users'[l.id].version > l.base.version
    <3>1. d \notin overtaken /\ users'[l.id].version >= users[l.id].version
      BY <2>1, <2>4 DEF Grows
    <3>2. users[l.id].version > l.base.version
      BY <1>2, <1>6, <3>1 DEF Finishing
    <3> QED
      BY <2>3, <3>1, <3>2
  <2> QED
    BY <2>2, <2>4
<1> QED
  BY <1>3, <1>4, <1>5, <1>6 DEF Finishing

LEMMA StepKeeps ==
  ASSUME Inv, NEW c \in Clients, NEW at \in Pc, NEW l \in Local, Moves(c, at, l),
         Tables', Aside', Grows(Clients \ {c}), Placed(at, l, preflight'[c]),
         Finishing(c, at, l, users', links', overtaken')
  PROVE  Inv'
<1>0. pc \in [Clients -> Pc] /\ local \in [Clients -> Local] /\ TypeOK
  BY TypeParts DEF Inv
<1>1. /\ pc' \in [Clients -> Pc] /\ local' \in [Clients -> Local]
      /\ pc'[c] = at /\ local'[c] = l
      /\ \A d \in Clients \ {c} : pc'[d] = pc[d] /\ local'[d] = local[d]
  BY <1>0 DEF Moves
<1>2. TypeOK'
  BY <1>1 DEF TypeOK, Tables, Aside
<1>3. Fine(c)'
  BY <1>1 DEF Fine
<1>4. ASSUME NEW d \in Clients \ {c} PROVE Fine(d)'
  <2>1. Placed(pc[d], local[d], preflight[d]) /\ Finishing(d, pc[d], local[d], users, links, overtaken)
    BY DEF Inv, Fine
  <2>2. Finishing(d, pc[d], local[d], users', links', overtaken')
    BY <1>0, <2>1, OthersFinish
  <2>3. pc'[d] = pc[d] /\ local'[d] = local[d] /\ preflight'[d] = preflight[d]
    BY <1>1 DEF Moves
  <2> QED
    BY <2>1, <2>2, <2>3 DEF Fine
<1> QED
  BY <1>2, <1>3, <1>4 DEF Inv

(* A step that leaves accounts and links alone. *)
LEMMA QuietKeeps ==
  ASSUME Inv, NEW c \in Clients, NEW at \in Pc, NEW l \in Local, Moves(c, at, l),
         UNCHANGED <<users, links, overtaken>>, Aside', Placed(at, l, preflight'[c]),
         Finishing(c, at, l, users, links, overtaken)
  PROVE  Inv'
<1>1. users' = users /\ links' = links /\ overtaken' = overtaken
  OBVIOUS
<1>2. Tables' /\ users \in [Ids -> User]
  BY <1>1, TypeParts DEF Inv, Tables
<1>3. \A i \in Ids : users[i].version \in Nat
  BY <1>2 DEF User
<1>4. Grows(Clients \ {c})
  BY <1>1, <1>3 DEF Grows
<1> QED
  BY <1>1, <1>2, <1>4, StepKeeps
-----------------------------------------------------------------------------
(* What handlers hold.                                                      *)

LEMMA EmptyRows ==
  /\ NoUser \in User /\ NoUser.state = "unborn"
  /\ NoLink \in Link /\ NoLink.state = "unborn"
BY DEF NoUser, User, NoLink, Link, Purposes

LEMMA Nothing == NoLocal \in Local /\ NoLocal.next = "idle"
<1>1. [enabled |-> FALSE, config |-> None] \in Oidc
  BY DEF Oidc
<1>2. "invite" \in Purposes /\ "disabled" \in Modes
  BY DEF Purposes, Modes
<1> QED
  BY <1>1, <1>2, EmptyRows DEF NoLocal, Local, Nexts

LEMMA NewUsers ==
  \A e \in Emails, role \in {"admin", "viewer"}, provider \in {"local", "oidc"},
     password, active \in BOOLEAN :
    /\ NewUser(e, role, provider, password, active) \in User
    /\ NewUser(e, role, provider, password, active).state = "live"
<1> TAKE e \in Emails, role \in {"admin", "viewer"}, provider \in {"local", "oidc"},
         password, active \in BOOLEAN
<1>1. NoUser \in User
  BY EmptyRows
<1> QED
  BY ONLY <1>1 DEF NewUser, User

(* A new password comes with a new credential version. *)
LEMMA NewCredentials ==
  ASSUME NEW u \in User
  PROVE  LET new == [u EXCEPT !.password = TRUE, !.active = TRUE, !.version = @ + 1]
         IN /\ new \in User
            /\ new.state = u.state /\ new.role = u.role /\ new.version = u.version + 1
<1>1. u.version + 1 \in Nat
  BY DEF User
<1>2. \A n \in Nat : LET new == [u EXCEPT !.password = TRUE, !.active = TRUE, !.version = n]
                    IN /\ new \in User
                       /\ new.state = u.state /\ new.role = u.role /\ new.version = n
  BY DEF User
<1> QED
  BY <1>1, <1>2

LEMMA LiveRows ==
  ASSUME TypeOK
  PROVE  /\ \A i \in Live : i \in Ids /\ users[i] \in User /\ users[i].state = "live"
         /\ \A e : HasEmail(e) \subseteq Live /\ HasSubject(e) \subseteq Live
         /\ \A s : AccountOf(s) \subseteq Live
BY DEF TypeOK, Live, HasEmail, HasSubject, AccountOf

-----------------------------------------------------------------------------
(* Beginnings and ends.                                                     *)

(* Places at which a request owes nothing yet. *)
Fresh(at) == at \in Pc \ {"idle", "complete", "consume", "retire", "retired"}

(* A request begins at a place with locals that fit. *)
LEMMA BeginKeeps ==
  ASSUME Inv, NEW c \in Clients, NEW op, Begin(c, op),
         UNCHANGED <<users, links, oidc, mail, bucket, session, preflight, crashes, overtaken>>,
         NEW at, NEW l \in Local, Goto(c, at, l), Fresh(at), l.next # "retired",
         Placed(at, l, preflight[c])
  PROVE  Inv'
<1>1. Moves(c, at, l)
  BY DEF Goto, Moves, Fresh
<1>2. Aside'
  BY TypeParts DEF Aside, Begin, Inv
<1>3. Finishing(c, at, l, users, links, overtaken)
  BY DEF Finishing, Tail, Fresh
<1> QED
  BY <1>1, <1>2, <1>3, QuietKeeps DEF Fresh

(* A request ends, and leaves accounts and links alone. *)
LEMMA EndKeeps ==
  ASSUME Inv, NEW c \in Clients, NEW l, Goto(c, "idle", l), UNCHANGED <<users, links, overtaken>>,
         Aside', \A d \in Clients \ {c} : preflight'[d] = preflight[d]
  PROVE  Inv'
<1>1. Moves(c, "idle", NoLocal)
  BY DEF Goto, Moves
<1>2. Finishing(c, "idle", NoLocal, users, links, overtaken) /\ Placed("idle", NoLocal, preflight'[c])
  BY DEF Finishing, Placed, Tail
<1> QED
  BY <1>1, <1>2, Nothing, QuietKeeps DEF Pc

(* A request is refused or done at once. *)
LEMMA StayKeeps ==
  ASSUME Inv, NEW c \in Clients, pc[c] = "idle", UNCHANGED <<users, links, overtaken, pc, local>>,
         Aside', \A d \in Clients \ {c} : preflight'[d] = preflight[d]
  PROVE  Inv'
<1>1. pc \in [Clients -> Pc] /\ local \in [Clients -> Local] /\ pc' = pc /\ local' = local
  BY TypeParts DEF Inv
<1>2. Moves(c, "idle", local[c])
  BY <1>1 DEF Moves
<1>3. /\ Finishing(c, "idle", local[c], users, links, overtaken)
      /\ Placed("idle", local[c], preflight'[c])
  BY DEF Finishing, Placed, Tail
<1> QED
  BY <1>1, <1>2, <1>3, QuietKeeps DEF Pc

LEMMA CrashKeeps ==
  ASSUME Inv, NEW c \in Clients, Crash(c)
  PROVE  Inv'
<1>1. Aside' /\ preflight' = preflight
  BY TypeParts DEF Aside, Crash, Inv
<1>2. Goto(c, "idle", NoLocal) /\ UNCHANGED <<users, links, overtaken>>
  BY DEF Crash, ToIdle
<1> QED
  BY <1>1, <1>2, EndKeeps

-----------------------------------------------------------------------------
(* Access.                                                                  *)

Still == UNCHANGED <<users, links, oidc, mail, bucket, session, preflight, crashes, overtaken>>

(* The locals with which a request that adds an account begins. *)
Adds(c, u) ==
  \/ Goto(c, "insert", [NoLocal EXCEPT !.new = u])
  \/ \E e \in Emails : Goto(c, "insert", [NoLocal EXCEPT !.new = u, !.email = e, !.next = "login"])
  \/ Goto(c, "insert", [NoLocal EXCEPT !.new = u, !.purpose = "invite", !.next = "issue"])

LEMMA InsertBegins ==
  ASSUME Inv, NEW c \in Clients, NEW op, Begin(c, op), Still, NEW u \in User, u.state = "live",
         Adds(c, u)
  PROVE  Inv'
<1> DEFINE k1 == [NoLocal EXCEPT !.new = u]
           k2(e) == [NoLocal EXCEPT !.new = u, !.email = e, !.next = "login"]
           k3 == [NoLocal EXCEPT !.new = u, !.purpose = "invite", !.next = "issue"]
<1>a. k1 \in Local /\ k1.new = u /\ k1.next = "idle"
  BY ONLY u \in User, Nothing DEF Local, Nexts, Purposes
<1>b. \A e \in Emails : k2(e) \in Local /\ k2(e).new = u /\ k2(e).next = "login" /\ k2(e).email = e
  BY ONLY u \in User, Nothing DEF Local, Nexts, Purposes
<1>c. k3 \in Local /\ k3.new = u /\ k3.next = "issue"
  BY ONLY u \in User, Nothing DEF Local, Nexts, Purposes
<1>d. Goto(c, "insert", k1) \/ (\E e \in Emails : Goto(c, "insert", k2(e))) \/ Goto(c, "insert", k3)
  BY DEF Adds
<1> HIDE DEF k1, k2, k3
<1>1. PICK l \in Local : /\ Goto(c, "insert", l) /\ l.new = u /\ l.next \in {"idle", "login", "issue"}
                         /\ l.next = "login" => l.email \in Emails
  BY <1>a, <1>b, <1>c, <1>d
<1>2. Placed("insert", l, preflight[c]) /\ Fresh("insert") /\ l.next # "retired"
  BY <1>1 DEF Placed, Fresh, Pc
<1> QED
  BY <1>1, <1>2, BeginKeeps DEF Still

LEMMA SaveBegins ==
  ASSUME Inv, NEW c \in Clients, NEW op, Begin(c, op), Still,
         NEW i \in Ids, NEW b \in User, NEW u \in User, u.state = "live",
         Goto(c, "save", [NoLocal EXCEPT !.id = i, !.base = b, !.new = u])
  PROVE  Inv'
<1> DEFINE l == [NoLocal EXCEPT !.id = i, !.base = b, !.new = u]
<1>1. l \in Local /\ l.new = u /\ l.next = "idle" /\ l.id = i
  BY ONLY i \in Ids, b \in User, u \in User, Nothing DEF Local
<1>3. Goto(c, "save", l)
  OBVIOUS
<1> HIDE DEF l
<1>2. Placed("save", l, preflight[c]) /\ Fresh("save") /\ l.next # "retired"
  BY <1>1 DEF Placed, Fresh, Pc
<1> QED
  BY <1>1, <1>2, <1>3, BeginKeeps DEF Still

LEMMA AccessBegins ==
  ASSUME Inv, NEW c \in Clients,
         \/ BootstrapRegister(c) \/ Login(c) \/ SelfRegister(c) \/ RegisterUser(c)
         \/ UpdateUserRole(c) \/ DeleteUser(c) \/ ResolveUser(c)
  PROVE  Inv'
<1>0. TypeOK
  BY DEF Inv
<1>1. CASE BootstrapRegister(c)
  <2>1. PICK e \in Emails :
          Goto(c, "insert", [NoLocal EXCEPT !.new = NewUser(e, "admin", "local", TRUE, TRUE)])
    BY <1>1 DEF BootstrapRegister
  <2>2. PICK u \in User : u = NewUser(e, "admin", "local", TRUE, TRUE) /\ u.state = "live"
    BY NewUsers
  <2>3. Begin(c, "bootstrap") /\ Still
    BY <1>1 DEF BootstrapRegister, Still
  <2> QED
    BY <2>1, <2>2, <2>3, InsertBegins DEF Adds
<1>2. CASE Login(c)
  <2>1. PICK e \in Emails :
          \/ Goto(c, "insert", [NoLocal EXCEPT !.new = NewUser(e, "admin", "local", TRUE, TRUE),
                                               !.email = e, !.next = "login"])
          \/ Goto(c, "login", [NoLocal EXCEPT !.email = e])
    BY <1>2 DEF Login
  <2>2. PICK u \in User : u = NewUser(e, "admin", "local", TRUE, TRUE) /\ u.state = "live"
    BY NewUsers
  <2>3. Begin(c, "login") /\ Still
    BY <1>2 DEF Login, Still
  <2>4. CASE Goto(c, "login", [NoLocal EXCEPT !.email = e])
    <3> DEFINE l == [NoLocal EXCEPT !.email = e]
    <3>1. l \in Local /\ l.email = e /\ l.next = "idle"
      BY ONLY e \in Emails, Nothing DEF Local
    <3>3. Goto(c, "login", l)
      BY <2>4
    <3> HIDE DEF l
    <3>2. Placed("login", l, preflight[c]) /\ Fresh("login") /\ l.next # "retired"
      BY <3>1 DEF Placed, Fresh, Pc
    <3> QED
      BY <2>3, <3>1, <3>2, <3>3, BeginKeeps DEF Still
  <2>5. CASE Goto(c, "insert", [NoLocal EXCEPT !.new = NewUser(e, "admin", "local", TRUE, TRUE),
                                               !.email = e, !.next = "login"])
    BY <2>2, <2>3, <2>5, InsertBegins DEF Adds
  <2> QED
    BY <2>1, <2>4, <2>5
<1>3. CASE SelfRegister(c)
  <2>0. Begin(c, "register") /\ Still
    BY <1>3 DEF SelfRegister, Still
  <2>1. PICK e \in Emails :
          \/ Goto(c, "insert", [NoLocal EXCEPT !.new = NewUser(e, "viewer", "local", TRUE, FALSE)])
          \/ \E i \in HasEmail(e) : Goto(c, "save", [NoLocal EXCEPT !.id = i, !.base = users[i],
               !.new = [users[i] EXCEPT !.password = TRUE, !.active = TRUE, !.version = @ + 1]])
    BY <1>3 DEF SelfRegister
  <2>2. PICK u \in User : u = NewUser(e, "viewer", "local", TRUE, FALSE) /\ u.state = "live"
    BY NewUsers
  <2>3. CASE Goto(c, "insert", [NoLocal EXCEPT !.new = NewUser(e, "viewer", "local", TRUE, FALSE)])
    BY <2>0, <2>2, <2>3, InsertBegins DEF Adds
  <2>4. ASSUME NEW i \in HasEmail(e), Goto(c, "save", [NoLocal EXCEPT !.id = i, !.base = users[i],
                 !.new = [users[i] EXCEPT !.password = TRUE, !.active = TRUE, !.version = @ + 1]])
        PROVE  Inv'
    <3>1. PICK b \in User : b = users[i] /\ b.state = "live" /\ i \in Ids
      BY <1>0, LiveRows
    <3> DEFINE w == [b EXCEPT !.password = TRUE, !.active = TRUE, !.version = @ + 1]
    <3>2. w \in User /\ w.state = "live"
      BY ONLY <3>1, b \in User, NewCredentials
    <3>3. Goto(c, "save", [NoLocal EXCEPT !.id = i, !.base = b, !.new = w])
      BY <2>4, <3>1
    <3> HIDE DEF w
    <3> QED
      BY <2>0, <3>1, <3>2, <3>3, SaveBegins
  <2> QED
    BY <2>1, <2>3, <2>4
<1>4. CASE RegisterUser(c)
  <2>1. PICK e \in Emails, role \in {"admin", "viewer"}, provider \in {"local", "oidc"} :
          Goto(c, "insert", [NoLocal EXCEPT !.new = NewUser(e, role, provider, FALSE, provider = "oidc")])
    BY <1>4 DEF RegisterUser
  <2>2. PICK u \in User : u = NewUser(e, role, provider, FALSE, provider = "oidc") /\ u.state = "live"
    <3>1. (provider = "oidc") \in BOOLEAN
      OBVIOUS
    <3> QED
      BY <3>1, NewUsers
  <2>3. Begin(c, "register_user") /\ Still
    BY <1>4 DEF RegisterUser, Still
  <2> QED
    BY <2>1, <2>2, <2>3, InsertBegins DEF Adds
<1>5. CASE UpdateUserRole(c)
  <2>1. PICK i \in Live, role \in {"admin", "viewer"} :
          Goto(c, "save", [NoLocal EXCEPT !.id = i, !.base = users[i],
                                          !.new = [users[i] EXCEPT !.role = role, !.active = TRUE]])
    BY <1>5 DEF UpdateUserRole
  <2>2. PICK b \in User : b = users[i] /\ b.state = "live" /\ i \in Ids
    BY <1>0, LiveRows
  <2> DEFINE w == [b EXCEPT !.role = role, !.active = TRUE]
  <2>3. w \in User /\ w.state = "live"
    BY ONLY <2>2, b \in User, role \in {"admin", "viewer"} DEF User
  <2>4. Begin(c, "role") /\ Still
    BY <1>5 DEF UpdateUserRole, Still
  <2>5. Goto(c, "save", [NoLocal EXCEPT !.id = i, !.base = b, !.new = w])
    BY <2>1, <2>2
  <2> HIDE DEF w
  <2> QED
    BY <2>2, <2>3, <2>4, <2>5, SaveBegins
<1>6. CASE DeleteUser(c)
  <2>1. PICK i \in Ids : Goto(c, "delete", [NoLocal EXCEPT !.id = i])
    BY <1>0, <1>6, LiveRows DEF DeleteUser
  <2> DEFINE l == [NoLocal EXCEPT !.id = i]
  <2>2. l \in Local /\ l.next = "idle"
    BY ONLY i \in Ids, Nothing DEF Local, Nexts, Purposes
  <2>5. Goto(c, "delete", l)
    BY <2>1
  <2> HIDE DEF l
  <2>3. Begin(c, "delete") /\ Still
    BY <1>6 DEF DeleteUser, Still
  <2>4. Placed("delete", l, preflight[c]) /\ Fresh("delete") /\ l.next # "retired"
    BY <2>2 DEF Placed, Fresh, Pc
  <2> QED
    BY <2>2, <2>3, <2>4, <2>5, BeginKeeps DEF Still
<1>7. CASE ResolveUser(c)
  <2>0. Begin(c, "resolve") /\ Still
    BY <1>7 DEF ResolveUser, Still
  <2>1. PICK e \in Emails : e = session[c].email
    <3>1. session[c] \in Session
      BY <1>0, <1>7 DEF ResolveUser, TypeOK
    <3> QED
      BY <3>1 DEF Session
  <2>2. \/ \E i \in AccountOf(session[c]) :
             Goto(c, "save", [NoLocal EXCEPT !.id = i, !.base = users[i],
                                             !.new = [users[i] EXCEPT !.subject = e]])
        \/ Goto(c, "insert", [NoLocal EXCEPT
             !.new = [NewUser(e, "viewer", "oidc", FALSE, FALSE) EXCEPT !.subject = e]])
    BY <1>7, <2>1 DEF ResolveUser
  <2>3. ASSUME NEW i \in AccountOf(session[c]),
               Goto(c, "save", [NoLocal EXCEPT !.id = i, !.base = users[i],
                                               !.new = [users[i] EXCEPT !.subject = e]])
        PROVE  Inv'
    <3>1. PICK b \in User : b = users[i] /\ b.state = "live" /\ i \in Ids
      BY <1>0, LiveRows
    <3> DEFINE w == [b EXCEPT !.subject = e]
    <3>2. w \in User /\ w.state = "live"
      BY ONLY <3>1, b \in User, e \in Emails DEF User
    <3> QED
      BY <2>0, <2>3, <3>1, <3>2, SaveBegins
  <2>4. CASE Goto(c, "insert", [NoLocal EXCEPT
               !.new = [NewUser(e, "viewer", "oidc", FALSE, FALSE) EXCEPT !.subject = e]])
    <3>1. PICK b \in User : b = NewUser(e, "viewer", "oidc", FALSE, FALSE) /\ b.state = "live"
      BY NewUsers
    <3> DEFINE w == [b EXCEPT !.subject = e]
    <3>2. w \in User /\ w.state = "live"
      BY ONLY <3>1, b \in User, e \in Emails DEF User
    <3> QED
      BY <2>0, <2>4, <3>1, <3>2, InsertBegins DEF Adds
  <2> QED
    BY <2>2, <2>3, <2>4
<1> QED
  BY <1>1, <1>2, <1>3, <1>4, <1>5, <1>6, <1>7

-----------------------------------------------------------------------------
(* What an UPDATE leaves of a row.                                          *)

Written(cur, base, new) == IF new = base THEN cur ELSE new

LEMMA MergeUser ==
  ASSUME NEW cur \in User, NEW base \in User, NEW new \in User
  PROVE  LET m == Merge(cur, base, new)
         IN /\ m \in User
            /\ m.state = Written(cur.state, base.state, new.state)
            /\ m.email \in {cur.email, new.email}
            /\ m.role = Written(cur.role, base.role, new.role)
            /\ m.version = Written(cur.version, base.version, new.version)
<1> DEFINE m == Merge(cur, base, new)
<1>1. DOMAIN cur = {"state", "email", "role", "provider", "password", "subject", "active", "version"}
  BY DEF User
<1>2. /\ m = [col \in DOMAIN cur |-> Written(cur[col], base[col], new[col])]
      /\ DOMAIN m = DOMAIN cur
  BY Zenon DEF Merge, Written
<1>3. /\ m.state = Written(cur.state, base.state, new.state)
      /\ m.email = Written(cur.email, base.email, new.email)
      /\ m.role = Written(cur.role, base.role, new.role)
      /\ m.provider = Written(cur.provider, base.provider, new.provider)
      /\ m.password = Written(cur.password, base.password, new.password)
      /\ m.subject = Written(cur.subject, base.subject, new.subject)
      /\ m.active = Written(cur.active, base.active, new.active)
      /\ m.version = Written(cur.version, base.version, new.version)
  BY <1>1, <1>2
<1>4. m \in User
  <2>1. cur.password \in BOOLEAN /\ new.password \in BOOLEAN /\ cur.active \in BOOLEAN /\ new.active \in BOOLEAN
    BY DEF User
  <2>2. Written(cur.password, base.password, new.password) \in BOOLEAN
    BY <2>1 DEF Written
  <2>3. Written(cur.active, base.active, new.active) \in BOOLEAN
    BY <2>1 DEF Written
  <2>4. /\ Written(cur.state, base.state, new.state) \in {"unborn", "live", "gone"}
        /\ Written(cur.email, base.email, new.email) \in Emails \cup {None}
        /\ Written(cur.role, base.role, new.role) \in {"admin", "viewer"}
        /\ Written(cur.provider, base.provider, new.provider) \in {"local", "oidc"}
        /\ Written(cur.subject, base.subject, new.subject) \in Emails \cup {None}
        /\ Written(cur.version, base.version, new.version) \in Nat
    BY DEF Written, User
  <2> HIDE DEF m
  <2>5. m = [col \in DOMAIN m |-> m[col]]
    BY <1>2
  <2> QED
    BY <2>2, <2>3, <2>4, <2>5, <1>1, <1>2, <1>3 DEF User
<1> QED
  BY <1>3, <1>4 DEF Written

LEMMA MergeOidc ==
  ASSUME NEW cur \in Oidc, NEW base \in Oidc, NEW new \in Oidc
  PROVE  /\ Merge(cur, base, new) \in Oidc
         /\ Merge(cur, base, new).enabled => cur.enabled \/ new.enabled
<1> DEFINE m == Merge(cur, base, new)
<1>1. DOMAIN cur = {"enabled", "config"}
  BY DEF Oidc
<1>2. /\ m = [col \in DOMAIN cur |-> Written(cur[col], base[col], new[col])]
      /\ DOMAIN m = DOMAIN cur
  BY Zenon DEF Merge, Written
<1>3. /\ m.enabled = Written(cur.enabled, base.enabled, new.enabled)
      /\ m.config = Written(cur.config, base.config, new.config)
  BY <1>1, <1>2
<1>4. cur.enabled \in BOOLEAN /\ base.enabled \in BOOLEAN /\ new.enabled \in BOOLEAN
  BY DEF Oidc
<1>5. Written(cur.enabled, base.enabled, new.enabled) \in BOOLEAN
  BY <1>4 DEF Written
<1>6. Written(cur.config, base.config, new.config) \in Configs \cup {None}
  BY DEF Written, Oidc
<1> HIDE DEF m
<1>7. m \in Oidc
  BY <1>1, <1>2, <1>3, <1>5, <1>6 DEF Oidc
<1>8. ASSUME m.enabled PROVE cur.enabled \/ new.enabled
  BY <1>3, <1>4, <1>8 DEF Written
<1> QED
  BY <1>7, <1>8 DEF m

-----------------------------------------------------------------------------
(* Rows are written.                                                        *)

(* The save is refused, or it has merged the row. *)
Saved(c, l, base, new, at) ==
  \/ Goto(c, "idle", NoLocal) /\ users' = users
  \/ /\ users[l.id].state = "live" /\ Goto(c, at, l)
     /\ users' = [users EXCEPT ![l.id] = Merge(users[l.id], base, new)]
     /\ c \notin overtaken'

(* An account is saved: it stays live and its address unique, and whoever  *)
(* holds the account with a higher version is overtaken.                   *)
LEMMA Saving ==
  ASSUME Inv, NEW c \in Clients, NEW l \in Local, l = local[c], l.id \in Ids,
         NEW base \in User, NEW new \in User, new.state = "live",
         NEW at \in Pc, SaveUser(c, base, new, at), links' = links
  PROVE  /\ Tables' /\ Grows(Clients \ {c})
         /\ Saved(c, l, base, new, at)
<1>0. TypeOK /\ Tables
  BY TypeParts DEF Inv
<1> DEFINE i == l.id
           m == Merge(users[i], base, new)
<1>1. CASE ~(users[i].state = "live" /\ HasEmail(m.email) \subseteq {i})
  <2>1. UNCHANGED <<users, overtaken>> /\ Goto(c, "idle", NoLocal)
    BY <1>1 DEF SaveUser, ToIdle
  <2>2. \A k \in Ids : users[k].version \in Nat
    BY <1>0 DEF Tables, User
  <2>3. Tables' /\ Grows(Clients \ {c})
    BY <1>0, <2>1, <2>2 DEF Tables, Grows
  <2> QED
    BY <2>1, <2>3 DEF Saved
<1>2. CASE users[i].state = "live" /\ HasEmail(m.email) \subseteq {i}
  <2>1. /\ users[i].state = "live" /\ HasEmail(m.email) \subseteq {i}
        /\ users' = [users EXCEPT ![i] = m] /\ Goto(c, at, l)
        /\ overtaken' = (overtaken \ {c}) \cup
             {d \in Clients \ {c} : local[d].id = i /\ m.version < users[i].version}
    BY <1>2 DEF SaveUser
  <2>2. m \in User /\ m.state = "live" /\ users[i] \in User
    <3>1. users[i] \in User
      BY <1>0 DEF Tables
    <3> QED
      BY <2>1, <3>1, MergeUser DEF Written
  <2> HIDE DEF m
  <2>3. /\ users' \in [Ids -> User] /\ users'[i] = m /\ \A k \in Ids \ {i} : users'[k] = users[k]
        /\ links' \in [Links -> Link] /\ overtaken' \subseteq Clients
    BY <1>0, <2>1, <2>2 DEF Tables
  <2>4. Consistent(users, links) /\ \A k \in Ids : users[k].state = "live" /\ users[k].email = m.email => k = i
    BY <1>0, <2>1 DEF Tables, HasEmail, Live
  <2>5. Consistent(users', links')
    BY <2>2, <2>3, <2>4 DEF Consistent
  <2>6. \A k \in Ids : users[k].version \in Nat /\ users'[k].version \in Nat
    BY <1>0, <2>3 DEF Tables, User
  <2>7. \A k \in Ids : users[k].state # "unborn" => users'[k].state # "unborn"
    BY <2>2, <2>3
  <2>8. ASSUME NEW d \in Clients \ {c}, d \notin overtaken'
        PROVE  /\ d \notin overtaken
               /\ local[d].id \in Ids => users'[local[d].id].version >= users[local[d].id].version
    <3>1. d \notin overtaken /\ (local[d].id = i => ~(m.version < users[i].version))
      BY <2>1, <2>8
    <3> QED
      BY <2>3, <2>6, <3>1
  <2>9. Grows(Clients \ {c})
    BY <2>7, <2>8 DEF Grows
  <2> QED
    BY <2>1, <2>3, <2>5, <2>9 DEF Tables, Saved, m
<1> QED
  BY <1>1, <1>2

(* An account is added under an id nobody has had. *)
LEMMA Inserting ==
  ASSUME Inv, NEW c \in Clients, NEW l \in Local, l = local[c], NEW u \in User, u.state = "live",
         NEW at, InsertUser(c, u, at), UNCHANGED <<links, overtaken>>
  PROVE  /\ Tables' /\ Grows(Clients \ {c})
         /\ Goto(c, "idle", NoLocal) \/ \E i \in Ids : Goto(c, at, [l EXCEPT !.id = i])
         /\ \A i \in Ids : users[i].state # "unborn" => users'[i] = users[i]
<1>0. TypeOK /\ Tables
  BY TypeParts DEF Inv
<1>1. \A k \in Ids : users[k].version \in Nat
  BY <1>0 DEF Tables, User
<1>2. CASE users' = users
  <2>1. Tables' /\ Grows(Clients \ {c})
    BY <1>0, <1>1, <1>2 DEF Tables, Grows
  <2>2. Goto(c, "idle", NoLocal) \/ \E i \in Ids : Goto(c, at, [l EXCEPT !.id = i])
    BY DEF InsertUser, ToIdle
  <2> QED
    BY <1>2, <2>1, <2>2
<1>3. CASE users' # users
  <2>1. HasEmail(u.email) = {}
    BY <1>3 DEF InsertUser
  <2>2. PICK i \in Ids : /\ users[i].state = "unborn" /\ users' = [users EXCEPT ![i] = u]
                         /\ Goto(c, at, [l EXCEPT !.id = i])
    BY <1>3 DEF InsertUser
  <2>3. /\ users' \in [Ids -> User] /\ users'[i] = u /\ \A k \in Ids \ {i} : users'[k] = users[k]
        /\ links' = links /\ links \in [Links -> Link] /\ overtaken' = overtaken
        /\ overtaken \subseteq Clients
    BY <1>0, <2>2 DEF Tables
  <2>4. Consistent(users, links) /\ \A k \in Ids : users[k].state = "live" => users[k].email # u.email
    BY <1>0, <2>1 DEF Tables, HasEmail, Live
  <2>5. Consistent(users', links')
    <3>1. \A j, k \in Ids :
            users'[j].state = "live" /\ users'[k].state = "live" /\ users'[j].email = users'[k].email => j = k
      BY <2>3, <2>4 DEF Consistent
    <3>2. ASSUME NEW t \in Links, links'[t].state = "live"
          PROVE  links'[t].user \in Ids /\ users'[links'[t].user].state = "live"
      <4>1. links[t].user \in Ids /\ users[links[t].user].state = "live"
        BY <2>3, <2>4, <3>2 DEF Consistent
      <4> QED
        BY <2>2, <2>3, <4>1
    <3> QED
      BY <3>1, <3>2 DEF Consistent
  <2>6. \A k \in Ids : users[k].state # "unborn" => users'[k] = users[k]
    BY <2>2, <2>3
  <2>7. Grows(Clients \ {c})
    BY <1>1, <2>3, <2>6 DEF Grows
  <2> QED
    BY <2>2, <2>3, <2>5, <2>6, <2>7 DEF Tables
<1> QED
  BY <1>2, <1>3

(* A step that ends a request, whatever it has written. *)
LEMMA EndingKeeps ==
  ASSUME Inv, NEW c \in Clients, NEW l, Goto(c, "idle", l), Tables', Aside', Grows(Clients \ {c}),
         \A d \in Clients \ {c} : preflight'[d] = preflight[d]
  PROVE  Inv'
<1>1. Moves(c, "idle", NoLocal)
  BY DEF Goto, Moves
<1>2. /\ Finishing(c, "idle", NoLocal, users', links', overtaken')
      /\ Placed("idle", NoLocal, preflight'[c])
  BY DEF Finishing, Placed, Tail
<1> QED
  BY <1>1, <1>2, Nothing, StepKeeps DEF Pc

(* An account goes with its links. *)
LEMMA Deleting ==
  ASSUME Inv, NEW c \in Clients, DeleteCommit(c)
  PROVE  Tables' /\ Grows(Clients \ {c})
<1>0. TypeOK /\ Tables
  BY TypeParts DEF Inv
<1>1. \A k \in Ids : users[k].version \in Nat
  BY <1>0 DEF Tables, User
<1> DEFINE i == local[c].id
<1>2. CASE i \notin Live
  <2>1. UNCHANGED <<users, links, overtaken>>
    BY <1>2 DEF DeleteCommit
  <2> QED
    BY <1>0, <1>1, <2>1 DEF Tables, Grows
<1>3. CASE i \in Live
  <2>1. /\ users' = [users EXCEPT ![i].state = "gone"] /\ overtaken' = overtaken
        /\ links' = [t \in Links |-> IF links[t].state = "live" /\ links[t].user = i
                                     THEN [links[t] EXCEPT !.state = "gone"] ELSE links[t]]
    BY <1>3 DEF DeleteCommit
  <2>2. i \in Ids /\ users \in [Ids -> User] /\ links \in [Links -> Link] /\ Consistent(users, links)
        /\ overtaken \subseteq Clients
    BY <1>0, <1>3 DEF Tables, Live
  <2> HIDE DEF i
  <2>3. users' \in [Ids -> User]
    <3>1. [users[i] EXCEPT !.state = "gone"] \in User
      BY <2>2 DEF User
    <3> QED
      BY <2>1, <2>2, <3>1
  <2>4. /\ users'[i].state = "gone" /\ users'[i].version = users[i].version
        /\ \A k \in Ids \ {i} : users'[k] = users[k]
    <3>1. users[i] \in User /\ users'[i] = [users[i] EXCEPT !.state = "gone"]
      BY <2>1, <2>2
    <3>2. users'[i].state = "gone" /\ users'[i].version = users[i].version
      BY <3>1 DEF User
    <3> QED
      BY <2>1, <2>2, <3>2
  <2>5. ASSUME NEW t \in Links
        PROVE  /\ links'[t] \in Link /\ links'[t].user = links[t].user
               /\ links[t].state # "unborn" => links'[t].state # "unborn"
               /\ DeadIn(links, t) => DeadIn(links', t)
               /\ links'[t].state = "live" => links[t].state = "live" /\ links[t].user # i
    <3>1. PICK old \in Link : old = links[t]
      BY <2>2
    <3>2. /\ [old EXCEPT !.state = "gone"] \in Link
          /\ [old EXCEPT !.state = "gone"].user = old.user
          /\ [old EXCEPT !.state = "gone"].state = "gone"
      BY DEF Link
    <3>3. links'[t] = IF old.state = "live" /\ old.user = i THEN [old EXCEPT !.state = "gone"] ELSE old
      BY <2>1, <3>1
    <3> QED
      BY <3>1, <3>2, <3>3 DEF DeadIn
  <2>6. links' \in [Links -> Link]
    BY <2>1, <2>5
  <2>7. Consistent(users', links')
    <3>1. \A j, k \in Ids :
            users'[j].state = "live" /\ users'[k].state = "live" /\ users'[j].email = users'[k].email => j = k
      BY <2>2, <2>4 DEF Consistent
    <3>2. ASSUME NEW t \in Links, links'[t].state = "live"
          PROVE  links'[t].user \in Ids /\ users'[links'[t].user].state = "live"
      BY <2>2, <2>4, <2>5, <3>2 DEF Consistent
    <3> QED
      BY <3>1, <3>2 DEF Consistent
  <2>8. Grows(Clients \ {c})
    <3>1. \A k \in Ids : users[k].state # "unborn" => users'[k].state # "unborn"
      BY <2>4
    <3>2. \A k \in Ids : users'[k].version >= users[k].version
      BY <1>1, <2>4
    <3> QED
      BY <2>1, <2>5, <3>1, <3>2 DEF Grows
  <2> QED
    BY <2>1, <2>2, <2>3, <2>6, <2>7, <2>8 DEF Tables
<1> QED
  BY <1>2, <1>3

LEMMA AccessWrites ==
  ASSUME Inv, NEW c \in Clients, Insert(c) \/ Save(c) \/ DeleteCommit(c)
  PROVE  Inv'
<1>0. TypeOK /\ Tables /\ Aside /\ Fine(c)
  BY TypeParts DEF Inv
<1> PICK l \in Local : l = local[c]
  BY <1>0 DEF TypeOK
<1>1. Aside' /\ preflight' = preflight
  BY <1>0 DEF Aside, Insert, Save, DeleteCommit
<1>2. CASE Insert(c)
  <2>1. /\ l.next \in {"idle", "login", "issue"} /\ l.new \in User /\ l.new.state = "live"
        /\ l.next = "login" => l.email \in Emails
    BY <1>0, <1>2 DEF Insert, At, Fine, Placed, Local
  <2>2. InsertUser(c, l.new, l.next) /\ UNCHANGED <<links, overtaken>>
    BY <1>2 DEF Insert
  <2>3. Tables' /\ Grows(Clients \ {c}) /\ (Goto(c, "idle", NoLocal) \/ \E i \in Ids : Goto(c, l.next, [l EXCEPT !.id = i]))
    BY <2>1, <2>2, Inserting
  <2>4. ASSUME NEW i \in Ids, Goto(c, l.next, [l EXCEPT !.id = i]), l.next # "idle" PROVE Inv'
    <3> DEFINE k == [l EXCEPT !.id = i]
    <3>1. k \in Local /\ k.next = l.next /\ k.email = l.email
      BY ONLY l \in Local, i \in Ids DEF Local
    <3>2. Goto(c, l.next, k)
      BY <2>4
    <3> HIDE DEF k
    <3>3. Moves(c, l.next, k)
      BY <1>1, <2>4, <3>2 DEF Goto, Moves
    <3>4. Placed(l.next, k, preflight'[c]) /\ Finishing(c, l.next, k, users', links', overtaken')
      BY <2>1, <2>4, <3>1 DEF Placed, Finishing, Tail
    <3> QED
      BY <1>1, <2>1, <2>3, <3>1, <3>3, <3>4, StepKeeps DEF Pc
  <2>5. ASSUME NEW k, Goto(c, "idle", k) PROVE Inv'
    BY <1>1, <2>3, <2>5, EndingKeeps
  <2> QED
    BY <2>1, <2>3, <2>4, <2>5
<1>3. CASE Save(c)
  <2>1. l.id \in Ids /\ l.new \in User /\ l.base \in User /\ l.new.state = "live"
    BY <1>0, <1>3 DEF Save, At, Fine, Placed, Local
  <2>2. SaveUser(c, l.base, l.new, "idle") /\ links' = links
    BY <1>3 DEF Save
  <2>3. Tables' /\ Grows(Clients \ {c}) /\ (Goto(c, "idle", l) \/ Goto(c, "idle", NoLocal))
    BY <2>1, <2>2, Saving DEF Pc, Saved
  <2> QED
    BY <1>1, <2>3, EndingKeeps
<1>4. CASE DeleteCommit(c)
  <2>1. Tables' /\ Grows(Clients \ {c})
    BY <1>0, <1>4, Deleting
  <2> QED
    BY <1>1, <1>4, <2>1, EndingKeeps DEF DeleteCommit, ToIdle
<1> QED
  BY <1>2, <1>3, <1>4

LEMMA AccessSessions ==
  ASSUME Inv, NEW c \in Clients, LoginCheck(c) \/ AuthCallback(c) \/ Logout(c)
  PROVE  Inv'
<1>0. TypeOK /\ Aside /\ Fine(c)
  BY TypeParts DEF Inv
<1> PICK l \in Local : l = local[c]
  BY <1>0 DEF TypeOK
<1>1. CASE LoginCheck(c)
  <2>1. l.email \in Emails
    BY <1>0, <1>1 DEF LoginCheck, At, Fine, Placed
  <2>2. session' \in [Clients -> Session \cup {None}]
    <3>1. CASE session' = session
      BY <1>0, <3>1 DEF Aside
    <3>2. CASE session' # session
      <4>1. PICK i \in HasEmail(l.email) :
              session' = [session EXCEPT ![c] = [email |-> users[i].email, provider |-> "local",
                                                 version |-> users[i].version]]
        BY <1>1, <3>2 DEF LoginCheck
      <4>2. users[i].email = l.email /\ users[i].version \in Nat
        BY <1>0, LiveRows DEF HasEmail, User
      <4>3. [email |-> users[i].email, provider |-> "local", version |-> users[i].version] \in Session
        BY <2>1, <4>2 DEF Session
      <4> QED
        BY <1>0, <4>1, <4>3 DEF Aside
    <3> QED
      BY <3>1, <3>2
  <2>3. Aside' /\ preflight' = preflight /\ UNCHANGED <<users, links, overtaken>>
    BY <1>0, <1>1, <2>2 DEF LoginCheck, Aside
  <2> QED
    BY <1>1, <2>3, EndKeeps DEF LoginCheck, ToIdle
<1>2. CASE AuthCallback(c)
  <2>1. PICK e \in Emails :
          session' = [session EXCEPT ![c] = [email |-> e, provider |-> "oidc", version |-> 0]]
    BY <1>2 DEF AuthCallback
  <2>2. [email |-> e, provider |-> "oidc", version |-> 0] \in Session
    BY DEF Session
  <2>3. Aside' /\ preflight' = preflight /\ UNCHANGED <<users, links, overtaken, pc, local>>
    BY <1>0, <1>2, <2>1, <2>2 DEF AuthCallback, Begin, Aside
  <2> QED
    BY <1>2, <2>3, StayKeeps DEF AuthCallback, Begin, At
<1>3. CASE Logout(c)
  <2>1. /\ session' = [session EXCEPT ![c] = None] /\ preflight' = [preflight EXCEPT ![c] = None]
        /\ UNCHANGED <<users, links, overtaken, pc, local, oidc, mail, bucket, crashes>>
        /\ sent' = sent + 1 /\ pc[c] = "idle"
    BY <1>3 DEF Logout, Begin, At
  <2>2. Aside' /\ \A d \in Clients \ {c} : preflight'[d] = preflight[d]
    BY <1>0, <2>1 DEF Aside
  <2> QED
    BY <2>1, <2>2, StayKeeps
<1> QED
  BY <1>1, <1>2, <1>3

-----------------------------------------------------------------------------
(* Links.                                                                   *)

LEMMA LifecycleBegins ==
  ASSUME Inv, NEW c \in Clients,
         \/ InviteUser(c) \/ ReissueInvitation(c) \/ IssueAdminReset(c) \/ RevokeInvitation(c)
         \/ ForgotPassword(c)
  PROVE  Inv'
<1>0. TypeOK
  BY DEF Inv
<1>1. CASE InviteUser(c)
  <2>1. PICK e \in Emails, role \in {"admin", "viewer"} :
          Goto(c, "insert", [NoLocal EXCEPT !.new = NewUser(e, role, "local", FALSE, FALSE),
                                            !.purpose = "invite", !.next = "issue"])
    BY <1>1 DEF InviteUser
  <2>2. PICK u \in User : u = NewUser(e, role, "local", FALSE, FALSE) /\ u.state = "live"
    BY NewUsers
  <2>3. Begin(c, "invite") /\ Still
    BY <1>1 DEF InviteUser, Still
  <2>4. Goto(c, "insert", [NoLocal EXCEPT !.new = u, !.purpose = "invite", !.next = "issue"])
    BY <2>1, <2>2
  <2> QED
    BY <2>2, <2>3, <2>4, InsertBegins DEF Adds
<1>2. ASSUME NEW op, Begin(c, op), Still, NEW i \in Ids, NEW p \in Purposes, Goto(c, "issue", Issue(i, p))
      PROVE  Inv'
  <2> DEFINE l == Issue(i, p)
  <2>1. l \in Local /\ l.next = "idle"
    BY ONLY i \in Ids, p \in Purposes, Nothing DEF Local, Issue
  <2> HIDE DEF l
  <2>2. Placed("issue", l, preflight[c]) /\ Fresh("issue") /\ l.next # "retired"
    BY <2>1 DEF Placed, Fresh, Pc
  <2> QED
    BY <1>2, <2>1, <2>2, BeginKeeps DEF Still, l
<1>3. CASE ReissueInvitation(c)
  <2>1. Begin(c, "reissue") /\ Still
    BY <1>3 DEF ReissueInvitation, Still
  <2>2. PICK i \in Ids : Goto(c, "issue", Issue(i, "invite"))
    BY <1>0, <1>3, LiveRows DEF ReissueInvitation
  <2> QED
    BY <1>2, <2>1, <2>2 DEF Purposes
<1>4. CASE IssueAdminReset(c)
  <2>1. Begin(c, "admin_reset") /\ Still
    BY <1>4 DEF IssueAdminReset, Still
  <2>2. PICK i \in Ids : Goto(c, "issue", Issue(i, "password_reset"))
    BY <1>0, <1>4, LiveRows DEF IssueAdminReset
  <2> QED
    BY <1>2, <2>1, <2>2 DEF Purposes
<1>5. CASE RevokeInvitation(c)
  <2>1. PICK i \in Live : Goto(c, "revoke", [NoLocal EXCEPT !.todo = ActiveOf(i, {"invite"})])
    BY <1>5 DEF RevokeInvitation
  <2>2. PICK s \in SUBSET Links : s = ActiveOf(i, {"invite"})
    BY DEF ActiveOf
  <2> DEFINE l == [NoLocal EXCEPT !.todo = s]
  <2>3. l \in Local /\ l.next = "idle"
    BY ONLY s \in SUBSET Links, Nothing DEF Local
  <2>4. Begin(c, "revoke") /\ Still /\ Goto(c, "revoke", l)
    BY <1>5, <2>1, <2>2 DEF RevokeInvitation, Still
  <2> HIDE DEF l
  <2>5. Placed("revoke", l, preflight[c]) /\ Fresh("revoke") /\ l.next # "retired"
    BY <2>3 DEF Placed, Fresh, Pc
  <2> QED
    BY <2>3, <2>4, <2>5, BeginKeeps DEF Still
<1>6. CASE ForgotPassword(c)
  <2>1. PICK e \in Emails : Goto(c, "count", [NoLocal EXCEPT !.email = e, !.count = bucket[e] + 1])
    BY <1>6 DEF ForgotPassword
  <2>2. PICK n \in Nat : n = bucket[e] + 1
    <3>1. bucket[e] \in Nat
      BY <1>0 DEF TypeOK
    <3> QED
      BY <3>1
  <2> DEFINE l == [NoLocal EXCEPT !.email = e, !.count = n]
  <2>3. l \in Local /\ l.next = "idle" /\ l.email = e
    BY ONLY e \in Emails, n \in Nat, Nothing DEF Local
  <2>4. Begin(c, "forgot") /\ Still /\ Goto(c, "count", l)
    BY <1>6, <2>1, <2>2 DEF ForgotPassword, Still
  <2> HIDE DEF l
  <2>5. Placed("count", l, preflight[c]) /\ Fresh("count") /\ l.next # "retired"
    BY <2>3 DEF Placed, Fresh, Pc
  <2> QED
    BY <2>3, <2>4, <2>5, BeginKeeps DEF Still
<1> QED
  BY <1>1, <1>3, <1>4, <1>5, <1>6

(* The links that a completion has seen are those of its account. *)
LEMMA UseLinkKeeps ==
  ASSUME Inv, NEW c \in Clients, UseLink(c)
  PROVE  Inv'
<1>0. TypeOK
  BY DEF Inv
<1>1. PICK t \in Links, purpose \in Purposes :
        /\ Valid(t, purpose)
        /\ Goto(c, "complete", [NoLocal EXCEPT !.id = links[t].user, !.link = t,
             !.base = users[links[t].user],
             !.new = [users[links[t].user] EXCEPT !.password = TRUE, !.active = TRUE, !.version = @ + 1],
             !.seen = {k \in Links : links[k].state = "live" /\ links[k].user = links[t].user}])
  BY DEF UseLink
<1>2. PICK i \in Ids : i = links[t].user /\ users[i].state = "live"
  BY <1>0, <1>1 DEF Valid, Active, TypeOK, Consistent
<1>3. PICK b \in User : b = users[i] /\ b.state = "live"
  BY <1>0, <1>2 DEF TypeOK
<1> DEFINE u == [b EXCEPT !.password = TRUE, !.active = TRUE, !.version = @ + 1]
<1>4. u \in User /\ u.state = "live" /\ u.role = b.role /\ u.version = b.version + 1
  BY ONLY <1>3, b \in User, NewCredentials
<1> HIDE DEF u
<1>5. PICK s \in SUBSET Links : s = {k \in Links : links[k].state = "live" /\ links[k].user = i}
  OBVIOUS
<1> DEFINE l == [NoLocal EXCEPT !.id = i, !.link = t, !.base = b, !.new = u, !.seen = s]
<1>6. l \in Local
  BY ONLY i \in Ids, t \in Links, b \in User, <1>4, s \in SUBSET Links, Nothing DEF Local
<1>7. l.id = i /\ l.link = t /\ l.base = b /\ l.new = u /\ l.seen = s
  BY ONLY Nothing DEF Local
<1>8. Goto(c, "complete", l)
  BY <1>1, <1>2, <1>3, <1>5 DEF u
<1> HIDE DEF l
<1>9. Begin(c, "complete") /\ Still
  BY DEF UseLink, Still
<1>10. Placed("complete", l, preflight'[c])
  BY <1>3, <1>4, <1>7 DEF Placed
<1>11. Finishing(c, "complete", l, users, links, overtaken)
  BY <1>5, <1>7 DEF Finishing, Tail
<1>12. Moves(c, "complete", l)
  BY <1>8, <1>9 DEF Goto, Moves, Still
<1>13. Aside' /\ UNCHANGED <<users, links, overtaken>>
  BY <1>9, TypeParts DEF Still, Begin, Aside, Inv
<1> QED
  BY <1>6, <1>10, <1>11, <1>12, <1>13, QuietKeeps DEF Pc

(* Links are marked, or a new one is added for an account. *)
LEMMA Marking ==
  ASSUME TypeOK, UNCHANGED <<users, overtaken>>, links' \in [Links -> Link],
         \A t \in Links :
           /\ links[t].state # "unborn" =>
                /\ links'[t].state = links[t].state /\ links'[t].user = links[t].user
                /\ DeadIn(links, t) => DeadIn(links', t)
           /\ links[t].state = "unborn" /\ links'[t].state = "live" =>
                links'[t].user \in Ids /\ users[links'[t].user].state = "live"
  PROVE  Tables' /\ Grows(Clients)
<1>1. /\ users' = users /\ overtaken' = overtaken /\ overtaken \subseteq Clients
      /\ users \in [Ids -> User] /\ Consistent(users, links) /\ links \in [Links -> Link]
  BY DEF TypeOK
<1>2. \A i \in Ids : users[i].version \in Nat
  BY <1>1 DEF User
<1>3. ASSUME NEW t \in Links, links'[t].state = "live"
      PROVE  links'[t].user \in Ids /\ users[links'[t].user].state = "live"
  BY <1>1, <1>3 DEF Consistent
<1>4. Consistent(users', links')
  BY <1>1, <1>3 DEF Consistent
<1>5. Grows(Clients)
  BY <1>1, <1>2 DEF Grows
<1> QED
  BY <1>1, <1>4, <1>5 DEF Tables

LEMMA MarkOne ==
  ASSUME TypeOK, UNCHANGED <<users, overtaken>>, NEW t \in Links, NEW k \in Link,
         k.state = links[t].state, k.user = links[t].user,
         links[t].consumed => k.consumed, links[t].revoked => k.revoked,
         links' = [links EXCEPT ![t] = k]
  PROVE  Tables' /\ Grows(Clients)
<1>1. links \in [Links -> Link]
  BY DEF TypeOK
<1>2. links' \in [Links -> Link] /\ links'[t] = k /\ \A s \in Links \ {t} : links'[s] = links[s]
  BY <1>1
<1>3. ASSUME NEW s \in Links
      PROVE  /\ links'[s].state = links[s].state /\ links'[s].user = links[s].user
             /\ DeadIn(links, s) => DeadIn(links', s)
  BY <1>2 DEF DeadIn
<1> QED
  BY <1>2, <1>3, Marking

LEMMA MarkedLinks ==
  ASSUME NEW k \in Link
  PROVE  /\ LET m == [k EXCEPT !.revoked = TRUE]
            IN m \in Link /\ m.state = k.state /\ m.user = k.user /\ m.consumed = k.consumed /\ m.revoked
         /\ LET m == [k EXCEPT !.consumed = TRUE]
            IN m \in Link /\ m.state = k.state /\ m.user = k.user /\ m.revoked = k.revoked /\ m.consumed
         /\ LET m == [k EXCEPT !.expired = TRUE]
            IN m \in Link /\ m.state = k.state /\ m.user = k.user /\ m.revoked = k.revoked /\ m.consumed = k.consumed
         /\ \A known \in BOOLEAN : LET m == [k EXCEPT !.known = known]
            IN m \in Link /\ m.state = k.state /\ m.user = k.user /\ m.revoked = k.revoked /\ m.consumed = k.consumed
BY DEF Link

LEMMA LinkExpiresKeeps ==
  ASSUME Inv, NEW t \in Links, LinkExpires(t)
  PROVE  Inv'
<1>0. TypeOK /\ Aside
  BY TypeParts DEF Inv
<1>1. PICK k \in Link : k = links[t]
  BY <1>0 DEF TypeOK
<1> DEFINE m == [k EXCEPT !.expired = TRUE]
<1>2. m \in Link /\ m.state = k.state /\ m.user = k.user /\ m.revoked = k.revoked /\ m.consumed = k.consumed
  BY MarkedLinks
<1>3. links' = [links EXCEPT ![t] = m] /\ UNCHANGED <<users, overtaken, pc, local, preflight>>
  BY <1>1 DEF LinkExpires
<1> HIDE DEF m
<1>4. Tables' /\ Grows(Clients)
  BY <1>0, <1>1, <1>2, <1>3, MarkOne
<1>5. Aside'
  BY <1>0 DEF LinkExpires, Aside
<1>6. TypeOK'
  BY <1>0, <1>3, <1>4, <1>5 DEF TypeOK, Tables, Aside
<1>7. ASSUME NEW d \in Clients PROVE Fine(d)'
  <2>1. Placed(pc[d], local[d], preflight[d]) /\ Finishing(d, pc[d], local[d], users, links, overtaken)
    BY DEF Inv, Fine
  <2>2. Finishing(d, pc[d], local[d], users', links', overtaken')
    BY <1>0, <1>4, <2>1, OthersFinish
  <2> QED
    BY <1>3, <2>1, <2>2 DEF Fine
<1> QED
  BY <1>6, <1>7 DEF Inv

(* What the others keep, the client that moves keeps as well, as long as   *)
(* it stays at its place. *)
LEMMA OwnFinish ==
  ASSUME Inv, NEW c \in Clients, Tables', Grows(Clients)
  PROVE  /\ Finishing(c, pc[c], local[c], users', links', overtaken')
         /\ Grows(Clients \ {c})
<1>1. Finishing(c, pc[c], local[c], users, links, overtaken) /\ TypeOK
  BY DEF Inv, Fine
<1>2. Finishing(c, pc[c], local[c], users', links', overtaken')
  BY <1>1, OthersFinish
<1>3. Grows(Clients \ {c})
  BY DEF Grows
<1> QED
  BY <1>2, <1>3

LEMMA IssueKeeps ==
  ASSUME Inv, NEW c \in Clients, ForgotCount(c) \/ IssueList(c) \/ CreateLink(c) \/ Deliver(c)
  PROVE  Inv'
<1>0. TypeOK /\ Aside /\ Fine(c)
  BY TypeParts DEF Inv
<1> PICK l \in Local : l = local[c]
  BY <1>0 DEF TypeOK
<1>1. CASE ForgotCount(c)
  <2>1. l.email \in Emails
    BY <1>0, <1>1 DEF ForgotCount, At, Fine, Placed
  <2>2. bucket' = [bucket EXCEPT ![l.email] = l.count] /\ l.count \in Nat
    BY <1>1 DEF ForgotCount, Local
  <2>3. Aside' /\ preflight' = preflight /\ UNCHANGED <<users, links, overtaken>>
    BY <1>0, <1>1, <2>1, <2>2 DEF ForgotCount, Aside
  <2>4. \/ Goto(c, "idle", NoLocal)
        \/ \E i \in Ids : Goto(c, "issue", [Issue(i, "password_reset") EXCEPT !.count = l.count])
    BY <1>0, <1>1, LiveRows DEF ForgotCount, ToIdle
  <2>5. ASSUME NEW i \in Ids, Goto(c, "issue", [Issue(i, "password_reset") EXCEPT !.count = l.count])
        PROVE  Inv'
    <3> DEFINE k == [Issue(i, "password_reset") EXCEPT !.count = l.count]
    <3>1. k \in Local /\ k.next = "idle"
      BY ONLY i \in Ids, l.count \in Nat, Nothing DEF Local, Issue, Purposes
    <3>2. Goto(c, "issue", k)
      BY <2>5
    <3> HIDE DEF k
    <3>3. Moves(c, "issue", k)
      BY <2>3, <3>2 DEF Goto, Moves
    <3>4. Placed("issue", k, preflight'[c]) /\ Finishing(c, "issue", k, users, links, overtaken)
      BY DEF Placed, Finishing, Tail
    <3> QED
      BY <2>3, <3>1, <3>3, <3>4, QuietKeeps DEF Pc
  <2> QED
    BY <2>3, <2>4, <2>5, EndKeeps
<1>2. CASE IssueList(c)
  <2>1. PICK s \in SUBSET Links : s = ActiveOf(l.id, {l.purpose})
    BY DEF ActiveOf
  <2> DEFINE k == [l EXCEPT !.todo = s, !.next = "create"]
  <2>2. k \in Local /\ k.next = "create"
    BY ONLY l \in Local, s \in SUBSET Links DEF Local, Nexts
  <2>3. Goto(c, "revoke", k)
    BY <1>2, <2>1 DEF IssueList
  <2> HIDE DEF k
  <2>4. Aside' /\ preflight' = preflight /\ UNCHANGED <<users, links, overtaken>>
    BY <1>0, <1>2 DEF IssueList, Aside
  <2>5. Moves(c, "revoke", k)
    BY <2>3, <2>4 DEF Goto, Moves
  <2>6. Placed("revoke", k, preflight'[c]) /\ Finishing(c, "revoke", k, users, links, overtaken)
    BY <2>2 DEF Placed, Finishing, Tail
  <2> QED
    BY <2>2, <2>4, <2>5, <2>6, QuietKeeps DEF Pc
<1>3. CASE CreateLink(c)
  <2>0. Aside' /\ preflight' = preflight /\ UNCHANGED <<users, overtaken>>
    BY <1>0, <1>3 DEF CreateLink, Aside
  <2>1. CASE links' = links /\ ToIdle(c)
    BY <2>0, <2>1, EndKeeps DEF ToIdle
  <2>2. CASE ~(links' = links /\ ToIdle(c))
    <3>1. l.id \in Live
      BY <1>3, <2>2 DEF CreateLink
    <3>2. PICK t \in Links :
            /\ links[t].state = "unborn"
            /\ links' = [links EXCEPT ![t] = [NoLink EXCEPT
                 !.state = "live", !.user = l.id, !.purpose = l.purpose]]
            /\ Goto(c, "deliver", [l EXCEPT !.link = t])
      BY <1>3, <3>1 DEF CreateLink
    <3> DEFINE k == [l EXCEPT !.link = t]
               m == [NoLink EXCEPT !.state = "live", !.user = l.id, !.purpose = l.purpose]
    <3>3. k \in Local /\ k.link = t
      BY ONLY l \in Local, t \in Links DEF Local
    <3>4. l.id \in Ids /\ users[l.id].state = "live" /\ l.purpose \in Purposes
      BY <1>0, <3>1, LiveRows DEF Local
    <3>5. m \in Link /\ m.state = "live" /\ m.user = l.id
      BY ONLY <3>4, EmptyRows DEF Link
    <3>7. links' = [links EXCEPT ![t] = m] /\ Goto(c, "deliver", k)
      BY <3>2
    <3> HIDE DEF k, m
    <3>8. links' \in [Links -> Link] /\ links'[t] = m /\ \A s \in Links \ {t} : links'[s] = links[s]
      BY <1>0, <3>5, <3>7 DEF TypeOK
    <3>6. \A s \in Links :
            /\ links[s].state # "unborn" =>
                 /\ links'[s].state = links[s].state /\ links'[s].user = links[s].user
                 /\ DeadIn(links, s) => DeadIn(links', s)
            /\ links[s].state = "unborn" /\ links'[s].state = "live" =>
                 links'[s].user \in Ids /\ users[links'[s].user].state = "live"
      BY <3>2, <3>4, <3>5, <3>8 DEF DeadIn
    <3>9. Tables' /\ Grows(Clients)
      BY <1>0, <2>0, <3>6, <3>8, Marking
    <3>10. Moves(c, "deliver", k) /\ Grows(Clients \ {c})
      BY <2>0, <3>7, <3>9, OwnFinish DEF Goto, Moves
    <3>11. Placed("deliver", k, preflight'[c]) /\ Finishing(c, "deliver", k, users', links', overtaken')
      BY <3>3 DEF Placed, Finishing, Tail
    <3> QED
      BY <2>0, <3>3, <3>9, <3>10, <3>11, StepKeeps DEF Pc
  <2> QED
    BY <2>1, <2>2
<1>4. CASE Deliver(c)
  <2>0. Aside' /\ preflight' = preflight /\ UNCHANGED <<users, overtaken>> /\ Goto(c, "idle", NoLocal)
    BY <1>0, <1>4 DEF Deliver, Aside, ToIdle
  <2>1. l.link \in Links
    BY <1>0, <1>4 DEF Deliver, At, Fine, Placed
  <2>2. \/ links' = links
        \/ \E known \in BOOLEAN : links' = [links EXCEPT ![l.link].known = known]
    <3>1. mail \in {"disabled", "manual-link", "smtp"}
      BY <1>0 DEF Aside, Modes
    <3>2. (l.count = 0) \in BOOLEAN
      OBVIOUS
    <3> QED
      BY <1>4, <3>1, <3>2 DEF Deliver, SendSmtp
  <2>3. CASE links' = links
    BY <2>0, <2>3, EndKeeps
  <2>4. ASSUME NEW known \in BOOLEAN, links' = [links EXCEPT ![l.link].known = known]
        PROVE  Inv'
    <3>1. PICK k \in Link : k = links[l.link]
      BY <1>0, <2>1 DEF TypeOK
    <3> DEFINE m == [k EXCEPT !.known = known]
    <3>2. m \in Link /\ m.state = k.state /\ m.user = k.user /\ m.revoked = k.revoked /\ m.consumed = k.consumed
      BY MarkedLinks
    <3>3. links' = [links EXCEPT ![l.link] = m]
      BY <2>4, <3>1
    <3> HIDE DEF m
    <3>4. Tables' /\ Grows(Clients)
      BY <1>0, <2>0, <2>1, <3>1, <3>2, <3>3, MarkOne
    <3> QED
      BY <2>0, <3>4, OwnFinish, EndingKeeps
  <2> QED
    BY <2>2, <2>3, <2>4
<1> QED
  BY <1>1, <1>2, <1>3, <1>4

(* The steps of a completion. *)
LEMMA CompleteKeeps ==
  ASSUME Inv, NEW c \in Clients, CompleteAccount(c)
  PROVE  Inv'
<1>0. TypeOK /\ Aside /\ Fine(c) /\ pc[c] = "complete"
  BY TypeParts DEF Inv, CompleteAccount, At
<1> PICK l \in Local : l = local[c]
  BY <1>0 DEF TypeOK
<1>1. /\ l.id \in Ids /\ l.new \in User /\ l.base \in User /\ l.new.state = "live"
      /\ l.link \in Links /\ l.new.version = l.base.version + 1
  BY <1>0 DEF Fine, Placed, Local
<1>2. SaveUser(c, l.base, l.new, "consume") /\ links' = links /\ preflight' = preflight /\ Aside'
  BY <1>0 DEF CompleteAccount, Aside
<1>3. /\ Tables' /\ Grows(Clients \ {c})
      /\ \/ Goto(c, "idle", NoLocal)
         \/ /\ users[l.id].state = "live" /\ Goto(c, "consume", l)
            /\ users' = [users EXCEPT ![l.id] = Merge(users[l.id], l.base, l.new)]
            /\ c \notin overtaken'
  <2>1. PICK b \in User, u \in User : b = l.base /\ u = l.new
    BY <1>1
  <2>2. PICK at \in Pc : at = "consume"
    BY DEF Pc
  <2>3. SaveUser(c, b, u, at) /\ u.state = "live"
    BY <1>1, <1>2, <2>1, <2>2
  <2>4. l.id \in Ids /\ links' = links
    BY <1>1, <1>2
  <2>5. Tables' /\ Grows(Clients \ {c}) /\ Saved(c, l, b, u, at)
    BY <2>3, <2>4, Saving
  <2> QED
    BY <2>1, <2>2, <2>5 DEF Saved
<1>4. CASE Goto(c, "idle", NoLocal)
  BY <1>2, <1>3, <1>4, EndingKeeps
<1>5. CASE /\ users[l.id].state = "live" /\ Goto(c, "consume", l)
           /\ users' = [users EXCEPT ![l.id] = Merge(users[l.id], l.base, l.new)]
           /\ c \notin overtaken'
  <2>1. Moves(c, "consume", l) /\ Placed("consume", l, preflight'[c])
    BY <1>1, <1>2, <1>5 DEF Goto, Moves, Placed
  <2>2. users'[l.id].state # "unborn" /\ users'[l.id].version > l.base.version
    <3>1. users[l.id] \in User /\ users'[l.id] = Merge(users[l.id], l.base, l.new)
      BY <1>0, <1>1, <1>5 DEF TypeOK
    <3>2. /\ users'[l.id].state = Written(users[l.id].state, l.base.state, l.new.state)
          /\ users'[l.id].version = Written(users[l.id].version, l.base.version, l.new.version)
      BY <1>1, <3>1, MergeUser
    <3>3. l.base.version \in Nat
      BY <1>1 DEF User
    <3> QED
      BY <1>1, <1>5, <3>2, <3>3 DEF Written
  <2>3. l.id \in Ids /\ \A t \in l.seen : links[t].state # "unborn" /\ links[t].user = l.id
    BY <1>0 DEF Fine, Finishing
  <2>4. Finishing(c, "consume", l, users', links', overtaken')
    BY <1>2, <2>2, <2>3 DEF Finishing, Tail
  <2> QED
    BY <1>2, <1>3, <2>1, <2>4, StepKeeps DEF Pc
<1> QED
  BY <1>3, <1>4, <1>5

LEMMA RetireKeeps ==
  ASSUME Inv, NEW c \in Clients, ConsumeLink(c) \/ RetireLinks(c) \/ Completed(c)
  PROVE  Inv'
<1>0. TypeOK /\ Aside /\ Fine(c)
  BY TypeParts DEF Inv
<1> PICK l \in Local : l = local[c]
  BY <1>0 DEF TypeOK
<1>1. Aside' /\ preflight' = preflight /\ UNCHANGED <<users, overtaken>>
  BY <1>0 DEF ConsumeLink, RetireLinks, Completed, Aside
<1>2. CASE ConsumeLink(c)
  <2>1. l.link \in Links /\ pc[c] = "consume"
    BY <1>0, <1>2 DEF ConsumeLink, At, Fine, Placed
  <2>2. CASE links' = links /\ ToIdle(c)
    BY <1>1, <2>2, EndKeeps DEF ToIdle
  <2>3. CASE links' = [links EXCEPT ![l.link].consumed = TRUE] /\ Goto(c, "retire", l)
    <3>1. PICK k \in Link : k = links[l.link]
      BY <1>0, <2>1 DEF TypeOK
    <3> DEFINE m == [k EXCEPT !.consumed = TRUE]
    <3>2. m \in Link /\ m.state = k.state /\ m.user = k.user /\ m.revoked = k.revoked /\ m.consumed
      BY MarkedLinks
    <3>3. links' = [links EXCEPT ![l.link] = m]
      BY <2>3, <3>1
    <3> HIDE DEF m
    <3>4. Tables' /\ Grows(Clients)
      BY <1>0, <1>1, <2>1, <3>1, <3>2, <3>3, MarkOne
    <3>5. Finishing(c, "consume", l, users', links', overtaken') /\ Grows(Clients \ {c})
      BY <2>1, <3>4, OwnFinish
    <3>6. Finishing(c, "retire", l, users', links', overtaken') /\ Placed("retire", l, preflight'[c])
      BY <3>5 DEF Finishing, Tail, Placed
    <3>7. Moves(c, "retire", l)
      BY <1>1, <2>3 DEF Goto, Moves
    <3> QED
      BY <1>1, <3>4, <3>5, <3>6, <3>7, StepKeeps DEF Pc
  <2> QED
    BY <1>2, <2>2, <2>3 DEF ConsumeLink
<1>3. CASE RetireLinks(c)
  <2>1. PICK s \in SUBSET Links : s = ActiveOf(l.id, Purposes)
    BY DEF ActiveOf
  <2> DEFINE k == [l EXCEPT !.todo = s, !.next = "retired"]
  <2>2. k \in Local
    BY ONLY l \in Local, s \in SUBSET Links DEF Local, Nexts
  <2>3. k.todo = s /\ k.next = "retired" /\ k.seen = l.seen /\ k.id = l.id /\ k.base = l.base
    BY ONLY l \in Local DEF Local
  <2>4. Goto(c, "revoke", k) /\ links' = links /\ pc[c] = "retire"
    BY <1>3, <2>1 DEF RetireLinks, At
  <2> HIDE DEF k
  <2>5. Finishing(c, "retire", l, users, links, overtaken)
    BY <1>0, <2>4 DEF Fine
  <2>6. \A t \in l.seen : t \in s \/ DeadIn(links, t)
    <3>1. ASSUME NEW t \in l.seen, ~DeadIn(links, t) PROVE t \in s
      <4>1. t \in Links /\ links[t] \in Link /\ links[t].state # "unborn" /\ links[t].user = l.id
        BY <1>0, <2>5 DEF Finishing, Tail, TypeOK, Local
      <4>2. Active(t) /\ links[t].purpose \in Purposes
        BY <3>1, <4>1 DEF Active, DeadIn, Link
      <4> QED
        BY <2>1, <4>1, <4>2 DEF ActiveOf
    <3> QED
      BY <3>1
  <2>7. Finishing(c, "revoke", k, users, links, overtaken)
    BY <2>3, <2>5, <2>6 DEF Finishing, Tail
  <2>8. Moves(c, "revoke", k) /\ Placed("revoke", k, preflight'[c])
    BY <1>1, <2>3, <2>4 DEF Goto, Moves, Placed
  <2> QED
    BY <1>1, <2>2, <2>4, <2>7, <2>8, QuietKeeps DEF Pc
<1>4. CASE Completed(c)
  BY <1>1, <1>4, EndKeeps DEF Completed, ToIdle
<1> QED
  BY <1>2, <1>3, <1>4

LEMMA RevokeKeeps ==
  ASSUME Inv, NEW c \in Clients, RevokeNext(c)
  PROVE  Inv'
<1>0. TypeOK /\ Aside /\ Fine(c) /\ pc[c] = "revoke"
  BY TypeParts DEF Inv, RevokeNext, At
<1> PICK l \in Local : l = local[c]
  BY <1>0 DEF TypeOK
<1>1. Aside' /\ preflight' = preflight /\ UNCHANGED <<users, overtaken>>
  BY <1>0 DEF RevokeNext, Aside
<1>2. /\ l.next \in {"idle", "create", "retired"} /\ l.todo \in SUBSET Links
      /\ Finishing(c, "revoke", l, users, links, overtaken)
  BY <1>0 DEF Fine, Placed, Local
<1>3. CASE links' = links /\ ToIdle(c)
  BY <1>1, <1>3, EndKeeps DEF ToIdle
<1>4. CASE l.todo = {} /\ links' = links /\ Goto(c, l.next, l) /\ l.next # "idle"
  <2>1. Moves(c, l.next, l) /\ Placed(l.next, l, preflight'[c])
    BY <1>1, <1>2, <1>4 DEF Goto, Moves, Placed
  <2>2. Finishing(c, l.next, l, users, links, overtaken)
    BY <1>2, <1>4 DEF Finishing, Tail
  <2> QED
    BY <1>1, <1>2, <1>4, <2>1, <2>2, QuietKeeps DEF Pc
<1>5. CASE l.todo = {} /\ links' = links /\ Goto(c, l.next, l) /\ l.next = "idle"
  BY <1>1, <1>5, EndKeeps
<1>6. ASSUME NEW t \in l.todo, links' = [links EXCEPT ![t].revoked = TRUE],
             Goto(c, "revoke", [l EXCEPT !.todo = @ \ {t}])
      PROVE  Inv'
  <2>1. PICK k \in Link : k = links[t]
    BY <1>0, <1>2 DEF TypeOK
  <2> DEFINE m == [k EXCEPT !.revoked = TRUE]
             n == [l EXCEPT !.todo = @ \ {t}]
  <2>2. m \in Link /\ m.state = k.state /\ m.user = k.user /\ m.consumed = k.consumed /\ m.revoked
    BY MarkedLinks
  <2>3. links' = [links EXCEPT ![t] = m] /\ t \in Links /\ Goto(c, "revoke", n)
    BY <1>2, <1>6, <2>1
  <2>4. n \in Local
    BY ONLY l \in Local DEF Local
  <2>5. n.todo = l.todo \ {t} /\ n.next = l.next /\ n.seen = l.seen /\ n.id = l.id /\ n.base = l.base
    BY ONLY l \in Local DEF Local
  <2> HIDE DEF m, n
  <2>6. Tables' /\ Grows(Clients)
    BY <1>0, <1>1, <2>1, <2>2, <2>3, MarkOne
  <2>7. Finishing(c, "revoke", l, users', links', overtaken') /\ Grows(Clients \ {c})
    BY <1>0, <2>6, OwnFinish
  <2>8. DeadIn(links', t)
    <3>1. links'[t] = m
      BY <1>0, <2>3 DEF TypeOK
    <3> QED
      BY <2>2, <3>1 DEF DeadIn
  <2>9. Finishing(c, "revoke", n, users', links', overtaken')
    BY <2>5, <2>7, <2>8 DEF Finishing, Tail
  <2>10. Moves(c, "revoke", n) /\ Placed("revoke", n, preflight'[c])
    BY <1>1, <1>2, <2>3, <2>5 DEF Goto, Moves, Placed
  <2> QED
    BY <1>1, <2>4, <2>6, <2>7, <2>9, <2>10, StepKeeps DEF Pc
<1> QED
  BY <1>3, <1>4, <1>5, <1>6 DEF RevokeNext

-----------------------------------------------------------------------------
(* Settings.                                                                *)

LEMMA MailKeeps ==
  ASSUME Inv, NEW c \in Clients, UpdateEmailSettings(c) \/ MailSave(c)
  PROVE  Inv'
<1>0. TypeOK /\ Aside
  BY TypeParts DEF Inv
<1>1. CASE UpdateEmailSettings(c)
  <2>1. PICK m \in Modes : Goto(c, "mail_save", [NoLocal EXCEPT !.mode = m])
    BY <1>1 DEF UpdateEmailSettings
  <2> DEFINE l == [NoLocal EXCEPT !.mode = m]
  <2>2. l \in Local /\ l.next = "idle"
    BY ONLY m \in Modes, Nothing DEF Local
  <2>3. Begin(c, "mail") /\ Still /\ Goto(c, "mail_save", l)
    BY <1>1, <2>1 DEF UpdateEmailSettings, Still
  <2> HIDE DEF l
  <2>4. Placed("mail_save", l, preflight[c]) /\ Fresh("mail_save") /\ l.next # "retired"
    BY <2>2 DEF Placed, Fresh, Pc
  <2> QED
    BY <2>2, <2>3, <2>4, BeginKeeps DEF Still
<1>2. CASE MailSave(c)
  <2>1. local[c].mode \in Modes
    BY <1>0 DEF TypeOK, Local
  <2>2. Aside' /\ preflight' = preflight /\ UNCHANGED <<users, links, overtaken>>
    BY <1>0, <1>2, <2>1 DEF MailSave, Aside
  <2> QED
    BY <1>2, <2>2, EndKeeps DEF MailSave, ToIdle
<1> QED
  BY <1>1, <1>2

(* A preflight waits in the session. *)
LEMMA PreflightBegins ==
  ASSUME Inv, NEW c \in Clients, NEW op, Begin(c, op), session[c] # None,
         NEW config \in Configs, StartPreflight(c, config),
         UNCHANGED <<users, links, oidc, mail, bucket, session, crashes, overtaken>>
  PROVE  Inv'
<1>0. TypeOK /\ Aside
  BY TypeParts DEF Inv
<1>1. session[c] \in Session
  BY <1>0 DEF Aside
<1>2. PICK r \in [email : Emails, config : Configs] : r = [email |-> session[c].email, config |-> config]
  BY <1>1 DEF Session
<1>3. preflight' = [preflight EXCEPT ![c] = r] /\ UNCHANGED <<pc, local>>
  BY <1>2 DEF StartPreflight
<1>4. Aside' /\ \A d \in Clients \ {c} : preflight'[d] = preflight[d]
  BY <1>0, <1>3 DEF Aside, Begin
<1> QED
  BY <1>3, <1>4, StayKeeps DEF Begin, At

LEMMA AdminHasSession ==
  ASSUME NEW c \in Clients, AdminRequest(c)
  PROVE  session[c] # None
BY DEF AdminRequest, Admitted

LEMMA UpdatedType ==
  ASSUME TypeOK, NEW enabled \in BOOLEAN, NEW config \in Configs \cup {None}
  PROVE  Updated(enabled, config) \in Oidc /\ Updated(enabled, config).enabled = enabled
<1>1. oidc.config \in Configs \cup {None}
  BY DEF TypeOK, Oidc
<1>2. (IF config = None THEN oidc.config ELSE config) \in Configs \cup {None}
  BY <1>1
<1> QED
  BY <1>2 DEF Updated, Oidc

LEMMA OidcBegins ==
  ASSUME Inv, NEW c \in Clients, StartOidcPreflight(c) \/ PutOidcSettings(c)
  PROVE  Inv'
<1>0. TypeOK /\ Aside
  BY TypeParts DEF Inv
<1>1. CASE StartOidcPreflight(c)
  <2>1. PICK config \in Configs : StartPreflight(c, config)
    BY <1>1 DEF StartOidcPreflight
  <2>2. Begin(c, "preflight") /\ session[c] # None
        /\ UNCHANGED <<users, links, oidc, mail, bucket, session, crashes, overtaken>>
    BY <1>1, AdminHasSession DEF StartOidcPreflight
  <2> QED
    BY <2>1, <2>2, PreflightBegins
<1>2. CASE PutOidcSettings(c)
  <2>1. PICK enabled \in BOOLEAN, config \in Configs \cup {None} :
          /\ enabled => config # None
          /\ IF enabled /\ ~oidc.enabled
             THEN StartPreflight(c, config)
             ELSE /\ Goto(c, "oidc_load", Asked(enabled, config))
                  /\ preflight' = preflight
    BY <1>2 DEF PutOidcSettings
  <2>2. Begin(c, "oidc") /\ session[c] # None
        /\ UNCHANGED <<users, links, oidc, mail, bucket, session, crashes, overtaken>>
    BY <1>2, AdminHasSession DEF PutOidcSettings
  <2>3. CASE enabled /\ ~oidc.enabled
    BY <2>1, <2>2, <2>3, PreflightBegins
  <2>4. CASE ~(enabled /\ ~oidc.enabled)
    <3>1. oidc.enabled \in BOOLEAN /\ [enabled |-> enabled, config |-> config] \in Oidc
      BY <1>0 DEF Aside, Oidc
    <3>2. PICK w \in Oidc, f \in BOOLEAN :
            /\ f = oidc.enabled /\ w.enabled = enabled
            /\ w = IF oidc.enabled THEN Updated(enabled, config)
                   ELSE [enabled |-> enabled, config |-> config]
      BY <1>0, <3>1, UpdatedType
    <3> DEFINE l == [NoLocal EXCEPT !.found = f, !.will = w]
    <3>3. l \in Local /\ l.next = "idle" /\ l.found = f /\ l.will = w
      BY ONLY f \in BOOLEAN, w \in Oidc, Nothing DEF Local
    <3>4. Goto(c, "oidc_load", l) /\ Still
      BY <2>1, <2>2, <2>4, <3>2 DEF Still, Asked
    <3>5. w.enabled => f
      BY <2>4, <3>2
    <3> HIDE DEF l
    <3>6. Placed("oidc_load", l, preflight[c]) /\ Fresh("oidc_load") /\ l.next # "retired"
      BY <3>3, <3>5 DEF Placed, Fresh, Pc
    <3> QED
      BY <2>2, <3>3, <3>4, <3>6, BeginKeeps DEF Still
  <2> QED
    BY <2>3, <2>4
<1> QED
  BY <1>1, <1>2

LEMMA OidcLoads ==
  ASSUME Inv, NEW c \in Clients, OidcLoad(c)
  PROVE  Inv'
<1>0. TypeOK /\ Aside /\ Fine(c)
  BY TypeParts DEF Inv
<1> PICK l \in Local : l = local[c]
  BY <1>0 DEF TypeOK
<1>1. l.will \in Oidc /\ l.found \in BOOLEAN
  BY DEF Local
<1>2. l.will.enabled \in BOOLEAN /\ l.will.config \in Configs \cup {None}
  BY <1>1 DEF Oidc
<1>3. PICK v \in Oidc, w \in Oidc : /\ v = oidc /\ w = Updated(l.will.enabled, l.will.config)
                                    /\ w.enabled = l.will.enabled
  BY <1>0, <1>2, UpdatedType DEF Aside
<1>4. l.will.enabled => l.found
  BY <1>0 DEF OidcLoad, At, Fine, Placed
<1> DEFINE k == [l EXCEPT !.was = v, !.will = w]
<1>5. k \in Local /\ k.will = w /\ k.found = l.found
  BY ONLY l \in Local, v \in Oidc, w \in Oidc DEF Local
<1>6. Goto(c, "oidc_save", k) /\ preflight' = preflight /\ UNCHANGED <<users, links, overtaken>>
  BY <1>3 DEF OidcLoad
<1> HIDE DEF k
<1>7. Moves(c, "oidc_save", k) /\ Placed("oidc_save", k, preflight'[c])
  BY <1>3, <1>4, <1>5, <1>6 DEF Goto, Moves, Placed
<1>8. Finishing(c, "oidc_save", k, users, links, overtaken) /\ Aside'
  BY <1>0 DEF Finishing, Tail, Aside, OidcLoad
<1> QED
  BY <1>5, <1>6, <1>7, <1>8, QuietKeeps DEF Pc

LEMMA OidcWrites ==
  ASSUME Inv, NEW c \in Clients, OidcSave(c) \/ PreflightSettings(c)
  PROVE  Inv'
<1>0. TypeOK /\ Aside /\ Fine(c)
  BY TypeParts DEF Inv
<1>1. local[c].was \in Oidc /\ local[c].will \in Oidc /\ oidc \in Oidc
  BY <1>0 DEF TypeOK, Local
<1>2. oidc' \in Oidc
  <2>1. oidc' = Merge(oidc, local[c].was, local[c].will)
    BY DEF OidcSave, PreflightSettings
  <2> QED
    BY <1>1, <2>1, MergeOidc
<1>3. CASE OidcSave(c)
  <2>1. Aside' /\ preflight' = preflight /\ UNCHANGED <<users, links, overtaken>>
    BY <1>0, <1>2, <1>3 DEF OidcSave, Aside
  <2> QED
    BY <1>3, <2>1, EndKeeps DEF OidcSave, ToIdle
<1>4. CASE PreflightSettings(c)
  <2>1. preflight[c] \in [email : Emails, config : Configs]
    BY <1>0, <1>4 DEF PreflightSettings, At, Fine, Placed, Aside
  <2>2. PICK s \in Session : s = [email |-> preflight[c].email, provider |-> "oidc", version |-> 0]
    BY <2>1 DEF Session
  <2>3. session' = [session EXCEPT ![c] = s] /\ preflight' = [preflight EXCEPT ![c] = None]
    BY <1>4, <2>2 DEF PreflightSettings, Forget
  <2>4. /\ Aside' /\ UNCHANGED <<users, links, overtaken>>
        /\ \A d \in Clients \ {c} : preflight'[d] = preflight[d]
    BY <1>0, <1>2, <1>4, <2>3 DEF PreflightSettings, Aside
  <2> QED
    BY <1>4, <2>4, EndKeeps DEF PreflightSettings, ToIdle
<1> QED
  BY <1>3, <1>4

LEMMA PreflightCallbackKeeps ==
  ASSUME Inv, NEW c \in Clients, PreflightCallback(c)
  PROVE  Inv'
<1>0. TypeOK /\ Aside
  BY TypeParts DEF Inv
<1>1. Begin(c, "callback") /\ preflight[c] # None
      /\ UNCHANGED <<users, links, oidc, mail, bucket, session, crashes, overtaken>>
  BY DEF PreflightCallback
<1>2. PICK e \in Emails : e = preflight[c].email
  BY <1>0, <1>1 DEF Aside
<1> DEFINE bind(u) == [u EXCEPT !.email = e, !.role = "admin", !.provider = "oidc",
                                !.subject = e, !.active = TRUE]
<1>3. \/ /\ \E i \in AccountOf([email |-> e, provider |-> "oidc"]) :
              Goto(c, "pre_account", [NoLocal EXCEPT !.id = i, !.base = users[i], !.new = bind(users[i])])
         /\ preflight' = preflight
      \/ /\ Goto(c, "pre_account", [NoLocal EXCEPT !.new = bind(NewUser(e, "admin", "oidc", FALSE, TRUE))])
         /\ preflight' = preflight
      \/ Forget(c) /\ UNCHANGED <<pc, local>>
  BY <1>2 DEF PreflightCallback
<1>4. ASSUME NEW l \in Local, Goto(c, "pre_account", l), preflight' = preflight, l.next = "idle",
             l.new.state = "live"
      PROVE  Inv'
  <2>1. Placed("pre_account", l, preflight[c]) /\ Fresh("pre_account") /\ l.next # "retired"
    BY <1>1, <1>4 DEF Placed, Fresh, Pc
  <2> QED
    BY <1>1, <1>4, <2>1, BeginKeeps
<1>5. ASSUME NEW i \in AccountOf([email |-> e, provider |-> "oidc"]), preflight' = preflight,
             Goto(c, "pre_account", [NoLocal EXCEPT !.id = i, !.base = users[i], !.new = bind(users[i])])
      PROVE  Inv'
  <2>1. PICK b \in User : b = users[i] /\ b.state = "live" /\ i \in Ids
    BY <1>0, LiveRows
  <2>2. PICK w \in User : w = bind(b) /\ w.state = "live"
    <3>1. bind(b) \in User /\ bind(b).state = "live"
      BY ONLY <2>1, b \in User, e \in Emails DEF User
    <3> QED
      BY <3>1
  <2> DEFINE l == [NoLocal EXCEPT !.id = i, !.base = b, !.new = w]
  <2>3. l \in Local /\ l.next = "idle" /\ l.new = w
    BY ONLY <2>1, b \in User, w \in User, Nothing DEF Local
  <2>4. Goto(c, "pre_account", l)
    BY <1>5, <2>1, <2>2
  <2> HIDE DEF l
  <2> QED
    BY <1>4, <1>5, <2>2, <2>3, <2>4
<1>6. ASSUME Goto(c, "pre_account", [NoLocal EXCEPT !.new = bind(NewUser(e, "admin", "oidc", FALSE, TRUE))]),
             preflight' = preflight
      PROVE  Inv'
  <2>1. PICK b \in User : b = NewUser(e, "admin", "oidc", FALSE, TRUE) /\ b.state = "live"
    BY NewUsers
  <2>2. PICK w \in User : w = bind(b) /\ w.state = "live"
    <3>1. bind(b) \in User /\ bind(b).state = "live"
      BY ONLY <2>1, b \in User, e \in Emails DEF User
    <3> QED
      BY <3>1
  <2> DEFINE l == [NoLocal EXCEPT !.new = w]
  <2>3. l \in Local /\ l.next = "idle" /\ l.new = w
    BY ONLY w \in User, Nothing DEF Local
  <2>4. Goto(c, "pre_account", l)
    BY <1>6, <2>1, <2>2
  <2> HIDE DEF l
  <2> QED
    BY <1>4, <1>6, <2>2, <2>3, <2>4
<1>7. CASE Forget(c) /\ UNCHANGED <<pc, local>>
  <2>1. Aside' /\ \A d \in Clients \ {c} : preflight'[d] = preflight[d]
    BY <1>0, <1>1, <1>7 DEF Aside, Begin, Forget
  <2> QED
    BY <1>1, <1>7, <2>1, StayKeeps DEF Begin, At
<1> HIDE DEF bind
<1> QED
  BY <1>3, <1>5, <1>6, <1>7

LEMMA PreflightSteps ==
  ASSUME Inv, NEW c \in Clients, PreflightAccount(c) \/ PreflightLoad(c)
  PROVE  Inv'
<1>0. TypeOK /\ Aside /\ Fine(c)
  BY TypeParts DEF Inv
<1> PICK l \in Local : l = local[c]
  BY <1>0 DEF TypeOK
<1>1. preflight[c] \in [email : Emails, config : Configs] /\ preflight[c] # None
  BY <1>0 DEF PreflightAccount, PreflightLoad, At, Fine, Placed, Aside
<1>2. CASE PreflightAccount(c)
  <2>1. l.new \in User /\ l.base \in User /\ l.new.state = "live" /\ l.id \in Ids \cup {None}
    BY <1>0, <1>2 DEF PreflightAccount, At, Fine, Placed, Local
  <2>2. /\ preflight' = preflight \/ preflight' = [preflight EXCEPT ![c] = None]
        /\ pc'[c] # "idle" => preflight' = preflight
    BY <1>2 DEF PreflightAccount, Forget
  <2>3. Aside' /\ \A d \in Clients \ {c} : preflight'[d] = preflight[d]
    BY <1>0, <1>2, <2>2 DEF Aside, PreflightAccount
  <2>4. /\ Tables' /\ Grows(Clients \ {c})
        /\ \/ Goto(c, "idle", NoLocal)
           \/ Goto(c, "pre_load", l)
           \/ \E i \in Ids : Goto(c, "pre_load", [l EXCEPT !.id = i])
    <3>1. PICK b \in User, u \in User, at \in Pc : b = l.base /\ u = l.new /\ at = "pre_load"
      BY <2>1 DEF Pc
    <3>2. CASE l.id = None
      <4>1. InsertUser(c, u, at) /\ UNCHANGED <<links, overtaken>> /\ u.state = "live"
        BY <1>2, <2>1, <3>1, <3>2 DEF PreflightAccount
      <4> QED
        BY <3>1, <4>1, Inserting
    <3>3. CASE l.id # None
      <4>1. SaveUser(c, b, u, at) /\ links' = links /\ u.state = "live" /\ l.id \in Ids
        BY <1>2, <2>1, <3>1, <3>3 DEF PreflightAccount
      <4> QED
        BY <3>1, <4>1, Saving DEF Saved
    <3> QED
      BY <3>2, <3>3
  <2>5. ASSUME NEW k \in Local, Goto(c, "pre_load", k) PROVE Inv'
    <3>1. pc'[c] = "pre_load"
      BY <1>0, <2>5 DEF Goto, TypeOK
    <3>2. Moves(c, "pre_load", k) /\ Placed("pre_load", k, preflight'[c])
      BY <1>1, <2>2, <2>5, <3>1 DEF Goto, Moves, Placed
    <3>3. Finishing(c, "pre_load", k, users', links', overtaken')
      BY DEF Finishing, Tail
    <3> QED
      BY <2>3, <2>4, <3>2, <3>3, StepKeeps DEF Pc
  <2>6. CASE Goto(c, "idle", NoLocal)
    BY <2>3, <2>4, <2>6, EndingKeeps
  <2>7. ASSUME NEW i \in Ids, Goto(c, "pre_load", [l EXCEPT !.id = i]) PROVE Inv'
    <3> DEFINE k == [l EXCEPT !.id = i]
    <3>1. k \in Local
      BY ONLY l \in Local, i \in Ids DEF Local
    <3>2. Goto(c, "pre_load", k)
      BY <2>7
    <3> HIDE DEF k
    <3> QED
      BY <2>5, <3>1, <3>2
  <2> QED
    BY <2>4, <2>5, <2>6, <2>7
<1>3. CASE PreflightLoad(c)
  <2>1. PICK v \in Oidc, w \in Oidc : v = oidc /\ w = Updated(TRUE, preflight[c].config)
    BY <1>0, <1>1, UpdatedType DEF Aside
  <2> DEFINE k == [l EXCEPT !.was = v, !.will = w]
  <2>2. k \in Local
    BY ONLY l \in Local, v \in Oidc, w \in Oidc DEF Local
  <2>3. Goto(c, "pre_settings", k) /\ preflight' = preflight /\ UNCHANGED <<users, links, overtaken>>
    BY <1>3, <2>1 DEF PreflightLoad
  <2> HIDE DEF k
  <2>4. Moves(c, "pre_settings", k) /\ Placed("pre_settings", k, preflight'[c])
    BY <1>1, <2>3 DEF Goto, Moves, Placed
  <2>5. Finishing(c, "pre_settings", k, users, links, overtaken) /\ Aside'
    BY <1>0, <1>3 DEF Finishing, Tail, Aside, PreflightLoad
  <2> QED
    BY <2>2, <2>3, <2>4, <2>5, QuietKeeps DEF Pc
<1> QED
  BY <1>2, <1>3

-----------------------------------------------------------------------------
(* The invariant.                                                           *)

LEMMA InitInv ==
  ASSUME Init
  PROVE  Inv
<1>1. PICK s \in Seeds : /\ users = s.users /\ links = s.links /\ oidc = s.oidc /\ mail = s.mail
                         /\ session = s.session
  BY DEF Init
<1>2. /\ users \in [Ids -> User] /\ links \in [Links -> Link] /\ Consistent(users, links)
      /\ oidc \in Oidc /\ mail \in Modes /\ session \in [Clients -> Session \cup {None}]
  BY <1>1, SeedsAssumption
<1>3. TypeOK
  BY <1>2, Nothing DEF Init, TypeOK, Pc
<1>4. \A c \in Clients : pc[c] = "idle"
  BY DEF Init
<1>5. \A c \in Clients : Fine(c)
  BY <1>4 DEF Fine, Placed, Finishing, Tail
<1> QED
  BY <1>3, <1>5 DEF Inv

LEMMA StepInv ==
  ASSUME Inv, [Next]_vars
  PROVE  Inv'
<1>1. ASSUME NEW c \in Clients, Access(c) PROVE Inv'
  BY <1>1, AccessBegins, AccessWrites, AccessSessions DEF Access
<1>2. ASSUME NEW c \in Clients, Lifecycle(c) PROVE Inv'
  BY <1>2, LifecycleBegins, UseLinkKeeps, IssueKeeps, CompleteKeeps, RetireKeeps, RevokeKeeps DEF Lifecycle
<1>3. ASSUME NEW c \in Clients, Settings(c) PROVE Inv'
  BY <1>3, MailKeeps, OidcBegins, OidcLoads, OidcWrites, PreflightCallbackKeeps,
     PreflightSteps DEF Settings
<1>4. ASSUME NEW c \in Clients, Crash(c) PROVE Inv'
  BY <1>4, CrashKeeps
<1>5. ASSUME NEW t \in Links, LinkExpires(t) PROVE Inv'
  BY <1>5, LinkExpiresKeeps
<1>6. ASSUME UNCHANGED vars PROVE Inv'
  BY <1>6 DEF vars, Inv, Fine, TypeOK
<1> QED
  BY <1>1, <1>2, <1>3, <1>4, <1>5, <1>6 DEF Next

(* Accounts, links, settings and locals keep their types, no two accounts  *)
(* have one address, and every link belongs to a live account, whatever    *)
(* requests come in between the commits of another.                        *)
THEOREM TypeCorrect == Spec => []TypeOK
<1>1. Inv => TypeOK
  BY DEF Inv
<1> QED
  BY InitInv, StepInv, <1>1, PTL DEF Spec

(* The inductive invariant: every handler holds what its place needs, and  *)
(* a request that completes a link has seen links of its account only,     *)
(* which are dead or on its list, and a version above the one it read      *)
(* unless it was overtaken.                                                *)
THEOREM Invariant == Spec => []Inv
BY InitInv, StepInv, PTL DEF Spec

LEMMA FinalWhenDone ==
  ASSUME Inv
  PROVE  CompletionIsFinal
<1> SUFFICES ASSUME NEW c \in Clients, pc[c] = "retired"
             PROVE  /\ \A t \in local[c].seen : Dead(t)
                    /\ c \notin overtaken => OldSessionsEnd(c)
  BY DEF CompletionIsFinal
<1>0. TypeOK /\ Finishing(c, "retired", local[c], users, links, overtaken)
  BY DEF Inv, Fine
<1> PICK l \in Local : l = local[c]
  BY <1>0 DEF TypeOK
<1>1. \A t \in l.seen : Dead(t)
  BY <1>0 DEF Finishing, DeadIn, Dead
<1>2. ASSUME c \notin overtaken, NEW d \in Clients, session[d] # None, session[d].provider = "local",
             session[d].version <= l.base.version, Admitted(d, l.id)
      PROVE  FALSE
  <2>1. session[d].version = users[l.id].version
    BY <1>2 DEF Admitted
  <2>2. users[l.id].version > l.base.version /\ l.id \in Ids
    BY <1>0, <1>2 DEF Finishing, Tail
  <2>3. users[l.id].version \in Nat /\ l.base.version \in Nat
    <3>1. users[l.id] \in User /\ l.base \in User
      BY <1>0, <2>2 DEF TypeOK, Local
    <3> QED
      BY <3>1 DEF User
  <2> QED
    BY <1>2, <2>1, <2>2, <2>3
<1>3. c \notin overtaken => OldSessionsEnd(c)
  BY <1>2 DEF OldSessionsEnd
<1> QED
  BY <1>1, <1>3

(* When a completed link has answered, every link its account had when it  *)
(* began is dead, and no older local session gets in unless an older       *)
(* credential version was saved since: for any number of concurrent        *)
(* requests, administrators, crashes and links.                            *)
THEOREM LastWord == Spec => []CompletionIsFinal
BY InitInv, StepInv, FinalWhenDone, PTL DEF Spec

-----------------------------------------------------------------------------
(* What has been taken away does not come back.                             *)

LEMMA OidcWriters ==
  ASSUME [Next]_vars
  PROVE  oidc' = oidc \/ \E c \in Clients : OidcSave(c) \/ PreflightSettings(c)
<1>1. ASSUME NEW c \in Clients, Access(c) PROVE oidc' = oidc
  BY <1>1, Zenon DEF Access, BootstrapRegister, Login, LoginCheck, SelfRegister, RegisterUser, Insert, Save,
     UpdateUserRole, DeleteUser, DeleteCommit, AuthCallback, ResolveUser, Logout
<1>2. ASSUME NEW c \in Clients, Lifecycle(c) PROVE oidc' = oidc
  BY <1>2, Zenon DEF Lifecycle, InviteUser, ReissueInvitation, IssueAdminReset, RevokeInvitation, ForgotPassword,
     ForgotCount, IssueList, RevokeNext, CreateLink, Deliver, UseLink, CompleteAccount, ConsumeLink,
     RetireLinks, Completed
<1>3. ASSUME NEW c \in Clients, Settings(c) PROVE oidc' = oidc \/ OidcSave(c) \/ PreflightSettings(c)
  BY <1>3, Zenon DEF Settings, UpdateEmailSettings, MailSave, StartOidcPreflight, PutOidcSettings,
     OidcLoad, PreflightCallback, PreflightAccount, PreflightLoad
<1>4. ASSUME NEW c \in Clients, Crash(c) PROVE oidc' = oidc
  BY <1>4 DEF Crash
<1>5. ASSUME NEW t \in Links, LinkExpires(t) PROVE oidc' = oidc
  BY <1>5 DEF LinkExpires
<1>6. ASSUME UNCHANGED vars PROVE oidc' = oidc
  BY <1>6 DEF vars
<1> QED
  BY <1>1, <1>2, <1>3, <1>4, <1>5, <1>6 DEF Next

LEMMA UserWriters ==
  ASSUME [Next]_vars
  PROVE  users' = users \/ \E c \in Clients : \/ Insert(c) \/ Save(c) \/ DeleteCommit(c)
                                              \/ CompleteAccount(c) \/ PreflightAccount(c)
<1>1. ASSUME NEW c \in Clients, Access(c) PROVE users' = users \/ Insert(c) \/ Save(c) \/ DeleteCommit(c)
  BY <1>1, Zenon DEF Access, BootstrapRegister, Login, LoginCheck, SelfRegister, RegisterUser,
     UpdateUserRole, DeleteUser, AuthCallback, ResolveUser, Logout
<1>2. ASSUME NEW c \in Clients, Lifecycle(c) PROVE users' = users \/ CompleteAccount(c)
  BY <1>2, Zenon DEF Lifecycle, InviteUser, ReissueInvitation, IssueAdminReset, RevokeInvitation, ForgotPassword,
     ForgotCount, IssueList, RevokeNext, CreateLink, Deliver, UseLink, ConsumeLink, RetireLinks, Completed
<1>3. ASSUME NEW c \in Clients, Settings(c) PROVE users' = users \/ PreflightAccount(c)
  BY <1>3, Zenon DEF Settings, UpdateEmailSettings, MailSave, StartOidcPreflight, PutOidcSettings, OidcLoad,
     OidcSave, PreflightCallback, PreflightLoad, PreflightSettings
<1>4. ASSUME NEW c \in Clients, Crash(c) PROVE users' = users
  BY <1>4 DEF Crash
<1>5. ASSUME NEW t \in Links, LinkExpires(t) PROVE users' = users
  BY <1>5 DEF LinkExpires
<1>6. ASSUME UNCHANGED vars PROVE users' = users
  BY <1>6 DEF vars
<1> QED
  BY <1>1, <1>2, <1>3, <1>4, <1>5, <1>6 DEF Next

LEMMA PreflightStep ==
  ASSUME Inv, [Next]_vars, ~oidc.enabled, oidc'.enabled
  PROVE  \E c \in Clients : \/ pc[c] = "pre_settings"
                            \/ pc[c] = "oidc_save" /\ local[c].found
<1>1. PICK c \in Clients : OidcSave(c) \/ PreflightSettings(c)
  BY OidcWriters
<1>2. ASSUME OidcSave(c) PROVE pc[c] = "oidc_save" /\ local[c].found
  <2>1. local[c].was \in Oidc /\ local[c].will \in Oidc /\ oidc \in Oidc
    BY DEF Inv, TypeOK, Local
  <2>2. pc[c] = "oidc_save" /\ (local[c].will.enabled => local[c].found)
    BY <1>2 DEF Inv, Fine, Placed, OidcSave, At
  <2>3. oidc' = Merge(oidc, local[c].was, local[c].will)
    BY <1>2 DEF OidcSave
  <2> QED
    BY <2>1, <2>2, <2>3, MergeOidc
<1> QED
  BY <1>1, <1>2 DEF PreflightSettings, At

(* What a save does to a role. *)
LEMMA RoleOfSaved ==
  ASSUME Inv, NEW c \in Clients, NEW base \in User, NEW new \in User, NEW at \in Pc,
         SaveUser(c, base, new, at), local[c].id \in Ids, new.state = "live", links' = links,
         NEW i \in Ids, users'[i].role # users[i].role
  PROVE  new.role # base.role
<1> PICK l \in Local : l = local[c]
  BY DEF Inv, TypeOK
<1>1. users' = [users EXCEPT ![l.id] = Merge(users[l.id], base, new)] /\ l.id \in Ids
  <2>1. l.id \in Ids
    OBVIOUS
  <2>2. Saved(c, l, base, new, at)
    BY <2>1, Saving
  <2> QED
    BY <2>1, <2>2 DEF Saved
<1>2. users \in [Ids -> User]
  BY DEF Inv, TypeOK
<1>3. Merge(users[l.id], base, new).role = Written(users[l.id].role, base.role, new.role)
  BY <1>1, <1>2, MergeUser
<1>4. i = l.id
  BY <1>1, <1>2
<1>5. users'[i] = Merge(users[l.id], base, new)
  BY <1>1, <1>2, <1>4
<1> QED
  BY <1>3, <1>4, <1>5 DEF Written

LEMMA RoleStep ==
  ASSUME Inv, [Next]_vars, NEW i \in Ids, users[i].state = "live", users'[i].role # users[i].role
  PROVE  \E c \in Clients : pc[c] \in {"save", "pre_account"} /\ local[c].new.role # local[c].base.role
<1>1. PICK c \in Clients : \/ Insert(c) \/ Save(c) \/ DeleteCommit(c)
                           \/ CompleteAccount(c) \/ PreflightAccount(c)
  BY UserWriters
<1>0. TypeOK /\ Fine(c) /\ users \in [Ids -> User]
  BY DEF Inv, TypeOK
<1> PICK l \in Local : l = local[c]
  BY <1>0 DEF TypeOK
<1> PICK b \in User, u \in User : b = l.base /\ u = l.new
  BY DEF Local
<1>2. ASSUME NEW at, InsertUser(c, u, at), UNCHANGED <<links, overtaken>>, u.state = "live"
      PROVE  FALSE
  BY <1>2, Inserting
<1>3. CASE Insert(c)
  <2>1. u.state = "live" /\ InsertUser(c, u, l.next) /\ UNCHANGED <<links, overtaken>>
    BY <1>0, <1>3 DEF Insert, At, Fine, Placed
  <2> QED
    BY <1>2, <2>1
<1>4. CASE Save(c)
  <2>1. pc[c] = "save" /\ l.id \in Ids /\ u.state = "live" /\ SaveUser(c, b, u, "idle") /\ links' = links
    BY <1>0, <1>4 DEF Save, At, Fine, Placed
  <2>2. u.role # b.role
    BY <2>1, RoleOfSaved DEF Pc
  <2> QED
    BY <2>1, <2>2
<1>5. CASE DeleteCommit(c)
  <2>1. users' = [users EXCEPT ![l.id].state = "gone"]
    BY <1>5 DEF DeleteCommit
  <2>2. [users[i] EXCEPT !.state = "gone"].role = users[i].role
    BY <1>0 DEF User
  <2>3. users'[i] \in {users[i], [users[i] EXCEPT !.state = "gone"]}
    BY <1>0, <2>1
  <2> QED
    BY <2>2, <2>3
<1>6. CASE CompleteAccount(c)
  <2>1. /\ l.id \in Ids /\ u.state = "live" /\ u.role = b.role /\ links' = links
        /\ SaveUser(c, b, u, "consume")
    BY <1>0, <1>6 DEF CompleteAccount, At, Fine, Placed
  <2> QED
    BY <2>1, RoleOfSaved DEF Pc
<1>7. CASE PreflightAccount(c)
  <2>1. pc[c] = "pre_account" /\ u.state = "live" /\ links' = links /\ l.id \in Ids \cup {None}
    BY <1>0, <1>7 DEF PreflightAccount, At, Fine, Placed, Local
  <2>2. CASE l.id = None
    BY <1>2, <1>7, <2>1, <2>2 DEF PreflightAccount
  <2>3. CASE l.id # None
    <3>1. SaveUser(c, b, u, "pre_load") /\ l.id \in Ids
      BY <1>7, <2>1, <2>3 DEF PreflightAccount
    <3>2. u.role # b.role
      BY <2>1, <3>1, RoleOfSaved DEF Pc
    <3> QED
      BY <2>1, <3>2
  <2> QED
    BY <2>2, <2>3
<1> QED
  BY <1>1, <1>3, <1>4, <1>5, <1>6, <1>7

(* OIDC comes on through a preflight, or through an update that was sent   *)
(* while it was on; no request that holds an older row gives an account a  *)
(* role back: whoever else reads, saves or deletes accounts and settings.  *)
THEOREM NothingComesBack == Spec => NothingBroughtBack
<1>1. ASSUME Inv, [Next]_vars
      PROVE  ~oidc.enabled /\ oidc'.enabled =>
               \E c \in Clients : \/ pc[c] = "pre_settings"
                                  \/ pc[c] = "oidc_save" /\ local[c].found
  BY <1>1, PreflightStep
<1>2. ASSUME Inv, [Next]_vars
      PROVE  \A i \in Ids : users[i].state = "live" /\ users'[i].role # users[i].role =>
               \E c \in Clients : /\ pc[c] \in {"save", "pre_account"}
                                  /\ local[c].new.role # local[c].base.role
  BY <1>2, RoleStep
<1>3. Spec => PreflightOnly
  BY <1>1, Invariant, PTL DEF Spec, PreflightOnly
<1>4. Spec => RolesAreSet
  BY <1>2, Invariant, PTL DEF Spec, RolesAreSet
<1> QED
  BY <1>3, <1>4 DEF NothingBroughtBack

=============================================================================
