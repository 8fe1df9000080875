------------------------------ MODULE Accounts ------------------------------
(***************************************************************************)
(* Accounts, invitations, password recovery and the switch to OIDC:        *)
(* triton-backend/app/services/auth/, services/users.py, services/oidc/ and*)
(* core/{identity,security}.py.                                            *)
(*                                                                         *)
(* Every handler reads what it decides on, and then commits several times: *)
(* the account, the link it used, the links it revokes, the settings.      *)
(* Nothing is locked, so any other request comes in between, and a process *)
(* may die between two commits.  An UPDATE of the ORM writes the columns   *)
(* whose value differs from the one loaded, and no other.                  *)
(*                                                                         *)
(* Left out: names, texts of messages, audit events (an append-only log),  *)
(* the role "pending", which no request can set, and lists of assigned     *)
(* instances (module InstanceRegistry).  A person has one address at the   *)
(* identity provider, which stands for the subject as well.                *)
(***************************************************************************)
EXTENDS Naturals, FiniteSets

CONSTANTS
  Clients,      \* browsers; each has one request under way at most
  Ids,          \* ids of rows of users, each given out once
  Emails,
  Links,        \* ids of rows of account_lifecycle_tokens, each given out once
  Configs,      \* what a provider configuration may hold
  None,
  Limit,        \* EMAIL_RECOVERY_RATE_LIMIT
  Seeds,        \* populations to begin with
  Ops,          \* the requests that clients send
  MaxRequests,  \* bound: requests sent
  MaxCrashes    \* bound: requests cut off by the death of their process

ASSUME NoneAssumption  == None \notin Ids \cup Emails \cup Links \cup Configs
ASSUME BoundAssumption == {Limit, MaxRequests, MaxCrashes} \subseteq Nat

VARIABLES
  users,      \* the table users
  links,      \* the table account_lifecycle_tokens
  oidc,       \* the row of oidc_config
  mail,       \* delivery_mode of email_config
  bucket,     \* request_count of this hour's bucket, by address
  session,    \* the session cookie, or bearer token, of a client
  preflight,  \* the context of a preflight in a client's session
  pc, local,  \* what a handler does next, and its local variables
  sent, crashes,
  overtaken   \* ghost: clients over whose row another one has saved an older version

vars == <<users, links, oidc, mail, bucket, session, preflight, pc, local, sent, crashes, overtaken>>

-----------------------------------------------------------------------------
(* The data. *)

(* UserEntity *)
User == [state : {"unborn", "live", "gone"}, email : Emails \cup {None},
         role : {"admin", "viewer"}, provider : {"local", "oidc"}, password : BOOLEAN,
         subject : Emails \cup {None}, active : BOOLEAN, version : Nat]
NoUser == [state |-> "unborn", email |-> None, role |-> "viewer", provider |-> "local",
           password |-> FALSE, subject |-> None, active |-> FALSE, version |-> 0]
NewUser(e, role, provider, password, active) ==
  [NoUser EXCEPT !.state = "live", !.email = e, !.role = role, !.provider = provider,
                 !.password = password, !.active = active]

(* AccountLifecycleTokenEntity.  known: the raw link has reached someone.  *)
Purposes == {"invite", "password_reset"}
Link == [state : {"unborn", "live", "gone"}, user : Ids \cup {None}, purpose : Purposes,
         consumed : BOOLEAN, revoked : BOOLEAN, expired : BOOLEAN, known : BOOLEAN]
NoLink == [state |-> "unborn", user |-> None, purpose |-> "invite", consumed |-> FALSE,
           revoked |-> FALSE, expired |-> FALSE, known |-> FALSE]

Modes == {"disabled", "manual-link", "smtp"}
Oidc  == [enabled : BOOLEAN, config : Configs \cup {None}]

(* What a session says of its owner. *)
Session == [email : Emails, provider : {"local", "oidc"}, version : Nat]

Nexts == {"idle", "login", "issue", "create", "retired"}
Local == [id : Ids \cup {None}, email : Emails \cup {None}, role : {"admin", "viewer"},
          base : User, new : User, link : Links \cup {None}, purpose : Purposes,
          todo : SUBSET Links, seen : SUBSET Links, count : Nat,
          was : Oidc, will : Oidc, found : BOOLEAN, mode : Modes, next : Nexts]
NoLocal == [id |-> None, email |-> None, role |-> "viewer", base |-> NoUser, new |-> NoUser,
            link |-> None, purpose |-> "invite", todo |-> {}, seen |-> {}, count |-> 0,
            was |-> [enabled |-> FALSE, config |-> None],
            will |-> [enabled |-> FALSE, config |-> None], found |-> FALSE,
            mode |-> "disabled", next |-> "idle"]

Pc == {"idle", "insert", "save", "login", "count", "issue", "revoke", "create", "deliver",
       "complete", "consume", "retire", "retired", "delete", "oidc_load", "oidc_save",
       "mail_save", "pre_account", "pre_load", "pre_settings"}

(* What the tables keep: addresses are unique, a link belongs to an        *)
(* account.                                                                *)
Consistent(us, ls) ==
  /\ \A i, j \in Ids :
       us[i].state = "live" /\ us[j].state = "live" /\ us[i].email = us[j].email => i = j
  /\ \A t \in Links : ls[t].state = "live" => ls[t].user \in Ids /\ us[ls[t].user].state = "live"

ASSUME SeedsAssumption ==
  \A s \in Seeds :
    /\ s.users \in [Ids -> User] /\ s.links \in [Links -> Link] /\ Consistent(s.users, s.links)
    /\ s.oidc \in Oidc /\ s.mail \in Modes
    /\ s.session \in [Clients -> Session \cup {None}]

(* The types of all variables, and the rules of the tables.                *)
TypeOK ==
  /\ users \in [Ids -> User] /\ links \in [Links -> Link] /\ Consistent(users, links)
  /\ oidc \in Oidc
  /\ mail \in Modes
  /\ bucket \in [Emails -> Nat]
  /\ session \in [Clients -> Session \cup {None}]
  /\ preflight \in [Clients -> [email : Emails, config : Configs] \cup {None}]
  /\ pc \in [Clients -> Pc]
  /\ local \in [Clients -> Local]
  /\ {sent, crashes} \subseteq Nat /\ overtaken \subseteq Clients

Init ==
  /\ \E s \in Seeds :
       /\ users = s.users /\ links = s.links /\ oidc = s.oidc /\ mail = s.mail
       /\ session = s.session
  /\ bucket = [e \in Emails |-> 0]
  /\ preflight = [c \in Clients |-> None]
  /\ pc = [c \in Clients |-> "idle"]
  /\ local = [c \in Clients |-> NoLocal]
  /\ sent = 0 /\ crashes = 0 /\ overtaken = {}

-----------------------------------------------------------------------------
(* Repositories. *)

Live      == {i \in Ids : users[i].state = "live"}
HasEmail(e)   == {i \in Live : users[i].email = e}
HasSubject(e) == {i \in Live : users[i].subject = e}

HasActiveLocalAdminLogin ==
  \E i \in Live : /\ users[i].provider = "local" /\ users[i].password
                  /\ users[i].active /\ users[i].role = "admin"

(* list_active_tokens() *)
Active(t) == links[t].state = "live" /\ ~links[t].consumed /\ ~links[t].revoked
ActiveOf(i, purposes) == {t \in Links : Active(t) /\ links[t].user = i /\ links[t].purpose \in purposes}

(* _valid_token() *)
Valid(t, purpose) == Active(t) /\ links[t].purpose = purpose /\ ~links[t].expired

At(c, label)      == pc[c] = label
Goto(c, label, l) ==
  /\ pc' = [pc EXCEPT ![c] = label]
  /\ local' = [local EXCEPT ![c] = IF label = "idle" THEN NoLocal ELSE l]
ToIdle(c)         == Goto(c, "idle", NoLocal)

(* The ORM writes all columns of the object it holds. *)
BadMerge_WholeRow(cur, base, new) == new

(* UPDATE: the columns whose value differs from the one loaded. *)
Merge(cur, base, new) ==
  [col \in DOMAIN cur |-> IF new[col] = base[col] THEN cur[col] ELSE new[col]]

(* save(): StaleDataError when the row is gone, IntegrityError when the    *)
(* address is taken; either ends the request.                              *)
SaveUser(c, base, new, label) ==
  LET i == local[c].id
      merged == Merge(users[i], base, new)
  IN IF users[i].state = "live" /\ HasEmail(merged.email) \subseteq {i}
     THEN /\ users' = [users EXCEPT ![i] = merged]
          /\ overtaken' = (overtaken \ {c}) \cup
               {d \in Clients \ {c} : local[d].id = i /\ merged.version < users[i].version}
          /\ Goto(c, label, local[c])
     ELSE UNCHANGED <<users, overtaken>> /\ ToIdle(c)

(* create(): IntegrityError when the address is taken. *)
InsertUser(c, u, label) ==
  IF HasEmail(u.email) = {}
  THEN \E i \in Ids : /\ users[i].state = "unborn"
                      /\ users' = [users EXCEPT ![i] = u]
                      /\ Goto(c, label, [local[c] EXCEPT !.id = i])
  ELSE users' = users /\ ToIdle(c)

-----------------------------------------------------------------------------
(* Who sends a request. *)

(* Claims of a session: the account is found by its subject or address. *)
AccountOf(s) ==
  LET bySubject == IF s.provider = "oidc" THEN HasSubject(s.email) ELSE {}
  IN IF bySubject # {} THEN bySubject ELSE HasEmail(s.email)

(* get_claims(): a local session ends with the credential version it was   *)
(* issued for; only an active account has access.                          *)
Admitted(c, i) ==
  /\ session[c] # None
  /\ i \in AccountOf(session[c])
  /\ session[c].provider = "local" => session[c].version = users[i].version
  /\ users[i].active

AdminRequest(c) == \E i \in Live : Admitted(c, i) /\ users[i].role = "admin"

Begin(c, op) ==
  /\ op \in Ops /\ At(c, "idle") /\ sent < MaxRequests
  /\ sent' = sent + 1

(* A link can be used by whoever has it. *)
Known(t) == links[t].state # "unborn" /\ links[t].known

-----------------------------------------------------------------------------
(* First set-up, registration and login with a password. *)

(* bootstrap_register(): refused once there is an account. *)
BootstrapRegister(c) ==
  /\ Begin(c, "bootstrap")
  /\ ~oidc.enabled /\ Live = {}
  /\ \E e \in Emails :
       Goto(c, "insert", [NoLocal EXCEPT !.new = NewUser(e, "admin", "local", TRUE, TRUE)])
  /\ UNCHANGED <<users, links, oidc, mail, bucket, session, preflight, crashes, overtaken>>

(* login(): an empty table makes the first login an administrator's. *)
Login(c) ==
  /\ Begin(c, "login")
  /\ ~oidc.enabled
  /\ \E e \in Emails :
       IF Live = {}
       THEN Goto(c, "insert", [NoLocal EXCEPT !.new = NewUser(e, "admin", "local", TRUE, TRUE),
                                              !.email = e, !.next = "login"])
       ELSE Goto(c, "login", [NoLocal EXCEPT !.email = e])
  /\ UNCHANGED <<users, links, oidc, mail, bucket, session, preflight, crashes, overtaken>>

(* The right password of an active local account yields a session, and     *)
(* every other attempt none.                                               *)
LoginCheck(c) ==
  /\ At(c, "login")
  /\ \/ \E i \in HasEmail(local[c].email) :
          /\ users[i].provider = "local" /\ users[i].password /\ users[i].active
          /\ session' = [session EXCEPT ![c] = [email |-> users[i].email, provider |-> "local",
                                                version |-> users[i].version]]
     \/ session' = session
  /\ ToIdle(c)
  /\ UNCHANGED <<users, links, oidc, mail, bucket, preflight, sent, crashes, overtaken>>

(* self_register(): claims an account without password where no mail is    *)
(* sent, or adds an account that waits for approval.                       *)
SelfRegister(c) ==
  /\ Begin(c, "register")
  /\ ~oidc.enabled
  /\ \E e \in Emails :
       \/ /\ HasEmail(e) = {}
          /\ Goto(c, "insert", [NoLocal EXCEPT !.new = NewUser(e, "viewer", "local", TRUE, FALSE)])
       \/ \E i \in HasEmail(e) :
            /\ users[i].provider = "local" /\ ~users[i].password /\ mail = "disabled"
            /\ Goto(c, "save", [NoLocal EXCEPT !.id = i, !.base = users[i],
                 !.new = [users[i] EXCEPT !.password = TRUE, !.active = TRUE, !.version = @ + 1]])
  /\ UNCHANGED <<users, links, oidc, mail, bucket, session, preflight, crashes, overtaken>>

(* register_user() by an administrator: no password, inactive if local. *)
RegisterUser(c) ==
  /\ Begin(c, "register_user") /\ AdminRequest(c)
  /\ \E e \in Emails, role \in {"admin", "viewer"}, provider \in {"local", "oidc"} :
       /\ (provider = "oidc") = oidc.enabled
       /\ HasEmail(e) = {}
       /\ Goto(c, "insert", [NoLocal EXCEPT
            !.new = NewUser(e, role, provider, FALSE, provider = "oidc")])
  /\ UNCHANGED <<users, links, oidc, mail, bucket, session, preflight, crashes, overtaken>>

Insert(c) ==
  /\ At(c, "insert")
  /\ InsertUser(c, local[c].new, local[c].next)
  /\ UNCHANGED <<links, oidc, mail, bucket, session, preflight, sent, crashes, overtaken>>

Save(c) ==
  /\ At(c, "save")
  /\ SaveUser(c, local[c].base, local[c].new, "idle")
  /\ UNCHANGED <<links, oidc, mail, bucket, session, preflight, sent, crashes>>

-----------------------------------------------------------------------------
(* Administration of accounts. *)

(* update_user_role() also activates the account. *)
UpdateUserRole(c) ==
  /\ Begin(c, "role") /\ AdminRequest(c)
  /\ \E i \in Live, role \in {"admin", "viewer"} :
       Goto(c, "save", [NoLocal EXCEPT !.id = i, !.base = users[i],
                                       !.new = [users[i] EXCEPT !.role = role, !.active = TRUE]])
  /\ UNCHANGED <<users, links, oidc, mail, bucket, session, preflight, crashes, overtaken>>

DeleteUser(c) ==
  /\ Begin(c, "delete") /\ AdminRequest(c)
  /\ \E i \in Live : Goto(c, "delete", [NoLocal EXCEPT !.id = i])
  /\ UNCHANGED <<users, links, oidc, mail, bucket, session, preflight, crashes, overtaken>>

(* delete(): the account and its links in one transaction, which fails if  *)
(* the row is gone.                                                        *)
DeleteCommit(c) ==
  LET i == local[c].id
  IN /\ At(c, "delete")
     /\ IF i \in Live
        THEN /\ users' = [users EXCEPT ![i].state = "gone"]
             /\ links' = [t \in Links |-> IF links[t].state = "live" /\ links[t].user = i
                                          THEN [links[t] EXCEPT !.state = "gone"] ELSE links[t]]
        ELSE UNCHANGED <<users, links>>
     /\ ToIdle(c)
     /\ UNCHANGED <<oidc, mail, bucket, session, preflight, sent, crashes, overtaken>>

-----------------------------------------------------------------------------
(* Links are issued: _issue() revokes those of the same purpose, one       *)
(* commit each, and adds a new one; _deliver() passes it on.               *)

Issue(i, purpose) == [NoLocal EXCEPT !.id = i, !.purpose = purpose]

(* invite_user(): a new inactive account, and its link. *)
InviteUser(c) ==
  /\ Begin(c, "invite") /\ AdminRequest(c)
  /\ ~oidc.enabled /\ mail # "disabled"
  /\ \E e \in Emails, role \in {"admin", "viewer"} :
       /\ HasEmail(e) = {}
       /\ Goto(c, "insert", [NoLocal EXCEPT !.new = NewUser(e, role, "local", FALSE, FALSE),
                                            !.purpose = "invite", !.next = "issue"])
  /\ UNCHANGED <<users, links, oidc, mail, bucket, session, preflight, crashes, overtaken>>

(* reissue_invitation() looks at delivery_mode only when it delivers. *)
ReissueInvitation(c) ==
  /\ Begin(c, "reissue") /\ AdminRequest(c)
  /\ ~oidc.enabled
  /\ \E i \in Live : /\ users[i].provider = "local" /\ ~users[i].active
                     /\ Goto(c, "issue", Issue(i, "invite"))
  /\ UNCHANGED <<users, links, oidc, mail, bucket, session, preflight, crashes, overtaken>>

IssueAdminReset(c) ==
  /\ Begin(c, "admin_reset") /\ AdminRequest(c)
  /\ mail # "disabled"
  /\ \E i \in Live : /\ users[i].provider = "local" /\ users[i].active
                     /\ Goto(c, "issue", Issue(i, "password_reset"))
  /\ UNCHANGED <<users, links, oidc, mail, bucket, session, preflight, crashes, overtaken>>

(* forgot_password(): counts first, with a read and a later write. *)
ForgotPassword(c) ==
  /\ Begin(c, "forgot")
  /\ mail = "smtp"
  /\ \E e \in Emails : Goto(c, "count", [NoLocal EXCEPT !.email = e, !.count = bucket[e] + 1])
  /\ UNCHANGED <<users, links, oidc, mail, bucket, session, preflight, crashes, overtaken>>

(* _rate_limited(), then the account; the answer is the same whatever      *)
(* happened.  The bucket by client address is one more of the same kind.   *)
ForgotCount(c) ==
  LET e == local[c].email
  IN /\ At(c, "count")
     /\ bucket' = [bucket EXCEPT ![e] = local[c].count]
     /\ \/ \E i \in HasEmail(e) :
             /\ local[c].count <= Limit
             /\ users[i].provider = "local" /\ users[i].active /\ users[i].password
             /\ Goto(c, "issue", [Issue(i, "password_reset") EXCEPT !.count = local[c].count])
        \/ /\ \/ local[c].count > Limit
              \/ \A i \in HasEmail(e) :
                   ~(users[i].provider = "local" /\ users[i].active /\ users[i].password)
           /\ ToIdle(c)
     /\ UNCHANGED <<users, links, oidc, mail, session, preflight, sent, crashes, overtaken>>

IssueList(c) ==
  /\ At(c, "issue")
  /\ Goto(c, "revoke", [local[c] EXCEPT !.todo = ActiveOf(local[c].id, {local[c].purpose}),
                                        !.next = "create"])
  /\ UNCHANGED <<users, links, oidc, mail, bucket, session, preflight, sent, crashes, overtaken>>

(* _revoke(): the next link of the list; one that is gone ends the request.*)
RevokeNext(c) ==
  /\ At(c, "revoke")
  /\ IF local[c].todo = {}
     THEN links' = links /\ Goto(c, local[c].next, local[c])
     ELSE \E t \in local[c].todo :
            IF links[t].state = "live"
            THEN /\ links' = [links EXCEPT ![t].revoked = TRUE]
                 /\ Goto(c, "revoke", [local[c] EXCEPT !.todo = @ \ {t}])
            ELSE links' = links /\ ToIdle(c)
  /\ UNCHANGED <<users, oidc, mail, bucket, session, preflight, sent, crashes, overtaken>>

(* create_token(): the foreign key refuses a link of a deleted account. *)
CreateLink(c) ==
  /\ At(c, "create")
  /\ IF local[c].id \in Live
     THEN \E t \in Links :
            /\ links[t].state = "unborn"
            /\ links' = [links EXCEPT ![t] = [NoLink EXCEPT
                 !.state = "live", !.user = local[c].id, !.purpose = local[c].purpose]]
            /\ Goto(c, "deliver", [local[c] EXCEPT !.link = t])
     ELSE links' = links /\ ToIdle(c)
  /\ UNCHANGED <<users, oidc, mail, bucket, session, preflight, sent, crashes, overtaken>>

(* send_smtp() may fail before or after the message is out. *)
SendSmtp(t) == \E out \in BOOLEAN : links' = [links EXCEPT ![t].known = out]

(* _deliver(): nobody gets the link of a disabled mode; a manual link is   *)
(* part of the answer, which forgot_password() throws away.                *)
Deliver(c) ==
  LET t == local[c].link
  IN /\ At(c, "deliver")
     /\ CASE mail = "disabled"    -> links' = links
          [] mail = "manual-link" -> links' = [links EXCEPT ![t].known = (local[c].count = 0)]
          [] mail = "smtp"        -> SendSmtp(t)
     /\ ToIdle(c)
     /\ UNCHANGED <<users, oidc, mail, bucket, session, preflight, sent, crashes, overtaken>>

RevokeInvitation(c) ==
  /\ Begin(c, "revoke") /\ AdminRequest(c)
  /\ \E i \in Live : Goto(c, "revoke", [NoLocal EXCEPT !.todo = ActiveOf(i, {"invite"})])
  /\ UNCHANGED <<users, links, oidc, mail, bucket, session, preflight, crashes, overtaken>>

LinkExpires(t) ==
  /\ Active(t) /\ ~links[t].expired
  /\ links' = [links EXCEPT ![t].expired = TRUE]
  /\ UNCHANGED <<users, oidc, mail, bucket, session, preflight, pc, local, sent, crashes, overtaken>>

-----------------------------------------------------------------------------
(* Links are used: the account is saved, the link is consumed, all other   *)
(* links of the account are revoked; each is a commit of its own.          *)

(* activate_invitation(), complete_password_reset() *)
UseLink(c) ==
  /\ Begin(c, "complete")
  /\ \E t \in Links, purpose \in Purposes :
       LET i == links[t].user
       IN /\ Known(t) /\ Valid(t, purpose)
          /\ users[i].provider = "local"
          /\ users[i].active = (purpose = "password_reset")
          /\ Goto(c, "complete", [NoLocal EXCEPT !.id = i, !.link = t, !.base = users[i],
               !.new = [users[i] EXCEPT !.password = TRUE, !.active = TRUE, !.version = @ + 1],
               !.seen = {k \in Links : links[k].state = "live" /\ links[k].user = i}])
  /\ UNCHANGED <<users, links, oidc, mail, bucket, session, preflight, crashes, overtaken>>

(* Saves the password and keeps the credential version. *)
BadCompleteAccount_KeepsVersion(c) ==
  /\ At(c, "complete")
  /\ SaveUser(c, local[c].base, [local[c].new EXCEPT !.version = local[c].base.version], "consume")
  /\ UNCHANGED <<links, oidc, mail, bucket, session, preflight, sent, crashes>>

CompleteAccount(c) ==
  /\ At(c, "complete")
  /\ SaveUser(c, local[c].base, local[c].new, "consume")
  /\ UNCHANGED <<links, oidc, mail, bucket, session, preflight, sent, crashes>>

ConsumeLink(c) ==
  LET t == local[c].link
  IN /\ At(c, "consume")
     /\ IF links[t].state = "live"
        THEN links' = [links EXCEPT ![t].consumed = TRUE] /\ Goto(c, "retire", local[c])
        ELSE links' = links /\ ToIdle(c)
     /\ UNCHANGED <<users, oidc, mail, bucket, session, preflight, sent, crashes, overtaken>>

(* Lists only the links of the purpose that was used. *)
BadRetireLinks_OnePurpose(c) ==
  /\ At(c, "retire")
  /\ Goto(c, "revoke", [local[c] EXCEPT !.todo = ActiveOf(local[c].id, {links[local[c].link].purpose}),
                                        !.next = "retired"])
  /\ UNCHANGED <<users, links, oidc, mail, bucket, session, preflight, sent, crashes, overtaken>>

RetireLinks(c) ==
  /\ At(c, "retire")
  /\ Goto(c, "revoke", [local[c] EXCEPT !.todo = ActiveOf(local[c].id, Purposes),
                                        !.next = "retired"])
  /\ UNCHANGED <<users, links, oidc, mail, bucket, session, preflight, sent, crashes, overtaken>>

(* The answer: the password is set. *)
Completed(c) ==
  /\ At(c, "retired")
  /\ ToIdle(c)
  /\ UNCHANGED <<users, links, oidc, mail, bucket, session, preflight, sent, crashes, overtaken>>

-----------------------------------------------------------------------------
(* Settings. *)

UpdateEmailSettings(c) ==
  /\ Begin(c, "mail") /\ AdminRequest(c)
  /\ \E m \in Modes \ {mail} : Goto(c, "mail_save", [NoLocal EXCEPT !.mode = m])
  /\ UNCHANGED <<users, links, oidc, mail, bucket, session, preflight, crashes, overtaken>>

MailSave(c) ==
  /\ At(c, "mail_save")
  /\ mail' = local[c].mode
  /\ ToIdle(c)
  /\ UNCHANGED <<users, links, oidc, bucket, session, preflight, sent, crashes, overtaken>>

(* start_preflight_redirect(): the new settings wait in the session of the *)
(* administrator, who is sent to the provider.                             *)
StartPreflight(c, config) ==
  /\ preflight' = [preflight EXCEPT ![c] = [email |-> session[c].email, config |-> config]]
  /\ UNCHANGED <<pc, local>>

(* start_oidc_preflight() *)
StartOidcPreflight(c) ==
  /\ Begin(c, "preflight") /\ AdminRequest(c)
  /\ \E config \in Configs : StartPreflight(c, config)
  /\ UNCHANGED <<users, links, oidc, mail, bucket, session, crashes, overtaken>>

(* update_settings(): an empty field keeps what is stored. *)
Updated(enabled, config) ==
  [enabled |-> enabled, config |-> IF config = None THEN oidc.config ELSE config]

(* What put_oidc_settings() keeps of the settings it has found: to disable *)
(* with empty fields is to write back the stored ones.                     *)
Asked(enabled, config) ==
  [NoLocal EXCEPT !.found = oidc.enabled,
                  !.will = IF oidc.enabled THEN Updated(enabled, config)
                           ELSE [enabled |-> enabled, config |-> config]]

(* An update does not look whether OIDC is off before it is switched on. *)
BadPutOidcSettings_NoPreflight(c) ==
  /\ Begin(c, "oidc") /\ AdminRequest(c)
  /\ \E enabled \in BOOLEAN, config \in Configs \cup {None} :
       /\ enabled => config # None
       /\ oidc.enabled /\ ~enabled => HasActiveLocalAdminLogin
       /\ Goto(c, "oidc_load", Asked(enabled, config))
  /\ UNCHANGED <<users, links, oidc, mail, bucket, session, preflight, crashes, overtaken>>

(* put_oidc_settings(), up to the end of the connection test: enabling     *)
(* begins a preflight; disabling takes an administrator who can log in     *)
(* with a password.                                                        *)
PutOidcSettings(c) ==
  /\ Begin(c, "oidc") /\ AdminRequest(c)
  /\ \E enabled \in BOOLEAN, config \in Configs \cup {None} :
       /\ enabled => config # None
       /\ oidc.enabled /\ ~enabled => HasActiveLocalAdminLogin
       /\ IF enabled /\ ~oidc.enabled
          THEN StartPreflight(c, config)
          ELSE /\ Goto(c, "oidc_load", Asked(enabled, config))
               /\ preflight' = preflight
  /\ UNCHANGED <<users, links, oidc, mail, bucket, session, crashes, overtaken>>

(* update_settings() selects the row again and changes what was asked for. *)
OidcLoad(c) ==
  /\ At(c, "oidc_load")
  /\ LET will == local[c].will
     IN Goto(c, "oidc_save",
             [local[c] EXCEPT !.was = oidc, !.will = Updated(will.enabled, will.config)])
  /\ UNCHANGED <<users, links, oidc, mail, bucket, session, preflight, sent, crashes, overtaken>>

(* The ORM writes the columns that differ from the row it has loaded. *)
OidcSave(c) ==
  /\ At(c, "oidc_save")
  /\ oidc' = Merge(oidc, local[c].was, local[c].will)
  /\ ToIdle(c)
  /\ UNCHANGED <<users, links, mail, bucket, session, preflight, sent, crashes, overtaken>>

Forget(c) == preflight' = [preflight EXCEPT ![c] = None]

(* oidc_preflight_callback(): the provider names the same person, whose    *)
(* account becomes an administrator's at the provider.                     *)
PreflightCallback(c) ==
  /\ Begin(c, "callback") /\ preflight[c] # None
  /\ LET e == preflight[c].email
         found == AccountOf([email |-> e, provider |-> "oidc"])
         bind(u) == [u EXCEPT !.email = e, !.role = "admin", !.provider = "oidc",
                              !.subject = e, !.active = TRUE]
     IN \/ \E i \in found :
             /\ Goto(c, "pre_account", [NoLocal EXCEPT !.id = i, !.base = users[i],
                                                       !.new = bind(users[i])])
             /\ preflight' = preflight
        \/ /\ found = {}
           /\ Goto(c, "pre_account", [NoLocal EXCEPT
                !.new = bind(NewUser(e, "admin", "oidc", FALSE, TRUE))])
           /\ preflight' = preflight
        \/ Forget(c) /\ UNCHANGED <<pc, local>>   \* another person, or an error
  /\ UNCHANGED <<users, links, oidc, mail, bucket, session, crashes, overtaken>>

PreflightAccount(c) ==
  /\ At(c, "pre_account")
  /\ IF local[c].id = None
     THEN InsertUser(c, local[c].new, "pre_load") /\ overtaken' = overtaken
     ELSE SaveUser(c, local[c].base, local[c].new, "pre_load")
  /\ IF pc'[c] = "idle" THEN Forget(c) ELSE preflight' = preflight
  /\ UNCHANGED <<links, oidc, mail, bucket, session, sent, crashes>>

PreflightLoad(c) ==
  /\ At(c, "pre_load")
  /\ Goto(c, "pre_settings", [local[c] EXCEPT !.was = oidc,
                                              !.will = Updated(TRUE, preflight[c].config)])
  /\ UNCHANGED <<users, links, oidc, mail, bucket, session, preflight, sent, crashes, overtaken>>

PreflightSettings(c) ==
  /\ At(c, "pre_settings")
  /\ oidc' = Merge(oidc, local[c].was, local[c].will)
  /\ session' = [session EXCEPT ![c] = [email |-> preflight[c].email, provider |-> "oidc",
                                        version |-> 0]]
  /\ Forget(c)
  /\ ToIdle(c)
  /\ UNCHANGED <<users, links, mail, bucket, sent, crashes, overtaken>>

-----------------------------------------------------------------------------
(* Login at the provider.  The claims of a session are resolved at every   *)
(* request: an account found by its address is bound to the subject, and a *)
(* person without account gets one that waits for approval.                *)

(* auth_callback() *)
AuthCallback(c) ==
  /\ Begin(c, "oidc_login")
  /\ oidc.enabled /\ oidc.config # None
  /\ \E e \in Emails :
       session' = [session EXCEPT ![c] = [email |-> e, provider |-> "oidc", version |-> 0]]
  /\ UNCHANGED <<users, links, oidc, mail, bucket, preflight, pc, local, crashes, overtaken>>

(* resolve_user() *)
ResolveUser(c) ==
  /\ Begin(c, "resolve")
  /\ session[c] # None /\ session[c].provider = "oidc"
  /\ LET e == session[c].email
     IN \/ \E i \in AccountOf(session[c]) :
             /\ users[i].subject = None
             /\ Goto(c, "save", [NoLocal EXCEPT !.id = i, !.base = users[i],
                                                !.new = [users[i] EXCEPT !.subject = e]])
        \/ /\ AccountOf(session[c]) = {}
           /\ Goto(c, "insert", [NoLocal EXCEPT
                !.new = [NewUser(e, "viewer", "oidc", FALSE, FALSE) EXCEPT !.subject = e]])
  /\ UNCHANGED <<users, links, oidc, mail, bucket, session, preflight, crashes, overtaken>>

(* logout(), or the session expires. *)
Logout(c) ==
  /\ Begin(c, "logout") /\ session[c] # None
  /\ session' = [session EXCEPT ![c] = None]
  /\ preflight' = [preflight EXCEPT ![c] = None]
  /\ UNCHANGED <<users, links, oidc, mail, bucket, pc, local, crashes, overtaken>>

-----------------------------------------------------------------------------
Crash(c) ==
  /\ pc[c] # "idle" /\ crashes < MaxCrashes
  /\ crashes' = crashes + 1
  /\ ToIdle(c)
  /\ UNCHANGED <<users, links, oidc, mail, bucket, session, preflight, sent, overtaken>>

Access(c) ==
  \/ BootstrapRegister(c) \/ Login(c) \/ LoginCheck(c) \/ SelfRegister(c) \/ RegisterUser(c)
  \/ Insert(c) \/ Save(c) \/ UpdateUserRole(c) \/ DeleteUser(c) \/ DeleteCommit(c)
  \/ AuthCallback(c) \/ ResolveUser(c) \/ Logout(c)

Lifecycle(c) ==
  \/ InviteUser(c) \/ ReissueInvitation(c) \/ IssueAdminReset(c) \/ RevokeInvitation(c)
  \/ ForgotPassword(c) \/ ForgotCount(c) \/ IssueList(c) \/ RevokeNext(c) \/ CreateLink(c)
  \/ Deliver(c) \/ UseLink(c) \/ CompleteAccount(c) \/ ConsumeLink(c) \/ RetireLinks(c)
  \/ Completed(c)

Settings(c) ==
  \/ UpdateEmailSettings(c) \/ MailSave(c) \/ StartOidcPreflight(c) \/ PutOidcSettings(c)
  \/ OidcLoad(c) \/ OidcSave(c) \/ PreflightCallback(c) \/ PreflightAccount(c) \/ PreflightLoad(c)
  \/ PreflightSettings(c)

Next ==
  \/ \E c \in Clients : Access(c) \/ Lifecycle(c) \/ Settings(c) \/ Crash(c)
  \/ \E t \in Links : LinkExpires(t)

Spec == Init /\ [][Next]_vars

-----------------------------------------------------------------------------
(* Properties. *)

Dead(t) == links[t].state = "gone" \/ links[t].consumed \/ links[t].revoked

(* No local session that the account had before the request began gets in. *)
OldSessionsEnd(c) ==
  \A d \in Clients :
    /\ session[d] # None /\ session[d].provider = "local"
    /\ session[d].version <= local[c].base.version
    => ~Admitted(d, local[c].id)

(* "A completed password reset also invalidates existing local tokens",     *)
(* whatever other requests save until activate_invitation() or             *)
(* complete_password_reset() has answered.                                 *)
CompletionEndsSessions == \A c \in Clients : pc[c] = "retired" => OldSessionsEnd(c)

(* A completed link is the last word: when it has answered every link its   *)
(* account had when it began is dead, those of the other purpose and those *)
(* that concurrent requests issued or used included; and no older session  *)
(* gets in, unless a request that read the account before an earlier       *)
(* completion has saved its older credential version since.                *)
CompletionIsFinal ==
  \A c \in Clients : pc[c] = "retired" =>
    /\ \A t \in local[c].seen : Dead(t)
    /\ c \notin overtaken => OldSessionsEnd(c)

(* OIDC is switched on by the callback of a preflight.  One update can do  *)
(* it too: that of an administrator who found OIDC on, while another has   *)
(* switched it off before the settings were selected again.  No update     *)
(* sent after that brings OIDC back.                                       *)
PreflightOnly ==
  [][~oidc.enabled /\ oidc'.enabled =>
       \E c \in Clients : \/ pc[c] = "pre_settings"
                          \/ pc[c] = "oidc_save" /\ local[c].found]_vars

(* The role of an account changes when an administrator sets it or the     *)
(* preflight binds it: no completed link, registration or login that holds *)
(* an older row undoes a promotion or a demotion.                          *)
RolesAreSet ==
  [][\A i \in Ids : users[i].state = "live" /\ users'[i].role # users[i].role =>
       \E c \in Clients : /\ pc[c] \in {"save", "pre_account"}
                          /\ local[c].new.role # local[c].base.role]_vars

(* What has been taken away does not come back: neither OIDC, but for the  *)
(* crossing named above, nor a role through a row read before the change.  *)
NothingBroughtBack == PreflightOnly /\ RolesAreSet
=============================================================================
