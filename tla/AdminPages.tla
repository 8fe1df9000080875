----------------------------- MODULE AdminPages -----------------------------
(* The pages of an administrator: the users, the settings.                  *)
(*                                                                          *)
(* The page of the users (state/users and its page): a table loaded when    *)
(* the page is opened, and writes that change a row of it when they are     *)
(* acknowledged.  The assignments of a user are written as a whole, made    *)
(* from the row that is shown.                                              *)
EXTENDS Browser

CONSTANTS Roles,
          Newcomers  \* the accounts created, here and before

VARIABLES accounts,  \* the server's rows; None: no such user
          table,     \* the rows shown; None: not shown
          spoiled    \* ghost: users whose row this page cannot be right about

userVars == <<accounts, table, spoiled>>

Account == [role : Roles, given : SUBSET Ids]

ASSUME NewcomersAssumption == Newcomers \subseteq Account /\ None \notin Account

OnUsers == page.at = "users"
UserWrites == {"setRole", "assign", "unassign", "deleteUser", "createUser"}

(* Mutant: mergeMap in place of switchMap.                                  *)
BadOpenUsers_MergeMap ==
  /\ Route("users", None)
  /\ flights' = Merged(Request("users", None, None))
  /\ spoiled' = Users
  /\ UNCHANGED <<accounts, table>>

OpenUsers ==
  /\ Route("users", None)
  /\ flights' = Switched(Request("users", None, None))
  /\ spoiled' = Users
  /\ UNCHANGED <<accounts, table>>

-----------------------------------------------------------------------------
(* The administrator                                                        *)

Ask(kind, u, arg) ==
  /\ OnUsers /\ Act
  /\ flights' = Switched(Request(kind, u, arg))
  /\ spoiled' = spoiled \cup
       {f.of : f \in {g \in Of(UserWrites) : g.kind = kind /\ g.state = "ok"}}
  /\ UNCHANGED <<page, accounts, table>>

SetRole(u, role) == table[u] # None /\ table[u].role # role /\ Ask("setRole", u, role)

AddInstance(u, i) ==
  table[u] # None /\ i \notin table[u].given /\ Ask("assign", u, table[u].given \cup {i})

RemoveInstance(u, i) ==
  table[u] # None /\ i \in table[u].given /\ Ask("unassign", u, table[u].given \ {i})

DeleteUser(u) == table[u] # None /\ Ask("deleteUser", u, None)

CreateUser(u, account) == Ask("createUser", u, account)

-----------------------------------------------------------------------------
(* The server.  A write is heard of in the order of the answers, not of     *)
(* the writes: the page may end up with the older one when it had asked     *)
(* for two of a user, or for a load and a write.                            *)

Column(kind) == CASE kind = "setRole" -> {"role"}
                  [] kind \in {"assign", "unassign"} -> {"given"}
                  [] OTHER -> {"role", "given"}

Overtakes(f) == \E g \in flights \ {f} :
                  /\ g.state = "ok"
                  /\ \/ g.kind = "users"
                     \/ /\ g.kind \in UserWrites /\ g.of = f.of
                        /\ Column(g.kind) \cap Column(f.kind) # {}

Applied(t, f) ==
  CASE f.kind = "setRole" -> [t EXCEPT ![f.of].role = f.arg]
    [] f.kind \in {"assign", "unassign"} -> [t EXCEPT ![f.of].given = f.arg]
    [] f.kind = "deleteUser" -> [t EXCEPT ![f.of] = None]
    [] f.kind = "createUser" -> [t EXCEPT ![f.of] = f.arg]

ApplyUser(f) ==
  /\ Sent(f, UserWrites)
  /\ (accounts[f.of] = None) = (f.kind = "createUser")
  /\ accounts' = Applied(accounts, f)
  /\ flights' = Answered(f, None)
  /\ spoiled' = IF ~f.heard \/ Overtakes(f) THEN spoiled \cup {f.of} ELSE spoiled
  /\ UNCHANGED <<page, acts, table>>

UserRefused(f) ==
  /\ Sent(f, UserWrites)
  /\ (accounts[f.of] = None) # (f.kind = "createUser")
  /\ Without(f)
  /\ UNCHANGED <<page, acts, userVars>>

(* A load reads one state of the table; what another administrator wrote    *)
(* before is in it, what answers of writes bring later belongs to then.     *)
ReadUsers(f) ==
  /\ Sent(f, {"users"})
  /\ flights' = Answered(f, accounts)
  /\ spoiled' = {g.of : g \in {h \in Of(UserWrites) : h.state = "ok"}}
  /\ UNCHANGED <<page, acts, accounts, table>>

(* The connection breaks: before the server did anything, or after it.      *)
UserRequestLost(f) ==
  /\ f.kind \in UserWrites \cup {"users"}
  /\ Act
  /\ Without(f)
  /\ spoiled' = IF f.kind = "users" THEN Users
                ELSE IF f.state = "ok" THEN spoiled \cup {f.of} ELSE spoiled
  /\ UNCHANGED <<page, accounts, table>>

(* Another administrator, or a registration that is renamed or removed.     *)
OtherAdmin(u, i) ==
  /\ Act
  /\ accounts[u] # None
  /\ accounts' = [accounts EXCEPT ![u].given =
                    IF i \in @ THEN @ \ {i} ELSE @ \cup {i}]
  /\ spoiled' = spoiled \cup {u}
  /\ UNCHANGED <<page, flights, table>>

-----------------------------------------------------------------------------
(* The page's store receives                                                *)

UsersLoaded(f) ==
  /\ Answers(f, {"users"})
  /\ table' = f.result
  /\ Without(f)
  /\ UNCHANGED <<page, acts, accounts, spoiled>>

(* createUserSucceeded puts a row on top, of which this is the first; the   *)
(* others change the row of the user, where there is one.                   *)
UserWritten(f) ==
  /\ Answers(f, UserWrites)
  /\ table' = IF table[f.of] = None /\ f.kind # "createUser" THEN table ELSE Applied(table, f)
  /\ Without(f)
  /\ UNCHANGED <<page, acts, accounts, spoiled>>

-----------------------------------------------------------------------------
UserInit ==
  /\ accounts \in [Users -> Newcomers \cup {None}]
  /\ page = [at |-> "users", of |-> None, no |-> 0]
  /\ flights = {Request("users", None, None)}
  /\ acts = 0
  /\ table = [u \in Users |-> None]
  /\ spoiled = Users

UserUser ==
  \/ OpenUsers
  \/ \E u \in Users :
       \/ DeleteUser(u)
       \/ \E role \in Roles : SetRole(u, role)
       \/ \E i \in Ids : AddInstance(u, i) \/ RemoveInstance(u, i) \/ OtherAdmin(u, i)
       \/ \E account \in Newcomers : CreateUser(u, account)

UserAnswers(f) ==
  \/ ApplyUser(f) \/ UserRefused(f) \/ ReadUsers(f) \/ UserRequestLost(f)
  \/ UsersLoaded(f) \/ UserWritten(f)

UserNext == UserUser \/ \E f \in flights : UserAnswers(f)

-----------------------------------------------------------------------------
(* The Settings page of an administrator: the OIDC provider, which the      *)
(* store saves, and e-mail delivery, the endpoint policy and the registry   *)
(* secret, whose forms wait for their own requests.  One of the four is     *)
(* looked at, the page's "of".                                              *)

CONSTANTS Providers  \* OIDC providers

VARIABLES kept,     \* [section]: what the server has
          form,     \* the draft of the section, None before it is loaded
          saved,    \* what the page takes for the server's: the snapshot of the
                    \* e-mail settings, deploymentPolicy, configured; or None
          flags,     \* "load", "save", "test": the flags of the section
          tested,   \* ghost: the test message last sent, or None
          stale     \* ghost: the server was changed behind the page's back

settingsVars == <<kept, form, saved, flags, tested, stale>>

Sections == {"oidc", "email", "policy", "registry"}

(* What can be typed: e-mail settings with a field missing and SMTP over    *)
(* port 465 without TLS, which an older version could store; a policy of    *)
(* its own or the environment's; no text, or a secret.                      *)
Blank == "blank"
Email == {"disabled", "smtp", "smtpTls", "port465", "unfinished"}
Drafts(s) == CASE s = "email" -> Email
               [] s = "oidc" -> Providers \cup {Blank, "off"}
               [] s = "policy" -> {"default", "deny"}
               [] s = "registry" -> {Blank, "secret"}

OnSettings == page.at = "settings"
InSection(s) == OnSettings /\ page.of = s

AskSettings(kind, arg) == Request(kind, page'.of, [what |-> arg, visit |-> page'.no])
Addressed(f) == OnSettings /\ f.of = page.of /\ (f.of = "oidc" \/ f.arg.visit = page.no)

-----------------------------------------------------------------------------
(* Opening and leaving                                                      *)

SavesOidc == \E f \in Of({"saveSettings"}) : f.of = "oidc"

(* The page keeps what it was built with: blank OIDC settings.              *)
OpenSettings(s) ==
  /\ ~OnSettings
  /\ Route("settings", s)
  /\ form' = (IF s \in {"oidc", "registry"} THEN Blank ELSE None)
  /\ saved' = None
  /\ flags' = (IF s = "email" THEN {} ELSE {"load"})
             \cup (IF SavesOidc /\ s = "oidc" THEN {"save"} ELSE {})
  /\ stale' = (\E f \in Of({"saveSettings"}) : f.of = s)
  /\ flights' = (flights \ Of({"settings"})) \cup {AskSettings("settings", None)}
  /\ UNCHANGED <<kept, tested>>

(* The promises of a component go nowhere once it is left; the store's do.  *)
LeaveSettings ==
  /\ OnSettings
  /\ Route("list", None)
  /\ flags' = {}
  /\ flights' = {f \in flights : f.of = "oidc"} \cup
                {f \in Unheard({"settings", "saveSettings", "testEmail"}) : f.of # "oidc"}
  /\ UNCHANGED <<kept, form, saved, tested, stale>>

-----------------------------------------------------------------------------
(* What the page makes of an answer                                         *)

(* applyEmailSettings(): port 465 is shown with TLS; nothing is taken for   *)
(* saved then.                                                              *)
Corrected(v) == IF v = "port465" THEN "smtpTls" ELSE v

(* Mutant: the snapshot is taken of the corrected settings.                 *)
BadSnapshotOf_Corrected(v) == Corrected(v)

SnapshotOf(v) == IF Corrected(v) = v THEN v ELSE None

ApplyEmail(v) == form' = Corrected(v) /\ saved' = SnapshotOf(v)

Refill(s, v, saving) ==
  CASE s = "email" -> ApplyEmail(v)
    [] s = "oidc" -> form' = v /\ saved' = v
    [] s = "policy" -> saved' = v /\ form' = IF saving THEN form ELSE v
    [] s = "registry" -> saved' = v /\ form' = IF saving THEN Blank ELSE form

Unsaved == saved = None \/ form # saved

-----------------------------------------------------------------------------
(* The user                                                                 *)

TypeSetting(d) ==
  /\ OnSettings /\ form # None /\ d # form
  /\ page.of # "policy" \/ flags = {}
  /\ form' = d
  /\ UNCHANGED <<browserVars, kept, saved, flags, tested, stale>>

AskSave(value) ==
  /\ Act /\ UNCHANGED page
  /\ flags' = flags \cup {"save"}
  /\ flights' = Merged(AskSettings("saveSettings", value))
  /\ stale' = (stale \/ \E f \in Awaited({"settings", "testEmail"}) : f.of = page.of)
  /\ UNCHANGED <<kept, form, saved, tested>>

(* saveSettings(): canSaveSettings() holds after a load that failed, too.   *)
SaveOidc == InSection("oidc") /\ flags = {} /\ AskSave(form)

(* getEmailFieldError(), smtpSecurityError(): no field is missing.          *)
Filled(d) == d # "unfinished"

(* saveEmailSettings(): a test under way does not keep it from starting.    *)
SaveEmail == InSection("email") /\ form # None /\ "save" \notin flags /\ Filled(form) /\ AskSave(form)

SavePolicy == InSection("policy") /\ flags = {} /\ saved # None /\ AskSave(form)

(* A pasted secret, or none if one is configured.                           *)
SaveRegistry ==
  /\ InSection("registry") /\ flags = {}
  /\ \/ form # Blank /\ AskSave(form)
     \/ saved = "secret" /\ AskSave(Blank)

(* Reload policy: the button there is as long as no load has worked.        *)
ReloadPolicy ==
  /\ InSection("policy") /\ flags = {} /\ saved = None
  /\ Act /\ UNCHANGED page
  /\ flags' = {"load"}
  /\ flights' = Merged(AskSettings("settings", None))
  /\ UNCHANGED <<kept, form, saved, tested, stale>>

CanSendTestEmail == form \notin {None, "disabled"} /\ flags = {} /\ ~Unsaved

SendTestEmail ==
  /\ InSection("email") /\ CanSendTestEmail
  /\ Act /\ UNCHANGED page
  /\ flags' = flags \cup {"test"}
  /\ flights' = Merged(AskSettings("testEmail", form))
  /\ UNCHANGED <<kept, form, saved, tested, stale>>

-----------------------------------------------------------------------------
(* The server                                                               *)

ServeSettings(f) ==
  /\ Sent(f, {"settings"})
  /\ flights' = Answered(f, kept[f.of])
  /\ UNCHANGED <<page, acts, settingsVars>>

(* update_email_settings(): checked before it is stored, here with TLS.     *)
Acceptable(v) == v \notin {"unfinished", "port465"}
UpdateEmail(v) == Acceptable(v) /\ kept' = [kept EXCEPT !["email"] = v]

(* put_oidc_settings(): another provider is stored after it was reached;    *)
(* the first one only after a login there, which leaves the page.           *)
Preflight(v) == kept["oidc"] = "off" /\ v \in Providers
UpdateOidc(v) == v # Blank /\ ~Preflight(v) /\ kept' = [kept EXCEPT !["oidc"] = v]

UpdatePolicy(v) == kept' = [kept EXCEPT !["policy"] = v]
UpdateRegistry(v) == kept' = [kept EXCEPT !["registry"] = v]

UpdateSettings(s, v) ==
  \/ s = "email" /\ UpdateEmail(v)
  \/ s = "oidc" /\ UpdateOidc(v)
  \/ s = "policy" /\ UpdatePolicy(v)
  \/ s = "registry" /\ UpdateRegistry(v)

ServeSave(f) ==
  /\ Sent(f, {"saveSettings"})
  /\ UpdateSettings(f.of, f.arg.what)
  /\ flights' = Answered(f, f.arg.what)
  /\ UNCHANGED <<page, acts, form, saved, flags, tested, stale>>

(* test_email(): with what is stored, if that is fit to be used; known: to  *)
(* a page that is still there.                                              *)
ServeTest(f) ==
  /\ Sent(f, {"testEmail"})
  /\ kept["email"] # "disabled" /\ Acceptable(kept["email"])
  /\ tested' = [with |-> kept["email"], meant |-> f.arg.what, known |-> ~stale /\ f.heard]
  /\ flights' = Answered(f, None)
  /\ UNCHANGED <<page, acts, kept, form, saved, flags, stale>>

(* Another administrator.                                                   *)
OthersSave(s, v) ==
  /\ v \notin {kept[s], Blank}
  /\ s \in {"email", "policy"}
  /\ Act
  /\ UpdateSettings(s, v)
  /\ stale' = (stale \/ InSection(s))
  /\ UNCHANGED <<page, flights, form, saved, flags, tested>>

-----------------------------------------------------------------------------
(* Answers                                                                  *)

SettingsLoaded(f) ==
  /\ Answers(f, {"settings"})
  /\ IF Addressed(f) THEN Refill(f.of, f.result, FALSE) /\ flags' = flags \ {"load", "test"}
     ELSE UNCHANGED <<form, saved, flags>>
  /\ Without(f)
  /\ UNCHANGED <<page, acts, kept, tested, stale>>

SettingsSaved(f) ==
  /\ Answers(f, {"saveSettings"})
  /\ IF Addressed(f) THEN Refill(f.of, f.result, TRUE) /\ flags' = flags \ {"save"}
     ELSE UNCHANGED <<form, saved, flags>>
  /\ Without(f)
  /\ UNCHANGED <<page, acts, kept, tested, stale>>

(* The status is loaded again, and with it the settings.                    *)
TestSent(f) ==
  /\ Answers(f, {"testEmail"})
  /\ flights' = (flights \ {f}) \cup {Request("settings", "email", f.arg)}
  /\ UNCHANGED <<page, acts, settingsVars>>

(* saveOidcSettings(): the browser goes to the provider.                    *)
Redirected(f) ==
  /\ Sent(f, {"saveSettings"}) /\ f.of = "oidc" /\ Preflight(f.arg.what)
  /\ page' = [page EXCEPT !.at = "provider"]
  /\ flights' = {} /\ flags' = {}
  /\ UNCHANGED <<acts, kept, form, saved, tested, stale>>

(* Refused, not answered, or an answer that got lost.                       *)
SettingsFail(f) ==
  /\ Sent(f, {"settings", "saveSettings", "testEmail"})
  /\ \/ Act /\ UNCHANGED <<kept, stale>>
     \/ Act /\ f.kind = "saveSettings" /\ UpdateSettings(f.of, f.arg.what) /\ stale' = TRUE
     \/ f.kind = "saveSettings" /\ f.arg.what \in {Blank, "port465"} /\ UNCHANGED <<acts, kept, stale>>
     \/ f.kind = "testEmail" /\ kept["email"] \in {"disabled", "port465"} /\ UNCHANGED <<acts, kept, stale>>
  /\ flags' = IF ~f.heard \/ ~Addressed(f) THEN flags
             ELSE flags \ (IF f.kind = "saveSettings" THEN {"save"} ELSE {"load", "test"})
  /\ Without(f)
  /\ UNCHANGED <<page, form, saved, tested>>

-----------------------------------------------------------------------------
SettingsInit ==
  /\ \E e \in {"disabled", "smtp", "port465"}, o \in {"off"} \cup Providers :
       kept = [s \in Sections |-> CASE s = "email" -> e [] s = "oidc" -> o
                                    [] s = "policy" -> "default" [] s = "registry" -> Blank]
  /\ form = None /\ saved = None /\ flags = {} /\ tested = None /\ stale = FALSE
  /\ page = [at |-> "list", of |-> None, no |-> 0] /\ flights = {} /\ acts = 0

SettingsNext ==
  \/ \E s \in Sections : OpenSettings(s) \/ (\E v \in Drafts(s) : OthersSave(s, v))
  \/ LeaveSettings
  \/ OnSettings /\ \E d \in Drafts(page.of) : TypeSetting(d)
  \/ SaveOidc \/ SaveEmail \/ SavePolicy \/ SaveRegistry \/ ReloadPolicy \/ SendTestEmail
  \/ \E f \in flights :
       \/ ServeSettings(f) \/ ServeSave(f) \/ ServeTest(f) \/ SettingsLoaded(f)
       \/ SettingsSaved(f) \/ TestSent(f) \/ Redirected(f) \/ SettingsFail(f)
=============================================================================
