----------------------------- MODULE MCAccounts -----------------------------
(* Small instances of Accounts for TLC. *)
EXTENDS Accounts, TLC

CONSTANTS i1, i2, e1, e2, t1, a

NoUsers == [i \in Ids |-> NoUser]
NoLinks == [t \in Links |-> NoLink]
NoOne   == [c \in Clients |-> None]
AllAre(e, provider) == [c \in Clients |-> [email |-> e, provider |-> provider, version |-> 0]]

Admin == NewUser(e1, "admin", "local", TRUE, TRUE)
Bound == [NewUser(e1, "admin", "oidc", FALSE, TRUE) EXCEPT !.subject = e1]

Two(u, v) == [NoUsers EXCEPT ![i1] = u, ![i2] = v]
OneLink(purpose) ==
  [NoLinks EXCEPT ![t1] = [NoLink EXCEPT !.state = "live", !.user = i2, !.purpose = purpose,
                                         !.known = TRUE]]

(* Nothing is set up. *)
Fresh == [users |-> NoUsers, links |-> NoLinks, oidc |-> [enabled |-> FALSE, config |-> None],
          mail |-> "smtp", session |-> NoOne]
(* An administrator has invited someone. *)
Invited == [users |-> Two(Admin, NewUser(e2, "viewer", "local", FALSE, FALSE)),
            links |-> OneLink("invite"), oidc |-> [enabled |-> FALSE, config |-> None],
            mail |-> "smtp", session |-> AllAre(e1, "local")]
(* Someone has asked for a new password. *)
Recovering == [users |-> Two(Admin, NewUser(e2, "viewer", "local", TRUE, TRUE)),
               links |-> OneLink("password_reset"), oidc |-> [enabled |-> FALSE, config |-> None],
               mail |-> "smtp", session |-> AllAre(e1, "local")]
(* An account without password waits, and no mail is sent. *)
Waiting == [users |-> Two(Admin, NewUser(e2, "viewer", "local", FALSE, FALSE)), links |-> NoLinks,
            oidc |-> [enabled |-> FALSE, config |-> None], mail |-> "disabled",
            session |-> AllAre(e1, "local")]
(* OIDC is on, and an administrator with a password is left. *)
OidcOn == [users |-> Two(Bound, NewUser(e2, "admin", "local", TRUE, TRUE)), links |-> NoLinks,
           oidc |-> [enabled |-> TRUE, config |-> a], mail |-> "disabled",
           session |-> AllAre(e1, "oidc")]

AllSeeds == {Fresh, Invited, Recovering, Waiting, OidcOn}

AllOps == {"bootstrap", "login", "register", "register_user", "role", "delete", "invite",
           "reissue", "admin_reset", "forgot", "revoke", "complete", "mail", "preflight",
           "oidc", "callback", "oidc_login", "resolve", "logout"}

(* A reset is open, and only logins and recoveries are sent. *)
ResetSeeds == {Recovering}
ResetOps   == {"complete", "forgot", "login"}

Symmetry == Permutations(Clients)
=============================================================================
