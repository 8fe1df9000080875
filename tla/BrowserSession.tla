--------------------------- MODULE BrowserSession ---------------------------
(* Who a tab believes to be logged in (shared/auth, the guard, the          *)
(* interceptor, the sign-in page) and the credentials its requests carry: a *)
(* local access token, kept in the store and in localStorage, and a session *)
(* cookie, which the client holds: a response replaces it when it arrives,  *)
(* whatever happened to it since the request was sent.  Roles, accounts     *)
(* that wait for approval and the OIDC provider's own pages are left out.   *)
EXTENDS Browser

CONSTANTS Locals,   \* users with a password
          Externals \* users of the OIDC provider

ASSUME HoldersAssumption == None \notin Locals \cup Externals

VARIABLES oidc,     \* the backend's setting: OIDC instead of passwords
          ended,    \* local users whose credentials have changed
          expired,  \* access tokens past their time
          user,     \* userName of the store, or None
          token,    \* accessToken of the store, or None
          stored,   \* triton_access_token in localStorage, or None
          timer,    \* the token whose expiry the automatic logout waits for
          cookie,   \* the user in the session cookie, or None
          adrift    \* ghost: user and credentials come from different answers

sessionVars == <<oidc, ended, expired, user, token, stored, timer, cookie, adrift>>

-----------------------------------------------------------------------------
(* The server's answer to what a request carries                            *)

(* A bearer token that is not valid any more leaves the word to the cookie. *)
Claimed(bearer, ck) ==
  IF bearer # None /\ bearer \notin expired THEN bearer.of ELSE ck

Accepted(bearer, ck) == LET u == Claimed(bearer, ck)
                        IN IF u \in ended THEN None ELSE u

(* The middleware sends the session back with every response that has one,  *)
(* /api/auth/me and a local token write it, changed credentials clear it.   *)
CookieAfter(f) ==
  LET u == Claimed(f.arg.bearer, f.arg.cookie)
  IN CASE u = None -> cookie
       [] u \in ended -> IF f.arg.cookie # None THEN None ELSE cookie
       [] OTHER -> u

-----------------------------------------------------------------------------
(* Sending.  The interceptor asks getAccessToken(), which ends the local    *)
(* session when the token has expired: the operators say what is left.      *)

Live == IF token \in expired THEN None ELSE token

(* then: "guard" when a navigation waits for the outcome.                   *)
Call(kind, then) == Request(kind, None,
  [bearer |-> Live, cookie |-> cookie, kept |-> token, then |-> then])

(* A request that carries no token any more.                                *)
BareCall(kind, then, ck) == Request(kind, None,
  [bearer |-> None, cookie |-> ck, kept |-> None, then |-> then])

(* clearLocalSession().                                                     *)
Cleared == user' = None /\ token' = None /\ stored' = None /\ timer' = None

AsSending == IF token \in expired THEN Cleared
             ELSE UNCHANGED <<user, token, stored, timer>>

(* The store's logout() with removeItem(): the timer goes on.               *)
Dropped == user' = None /\ token' = None /\ stored' = None

-----------------------------------------------------------------------------
(* Pages.  A navigation replaces the one that waits; the sign-in page       *)
(* refreshes the session when it opens, without a token at that moment.     *)

At(where) == [at |-> where, of |-> None, no |-> 0]

Settled(rest) == {IF f.arg.then = "guard" THEN [f EXCEPT !.arg.then = "page"] ELSE f : f \in rest}

(* ck: the cookie by now.                                                   *)
ToSignin(rest, ck) ==
  /\ page' = At("signin")
  /\ flights' = IF page.at = "signin" THEN Settled(rest)
                ELSE Settled(rest) \cup {BareCall("me", "page", ck)}

(* The session is settled: a navigation that waited for it is decided.      *)
Decided(f, rest, ck) ==
  CASE f.arg.then # "guard" -> page' = page /\ flights' = rest
    [] f.arg.then = "guard" /\ user' # None -> page' = At("app") /\ flights' = rest
    [] OTHER -> page' = At("signin") /\ flights' = rest \cup {BareCall("me", "page", ck)}

(* The application starts, at a page or at the sign-in page: init() and the *)
(* guard (or the sign-in page) each refresh the session.                    *)
Boot(where, kept, ck) ==
  LET t == IF kept \in expired THEN None ELSE kept
      Probe(then) == Request("me", None,
                       [bearer |-> t, cookie |-> ck, kept |-> t, then |-> then])
  IN /\ page' = At(where)
     /\ user' = None
     /\ token' = t /\ stored' = t /\ timer' = t
     /\ cookie' = ck
     /\ flights' = {Probe("init"), Probe(IF where = "signin" THEN "page" ELSE "guard")}
     /\ adrift' = FALSE

Reload(where) ==
  /\ Act
  /\ Boot(where, stored, cookie)
  /\ UNCHANGED <<oidc, ended, expired>>

(* The sign-in page leads on as soon as somebody is logged in.              *)
Redirect ==
  /\ page.at = "signin" /\ user # None
  /\ page' = At("app")
  /\ UNCHANGED <<flights, acts, sessionVars>>

-----------------------------------------------------------------------------
(* The user                                                                 *)

Login(u) ==
  /\ page.at = "signin" /\ ~oidc /\ user = None
  /\ Of({"login"}) = {}
  /\ Act
  /\ flights' = Merged(Request("login", u,
                         [bearer |-> Live, cookie |-> cookie, kept |-> token, then |-> "page"]))
  /\ AsSending
  /\ UNCHANGED <<page, oidc, ended, expired, cookie, adrift>>

(* The provider sends the user back to a new document.                      *)
OidcLogin(u) ==
  /\ page.at = "signin" /\ oidc
  /\ Act
  /\ Boot("app", stored, u)
  /\ UNCHANGED <<oidc, ended, expired>>

(* The shell clears the local session, asks the backend to clear the cookie *)
(* and goes to the sign-in page, whose request still carries it.            *)
Logout ==
  /\ page.at = "app" /\ user # None
  /\ Act
  /\ Cleared
  /\ ToSignin(flights \cup {BareCall("logout", "page", cookie)}, cookie)
  /\ UNCHANGED <<oidc, ended, expired, cookie, adrift>>

(* Any other request of a page, a poll among them.                          *)
Use ==
  /\ page.at = "app" /\ Room
  /\ flights' = Merged(Call("api", "page"))
  /\ AsSending
  /\ UNCHANGED <<page, acts, oidc, ended, expired, cookie, adrift>>

-----------------------------------------------------------------------------
(* refreshSession()                                                         *)

(* Mutant: the token of the store when the answer arrives.                  *)
BadKept_ReadLate(f) == token

(* const token = ..., read before the request.                              *)
Kept(f) == f.arg.kept

(* The answer names a user: of the provider, who needs no token, or a local *)
(* one, who keeps the token the store had when the request was sent.  One   *)
(* that has expired since ends the session at once.                         *)
Me(f) ==
  /\ f.kind = "me"
  /\ LET u == Accepted(f.arg.bearer, f.arg.cookie)
         kept == Kept(f)
     IN /\ u # None
        /\ cookie' = CookieAfter(f)
        /\ adrift' = FALSE
        /\ CASE u \in Externals ->
                  /\ user' = u /\ token' = None
                  /\ stored' = IF kept # None THEN None ELSE stored
                  /\ timer' = timer
                  /\ Decided(f, flights \ {f}, cookie')
             [] u \in Locals /\ kept \in expired ->
                  Cleared /\ ToSignin(flights \ {f}, cookie')
             [] OTHER ->
                  /\ user' = u /\ token' = kept
                  /\ stored' = stored
                  /\ timer' = IF kept # None THEN kept ELSE timer
                  /\ Decided(f, flights \ {f}, cookie')
  /\ UNCHANGED <<acts, oidc, ended, expired>>

(* No answer, or none of an authenticated user: are there OIDC sessions?    *)
MeFails(f) ==
  /\ f.kind = "me"
  /\ \/ Accepted(f.arg.bearer, f.arg.cookie) = None /\ cookie' = CookieAfter(f) /\ UNCHANGED acts
     \/ Act /\ UNCHANGED cookie
  /\ flights' = (flights \ {f}) \cup {[Call("options", f.arg.then) EXCEPT !.arg.cookie = cookie']}
  /\ AsSending
  /\ UNCHANGED <<page, oidc, ended, expired, adrift>>

Options(f) ==
  /\ f.kind = "options" /\ oidc
  /\ flights' = (flights \ {f}) \cup {Call("whoami", f.arg.then)}
  /\ AsSending
  /\ UNCHANGED <<page, acts, oidc, ended, expired, cookie, adrift>>

NoOptions(f) ==
  /\ f.kind = "options"
  /\ IF oidc THEN Act ELSE UNCHANGED acts
  /\ Dropped
  /\ adrift' = FALSE
  /\ Decided(f, flights \ {f}, cookie)
  /\ UNCHANGED <<oidc, ended, expired, timer, cookie>>

(* whoami answers for the cookie; the token stays.                          *)
Whoami(f) ==
  /\ f.kind = "whoami" /\ f.arg.cookie # None
  /\ user' = f.arg.cookie
  /\ cookie' = f.arg.cookie
  /\ adrift' = (token # None)
  /\ UNCHANGED <<token, stored, timer>>
  /\ Decided(f, flights \ {f}, cookie')
  /\ UNCHANGED <<acts, oidc, ended, expired>>

(* Refused, the interceptor has its say first.                              *)
WhoamiFails(f) ==
  /\ f.kind = "whoami"
  /\ adrift' = FALSE
  /\ \/ f.arg.cookie = None /\ Cleared /\ ToSignin(flights \ {f}, cookie) /\ UNCHANGED acts
     \/ Act /\ Dropped /\ UNCHANGED timer /\ Decided(f, flights \ {f}, cookie)
  /\ UNCHANGED <<oidc, ended, expired, cookie>>

-----------------------------------------------------------------------------
(* Other answers                                                            *)

LoggedIn(f) ==
  /\ f.kind = "login" /\ f.of \notin ended
  /\ LET t == [of |-> f.of, no |-> acts]
     IN user' = f.of /\ token' = t /\ stored' = t /\ timer' = t
  /\ cookie' = f.of
  /\ adrift' = FALSE
  /\ page' = At("app")
  /\ flights' = Settled(flights \ {f})
  /\ UNCHANGED <<acts, oidc, ended, expired>>

LoginFails(f) ==
  /\ f.kind = "login"
  /\ IF f.of \in ended THEN UNCHANGED acts ELSE Act
  /\ Without(f)
  /\ UNCHANGED <<page, sessionVars>>

LoggedOut(f) ==
  /\ f.kind = "logout"
  /\ \/ UNCHANGED acts /\ cookie' = IF f.arg.cookie # None THEN None ELSE cookie
     \/ Act /\ UNCHANGED cookie
  /\ Without(f)
  /\ UNCHANGED <<page, oidc, ended, expired, user, token, stored, timer, adrift>>

Served(f) ==
  /\ f.kind = "api"
  /\ \/ Accepted(f.arg.bearer, f.arg.cookie) # None /\ cookie' = CookieAfter(f) /\ UNCHANGED acts
     \/ Act /\ UNCHANGED cookie
  /\ Without(f)
  /\ adrift' = (adrift \/ cookie' # cookie)
  /\ UNCHANGED <<page, oidc, ended, expired, user, token, stored, timer>>

(* 401: the local session is over, whoever it belongs to by now.            *)
Refused(f) ==
  /\ f.kind = "api"
  /\ Accepted(f.arg.bearer, f.arg.cookie) = None
  /\ cookie' = CookieAfter(f)
  /\ Cleared
  /\ adrift' = FALSE
  /\ ToSignin(flights \ {f}, cookie')
  /\ UNCHANGED <<acts, oidc, ended, expired>>

-----------------------------------------------------------------------------
(* Time, and the administrator                                              *)

Tokens == ({token, stored, timer} \cup {f.arg.bearer : f \in flights}) \ {None}

Expire(t) ==
  /\ t \notin expired
  /\ Act
  /\ expired' = expired \cup {t}
  /\ UNCHANGED <<page, flights, oidc, ended, user, token, stored, timer, cookie, adrift>>

AutoLogout ==
  /\ timer \in expired
  /\ Cleared
  /\ adrift' = FALSE
  /\ ToSignin(flights, cookie)
  /\ UNCHANGED <<acts, oidc, ended, expired, cookie>>

EndSessions(u) ==
  /\ u \notin ended
  /\ Act
  /\ ended' = ended \cup {u}
  /\ UNCHANGED <<page, flights, oidc, expired, user, token, stored, timer, cookie, adrift>>

-----------------------------------------------------------------------------
SessionInit ==
  /\ oidc \in BOOLEAN
  /\ ended = {} /\ expired = {}
  /\ \E kept \in {None} \cup {[of |-> u, no |-> 0] : u \in Locals},
        ck \in {None} \cup Locals \cup (IF oidc THEN Externals ELSE {}) :
       LET Probe(then) == Request("me", None,
                            [bearer |-> kept, cookie |-> ck, kept |-> kept, then |-> then])
       IN /\ token = kept /\ stored = kept /\ timer = kept
          /\ cookie = ck
          /\ flights = {Probe("init"), Probe("guard")}
  /\ page = At("start")
  /\ acts = 0
  /\ user = None
  /\ adrift = FALSE

SessionUser ==
  \/ Redirect \/ Logout \/ Use \/ AutoLogout
  \/ \E where \in {"start", "signin"} : Reload(where)
  \/ \E u \in Locals : Login(u) \/ EndSessions(u)
  \/ \E u \in Externals : OidcLogin(u)
  \/ \E t \in Tokens : Expire(t)

SessionAnswers(f) ==
  \/ Me(f) \/ MeFails(f) \/ Options(f) \/ NoOptions(f) \/ Whoami(f) \/ WhoamiFails(f)
  \/ LoggedIn(f) \/ LoginFails(f) \/ LoggedOut(f) \/ Served(f) \/ Refused(f)

SessionNext == SessionUser \/ \E f \in flights : SessionAnswers(f)
=============================================================================
