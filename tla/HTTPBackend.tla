----------------------------- MODULE HTTPBackend -----------------------------
(***************************************************************************)
(* zync.py, class HTTPBackend: one connection to the Zync site, with its   *)
(* access token, its cookie and the credentials saved on disk, used by the *)
(* threads of a plugin.  Requests are retried after a new login, logins    *)
(* are retried themselves.                                                 *)
(*                                                                         *)
(* The sites answer as they like.  What matters of a token or a cookie is  *)
(* whether there is one; the e-mail address goes with the token.           *)
(***************************************************************************)
EXTENDS Naturals, FiniteSets

CONSTANTS
    Thread,         \* the threads that use the connection
    Attempts,       \* `attempts` of request
    LoginAttempts   \* `attempts` of login_with_google

ASSUME AttemptsArePositive == Attempts \in Nat \ {0} /\ LoginAttempts \in Nat \ {0}

VARIABLES
    external,  \* token and e-mail were given to the constructor
    token,     \* there is an access_token
    cookie,    \* there is a cookie
    stored,    \* OAUTH2_STORAGE holds valid credentials
    pc,        \* where each thread is
    op,        \* the operation it is in, or was in last
    attempt,   \* attempts of the request that have failed
    tries,     \* attempts of its last login that have failed
    header,    \* the Cookie header of the request it sends is there
    outcome,   \* history: how its last operation ended
    rejected,  \* history: attempts of it whose cookie the site rejected
    lost,      \* history: attempts of it that found the cookie gone
    refused,   \* history: tries of its last login that were refused
    alone,     \* history: no other operation has run since its last one began
    agreed     \* history: token and cookie were both there then, or neither

shared == <<external, token, cookie, stored>>
counts == <<rejected, lost, refused, alone, agreed>>
local == <<op, attempt, tries, header, outcome, counts>>
vars == <<shared, local, pc>>

\* The constructor has logged in, from the credentials given to it or those on
\* disk, which a refresh has saved.
Init ==
    /\ token = TRUE /\ cookie = TRUE
    /\ external \in BOOLEAN
    /\ stored \in BOOLEAN /\ (external \/ stored)
    /\ pc = [t \in Thread |-> "idle"]
    /\ op = [t \in Thread |-> "none"]
    /\ attempt = [t \in Thread |-> 0]
    /\ tries = [t \in Thread |-> 0]
    /\ header = [t \in Thread |-> FALSE]
    /\ outcome = [t \in Thread |-> "none"]
    /\ rejected = [t \in Thread |-> 0]
    /\ lost = [t \in Thread |-> 0]
    /\ refused = [t \in Thread |-> 0]
    /\ alone = [t \in Thread |-> TRUE]
    /\ agreed = [t \in Thread |-> TRUE]

GoTo(t, place) == pc' = [pc EXCEPT ![t] = place]

\* The operation of t ends with o.
End(t, o) ==
    /\ outcome' = [outcome EXCEPT ![t] = o]
    /\ GoTo(t, "idle")
    /\ UNCHANGED <<op, attempt, tries, header, counts>>

\* Thread t begins operation o at `place`.
Begin(t, o, place) ==
    /\ pc[t] = "idle"
    /\ op' = [op EXCEPT ![t] = o]
    /\ attempt' = [attempt EXCEPT ![t] = 0]
    /\ tries' = [tries EXCEPT ![t] = 0]
    /\ header' = [header EXCEPT ![t] = FALSE]
    /\ outcome' = [outcome EXCEPT ![t] = "none"]
    /\ rejected' = [rejected EXCEPT ![t] = 0]
    /\ lost' = [lost EXCEPT ![t] = 0]
    /\ refused' = [refused EXCEPT ![t] = 0]
    /\ alone' = [u \in Thread |-> u = t /\ \A v \in Thread : pc[v] = "idle"]
    /\ agreed' = [agreed EXCEPT ![t] = (token <=> cookie)]
    /\ GoTo(t, place)
    /\ UNCHANGED shared

-----------------------------------------------------------------------------
(* request().                                                              *)

CallRequest(t) == Begin(t, "request", "attempt")

\* Without a cookie the attempt begins with a login.
BeginAttempt(t) ==
    /\ pc[t] = "attempt"
    /\ GoTo(t, IF cookie THEN "setCookie" ELSE "login")
    /\ tries' = IF cookie THEN tries ELSE [tries EXCEPT ![t] = 0]
    /\ refused' = IF cookie THEN refused ELSE [refused EXCEPT ![t] = 0]
    /\ UNCHANGED <<shared, op, attempt, header, outcome, rejected, lost, alone, agreed>>

\* set_cookie tests the cookie; there is none if another thread forgot it.
TestCookie(t) ==
    /\ pc[t] = "setCookie"
    /\ GoTo(t, IF cookie THEN "takeCookie" ELSE "forgetToken")
    /\ lost' = IF cookie THEN lost ELSE [lost EXCEPT ![t] = @ + 1]
    /\ UNCHANGED <<shared, op, attempt, tries, header, outcome, rejected, refused, alone, agreed>>

\* set_cookie reads the cookie again and puts it in the header.
TakeCookie(t) ==
    /\ pc[t] = "takeCookie"
    /\ header' = [header EXCEPT ![t] = cookie]
    /\ GoTo(t, "send")
    /\ UNCHANGED <<shared, op, attempt, tries, outcome, counts>>

\* The site answers; or the request fails otherwise, as it does for want of a
\* header.
RequestDone(t) ==
    /\ pc[t] = "send"
    /\ \/ header[t] /\ End(t, "ok")
       \/ End(t, "error")
    /\ UNCHANGED shared

\* The site takes the session for invalid.
RequestRejected(t) ==
    /\ pc[t] = "send" /\ header[t]
    /\ rejected' = [rejected EXCEPT ![t] = @ + 1]
    /\ GoTo(t, "forgetToken")
    /\ UNCHANGED <<shared, op, attempt, tries, header, outcome, lost, refused, alone, agreed>>

\* ZyncAuthenticationError: token and e-mail are forgotten, then the cookie.
ForgetBut(t, known) ==
    /\ pc[t] = "forgetToken"
    /\ token' = known
    /\ GoTo(t, "forgetCookie")
    /\ UNCHANGED <<external, cookie, stored, local>>

\* Faulty: only the cookie is forgotten.
ForgetCookieOnly(t) == ForgetBut(t, token)

ForgetToken(t) == ForgetBut(t, FALSE)

\* The attempt has failed, and the cookie is forgotten; there is another attempt
\* or the error is raised.
ForgetCookie(t) ==
    /\ pc[t] = "forgetCookie"
    /\ cookie' = FALSE
    /\ attempt' = [attempt EXCEPT ![t] = @ + 1]
    /\ IF attempt[t] + 1 < Attempts
       THEN GoTo(t, "attempt") /\ UNCHANGED outcome
       ELSE GoTo(t, "idle") /\ outcome' = [outcome EXCEPT ![t] = "authError"]
    /\ UNCHANGED <<external, token, stored, op, tries, header, counts>>

-----------------------------------------------------------------------------
(* login_with_google(), called by request or by the user.                  *)

CallLogin(t) == Begin(t, "login", "login")

\* up(): if the site is down, ZyncConnectionError leaves both retry loops.
SiteDown(t) ==
    /\ pc[t] = "login"
    /\ End(t, "error")
    /\ UNCHANGED shared

\* request passes the credentials given to the constructor; otherwise the OAuth
\* flow is next.
SiteUp(t) ==
    /\ pc[t] = "login"
    /\ GoTo(t, IF external /\ op[t] = "request" THEN "validate" ELSE "credentials")
    /\ UNCHANGED <<shared, local>>

\* Credentials come from the disk or from the user.
GetCredentials(t) ==
    /\ pc[t] = "credentials"
    /\ GoTo(t, "refresh")
    /\ stored' = TRUE
    /\ UNCHANGED <<external, token, cookie, local>>

\* Faulty: the user is asked until there are credentials.
AskAgain(t) ==
    /\ pc[t] = "credentials" /\ ~stored
    /\ GoTo(t, "login")
    /\ UNCHANGED <<shared, local>>

\* The user, who is asked when the disk has none, declines: that ends it all.
Decline(t) ==
    /\ pc[t] = "credentials" /\ ~stored
    /\ End(t, "error")
    /\ UNCHANGED shared

\* The credentials are refreshed and saved.
Refresh(t) ==
    /\ pc[t] = "refresh"
    /\ stored' = TRUE
    /\ token' = TRUE
    /\ GoTo(t, "userEmail")
    /\ UNCHANGED <<external, cookie, local>>

\* The refresh fails, and may have found the credentials to be invalid.
RefreshFails(t) ==
    /\ pc[t] = "refresh"
    /\ stored' \in {stored, FALSE}
    /\ End(t, "error")
    /\ UNCHANGED <<external, token, cookie>>

\* _get_user_email returns an address.
EmailFound(t) ==
    /\ pc[t] = "userEmail"
    /\ GoTo(t, "validate")
    /\ UNCHANGED <<shared, local>>

\* It raises ZyncError, which leaves both retry loops.
EmailFails(t) ==
    /\ pc[t] = "userEmail"
    /\ End(t, "error")
    /\ UNCHANGED shared

\* The login has failed n times with ZyncAuthenticationError: there is another
\* try, or the error is raised, through request too.
FailLogin(t, n) ==
    /\ tries' = [tries EXCEPT ![t] = n]
    /\ refused' = [refused EXCEPT ![t] = @ + 1]
    /\ IF n < LoginAttempts
       THEN GoTo(t, "login") /\ UNCHANGED outcome
       ELSE GoTo(t, "idle") /\ outcome' = [outcome EXCEPT ![t] = "authError"]
    /\ UNCHANGED <<op, attempt, header, rejected, lost, alone, agreed>>

\* The account has no address.
NoEmail(t) ==
    /\ pc[t] = "userEmail"
    /\ token' = FALSE
    /\ FailLogin(t, tries[t] + 1)
    /\ UNCHANGED <<external, cookie, stored>>

\* _auth_with_zync is refused: the credentials are cleared, on disk too.
RefuseLogin(t, known, n) ==
    /\ pc[t] = "validate"
    /\ token' = known
    /\ stored' = FALSE
    /\ FailLogin(t, n)
    /\ UNCHANGED <<external, cookie>>

\* Faulty: the token is not cleared.
ValidateRefusedKept(t) == RefuseLogin(t, token, tries[t] + 1)

\* Faulty: counted twice.
ValidateRefusedTwice(t) == RefuseLogin(t, FALSE, tries[t] + 2)

\* Faulty: the first refusal is the last.
ValidateRefusedOnce(t) == RefuseLogin(t, FALSE, LoginAttempts)

ValidateRefused(t) == RefuseLogin(t, FALSE, tries[t] + 1)

\* The file cannot be removed, which leaves both retry loops.
ClearingFails(t) ==
    /\ pc[t] = "validate"
    /\ token' = FALSE
    /\ End(t, "error")
    /\ UNCHANGED <<external, cookie, stored>>

\* The connection breaks.
ValidateFails(t) ==
    /\ pc[t] = "validate"
    /\ End(t, "error")
    /\ UNCHANGED shared

\* It is accepted, and _save_oauth_credentials sets the token,
SaveToken(t) ==
    /\ pc[t] = "validate"
    /\ token' = TRUE
    /\ GoTo(t, "saveCookie")
    /\ UNCHANGED <<external, cookie, stored, local>>

\* then the cookie; request goes on with its attempt.
SaveCookie(t) ==
    /\ pc[t] = "saveCookie"
    /\ cookie' = TRUE
    /\ IF op[t] = "request" THEN GoTo(t, "setCookie") /\ UNCHANGED local
                            ELSE End(t, "ok")
    /\ UNCHANGED <<external, token, stored>>

-----------------------------------------------------------------------------
(* logout().                                                               *)

CallLogout(t) == Begin(t, "logout", "clearToken")

ClearToken(t) ==
    /\ pc[t] = "clearToken"
    /\ token' = FALSE
    /\ GoTo(t, "clearStorage")
    /\ UNCHANGED <<external, cookie, stored, local>>

\* Removing the file may fail, and logout with it.
ClearStorage(t) ==
    /\ pc[t] = "clearStorage"
    /\ \/ stored' = FALSE /\ GoTo(t, "clearCookie") /\ UNCHANGED local
       \/ End(t, "error") /\ UNCHANGED stored
    /\ UNCHANGED <<external, token, cookie>>

ClearCookie(t) ==
    /\ pc[t] = "clearCookie"
    /\ cookie' = FALSE
    /\ End(t, "ok")
    /\ UNCHANGED <<external, token, stored>>

-----------------------------------------------------------------------------
RequestStep(t) ==
    \/ BeginAttempt(t) \/ TestCookie(t) \/ TakeCookie(t) \/ RequestDone(t)
    \/ RequestRejected(t) \/ ForgetToken(t) \/ ForgetCookie(t)

LoginStep(t) ==
    \/ SiteDown(t) \/ SiteUp(t) \/ GetCredentials(t) \/ Decline(t) \/ Refresh(t) \/ RefreshFails(t)
    \/ EmailFound(t) \/ EmailFails(t) \/ NoEmail(t)
    \/ ValidateRefused(t) \/ ClearingFails(t) \/ ValidateFails(t)
    \/ SaveToken(t) \/ SaveCookie(t)

LogoutStep(t) == ClearToken(t) \/ ClearStorage(t) \/ ClearCookie(t)

Step(t) == RequestStep(t) \/ LoginStep(t) \/ LogoutStep(t)

Next ==
    \E t \in Thread : CallRequest(t) \/ CallLogin(t) \/ CallLogout(t) \/ Step(t)

Spec == Init /\ [][Next]_vars

\* Threads are scheduled, connections time out, and the user answers.
FairSpec == Spec /\ \A t \in Thread : WF_vars(Step(t))

-----------------------------------------------------------------------------
(* Properties.                                                             *)

\* The type invariant of the connection.
TypeOK ==
    /\ external \in BOOLEAN /\ token \in BOOLEAN /\ cookie \in BOOLEAN /\ stored \in BOOLEAN
    /\ pc \in [Thread -> {"idle", "attempt", "setCookie", "takeCookie", "send",
            "forgetToken", "forgetCookie", "login", "credentials", "refresh", "userEmail",
            "validate", "saveCookie", "clearToken", "clearStorage", "clearCookie"}]
    /\ op \in [Thread -> {"none", "request", "login", "logout"}]
    /\ attempt \in [Thread -> 0..Attempts]
    /\ tries \in [Thread -> 0..LoginAttempts]
    /\ header \in [Thread -> BOOLEAN]
    /\ outcome \in [Thread -> {"none", "ok", "error", "authError"}]
    /\ rejected \in [Thread -> 0..Attempts] /\ lost \in [Thread -> 0..Attempts]
    /\ refused \in [Thread -> 0..LoginAttempts]
    /\ alone \in [Thread -> BOOLEAN] /\ agreed \in [Thread -> BOOLEAN]

\* A request fails for want of authentication only after every one of its
\* attempts did, or every try of one login.  Without another operation meanwhile
\* it never finds the cookie of its own login gone.
AuthErrorIsFinal ==
    \A t \in Thread : op[t] = "request" /\ outcome[t] = "authError" =>
        \/ refused[t] = LoginAttempts
        \/ rejected[t] + lost[t] = Attempts /\ (alone[t] => lost[t] = 0)

\* A request that fails so, undisturbed, leaves nothing behind that would keep
\* the next one from logging in afresh.
NothingLeft ==
    \A t \in Thread : alone[t] /\ op[t] = "request" /\ outcome[t] = "authError"
                            => ~token /\ ~cookie

\* An authentication error has its reason, and the next request a fresh start.
AuthErrorJustified == AuthErrorIsFinal /\ NothingLeft

\* has_user_login().
HasUserLogin == token

\* What has_user_login() is worth after an operation that no other disturbed, if
\* it was right before.  It is right after one that ended well and after a request
\* that failed for want of authentication.  It takes a login for there that is not
\* only if a request or login failed for another reason, once the token was set,
\* and then the credentials for the next login are on disk.  It misses one that is
\* there only after a login of the user that did not succeed, or a logout that
\* did not, and never after a request.
LoginStaysKnown ==
    \A t \in Thread : pc[t] = "idle" /\ alone[t] /\ agreed[t] =>
        /\ outcome[t] = "ok" \/ (outcome[t] = "authError" /\ op[t] = "request")
              => (HasUserLogin <=> cookie)
        /\ HasUserLogin /\ ~cookie => outcome[t] = "error" /\ op[t] # "logout" /\ stored
        /\ ~HasUserLogin /\ cookie => op[t] \in {"login", "logout"} /\ outcome[t] # "ok"

\* Every request, login and logout comes back, whatever the sites answer and the
\* other threads forget.
EveryCallEnds == \A t \in Thread : pc[t] # "idle" ~> pc[t] = "idle"
=============================================================================
