---------------------------- MODULE JobSubmission ----------------------------
(***************************************************************************)
(* Zync.submit_job, Job.submit and Job.set_status in zync.py, down to the  *)
(* connection: HTTPBackend.request repeats a request after a new login, and*)
(* httplib2, which carries it out, repeats it on a new connection when the *)
(* old one was closed instead of an answer, and follows redirects.         *)
(*                                                                         *)
(* One script makes one call after the other.  The service may have done   *)
(* what a request asks for although no answer to it arrives, and may do it *)
(* after the script has given up.  Requests to create a job are numbered,  *)
(* and a job is known by the number of the request that created it.        *)
(***************************************************************************)
EXTENDS Naturals

CONSTANTS
    Attempts,       \* attempts of HTTPBackend.request
    Redirections,   \* DEFAULT_MAX_REDIRECTS of httplib2
    MaxSubmissions, \* bound: how often a job is submitted
    MaxRequests     \* bound: how many requests to create a job are sent

ASSUME AttemptsIsPositive == Attempts \in Nat \ {0}
ASSUME RedirectionsIsNat == Redirections \in Nat
ASSUME BoundsAreNat == MaxSubmissions \in Nat /\ MaxRequests \in Nat

RETRIES == 2

VARIABLES
    pc,           \* where the script is, "idle" outside all calls
    call,         \* what is asked for: the "checks", to "submit", a "status"
    method,       \* "GET" or "POST"
    cookie,       \* HTTPBackend.cookie is set
    attempts,     \* how many attempts of request are left, the current included
    i,            \* _conn_request's count
    stale,        \* seen_bad_status_line
    redirections, \* how many redirects may still be followed
    reply,        \* what has come back on the connection
    id,           \* Job.id, 0 for None
    inFlight,     \* the requests that the service may still get round to
    jobs,         \* the jobs it has created
    sent,         \* how many requests to create a job were sent
    submissions,  \* how many submissions were begun
    before,       \* history: how many requests had been sent when this one began
    born,         \* history: how many had been sent when this Job was made
    unanswered,   \* history: requests whose connection ended without an answer, or
                  \* whose answer is elsewhere
    failed,       \* history: requests answered with an error
    returned,     \* history: the ids that were returned
    outcome       \* history: how the last call ended

connectionVars == <<i, stale, redirections, reply>>
serviceVars == <<inFlight, jobs, sent>>
historyVars == <<submissions, before, born, unanswered, failed, returned>>
vars == <<pc, call, method, cookie, attempts, connectionVars, id, serviceVars,
          historyVars, outcome>>

Init ==
    /\ pc = "idle" /\ call = "checks" /\ method = "GET"
    /\ cookie \in BOOLEAN
    /\ attempts = 0
    /\ i = 0 /\ stale = FALSE /\ redirections = 0 /\ reply = "none"
    /\ id = 0
    /\ inFlight = {} /\ jobs = {} /\ sent = 0
    /\ submissions = 0 /\ before = 0 /\ born = 0
    /\ unanswered = {} /\ failed = {} /\ returned = {}
    /\ outcome = "none"

-----------------------------------------------------------------------------
(* The script's calls, and HTTPBackend.request.                            *)

\* request is called.
Request(c, m) ==
    /\ call' = c /\ method' = m
    /\ attempts' = Attempts
    /\ pc' = "attempt"

\* It is left, with the connection it had.
EndCall(o) ==
    /\ pc' = "idle" /\ outcome' = o
    /\ i' = 0 /\ stale' = FALSE /\ redirections' = 0 /\ reply' = "none"

\* It goes on, with the connection it has.
GoOn == UNCHANGED <<connectionVars, outcome>>

\* Zync.submit_job makes a new Job and asks for its preflight checks.
SubmitJob ==
    /\ pc = "idle" /\ submissions < MaxSubmissions
    /\ Request("checks", "GET")
    /\ id' = 0
    /\ submissions' = submissions + 1 /\ before' = sent /\ born' = sent
    /\ outcome' = "none"
    /\ UNCHANGED <<cookie, connectionVars, serviceVars, unanswered, failed, returned>>

\* Job.submit is called again for the same Job.
Resubmit ==
    /\ pc = "idle" /\ 0 < submissions /\ submissions < MaxSubmissions
    /\ Request("submit", "POST")
    /\ submissions' = submissions + 1 /\ before' = sent
    /\ outcome' = "none"
    /\ UNCHANGED <<cookie, connectionVars, id, serviceVars, born, unanswered, failed, returned>>

\* set_status sends a message about the job, which must have an id.
SetStatus ==
    /\ pc = "idle" /\ id # 0
    /\ Request("status", "POST")
    /\ outcome' = "none"
    /\ UNCHANGED <<cookie, connectionVars, id, serviceVars, historyVars>>

\* _check_id raises.
RefuseStatus ==
    /\ pc = "idle" /\ id = 0 /\ submissions > 0
    /\ EndCall("noId")
    /\ UNCHANGED <<call, method, cookie, attempts, id, serviceVars, historyVars>>

\* A check matches what it warns of.
CheckMatches ==
    /\ pc = "checks"
    /\ EndCall("preflightError")
    /\ UNCHANGED <<call, method, cookie, attempts, id, serviceVars, historyVars>>

\* No check does, those that fail included, or the application is not there.
ChecksPass ==
    /\ pc = "checks"
    /\ Request("submit", "POST")
    /\ UNCHANGED <<cookie, connectionVars, id, serviceVars, historyVars, outcome>>

\* An attempt begins, with a login if there is no cookie: a new httplib2.Http.
BeginAttempt ==
    /\ pc = "attempt"
    /\ cookie' = TRUE
    /\ i' = 0 /\ stale' = FALSE /\ redirections' = Redirections /\ reply' = "none"
    /\ pc' = "connect"
    /\ UNCHANGED <<call, method, attempts, id, serviceVars, historyVars, outcome>>

\* The login fails, which ends the call with whatever it raises.
LoginFails ==
    /\ pc = "attempt" /\ ~cookie
    /\ EndCall("loginError")
    /\ UNCHANGED <<call, method, cookie, attempts, id, serviceVars, historyVars>>

-----------------------------------------------------------------------------
(* httplib2: _conn_request.                                                *)

\* The request that is being carried out creates a job.
Creating == call = "submit" /\ method = "POST"

\* The service cannot be found, refuses the connection or is not to be trusted,
\* or connecting takes too long.
ConnectFails ==
    /\ pc = "connect"
    /\ EndCall("error")
    /\ UNCHANGED <<call, method, cookie, attempts, id, serviceVars, historyVars>>

\* The network is unreachable: once more, unless this is the second time already or
\* the connection is one that replaces a closed one.
Unreachable ==
    /\ pc = "connect"
    /\ IF i + 1 < RETRIES /\ ~stale
       THEN i' = i + 1 /\ UNCHANGED <<pc, stale, redirections, reply, outcome>>
       ELSE EndCall("error")
    /\ UNCHANGED <<call, method, cookie, attempts, id, serviceVars, historyVars>>

\* The request is sent, which the service gets or not.
Send ==
    /\ pc = "connect" /\ (Creating => sent < MaxRequests)
    /\ i' = i + 1
    /\ pc' = "wait" /\ reply' = "none"
    /\ IF Creating
       THEN sent' = sent + 1 /\ inFlight' \in {inFlight, inFlight \cup {sent + 1}}
       ELSE UNCHANGED <<sent, inFlight>>
    /\ UNCHANGED <<call, method, cookie, attempts, stale, redirections, id, jobs>>
    /\ UNCHANGED <<historyVars, outcome>>

\* Nothing will come back on the connection.
Cut ==
    /\ pc = "wait" /\ reply = "none"
    /\ unanswered' = IF Creating THEN unanswered \cup {sent} ELSE unanswered
    /\ UNCHANGED <<submissions, before, born, failed, returned>>

\* The wait times out, or the connection breaks: the call ends with the error.
Break ==
    /\ Cut
    /\ EndCall("error")
    /\ UNCHANGED <<call, method, cookie, attempts, id, serviceVars>>

\* The connection is closed without an answer, BadStatusLine: the request is sent
\* again if that `again` is so, the first time on the first round.
ClosedUnless(again) ==
    /\ Cut
    /\ IF again
       THEN i' = 0 /\ stale' = TRUE /\ pc' = "connect" /\ UNCHANGED <<redirections, reply, outcome>>
       ELSE EndCall("error")
    /\ UNCHANGED <<call, method, cookie, attempts, id, serviceVars>>

\* Faulty: the flag is not looked at.
ClosedAlways == ClosedUnless(i = 1)

Closed == ClosedUnless(~stale /\ i = 1)

-----------------------------------------------------------------------------
(* The service.                                                            *)

\* It gets round to request n, whether or not the script still waits for its
\* answer r, and creates a job or does not; an error may come before or after.
Serve(n, r) ==
    /\ n \in inFlight
    /\ inFlight' = inFlight \ {n}
    /\ \/ r \in {"ok", "seeOther", "error"} /\ jobs' = jobs \cup {n}
       \/ r \in {"auth", "moved", "error"} /\ jobs' = jobs
    /\ reply' = IF pc = "wait" /\ Creating /\ n = sent /\ reply = "none" THEN r ELSE reply
    /\ UNCHANGED <<pc, call, method, cookie, attempts, i, stale, redirections, id, sent>>
    /\ UNCHANGED <<historyVars, outcome>>

\* Any other request is answered with r.
Answer(r) ==
    /\ pc = "wait" /\ ~Creating /\ reply = "none"
    /\ reply' = r
    /\ UNCHANGED <<pc, call, method, cookie, attempts, i, stale, redirections, id>>
    /\ UNCHANGED <<serviceVars, historyVars, outcome>>

Replies == {"ok", "seeOther", "moved", "auth", "error"}

-----------------------------------------------------------------------------
(* What the script makes of an answer.                                     *)

Got(r) == pc = "wait" /\ reply = r

\* httplib2 follows 303 always and the other redirects of a GET only.
Redirected == Got("seeOther") \/ (Got("moved") /\ method = "GET")

\* The next request goes out with method m.
FollowWith(m) ==
    /\ Redirected /\ redirections > 0
    /\ method' = m
    /\ redirections' = redirections - 1
    /\ i' = 0 /\ stale' = FALSE /\ reply' = "none"
    /\ pc' = "connect"
    /\ unanswered' = IF Creating THEN unanswered \cup {sent} ELSE unanswered
    /\ UNCHANGED <<call, cookie, attempts, id, serviceVars, outcome>>
    /\ UNCHANGED <<submissions, before, born, failed, returned>>

\* Faulty: the method stays what it is.
FollowSame == FollowWith(method)

Follow == FollowWith("GET")

\* An answer that is an error: too many redirects, one that is not followed, or a
\* status that request does not expect.  It is raised unless tried `again`.
FailUnless(again) ==
    /\ \/ Redirected /\ redirections = 0
       \/ Got("moved") /\ method = "POST"
       \/ Got("error")
    /\ IF again THEN pc' = "attempt" /\ GoOn ELSE EndCall("error")
    /\ attempts' = IF again THEN attempts - 1 ELSE attempts
    /\ failed' = IF Creating THEN failed \cup {sent} ELSE failed
    /\ UNCHANGED <<call, method, cookie, id, serviceVars>>
    /\ UNCHANGED <<submissions, before, born, unanswered, returned>>

\* Faulty: every error is tried again, not only a refused login.
FailRetried == FailUnless(attempts > 1)

Fail == FailUnless(FALSE)

\* ZyncAuthenticationError: the credentials are forgotten, and the whole request
\* is repeated if that `again` is so.
RefusedUnless(again) ==
    /\ Got("auth")
    /\ cookie' = FALSE
    /\ attempts' = attempts - 1
    /\ method' = IF call = "checks" THEN "GET" ELSE "POST"
    /\ IF again THEN pc' = "attempt" /\ GoOn ELSE EndCall("authError")
    /\ UNCHANGED <<call, id, serviceVars, historyVars>>

\* Faulty: one time too often.
RefusedOnceMore == RefusedUnless(attempts >= 1)

Refused == RefusedUnless(attempts > 1)

\* request returns: the list of checks, the id of the job, or nothing of interest.
ReceiveId(n) ==
    /\ Got("ok")
    /\ IF call = "checks"
       THEN pc' = "checks" /\ GoOn
       ELSE EndCall("ok")
    /\ id' = IF call = "submit" THEN n ELSE id
    /\ returned' = IF call = "submit" THEN returned \cup {sent} ELSE returned
    /\ UNCHANGED <<call, method, cookie, attempts, serviceVars>>
    /\ UNCHANGED <<submissions, before, born, unanswered, failed>>

\* Faulty: the id of the submission's first request.
ReceiveFirst == ReceiveId(before + 1)

\* Faulty: an id that is there is kept.
ReceiveKept == ReceiveId(IF id = 0 THEN sent ELSE id)

Receive == ReceiveId(sent)

-----------------------------------------------------------------------------
Script ==
    \/ CheckMatches \/ ChecksPass \/ BeginAttempt \/ LoginFails
    \/ ConnectFails \/ Unreachable \/ Send \/ Break \/ Closed
    \/ Follow \/ Fail \/ Refused \/ Receive

Service == \E r \in Replies : Answer(r) \/ \E n \in 1..MaxRequests : Serve(n, r)

Next == SubmitJob \/ Resubmit \/ SetStatus \/ RefuseStatus \/ Script \/ Service

Spec == Init /\ [][Next]_vars

\* The script's thread runs, and a wait for an answer times out if there is none.
FairSpec == Spec /\ WF_vars(Script)

-----------------------------------------------------------------------------
(* Properties.                                                             *)

\* The type invariant; what the service may get round to has been sent.
TypeOK ==
    /\ pc \in {"idle", "attempt", "connect", "wait", "checks"}
    /\ call \in {"checks", "submit", "status"}
    /\ method \in {"GET", "POST"}
    /\ cookie \in BOOLEAN
    /\ attempts \in 0..Attempts
    /\ i \in 0..RETRIES
    /\ stale \in BOOLEAN
    /\ redirections \in 0..Redirections
    /\ reply \in Replies \cup {"none"}
    /\ sent \in 0..MaxRequests
    /\ inFlight \subseteq 1..sent /\ jobs \subseteq 1..sent /\ inFlight \cap jobs = {}
    /\ submissions \in 0..MaxSubmissions
    /\ before \in 0..sent /\ born \in 0..before
    /\ unanswered \subseteq 1..sent /\ failed \subseteq 1..sent
    /\ returned \subseteq 1..sent
    /\ outcome \in {"none", "ok", "error", "loginError", "authError", "preflightError", "noId"}

\* The id of a Job is that of a job that the service created for this Job's own
\* last submission that succeeded, whatever became of those after it; a Job of
\* which none has succeeded has no id.
IdIsOfJob ==
    LET own == {n \in returned : born < n}
    IN  /\ own = {} <=> id = 0
        /\ id # 0 => id \in own \cap jobs /\ \A n \in own : n <= id

\* One submission makes one job, however often its request is repeated after a
\* refused login, unless the connection ended before the answer, or the answer
\* was a redirect and nothing came of that: then the request may have been carried
\* out and is sent again all the same.
SecondJobHasReason ==
    \A m, n \in jobs \cup inFlight : before < m /\ m < n => m \in unanswered

\* A job of which the script has no id and does not wait for it exists only after
\* a request that was not answered, or was answered by an error or a redirect.
NoUnknownJob ==
    \A n \in jobs \ (returned \cup unanswered \cup failed) :
        n = sent /\ pc = "wait" /\ Creating

\* A submission that the checks or the login have stopped has made no job.
StoppedMeansNone ==
    outcome \in {"preflightError", "authError", "loginError"} /\ call # "status" =>
        \A n \in jobs \cup inFlight : n > before => n \in unanswered

\* A request is sent at most twice in each attempt, and no redirect repeats one
\* that creates a job.
AtMostTwicePerAttempt ==
    call = "submit" => sent <= before + 2 * ((Attempts - attempts) + 1)

\* What the script knows of its jobs: its id is that of the last one, and a job that
\* it does not know of, after a failure or when it was stopped, has a reason.
KnowsItsJobs == IdIsOfJob /\ NoUnknownJob /\ StoppedMeansNone

\* What repeats a request, in request and in httplib2, makes no second job without
\* reason and stays within its bounds.
RepeatsHaveReason == SecondJobHasReason /\ AtMostTwicePerAttempt

\* Every call of the script comes to an end.
CallEnds == pc # "idle" ~> pc = "idle"
=============================================================================
