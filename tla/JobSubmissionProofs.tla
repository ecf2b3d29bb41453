------------------------ MODULE JobSubmissionProofs ------------------------
(***************************************************************************)
(* Proofs about JobSubmission, for any number of attempts, redirections and*)
(* submissions.                                                            *)
(*                                                                         *)
(* The inductive invariant follows the request that creates a job: where   *)
(* it is, what its job is known by, and how many were sent.                *)
(***************************************************************************)
EXTENDS JobSubmission, TLAPS

\* The script waits for request n to create a job, and knows nothing of it yet.
Waiting(n) == n = sent /\ pc = "wait" /\ Creating

\* Where the counters of a call are while it lasts, and after it.
Counters ==
    /\ pc \in {"attempt", "connect", "wait"} => attempts >= 1 /\ outcome = "none"
    /\ pc = "checks" => outcome = "none"
    /\ pc = "connect" => i <= 1
    /\ pc = "attempt" => (call = "checks" <=> method = "GET")
    /\ pc = "checks" => call = "checks"
    /\ call = "checks" => sent = before
    /\ pc = "wait" /\ Creating => before < sent

\* What becomes of a request that the service has not got round to, or that has
\* made a job.
Fates ==
    /\ \A n \in inFlight : n \in unanswered \/ (Waiting(n) /\ reply = "none")
    /\ \A n \in jobs : \/ n \in returned \cup unanswered \cup failed
                       \/ Waiting(n) /\ reply \in {"ok", "seeOther", "error"}

\* Once a request has been answered for good, its submission sends no other.
LastOfSubmission ==
    \A n \in returned \cup failed : before < n =>
        /\ n = sent
        /\ call = "status" \/ (pc = "idle" /\ outcome \in {"ok", "error", "noId"})

\* An id, or a way to it, leads to a job.
LeadsToJob ==
    /\ Waiting(sent) /\ reply \in {"ok", "seeOther"} => sent \in jobs
    /\ call = "submit" /\ method = "GET" /\ pc \in {"connect", "wait"} =>
          sent \in jobs /\ before < sent

\* How many requests the attempts so far have sent.
Sends ==
    call = "submit" =>
        LET base == before + 2 * (Attempts - attempts)
        IN  /\ pc = "attempt" => sent <= base
            /\ pc = "connect" /\ method = "POST" => sent <= base + (IF stale THEN 1 ELSE 0)
            /\ pc = "wait" /\ method = "POST" => sent <= base + (IF stale THEN 2 ELSE 1)
            /\ sent <= base + 2

\* The inductive invariant.
IInv ==
    TypeOK /\ Counters /\ Fates /\ LastOfSubmission /\ LeadsToJob /\ Sends /\ IdIsOfJob

-----------------------------------------------------------------------------
LEMMA InitIInv == Init => IInv
<1> SUFFICES ASSUME Init PROVE IInv
  OBVIOUS
<1> USE AttemptsIsPositive, RedirectionsIsNat, BoundsAreNat DEF Init
<1>1. TypeOK
  <2>1. cookie \in BOOLEAN
    OBVIOUS
  <2>2. /\ attempts \in 0..Attempts /\ i \in 0..RETRIES /\ redirections \in 0..Redirections
        /\ sent \in 0..MaxRequests /\ submissions \in 0..MaxSubmissions
        /\ before \in 0..sent /\ born \in 0..before
    BY DEF RETRIES
  <2> QED BY <2>1, <2>2 DEF TypeOK, Replies
<1>2. Counters /\ Fates /\ LastOfSubmission
  BY DEF Counters, Fates, LastOfSubmission
<1>3. LeadsToJob /\ Sends /\ IdIsOfJob
  BY DEF LeadsToJob, Sends, IdIsOfJob, Waiting
<1> QED BY <1>1, <1>2, <1>3 DEF IInv

LEMMA SubmitJobStep == ASSUME IInv, SubmitJob PROVE IInv'
<1> USE AttemptsIsPositive, RedirectionsIsNat, BoundsAreNat
       DEF SubmitJob, Request, connectionVars, serviceVars, historyVars, Creating, Waiting
<1>1. TypeOK'
  BY DEF IInv, TypeOK, Counters, Replies, RETRIES
<1>2. Counters'
  BY DEF IInv, TypeOK, Counters
<1>3. Fates'
  BY DEF IInv, TypeOK, Fates
<1>4. LastOfSubmission'
  BY DEF IInv, TypeOK, Counters, LastOfSubmission, Fates
<1>5. LeadsToJob'
  BY DEF IInv, TypeOK, Counters, LeadsToJob
<1>6. Sends'
  BY DEF IInv, TypeOK, Counters, Sends
<1>7. IdIsOfJob'
  <2>1. \A n \in returned : n \in Nat /\ sent \in Nat /\ ~(sent < n)
    BY DEF IInv, TypeOK
  <2>2. returned' = returned /\ born' = sent /\ id' = 0
    OBVIOUS
  <2> QED BY <2>1, <2>2 DEF IdIsOfJob
<1> QED BY <1>1, <1>2, <1>3, <1>4, <1>5, <1>6, <1>7 DEF IInv

LEMMA ResubmitStep == ASSUME IInv, Resubmit PROVE IInv'
<1> USE AttemptsIsPositive, RedirectionsIsNat, BoundsAreNat
       DEF Resubmit, Request, connectionVars, serviceVars, historyVars, Creating, Waiting
<1>1. TypeOK'
  BY DEF IInv, TypeOK, Counters, Replies, RETRIES
<1>2. Counters'
  BY DEF IInv, TypeOK, Counters
<1>3. Fates'
  BY DEF IInv, TypeOK, Fates
<1>4. LastOfSubmission'
  BY DEF IInv, TypeOK, Counters, LastOfSubmission, Fates
<1>5. LeadsToJob'
  BY DEF IInv, TypeOK, Counters, LeadsToJob
<1>6. Sends'
  BY DEF IInv, TypeOK, Counters, Sends
<1>7. IdIsOfJob'
  BY DEF IInv, TypeOK, LeadsToJob, IdIsOfJob
<1> QED BY <1>1, <1>2, <1>3, <1>4, <1>5, <1>6, <1>7 DEF IInv

LEMMA SetStatusStep == ASSUME IInv, SetStatus PROVE IInv'
<1> USE AttemptsIsPositive, RedirectionsIsNat, BoundsAreNat
       DEF SetStatus, Request, connectionVars, serviceVars, historyVars, Creating, Waiting
<1>1. TypeOK'
  BY DEF IInv, TypeOK, Counters, Replies, RETRIES
<1>2. Counters'
  BY DEF IInv, TypeOK, Counters
<1>3. Fates'
  BY DEF IInv, TypeOK, Fates
<1>4. LastOfSubmission'
  BY DEF IInv, TypeOK, Counters, LastOfSubmission, Fates
<1>5. LeadsToJob'
  BY DEF IInv, TypeOK, Counters, LeadsToJob
<1>6. Sends'
  BY DEF IInv, TypeOK, Counters, Sends
<1>7. IdIsOfJob'
  BY DEF IInv, TypeOK, LeadsToJob, IdIsOfJob
<1> QED BY <1>1, <1>2, <1>3, <1>4, <1>5, <1>6, <1>7 DEF IInv

LEMMA RefuseStatusStep == ASSUME IInv, RefuseStatus PROVE IInv'
<1> USE AttemptsIsPositive, RedirectionsIsNat, BoundsAreNat
       DEF RefuseStatus, EndCall, connectionVars, serviceVars, historyVars, Creating, Waiting
<1>1. TypeOK'
  <2>1. /\ pc' \in {"idle", "attempt", "connect", "wait", "checks"}
        /\ call' \in {"checks", "submit", "status"} /\ method' \in {"GET", "POST"}
        /\ cookie' \in BOOLEAN /\ stale' \in BOOLEAN
        /\ reply' \in Replies \cup {"none"}
        /\ outcome' \in {"none", "ok", "error", "loginError", "authError", "preflightError", "noId"}
    BY DEF IInv, TypeOK, Replies
  <2>2. /\ attempts' \in 0..Attempts /\ i' \in 0..RETRIES
        /\ redirections' \in 0..Redirections
    BY DEF IInv, TypeOK, Counters, RETRIES
  <2>3. /\ sent' \in 0..MaxRequests /\ submissions' \in 0..MaxSubmissions
        /\ before' \in 0..sent' /\ born' \in 0..before'
    BY DEF IInv, TypeOK
  <2>4. /\ inFlight' \subseteq 1..sent' /\ jobs' \subseteq 1..sent' /\ inFlight' \cap jobs' = {}
        /\ unanswered' \subseteq 1..sent' /\ failed' \subseteq 1..sent'
        /\ returned' \subseteq 1..sent'
    BY DEF IInv, TypeOK, Counters, LeadsToJob
  <2> QED BY <2>1, <2>2, <2>3, <2>4 DEF TypeOK
<1>2. Counters'
  BY DEF IInv, TypeOK, Counters
<1>3. Fates'
  BY DEF IInv, TypeOK, Fates
<1>4. LastOfSubmission'
  BY DEF IInv, TypeOK, Counters, LastOfSubmission, Fates
<1>5. LeadsToJob'
  BY DEF IInv, TypeOK, Counters, LeadsToJob
<1>6. Sends'
  BY DEF IInv, TypeOK, Counters, Sends
<1>7. IdIsOfJob'
  BY DEF IInv, TypeOK, LeadsToJob, IdIsOfJob
<1> QED BY <1>1, <1>2, <1>3, <1>4, <1>5, <1>6, <1>7 DEF IInv

LEMMA CheckMatchesStep == ASSUME IInv, CheckMatches PROVE IInv'
<1> USE AttemptsIsPositive, RedirectionsIsNat, BoundsAreNat
       DEF CheckMatches, EndCall, connectionVars, serviceVars, historyVars, Creating, Waiting
<1>1. TypeOK'
  <2>1. /\ pc' \in {"idle", "attempt", "connect", "wait", "checks"}
        /\ call' \in {"checks", "submit", "status"} /\ method' \in {"GET", "POST"}
        /\ cookie' \in BOOLEAN /\ stale' \in BOOLEAN
        /\ reply' \in Replies \cup {"none"}
        /\ outcome' \in {"none", "ok", "error", "loginError", "authError", "preflightError", "noId"}
    BY DEF IInv, TypeOK, Replies
  <2>2. /\ attempts' \in 0..Attempts /\ i' \in 0..RETRIES
        /\ redirections' \in 0..Redirections
    BY DEF IInv, TypeOK, Counters, RETRIES
  <2>3. /\ sent' \in 0..MaxRequests /\ submissions' \in 0..MaxSubmissions
        /\ before' \in 0..sent' /\ born' \in 0..before'
    BY DEF IInv, TypeOK
  <2>4. /\ inFlight' \subseteq 1..sent' /\ jobs' \subseteq 1..sent' /\ inFlight' \cap jobs' = {}
        /\ unanswered' \subseteq 1..sent' /\ failed' \subseteq 1..sent'
        /\ returned' \subseteq 1..sent'
    BY DEF IInv, TypeOK, Counters, LeadsToJob
  <2> QED BY <2>1, <2>2, <2>3, <2>4 DEF TypeOK
<1>2. Counters'
  BY DEF IInv, TypeOK, Counters
<1>3. Fates'
  BY DEF IInv, TypeOK, Fates
<1>4. LastOfSubmission'
  BY DEF IInv, TypeOK, Counters, LastOfSubmission, Fates
<1>5. LeadsToJob'
  BY DEF IInv, TypeOK, Counters, LeadsToJob
<1>6. Sends'
  BY DEF IInv, TypeOK, Counters, Sends
<1>7. IdIsOfJob'
  BY DEF IInv, TypeOK, LeadsToJob, IdIsOfJob
<1> QED BY <1>1, <1>2, <1>3, <1>4, <1>5, <1>6, <1>7 DEF IInv

LEMMA ChecksPassStep == ASSUME IInv, ChecksPass PROVE IInv'
<1> USE AttemptsIsPositive, RedirectionsIsNat, BoundsAreNat
       DEF ChecksPass, Request, connectionVars, serviceVars, historyVars, Creating, Waiting
<1>1. TypeOK'
  BY DEF IInv, TypeOK, Counters, Replies, RETRIES
<1>2. Counters'
  BY DEF IInv, TypeOK, Counters
<1>3. Fates'
  BY DEF IInv, TypeOK, Fates
<1>4. LastOfSubmission'
  BY DEF IInv, TypeOK, Counters, LastOfSubmission, Fates
<1>5. LeadsToJob'
  BY DEF IInv, TypeOK, Counters, LeadsToJob
<1>6. Sends'
  BY DEF IInv, TypeOK, Counters, Sends
<1>7. IdIsOfJob'
  BY DEF IInv, TypeOK, LeadsToJob, IdIsOfJob
<1> QED BY <1>1, <1>2, <1>3, <1>4, <1>5, <1>6, <1>7 DEF IInv

LEMMA BeginAttemptStep == ASSUME IInv, BeginAttempt PROVE IInv'
<1> USE AttemptsIsPositive, RedirectionsIsNat, BoundsAreNat
       DEF BeginAttempt, connectionVars, serviceVars, historyVars, Creating, Waiting
<1>1. TypeOK'
  <2>1. /\ pc' \in {"idle", "attempt", "connect", "wait", "checks"}
        /\ call' \in {"checks", "submit", "status"} /\ method' \in {"GET", "POST"}
        /\ cookie' \in BOOLEAN /\ stale' \in BOOLEAN
        /\ reply' \in Replies \cup {"none"}
        /\ outcome' \in {"none", "ok", "error", "loginError", "authError", "preflightError", "noId"}
    BY DEF IInv, TypeOK, Replies
  <2>2. /\ attempts' \in 0..Attempts /\ i' \in 0..RETRIES
        /\ redirections' \in 0..Redirections
    BY DEF IInv, TypeOK, Counters, RETRIES
  <2>3. /\ sent' \in 0..MaxRequests /\ submissions' \in 0..MaxSubmissions
        /\ before' \in 0..sent' /\ born' \in 0..before'
    BY DEF IInv, TypeOK
  <2>4. /\ inFlight' \subseteq 1..sent' /\ jobs' \subseteq 1..sent' /\ inFlight' \cap jobs' = {}
        /\ unanswered' \subseteq 1..sent' /\ failed' \subseteq 1..sent'
        /\ returned' \subseteq 1..sent'
    BY DEF IInv, TypeOK, Counters, LeadsToJob
  <2> QED BY <2>1, <2>2, <2>3, <2>4 DEF TypeOK
<1>2. Counters'
  BY DEF IInv, TypeOK, Counters
<1>3. Fates'
  BY DEF IInv, TypeOK, Fates
<1>4. LastOfSubmission'
  BY DEF IInv, TypeOK, Counters, LastOfSubmission, Fates
<1>5. LeadsToJob'
  BY DEF IInv, TypeOK, Counters, LeadsToJob
<1>6. Sends'
  BY DEF IInv, TypeOK, Counters, Sends
<1>7. IdIsOfJob'
  BY DEF IInv, TypeOK, LeadsToJob, IdIsOfJob
<1> QED BY <1>1, <1>2, <1>3, <1>4, <1>5, <1>6, <1>7 DEF IInv

LEMMA LoginFailsStep == ASSUME IInv, LoginFails PROVE IInv'
<1> USE AttemptsIsPositive, RedirectionsIsNat, BoundsAreNat
       DEF LoginFails, EndCall, connectionVars, serviceVars, historyVars, Creating, Waiting
<1>1. TypeOK'
  <2>1. /\ pc' \in {"idle", "attempt", "connect", "wait", "checks"}
        /\ call' \in {"checks", "submit", "status"} /\ method' \in {"GET", "POST"}
        /\ cookie' \in BOOLEAN /\ stale' \in BOOLEAN
        /\ reply' \in Replies \cup {"none"}
        /\ outcome' \in {"none", "ok", "error", "loginError", "authError", "preflightError", "noId"}
    BY DEF IInv, TypeOK, Replies
  <2>2. /\ attempts' \in 0..Attempts /\ i' \in 0..RETRIES
        /\ redirections' \in 0..Redirections
    BY DEF IInv, TypeOK, Counters, RETRIES
  <2>3. /\ sent' \in 0..MaxRequests /\ submissions' \in 0..MaxSubmissions
        /\ before' \in 0..sent' /\ born' \in 0..before'
    BY DEF IInv, TypeOK
  <2>4. /\ inFlight' \subseteq 1..sent' /\ jobs' \subseteq 1..sent' /\ inFlight' \cap jobs' = {}
        /\ unanswered' \subseteq 1..sent' /\ failed' \subseteq 1..sent'
        /\ returned' \subseteq 1..sent'
    BY DEF IInv, TypeOK, Counters, LeadsToJob
  <2> QED BY <2>1, <2>2, <2>3, <2>4 DEF TypeOK
<1>2. Counters'
  BY DEF IInv, TypeOK, Counters
<1>3. Fates'
  BY DEF IInv, TypeOK, Fates
<1>4. LastOfSubmission'
  BY DEF IInv, TypeOK, Counters, LastOfSubmission, Fates
<1>5. LeadsToJob'
  BY DEF IInv, TypeOK, Counters, LeadsToJob
<1>6. Sends'
  BY DEF IInv, TypeOK, Counters, Sends
<1>7. IdIsOfJob'
  BY DEF IInv, TypeOK, LeadsToJob, IdIsOfJob
<1> QED BY <1>1, <1>2, <1>3, <1>4, <1>5, <1>6, <1>7 DEF IInv

LEMMA ConnectFailsStep == ASSUME IInv, ConnectFails PROVE IInv'
<1> USE AttemptsIsPositive, RedirectionsIsNat, BoundsAreNat
       DEF ConnectFails, EndCall, connectionVars, serviceVars, historyVars, Creating, Waiting
<1>1. TypeOK'
  <2>1. /\ pc' \in {"idle", "attempt", "connect", "wait", "checks"}
        /\ call' \in {"checks", "submit", "status"} /\ method' \in {"GET", "POST"}
        /\ cookie' \in BOOLEAN /\ stale' \in BOOLEAN
        /\ reply' \in Replies \cup {"none"}
        /\ outcome' \in {"none", "ok", "error", "loginError", "authError", "preflightError", "noId"}
    BY DEF IInv, TypeOK, Replies
  <2>2. /\ attempts' \in 0..Attempts /\ i' \in 0..RETRIES
        /\ redirections' \in 0..Redirections
    BY DEF IInv, TypeOK, Counters, RETRIES
  <2>3. /\ sent' \in 0..MaxRequests /\ submissions' \in 0..MaxSubmissions
        /\ before' \in 0..sent' /\ born' \in 0..before'
    BY DEF IInv, TypeOK
  <2>4. /\ inFlight' \subseteq 1..sent' /\ jobs' \subseteq 1..sent' /\ inFlight' \cap jobs' = {}
        /\ unanswered' \subseteq 1..sent' /\ failed' \subseteq 1..sent'
        /\ returned' \subseteq 1..sent'
    BY DEF IInv, TypeOK, Counters, LeadsToJob
  <2> QED BY <2>1, <2>2, <2>3, <2>4 DEF TypeOK
<1>2. Counters'
  BY DEF IInv, TypeOK, Counters
<1>3. Fates'
  BY DEF IInv, TypeOK, Fates
<1>4. LastOfSubmission'
  BY DEF IInv, TypeOK, Counters, LastOfSubmission, Fates
<1>5. LeadsToJob'
  BY DEF IInv, TypeOK, Counters, LeadsToJob
<1>6. Sends'
  BY DEF IInv, TypeOK, Counters, Sends
<1>7. IdIsOfJob'
  BY DEF IInv, TypeOK, LeadsToJob, IdIsOfJob
<1> QED BY <1>1, <1>2, <1>3, <1>4, <1>5, <1>6, <1>7 DEF IInv

LEMMA UnreachableStep == ASSUME IInv, Unreachable PROVE IInv'
<1> USE AttemptsIsPositive, RedirectionsIsNat, BoundsAreNat
       DEF Unreachable, EndCall, RETRIES, connectionVars, serviceVars, historyVars, Creating, Waiting
<1>1. TypeOK'
  <2>1. /\ pc' \in {"idle", "attempt", "connect", "wait", "checks"}
        /\ call' \in {"checks", "submit", "status"} /\ method' \in {"GET", "POST"}
        /\ cookie' \in BOOLEAN /\ stale' \in BOOLEAN
        /\ reply' \in Replies \cup {"none"}
        /\ outcome' \in {"none", "ok", "error", "loginError", "authError", "preflightError", "noId"}
    BY DEF IInv, TypeOK, Replies
  <2>2. /\ attempts' \in 0..Attempts /\ i' \in 0..RETRIES
        /\ redirections' \in 0..Redirections
    BY DEF IInv, TypeOK, Counters, RETRIES
  <2>3. /\ sent' \in 0..MaxRequests /\ submissions' \in 0..MaxSubmissions
        /\ before' \in 0..sent' /\ born' \in 0..before'
    BY DEF IInv, TypeOK
  <2>4. /\ inFlight' \subseteq 1..sent' /\ jobs' \subseteq 1..sent' /\ inFlight' \cap jobs' = {}
        /\ unanswered' \subseteq 1..sent' /\ failed' \subseteq 1..sent'
        /\ returned' \subseteq 1..sent'
    BY DEF IInv, TypeOK, Counters, LeadsToJob
  <2> QED BY <2>1, <2>2, <2>3, <2>4 DEF TypeOK
<1>2. Counters'
  BY DEF IInv, TypeOK, Counters
<1>3. Fates'
  BY DEF IInv, TypeOK, Fates
<1>4. LastOfSubmission'
  BY DEF IInv, TypeOK, Counters, LastOfSubmission, Fates
<1>5. LeadsToJob'
  BY DEF IInv, TypeOK, Counters, LeadsToJob
<1>6. Sends'
  BY DEF IInv, TypeOK, Counters, Sends
<1>7. IdIsOfJob'
  BY DEF IInv, TypeOK, LeadsToJob, IdIsOfJob
<1> QED BY <1>1, <1>2, <1>3, <1>4, <1>5, <1>6, <1>7 DEF IInv

LEMMA SendStep == ASSUME IInv, Send PROVE IInv'
<1> USE AttemptsIsPositive, RedirectionsIsNat, BoundsAreNat
       DEF Send, connectionVars, serviceVars, historyVars, Creating, Waiting
<1>1. TypeOK'
  <2>1. /\ pc' \in {"idle", "attempt", "connect", "wait", "checks"}
        /\ call' \in {"checks", "submit", "status"} /\ method' \in {"GET", "POST"}
        /\ cookie' \in BOOLEAN /\ stale' \in BOOLEAN
        /\ reply' \in Replies \cup {"none"}
        /\ outcome' \in {"none", "ok", "error", "loginError", "authError", "preflightError", "noId"}
    BY DEF IInv, TypeOK, Replies
  <2>2. /\ attempts' \in 0..Attempts /\ i' \in 0..RETRIES
        /\ redirections' \in 0..Redirections
    BY DEF IInv, TypeOK, Counters, RETRIES
  <2>3. /\ sent' \in 0..MaxRequests /\ submissions' \in 0..MaxSubmissions
        /\ before' \in 0..sent' /\ born' \in 0..before'
    BY DEF IInv, TypeOK
  <2>0. /\ \A n \in 1..sent : n \in 1..(sent + 1) /\ n # sent + 1
        /\ sent + 1 \in 1..(sent + 1)
    BY DEF IInv, TypeOK
  <2>4. /\ inFlight' \subseteq 1..sent' /\ jobs' \subseteq 1..sent' /\ inFlight' \cap jobs' = {}
        /\ unanswered' \subseteq 1..sent' /\ failed' \subseteq 1..sent'
        /\ returned' \subseteq 1..sent'
    BY <2>0 DEF IInv, TypeOK
  <2> QED BY <2>1, <2>2, <2>3, <2>4 DEF TypeOK
<1>2. Counters'
  BY DEF IInv, TypeOK, Counters
<1>3. Fates'
  BY DEF IInv, TypeOK, Fates
<1>4. LastOfSubmission'
  BY DEF IInv, TypeOK, Counters, LastOfSubmission, Fates
<1>5. LeadsToJob'
  BY DEF IInv, TypeOK, Counters, LeadsToJob
<1>6. Sends'
  BY DEF IInv, TypeOK, Counters, Sends
<1>7. IdIsOfJob'
  BY DEF IInv, TypeOK, LeadsToJob, IdIsOfJob
<1> QED BY <1>1, <1>2, <1>3, <1>4, <1>5, <1>6, <1>7 DEF IInv

LEMMA BreakStep == ASSUME IInv, Break PROVE IInv'
<1> USE AttemptsIsPositive, RedirectionsIsNat, BoundsAreNat
       DEF Break, Cut, EndCall, connectionVars, serviceVars, historyVars, Creating, Waiting
<1>1. TypeOK'
  <2>1. /\ pc' \in {"idle", "attempt", "connect", "wait", "checks"}
        /\ call' \in {"checks", "submit", "status"} /\ method' \in {"GET", "POST"}
        /\ cookie' \in BOOLEAN /\ stale' \in BOOLEAN
        /\ reply' \in Replies \cup {"none"}
        /\ outcome' \in {"none", "ok", "error", "loginError", "authError", "preflightError", "noId"}
    BY DEF IInv, TypeOK, Replies
  <2>2. /\ attempts' \in 0..Attempts /\ i' \in 0..RETRIES
        /\ redirections' \in 0..Redirections
    BY DEF IInv, TypeOK, Counters, RETRIES
  <2>3. /\ sent' \in 0..MaxRequests /\ submissions' \in 0..MaxSubmissions
        /\ before' \in 0..sent' /\ born' \in 0..before'
    BY DEF IInv, TypeOK
  <2>4. /\ inFlight' \subseteq 1..sent' /\ jobs' \subseteq 1..sent' /\ inFlight' \cap jobs' = {}
        /\ unanswered' \subseteq 1..sent' /\ failed' \subseteq 1..sent'
        /\ returned' \subseteq 1..sent'
    BY DEF IInv, TypeOK, Counters, LeadsToJob
  <2> QED BY <2>1, <2>2, <2>3, <2>4 DEF TypeOK
<1>2. Counters'
  BY DEF IInv, TypeOK, Counters
<1>3. Fates'
  BY DEF IInv, TypeOK, Fates
<1>4. LastOfSubmission'
  BY DEF IInv, TypeOK, Counters, LastOfSubmission, Fates
<1>5. LeadsToJob'
  BY DEF IInv, TypeOK, Counters, LeadsToJob
<1>6. Sends'
  BY DEF IInv, TypeOK, Counters, Sends
<1>7. IdIsOfJob'
  BY DEF IInv, TypeOK, LeadsToJob, IdIsOfJob
<1> QED BY <1>1, <1>2, <1>3, <1>4, <1>5, <1>6, <1>7 DEF IInv

LEMMA ClosedStep == ASSUME IInv, Closed PROVE IInv'
<1> USE AttemptsIsPositive, RedirectionsIsNat, BoundsAreNat
       DEF Closed, ClosedUnless, Cut, EndCall, connectionVars, serviceVars, historyVars, Creating, Waiting
<1>1. TypeOK'
  <2>1. /\ pc' \in {"idle", "attempt", "connect", "wait", "checks"}
        /\ call' \in {"checks", "submit", "status"} /\ method' \in {"GET", "POST"}
        /\ cookie' \in BOOLEAN /\ stale' \in BOOLEAN
        /\ reply' \in Replies \cup {"none"}
        /\ outcome' \in {"none", "ok", "error", "loginError", "authError", "preflightError", "noId"}
    BY DEF IInv, TypeOK, Replies
  <2>2. /\ attempts' \in 0..Attempts /\ i' \in 0..RETRIES
        /\ redirections' \in 0..Redirections
    BY DEF IInv, TypeOK, Counters, RETRIES
  <2>3. /\ sent' \in 0..MaxRequests /\ submissions' \in 0..MaxSubmissions
        /\ before' \in 0..sent' /\ born' \in 0..before'
    BY DEF IInv, TypeOK
  <2>4. /\ inFlight' \subseteq 1..sent' /\ jobs' \subseteq 1..sent' /\ inFlight' \cap jobs' = {}
        /\ unanswered' \subseteq 1..sent' /\ failed' \subseteq 1..sent'
        /\ returned' \subseteq 1..sent'
    BY DEF IInv, TypeOK, Counters, LeadsToJob
  <2> QED BY <2>1, <2>2, <2>3, <2>4 DEF TypeOK
<1>2. Counters'
  BY DEF IInv, TypeOK, Counters
<1>3. Fates'
  BY DEF IInv, TypeOK, Fates
<1>4. LastOfSubmission'
  BY DEF IInv, TypeOK, Counters, LastOfSubmission, Fates
<1>5. LeadsToJob'
  BY DEF IInv, TypeOK, Counters, LeadsToJob
<1>6. Sends'
  BY DEF IInv, TypeOK, Counters, Sends
<1>7. IdIsOfJob'
  BY DEF IInv, TypeOK, LeadsToJob, IdIsOfJob
<1> QED BY <1>1, <1>2, <1>3, <1>4, <1>5, <1>6, <1>7 DEF IInv

LEMMA ServeStep == ASSUME IInv, NEW n \in 1..MaxRequests, NEW r \in Replies, Serve(n, r) PROVE IInv'
<1> USE AttemptsIsPositive, RedirectionsIsNat, BoundsAreNat
       DEF Serve, Replies, connectionVars, serviceVars, historyVars, Creating, Waiting
<1>1. TypeOK'
  BY DEF IInv, TypeOK, Counters, Replies, RETRIES
<1>2. Counters'
  BY DEF IInv, TypeOK, Counters
<1>3. Fates'
  BY DEF IInv, TypeOK, Fates
<1>4. LastOfSubmission'
  BY DEF IInv, TypeOK, Counters, LastOfSubmission, Fates
<1>5. LeadsToJob'
  BY DEF IInv, TypeOK, Counters, LeadsToJob
<1>6. Sends'
  BY DEF IInv, TypeOK, Counters, Sends
<1>7. IdIsOfJob'
  BY DEF IInv, TypeOK, LeadsToJob, IdIsOfJob
<1> QED BY <1>1, <1>2, <1>3, <1>4, <1>5, <1>6, <1>7 DEF IInv

LEMMA AnswerStep == ASSUME IInv, NEW r \in Replies, Answer(r) PROVE IInv'
<1> USE AttemptsIsPositive, RedirectionsIsNat, BoundsAreNat
       DEF Answer, Replies, connectionVars, serviceVars, historyVars, Creating, Waiting
<1>1. TypeOK'
  BY DEF IInv, TypeOK, Counters, Replies, RETRIES
<1>2. Counters'
  BY DEF IInv, TypeOK, Counters
<1>3. Fates'
  BY DEF IInv, TypeOK, Fates
<1>4. LastOfSubmission'
  BY DEF IInv, TypeOK, Counters, LastOfSubmission, Fates
<1>5. LeadsToJob'
  BY DEF IInv, TypeOK, Counters, LeadsToJob
<1>6. Sends'
  BY DEF IInv, TypeOK, Counters, Sends
<1>7. IdIsOfJob'
  BY DEF IInv, TypeOK, LeadsToJob, IdIsOfJob
<1> QED BY <1>1, <1>2, <1>3, <1>4, <1>5, <1>6, <1>7 DEF IInv

LEMMA FollowStep == ASSUME IInv, Follow PROVE IInv'
<1> USE AttemptsIsPositive, RedirectionsIsNat, BoundsAreNat
       DEF Follow, FollowWith, Redirected, Got, connectionVars, serviceVars, historyVars, Creating, Waiting
<1>1. TypeOK'
  <2>1. /\ pc' \in {"idle", "attempt", "connect", "wait", "checks"}
        /\ call' \in {"checks", "submit", "status"} /\ method' \in {"GET", "POST"}
        /\ cookie' \in BOOLEAN /\ stale' \in BOOLEAN
        /\ reply' \in Replies \cup {"none"}
        /\ outcome' \in {"none", "ok", "error", "loginError", "authError", "preflightError", "noId"}
    BY DEF IInv, TypeOK, Replies
  <2>2. /\ attempts' \in 0..Attempts /\ i' \in 0..RETRIES
        /\ redirections' \in 0..Redirections
    BY DEF IInv, TypeOK, Counters, RETRIES
  <2>3. /\ sent' \in 0..MaxRequests /\ submissions' \in 0..MaxSubmissions
        /\ before' \in 0..sent' /\ born' \in 0..before'
    BY DEF IInv, TypeOK
  <2>4. /\ inFlight' \subseteq 1..sent' /\ jobs' \subseteq 1..sent' /\ inFlight' \cap jobs' = {}
        /\ unanswered' \subseteq 1..sent' /\ failed' \subseteq 1..sent'
        /\ returned' \subseteq 1..sent'
    BY DEF IInv, TypeOK, Counters, LeadsToJob
  <2> QED BY <2>1, <2>2, <2>3, <2>4 DEF TypeOK
<1>2. Counters'
  BY DEF IInv, TypeOK, Counters
<1>3. Fates'
  BY DEF IInv, TypeOK, Fates
<1>4. LastOfSubmission'
  BY DEF IInv, TypeOK, Counters, LastOfSubmission, Fates
<1>5. LeadsToJob'
  BY DEF IInv, TypeOK, Counters, LeadsToJob
<1>6. Sends'
  BY DEF IInv, TypeOK, Counters, Sends
<1>7. IdIsOfJob'
  BY DEF IInv, TypeOK, LeadsToJob, IdIsOfJob
<1> QED BY <1>1, <1>2, <1>3, <1>4, <1>5, <1>6, <1>7 DEF IInv

LEMMA FailStep == ASSUME IInv, Fail PROVE IInv'
<1> USE AttemptsIsPositive, RedirectionsIsNat, BoundsAreNat
       DEF Fail, FailUnless, Redirected, Got, EndCall, connectionVars, serviceVars, historyVars, Creating, Waiting
<1>1. TypeOK'
  <2>1. /\ pc' \in {"idle", "attempt", "connect", "wait", "checks"}
        /\ call' \in {"checks", "submit", "status"} /\ method' \in {"GET", "POST"}
        /\ cookie' \in BOOLEAN /\ stale' \in BOOLEAN
        /\ reply' \in Replies \cup {"none"}
        /\ outcome' \in {"none", "ok", "error", "loginError", "authError", "preflightError", "noId"}
    BY DEF IInv, TypeOK, Replies
  <2>2. /\ attempts' \in 0..Attempts /\ i' \in 0..RETRIES
        /\ redirections' \in 0..Redirections
    BY DEF IInv, TypeOK, Counters, RETRIES
  <2>3. /\ sent' \in 0..MaxRequests /\ submissions' \in 0..MaxSubmissions
        /\ before' \in 0..sent' /\ born' \in 0..before'
    BY DEF IInv, TypeOK
  <2>4. /\ inFlight' \subseteq 1..sent' /\ jobs' \subseteq 1..sent' /\ inFlight' \cap jobs' = {}
        /\ unanswered' \subseteq 1..sent' /\ failed' \subseteq 1..sent'
        /\ returned' \subseteq 1..sent'
    BY DEF IInv, TypeOK, Counters, LeadsToJob
  <2> QED BY <2>1, <2>2, <2>3, <2>4 DEF TypeOK
<1>2. Counters'
  BY DEF IInv, TypeOK, Counters
<1>3. Fates'
  BY DEF IInv, TypeOK, Fates
<1>4. LastOfSubmission'
  BY DEF IInv, TypeOK, Counters, LastOfSubmission, Fates
<1>5. LeadsToJob'
  BY DEF IInv, TypeOK, Counters, LeadsToJob
<1>6. Sends'
  BY DEF IInv, TypeOK, Counters, Sends
<1>7. IdIsOfJob'
  BY DEF IInv, TypeOK, LeadsToJob, IdIsOfJob
<1> QED BY <1>1, <1>2, <1>3, <1>4, <1>5, <1>6, <1>7 DEF IInv

LEMMA RefusedStep == ASSUME IInv, Refused PROVE IInv'
<1> USE AttemptsIsPositive, RedirectionsIsNat, BoundsAreNat
       DEF Refused, RefusedUnless, Got, GoOn, EndCall, connectionVars, serviceVars, historyVars, Creating, Waiting
<1>1. TypeOK'
  <2>1. /\ pc' \in {"idle", "attempt", "connect", "wait", "checks"}
        /\ call' \in {"checks", "submit", "status"} /\ method' \in {"GET", "POST"}
        /\ cookie' \in BOOLEAN /\ stale' \in BOOLEAN
        /\ reply' \in Replies \cup {"none"}
        /\ outcome' \in {"none", "ok", "error", "loginError", "authError", "preflightError", "noId"}
    BY DEF IInv, TypeOK, Replies
  <2>2. /\ attempts' \in 0..Attempts /\ i' \in 0..RETRIES
        /\ redirections' \in 0..Redirections
    BY DEF IInv, TypeOK, Counters, RETRIES
  <2>3. /\ sent' \in 0..MaxRequests /\ submissions' \in 0..MaxSubmissions
        /\ before' \in 0..sent' /\ born' \in 0..before'
    BY DEF IInv, TypeOK
  <2>4. /\ inFlight' \subseteq 1..sent' /\ jobs' \subseteq 1..sent' /\ inFlight' \cap jobs' = {}
        /\ unanswered' \subseteq 1..sent' /\ failed' \subseteq 1..sent'
        /\ returned' \subseteq 1..sent'
    BY DEF IInv, TypeOK, Counters, LeadsToJob
  <2> QED BY <2>1, <2>2, <2>3, <2>4 DEF TypeOK
<1>2. Counters'
  BY DEF IInv, TypeOK, Counters
<1>3. Fates'
  BY DEF IInv, TypeOK, Fates
<1>4. LastOfSubmission'
  BY DEF IInv, TypeOK, Counters, LastOfSubmission, Fates
<1>5. LeadsToJob'
  BY DEF IInv, TypeOK, Counters, LeadsToJob
<1>6. Sends'
  BY DEF IInv, TypeOK, Counters, Sends
<1>7. IdIsOfJob'
  BY DEF IInv, TypeOK, LeadsToJob, IdIsOfJob
<1> QED BY <1>1, <1>2, <1>3, <1>4, <1>5, <1>6, <1>7 DEF IInv

LEMMA ReceiveStep == ASSUME IInv, Receive PROVE IInv'
<1> USE AttemptsIsPositive, RedirectionsIsNat, BoundsAreNat
       DEF Receive, ReceiveId, Got, GoOn, EndCall, connectionVars, serviceVars, historyVars, Creating, Waiting
<1>1. TypeOK'
  <2>1. /\ pc' \in {"idle", "attempt", "connect", "wait", "checks"}
        /\ call' \in {"checks", "submit", "status"} /\ method' \in {"GET", "POST"}
        /\ cookie' \in BOOLEAN /\ stale' \in BOOLEAN
        /\ reply' \in Replies \cup {"none"}
        /\ outcome' \in {"none", "ok", "error", "loginError", "authError", "preflightError", "noId"}
    BY DEF IInv, TypeOK, Replies
  <2>2. /\ attempts' \in 0..Attempts /\ i' \in 0..RETRIES
        /\ redirections' \in 0..Redirections
    BY DEF IInv, TypeOK, Counters, RETRIES
  <2>3. /\ sent' \in 0..MaxRequests /\ submissions' \in 0..MaxSubmissions
        /\ before' \in 0..sent' /\ born' \in 0..before'
    BY DEF IInv, TypeOK
  <2>4. /\ inFlight' \subseteq 1..sent' /\ jobs' \subseteq 1..sent' /\ inFlight' \cap jobs' = {}
        /\ unanswered' \subseteq 1..sent' /\ failed' \subseteq 1..sent'
        /\ returned' \subseteq 1..sent'
    BY DEF IInv, TypeOK, Counters, LeadsToJob
  <2> QED BY <2>1, <2>2, <2>3, <2>4 DEF TypeOK
<1>2. Counters'
  BY DEF IInv, TypeOK, Counters
<1>3. Fates'
  BY DEF IInv, TypeOK, Fates
<1>4. LastOfSubmission'
  BY DEF IInv, TypeOK, Counters, LastOfSubmission, Fates
<1>5. LeadsToJob'
  BY DEF IInv, TypeOK, Counters, LeadsToJob
<1>6. Sends'
  BY DEF IInv, TypeOK, Counters, Sends
<1>7. IdIsOfJob'
  <2>1. CASE call # "submit"
    BY <2>1 DEF IInv, IdIsOfJob
  <2>2. CASE call = "submit"
    <3>1. id' = sent /\ returned' = returned \cup {sent} /\ jobs' = jobs /\ born' = born
      BY <2>2
    <3>2. sent \in jobs /\ before < sent
      BY <2>2 DEF IInv, TypeOK, Counters, LeadsToJob
    <3>3. born < sent /\ sent # 0 /\ \A n \in returned' : n <= sent
      BY <3>1, <3>2 DEF IInv, TypeOK
    <3> QED BY <3>1, <3>2, <3>3 DEF IdIsOfJob
  <2> QED BY <2>1, <2>2
<1> QED BY <1>1, <1>2, <1>3, <1>4, <1>5, <1>6, <1>7 DEF IInv

-----------------------------------------------------------------------------
LEMMA NextIInv == IInv /\ [Next]_vars => IInv'
<1> SUFFICES ASSUME IInv, [Next]_vars PROVE IInv'
  OBVIOUS
<1>1. CASE UNCHANGED vars
  BY <1>1 DEF IInv, TypeOK, Counters, Fates, LastOfSubmission, LeadsToJob, Sends, IdIsOfJob,
              Waiting, Creating, vars, connectionVars, serviceVars, historyVars
<1>2. CASE SubmitJob \/ Resubmit \/ SetStatus \/ RefuseStatus
  BY <1>2, SubmitJobStep, ResubmitStep, SetStatusStep, RefuseStatusStep
<1>3. CASE Script
  BY <1>3, CheckMatchesStep, ChecksPassStep, BeginAttemptStep, LoginFailsStep,
     ConnectFailsStep, UnreachableStep, SendStep, BreakStep, ClosedStep, FollowStep, FailStep,
     RefusedStep, ReceiveStep DEF Script
<1>4. CASE Service
  BY <1>4, ServeStep, AnswerStep DEF Service
<1> QED BY <1>1, <1>2, <1>3, <1>4 DEF Next

LEMMA SpecIInv == Spec => []IInv
  BY InitIInv, NextIInv, PTL DEF Spec

\* The variables keep their types, the counters of request and of httplib2 their
\* bounds.
THEOREM TypeCorrect == Spec => []TypeOK
<1>1. IInv => TypeOK
  BY DEF IInv
<1> QED BY <1>1, SpecIInv, PTL

\* Job.id is that of the job which the service has created for the Job's own last
\* submission that succeeded, and None if none has.
THEOREM IdLeadsToJob == Spec => []IdIsOfJob
<1>1. IInv => IdIsOfJob
  BY DEF IInv
<1> QED BY <1>1, SpecIInv, PTL

\* The repetitions of request, after a refused login, make no second job; those of
\* httplib2 do only if a connection ended without an answer.
THEOREM MakesOneJob == Spec => []SecondJobHasReason
<1>1. IInv => SecondJobHasReason
  <2> SUFFICES ASSUME IInv, NEW m \in jobs \cup inFlight, NEW n \in jobs \cup inFlight,
                      before < m, m < n, m \notin unanswered
               PROVE  FALSE
    BY DEF SecondJobHasReason
  <2>1. m = sent
    BY DEF IInv, Fates, LastOfSubmission, Waiting
  <2>2. n \in 1..sent /\ sent \in Nat
    BY DEF IInv, TypeOK
  <2> QED BY <2>1, <2>2
<1> QED BY <1>1, SpecIInv, PTL

\* A job nobody knows of exists only after an unanswered or failed request.
THEOREM KnowsJobs == Spec => []NoUnknownJob
<1>1. IInv => NoUnknownJob
  BY DEF IInv, Fates, NoUnknownJob, Waiting
<1> QED BY <1>1, SpecIInv, PTL

\* submit_job that was stopped by a preflight check, or by a login that failed or
\* was refused until the attempts were used up, has made no job.
THEOREM StoppedMadeNone == Spec => []StoppedMeansNone
<1>1. IInv => StoppedMeansNone
  BY DEF IInv, Fates, LastOfSubmission, Counters, StoppedMeansNone, Waiting
<1> QED BY <1>1, SpecIInv, PTL

\* No more than two requests are sent in each attempt.
THEOREM SendsTwicePerAttempt == Spec => []AtMostTwicePerAttempt
<1>1. IInv => AtMostTwicePerAttempt
  BY AttemptsIsPositive DEF IInv, TypeOK, Sends, AtMostTwicePerAttempt
<1> QED BY <1>1, SpecIInv, PTL

\* The id of a Job is that of its last successful submission, and a job the script
\* does not know of, after a failed submission or one that was stopped, has a reason.
THEOREM KnowsJobsOrWhyNot == Spec => []KnowsItsJobs
  BY IdLeadsToJob, KnowsJobs, StoppedMadeNone, PTL DEF KnowsItsJobs

\* The repetitions of request and of httplib2 make no second job without reason,
\* and at most two requests for each attempt.
THEOREM RepeatsWithReason == Spec => []RepeatsHaveReason
  BY MakesOneJob, SendsTwicePerAttempt, PTL DEF RepeatsHaveReason
=============================================================================
