-------------------------- MODULE HTTPBackendProofs --------------------------
(***************************************************************************)
(* Proofs, for any threads and any numbers of attempts, that a request     *)
(* fails for want of authentication only with a reason, that it leaves no  *)
(* half of a session behind, and when has_user_login() is right after an   *)
(* operation that no other disturbed, and which way it errs when it is not.*)
(***************************************************************************)
EXTENDS HTTPBackend, TLAPS

RequestPlaces == {"attempt", "setCookie", "takeCookie", "send", "forgetToken", "forgetCookie"}
LoginPlaces == {"login", "credentials", "refresh", "userEmail", "validate", "saveCookie"}
LogoutPlaces == {"clearToken", "clearStorage", "clearCookie"}

\* Each place belongs to an operation that has not ended and has attempts and
\* tries left.
PlacesMatch ==
    \A t \in Thread :
        /\ pc[t] \in RequestPlaces => op[t] = "request"
        /\ pc[t] \in LoginPlaces => op[t] \in {"request", "login"} /\ tries[t] < LoginAttempts
        /\ pc[t] \in LogoutPlaces => op[t] = "logout"
        /\ pc[t] # "idle" => outcome[t] = "none"
        /\ pc[t] # "idle" /\ op[t] = "request" => attempt[t] < Attempts

\* Every failed attempt has its reason, and so has every failed try; an attempt
\* is counted once both halves of the session are forgotten.
FailuresAddUp ==
    \A t \in Thread :
        /\ refused[t] = tries[t]
        /\ rejected[t] + lost[t] =
              IF pc[t] \in {"forgetToken", "forgetCookie"} THEN attempt[t] + 1 ELSE attempt[t]
        /\ op[t] = "request" /\ outcome[t] = "authError" =>
              tries[t] = LoginAttempts \/ attempt[t] = Attempts

\* What token and cookie are to a thread that nobody has disturbed, place by
\* place, from the state its operation began in to the one it leaves.
Session(t) ==
    /\ \A u \in Thread \ {t} : pc[u] = "idle"
    /\ lost[t] = 0
    /\ pc[t] = "attempt" => (attempt[t] > 0 => ~token /\ ~cookie)
                           /\ (agreed[t] => (token <=> cookie))
    /\ pc[t] \in {"setCookie", "takeCookie", "send"} => cookie /\ (agreed[t] => token)
    /\ pc[t] = "forgetCookie" => ~token
    /\ pc[t] \in LoginPlaces /\ op[t] = "request" => ~cookie
    /\ pc[t] \in {"login", "credentials", "refresh"} => (agreed[t] /\ token => cookie)
    /\ pc[t] = "userEmail" => token /\ stored
    /\ pc[t] = "validate" => (agreed[t] /\ token => cookie \/ stored)
    /\ pc[t] = "saveCookie" => token
    /\ pc[t] \in {"clearStorage", "clearCookie"} => ~token

Undisturbed == \A t \in Thread : alone[t] => Session(t)

IInv ==
  /\ TypeOK /\ PlacesMatch /\ FailuresAddUp
  /\ Undisturbed /\ NothingLeft /\ LoginStaysKnown

-----------------------------------------------------------------------------
USE AttemptsArePositive

\* The initial states satisfy the invariant.
LEMMA InitInv == Init => IInv
<1> SUFFICES ASSUME Init PROVE IInv
  OBVIOUS
<1> USE DEF Init
<1>1. TypeOK BY DEF TypeOK
<1>2. PlacesMatch BY DEF PlacesMatch, RequestPlaces, LoginPlaces, LogoutPlaces
<1>3. FailuresAddUp BY DEF FailuresAddUp
<1>4. Undisturbed BY DEF Undisturbed, Session, LoginPlaces
<1>5. NothingLeft BY DEF NothingLeft
<1>6. LoginStaysKnown BY DEF LoginStaysKnown, HasUserLogin
<1> QED BY <1>1, <1>2, <1>3, <1>4, <1>5, <1>6 DEF IInv

\* No step leaves the types: no counter passes its bound.
LEMMA TypeStep ==
  ASSUME TypeOK, PlacesMatch, FailuresAddUp, NEW t \in Thread,
         CallRequest(t) \/ CallLogin(t) \/ CallLogout(t) \/ Step(t)
  PROVE  TypeOK'
<1> USE DEF TypeOK, PlacesMatch, FailuresAddUp, RequestPlaces, LoginPlaces, LogoutPlaces,
      GoTo, End, Begin, shared, local, counts
<1>1. CASE CallRequest(t) BY <1>1 DEF CallRequest
<1>2. CASE CallLogin(t) BY <1>2 DEF CallLogin
<1>3. CASE CallLogout(t) BY <1>3 DEF CallLogout
<1>4. CASE BeginAttempt(t) BY <1>4 DEF BeginAttempt
<1>5. CASE TestCookie(t) BY <1>5 DEF TestCookie
<1>6. CASE TakeCookie(t) BY <1>6 DEF TakeCookie
<1>7. CASE RequestDone(t) BY <1>7 DEF RequestDone
<1>8. CASE RequestRejected(t) BY <1>8 DEF RequestRejected
<1>9. CASE ForgetToken(t) BY <1>9 DEF ForgetToken, ForgetBut
<1>10. CASE ForgetCookie(t)
  <2>1. attempt[t] \in Nat /\ attempt[t] + 1 \in 0..Attempts BY <1>10 DEF ForgetCookie
  <2>2. pc' \in {[pc EXCEPT ![t] = "attempt"], [pc EXCEPT ![t] = "idle"]}
    BY <1>10 DEF ForgetCookie
  <2>3. outcome' \in {outcome, [outcome EXCEPT ![t] = "authError"]}
    BY <1>10 DEF ForgetCookie
  <2> QED BY <1>10, <2>1, <2>2, <2>3 DEF ForgetCookie
<1>11. CASE SiteDown(t) BY <1>11 DEF SiteDown
<1>12. CASE SiteUp(t) BY <1>12 DEF SiteUp
<1>13. CASE GetCredentials(t) BY <1>13 DEF GetCredentials
<1>14. CASE Decline(t) BY <1>14 DEF Decline
<1>15. CASE Refresh(t) BY <1>15 DEF Refresh
<1>16. CASE RefreshFails(t) BY <1>16 DEF RefreshFails
<1>17. CASE EmailFound(t) BY <1>17 DEF EmailFound
<1>18. CASE EmailFails(t) BY <1>18 DEF EmailFails
<1>19. CASE NoEmail(t)
  <2>1. tries[t] \in Nat /\ tries[t] + 1 \in 0..LoginAttempts
    BY <1>19 DEF NoEmail, FailLogin
  <2>2. pc' \in {[pc EXCEPT ![t] = "login"], [pc EXCEPT ![t] = "idle"]}
    BY <1>19 DEF NoEmail, FailLogin
  <2>3. outcome' \in {outcome, [outcome EXCEPT ![t] = "authError"]}
    BY <1>19 DEF NoEmail, FailLogin
  <2> QED BY <1>19, <2>1, <2>2, <2>3 DEF NoEmail, FailLogin
<1>20. CASE ValidateRefused(t)
  <2>1. tries[t] \in Nat /\ tries[t] + 1 \in 0..LoginAttempts
    BY <1>20 DEF ValidateRefused, RefuseLogin, FailLogin
  <2>2. pc' \in {[pc EXCEPT ![t] = "login"], [pc EXCEPT ![t] = "idle"]}
    BY <1>20 DEF ValidateRefused, RefuseLogin, FailLogin
  <2>3. outcome' \in {outcome, [outcome EXCEPT ![t] = "authError"]}
    BY <1>20 DEF ValidateRefused, RefuseLogin, FailLogin
  <2> QED BY <1>20, <2>1, <2>2, <2>3 DEF ValidateRefused, RefuseLogin, FailLogin
<1>21. CASE ClearingFails(t) BY <1>21 DEF ClearingFails
<1>22. CASE ValidateFails(t) BY <1>22 DEF ValidateFails
<1>23. CASE SaveToken(t) BY <1>23 DEF SaveToken
<1>24. CASE SaveCookie(t) BY <1>24 DEF SaveCookie
<1>25. CASE ClearToken(t) BY <1>25 DEF ClearToken
<1>26. CASE ClearStorage(t) BY <1>26 DEF ClearStorage
<1>27. CASE ClearCookie(t) BY <1>27 DEF ClearCookie
<1> QED BY <1>1, <1>2, <1>3, <1>4, <1>5, <1>6, <1>7, <1>8, <1>9, <1>10, <1>11, <1>12,
      <1>13, <1>14, <1>15, <1>16, <1>17, <1>18, <1>19, <1>20, <1>21, <1>22, <1>23, <1>24,
      <1>25, <1>26, <1>27 DEF Step, RequestStep, LoginStep, LogoutStep

\* Every step leads to a place of its operation.
LEMMA PlacesStep ==
  ASSUME TypeOK, PlacesMatch, FailuresAddUp, NEW t \in Thread,
         CallRequest(t) \/ CallLogin(t) \/ CallLogout(t) \/ Step(t)
  PROVE  PlacesMatch'
<1> USE DEF TypeOK, PlacesMatch, RequestPlaces, LoginPlaces, LogoutPlaces, GoTo, End,
      Begin, shared, local, counts
<1>1. CASE CallRequest(t) BY <1>1 DEF CallRequest
<1>2. CASE CallLogin(t) BY <1>2 DEF CallLogin
<1>3. CASE CallLogout(t) BY <1>3 DEF CallLogout
<1>4. CASE BeginAttempt(t) BY <1>4 DEF BeginAttempt
<1>5. CASE TestCookie(t) BY <1>5 DEF TestCookie
<1>6. CASE TakeCookie(t) BY <1>6 DEF TakeCookie
<1>7. CASE RequestDone(t) BY <1>7 DEF RequestDone
<1>8. CASE RequestRejected(t) BY <1>8 DEF RequestRejected
<1>9. CASE ForgetToken(t) BY <1>9 DEF ForgetToken, ForgetBut
<1>10. CASE ForgetCookie(t) BY <1>10 DEF ForgetCookie
<1>11. CASE SiteDown(t) BY <1>11 DEF SiteDown
<1>12. CASE SiteUp(t) BY <1>12 DEF SiteUp
<1>13. CASE GetCredentials(t) BY <1>13 DEF GetCredentials
<1>14. CASE Decline(t) BY <1>14 DEF Decline
<1>15. CASE Refresh(t) BY <1>15 DEF Refresh
<1>16. CASE RefreshFails(t) BY <1>16 DEF RefreshFails
<1>17. CASE EmailFound(t) BY <1>17 DEF EmailFound
<1>18. CASE EmailFails(t) BY <1>18 DEF EmailFails
<1>19. CASE NoEmail(t) BY <1>19 DEF NoEmail, FailLogin
<1>20. CASE ValidateRefused(t) BY <1>20 DEF ValidateRefused, RefuseLogin, FailLogin
<1>21. CASE ClearingFails(t) BY <1>21 DEF ClearingFails
<1>22. CASE ValidateFails(t) BY <1>22 DEF ValidateFails
<1>23. CASE SaveToken(t) BY <1>23 DEF SaveToken
<1>24. CASE SaveCookie(t) BY <1>24 DEF SaveCookie
<1>25. CASE ClearToken(t) BY <1>25 DEF ClearToken
<1>26. CASE ClearStorage(t) BY <1>26 DEF ClearStorage
<1>27. CASE ClearCookie(t) BY <1>27 DEF ClearCookie
<1> QED BY <1>1, <1>2, <1>3, <1>4, <1>5, <1>6, <1>7, <1>8, <1>9, <1>10, <1>11, <1>12,
      <1>13, <1>14, <1>15, <1>16, <1>17, <1>18, <1>19, <1>20, <1>21, <1>22, <1>23, <1>24,
      <1>25, <1>26, <1>27 DEF Step, RequestStep, LoginStep, LogoutStep

\* Every step counts a failure where it has its reason.
LEMMA FailuresStep ==
  ASSUME TypeOK, PlacesMatch, FailuresAddUp, NEW t \in Thread,
         CallRequest(t) \/ CallLogin(t) \/ CallLogout(t) \/ Step(t)
  PROVE  FailuresAddUp'
<1> USE DEF TypeOK, PlacesMatch, FailuresAddUp, RequestPlaces, LoginPlaces, LogoutPlaces,
      GoTo, End, Begin, shared, local, counts
<1>1. CASE CallRequest(t) BY <1>1 DEF CallRequest
<1>2. CASE CallLogin(t) BY <1>2 DEF CallLogin
<1>3. CASE CallLogout(t) BY <1>3 DEF CallLogout
<1>4. CASE BeginAttempt(t) BY <1>4 DEF BeginAttempt
<1>5. CASE TestCookie(t) BY <1>5 DEF TestCookie
<1>6. CASE TakeCookie(t) BY <1>6 DEF TakeCookie
<1>7. CASE RequestDone(t) BY <1>7 DEF RequestDone
<1>8. CASE RequestRejected(t) BY <1>8 DEF RequestRejected
<1>9. CASE ForgetToken(t) BY <1>9 DEF ForgetToken, ForgetBut
<1>10. CASE ForgetCookie(t)
  <2>1. attempt[t] \in Nat /\ attempt[t] + 1 \in 0..Attempts BY <1>10 DEF ForgetCookie
  <2>2. \/ attempt[t] + 1 < Attempts
         \/ attempt[t] + 1 = Attempts
    BY <2>1
  <2> QED BY <1>10, <2>1, <2>2 DEF ForgetCookie
<1>11. CASE SiteDown(t) BY <1>11 DEF SiteDown
<1>12. CASE SiteUp(t) BY <1>12 DEF SiteUp
<1>13. CASE GetCredentials(t) BY <1>13 DEF GetCredentials
<1>14. CASE Decline(t) BY <1>14 DEF Decline
<1>15. CASE Refresh(t) BY <1>15 DEF Refresh
<1>16. CASE RefreshFails(t) BY <1>16 DEF RefreshFails
<1>17. CASE EmailFound(t) BY <1>17 DEF EmailFound
<1>18. CASE EmailFails(t) BY <1>18 DEF EmailFails
<1>19. CASE NoEmail(t)
  <2>1. tries[t] \in Nat /\ tries[t] + 1 \in 0..LoginAttempts
    BY <1>19 DEF NoEmail, FailLogin
  <2>2. \/ tries[t] + 1 < LoginAttempts
         \/ tries[t] + 1 = LoginAttempts
    BY <2>1
  <2> QED BY <1>19, <2>1, <2>2 DEF NoEmail, FailLogin
<1>20. CASE ValidateRefused(t)
  <2>1. tries[t] \in Nat /\ tries[t] + 1 \in 0..LoginAttempts
    BY <1>20 DEF ValidateRefused, RefuseLogin, FailLogin
  <2>2. \/ tries[t] + 1 < LoginAttempts
         \/ tries[t] + 1 = LoginAttempts
    BY <2>1
  <2> QED BY <1>20, <2>1, <2>2 DEF ValidateRefused, RefuseLogin, FailLogin
<1>21. CASE ClearingFails(t) BY <1>21 DEF ClearingFails
<1>22. CASE ValidateFails(t) BY <1>22 DEF ValidateFails
<1>23. CASE SaveToken(t) BY <1>23 DEF SaveToken
<1>24. CASE SaveCookie(t) BY <1>24 DEF SaveCookie
<1>25. CASE ClearToken(t) BY <1>25 DEF ClearToken
<1>26. CASE ClearStorage(t) BY <1>26 DEF ClearStorage
<1>27. CASE ClearCookie(t) BY <1>27 DEF ClearCookie
<1> QED BY <1>1, <1>2, <1>3, <1>4, <1>5, <1>6, <1>7, <1>8, <1>9, <1>10, <1>11, <1>12,
      <1>13, <1>14, <1>15, <1>16, <1>17, <1>18, <1>19, <1>20, <1>21, <1>22, <1>23, <1>24,
      <1>25, <1>26, <1>27 DEF Step, RequestStep, LoginStep, LogoutStep

\* Every step keeps what an undisturbed thread knows of its session.
LEMMA UndisturbedStep ==
  ASSUME IInv, NEW t \in Thread, CallRequest(t) \/ CallLogin(t) \/ CallLogout(t) \/ Step(t)
  PROVE  Undisturbed'
<1> USE DEF IInv, TypeOK, PlacesMatch, Undisturbed, Session, RequestPlaces, LoginPlaces,
      LogoutPlaces, GoTo, End, Begin, shared, local, counts
<1>1. CASE CallRequest(t)
  <2> SUFFICES ASSUME NEW u \in Thread, alone'[u] PROVE Session(u)'
    OBVIOUS
  <2>1. u = t /\ \A v \in Thread : pc[v] = "idle" BY <1>1 DEF CallRequest
  <2>2. pc'[t] = "attempt" /\ \A v \in Thread \ {t} : pc'[v] = "idle"
    BY <1>1, <2>1 DEF CallRequest
  <2> QED BY <1>1, <2>1, <2>2 DEF CallRequest
<1>2. CASE CallLogin(t)
  <2> SUFFICES ASSUME NEW u \in Thread, alone'[u] PROVE Session(u)'
    OBVIOUS
  <2>1. u = t /\ \A v \in Thread : pc[v] = "idle" BY <1>2 DEF CallLogin
  <2>2. pc'[t] = "login" /\ \A v \in Thread \ {t} : pc'[v] = "idle"
    BY <1>2, <2>1 DEF CallLogin
  <2> QED BY <1>2, <2>1, <2>2 DEF CallLogin
<1>3. CASE CallLogout(t)
  <2> SUFFICES ASSUME NEW u \in Thread, alone'[u] PROVE Session(u)'
    OBVIOUS
  <2>1. u = t /\ \A v \in Thread : pc[v] = "idle" BY <1>3 DEF CallLogout
  <2>2. pc'[t] = "clearToken" /\ \A v \in Thread \ {t} : pc'[v] = "idle"
    BY <1>3, <2>1 DEF CallLogout
  <2> QED BY <1>3, <2>1, <2>2 DEF CallLogout
<1>4. CASE BeginAttempt(t) BY <1>4 DEF BeginAttempt
<1>5. CASE TestCookie(t) BY <1>5 DEF TestCookie
<1>6. CASE TakeCookie(t) BY <1>6 DEF TakeCookie
<1>7. CASE RequestDone(t) BY <1>7 DEF RequestDone
<1>8. CASE RequestRejected(t) BY <1>8 DEF RequestRejected
<1>9. CASE ForgetToken(t) BY <1>9 DEF ForgetToken, ForgetBut
<1>10. CASE ForgetCookie(t) BY <1>10 DEF ForgetCookie
<1>11. CASE SiteDown(t) BY <1>11 DEF SiteDown
<1>12. CASE SiteUp(t) BY <1>12 DEF SiteUp
<1>13. CASE GetCredentials(t) BY <1>13 DEF GetCredentials
<1>14. CASE Decline(t) BY <1>14 DEF Decline
<1>15. CASE Refresh(t) BY <1>15 DEF Refresh
<1>16. CASE RefreshFails(t) BY <1>16 DEF RefreshFails
<1>17. CASE EmailFound(t) BY <1>17 DEF EmailFound
<1>18. CASE EmailFails(t) BY <1>18 DEF EmailFails
<1>19. CASE NoEmail(t) BY <1>19 DEF NoEmail, FailLogin
<1>20. CASE ValidateRefused(t) BY <1>20 DEF ValidateRefused, RefuseLogin, FailLogin
<1>21. CASE ClearingFails(t) BY <1>21 DEF ClearingFails
<1>22. CASE ValidateFails(t) BY <1>22 DEF ValidateFails
<1>23. CASE SaveToken(t) BY <1>23 DEF SaveToken
<1>24. CASE SaveCookie(t) BY <1>24 DEF SaveCookie
<1>25. CASE ClearToken(t) BY <1>25 DEF ClearToken
<1>26. CASE ClearStorage(t) BY <1>26 DEF ClearStorage
<1>27. CASE ClearCookie(t) BY <1>27 DEF ClearCookie
<1> QED BY <1>1, <1>2, <1>3, <1>4, <1>5, <1>6, <1>7, <1>8, <1>9, <1>10, <1>11, <1>12,
      <1>13, <1>14, <1>15, <1>16, <1>17, <1>18, <1>19, <1>20, <1>21, <1>22, <1>23, <1>24,
      <1>25, <1>26, <1>27 DEF Step, RequestStep, LoginStep, LogoutStep

\* An operation that ends for want of authentication leaves nothing behind.
LEMMA NothingLeftStep ==
  ASSUME IInv, NEW t \in Thread, CallRequest(t) \/ CallLogin(t) \/ CallLogout(t) \/ Step(t)
  PROVE  NothingLeft'
<1> USE DEF IInv, TypeOK, PlacesMatch, Undisturbed, Session, NothingLeft, RequestPlaces,
      LoginPlaces, LogoutPlaces, GoTo, End, Begin, shared, local, counts
<1>1. CASE CallRequest(t) BY <1>1 DEF CallRequest
<1>2. CASE CallLogin(t) BY <1>2 DEF CallLogin
<1>3. CASE CallLogout(t) BY <1>3 DEF CallLogout
<1>4. CASE BeginAttempt(t) BY <1>4 DEF BeginAttempt
<1>5. CASE TestCookie(t) BY <1>5 DEF TestCookie
<1>6. CASE TakeCookie(t) BY <1>6 DEF TakeCookie
<1>7. CASE RequestDone(t) BY <1>7 DEF RequestDone
<1>8. CASE RequestRejected(t) BY <1>8 DEF RequestRejected
<1>9. CASE ForgetToken(t) BY <1>9 DEF ForgetToken, ForgetBut
<1>10. CASE ForgetCookie(t) BY <1>10 DEF ForgetCookie
<1>11. CASE SiteDown(t) BY <1>11 DEF SiteDown
<1>12. CASE SiteUp(t) BY <1>12 DEF SiteUp
<1>13. CASE GetCredentials(t) BY <1>13 DEF GetCredentials
<1>14. CASE Decline(t) BY <1>14 DEF Decline
<1>15. CASE Refresh(t) BY <1>15 DEF Refresh
<1>16. CASE RefreshFails(t) BY <1>16 DEF RefreshFails
<1>17. CASE EmailFound(t) BY <1>17 DEF EmailFound
<1>18. CASE EmailFails(t) BY <1>18 DEF EmailFails
<1>19. CASE NoEmail(t) BY <1>19 DEF NoEmail, FailLogin
<1>20. CASE ValidateRefused(t) BY <1>20 DEF ValidateRefused, RefuseLogin, FailLogin
<1>21. CASE ClearingFails(t) BY <1>21 DEF ClearingFails
<1>22. CASE ValidateFails(t) BY <1>22 DEF ValidateFails
<1>23. CASE SaveToken(t) BY <1>23 DEF SaveToken
<1>24. CASE SaveCookie(t) BY <1>24 DEF SaveCookie
<1>25. CASE ClearToken(t) BY <1>25 DEF ClearToken
<1>26. CASE ClearStorage(t) BY <1>26 DEF ClearStorage
<1>27. CASE ClearCookie(t) BY <1>27 DEF ClearCookie
<1> QED BY <1>1, <1>2, <1>3, <1>4, <1>5, <1>6, <1>7, <1>8, <1>9, <1>10, <1>11, <1>12,
      <1>13, <1>14, <1>15, <1>16, <1>17, <1>18, <1>19, <1>20, <1>21, <1>22, <1>23, <1>24,
      <1>25, <1>26, <1>27 DEF Step, RequestStep, LoginStep, LogoutStep

\* What an operation leaves of a session when it ends.
LEMMA LoginKnownStep ==
  ASSUME IInv, NEW t \in Thread, CallRequest(t) \/ CallLogin(t) \/ CallLogout(t) \/ Step(t)
  PROVE  LoginStaysKnown'
<1> USE DEF IInv, TypeOK, PlacesMatch, Undisturbed, Session, NothingLeft, LoginStaysKnown,
      HasUserLogin, RequestPlaces, LoginPlaces, LogoutPlaces, GoTo, End, Begin, shared,
      local, counts
<1>1. CASE CallRequest(t) BY <1>1 DEF CallRequest
<1>2. CASE CallLogin(t) BY <1>2 DEF CallLogin
<1>3. CASE CallLogout(t) BY <1>3 DEF CallLogout
<1>4. CASE BeginAttempt(t) BY <1>4 DEF BeginAttempt
<1>5. CASE TestCookie(t) BY <1>5 DEF TestCookie
<1>6. CASE TakeCookie(t) BY <1>6 DEF TakeCookie
<1>7. CASE RequestDone(t) BY <1>7 DEF RequestDone
<1>8. CASE RequestRejected(t) BY <1>8 DEF RequestRejected
<1>9. CASE ForgetToken(t) BY <1>9 DEF ForgetToken, ForgetBut
<1>10. CASE ForgetCookie(t) BY <1>10 DEF ForgetCookie
<1>11. CASE SiteDown(t) BY <1>11 DEF SiteDown
<1>12. CASE SiteUp(t) BY <1>12 DEF SiteUp
<1>13. CASE GetCredentials(t) BY <1>13 DEF GetCredentials
<1>14. CASE Decline(t) BY <1>14 DEF Decline
<1>15. CASE Refresh(t) BY <1>15 DEF Refresh
<1>16. CASE RefreshFails(t) BY <1>16 DEF RefreshFails
<1>17. CASE EmailFound(t) BY <1>17 DEF EmailFound
<1>18. CASE EmailFails(t) BY <1>18 DEF EmailFails
<1>19. CASE NoEmail(t) BY <1>19 DEF NoEmail, FailLogin
<1>20. CASE ValidateRefused(t) BY <1>20 DEF ValidateRefused, RefuseLogin, FailLogin
<1>21. CASE ClearingFails(t) BY <1>21 DEF ClearingFails
<1>22. CASE ValidateFails(t) BY <1>22 DEF ValidateFails
<1>23. CASE SaveToken(t) BY <1>23 DEF SaveToken
<1>24. CASE SaveCookie(t) BY <1>24 DEF SaveCookie
<1>25. CASE ClearToken(t) BY <1>25 DEF ClearToken
<1>26. CASE ClearStorage(t) BY <1>26 DEF ClearStorage
<1>27. CASE ClearCookie(t) BY <1>27 DEF ClearCookie
<1> QED BY <1>1, <1>2, <1>3, <1>4, <1>5, <1>6, <1>7, <1>8, <1>9, <1>10, <1>11, <1>12,
      <1>13, <1>14, <1>15, <1>16, <1>17, <1>18, <1>19, <1>20, <1>21, <1>22, <1>23, <1>24,
      <1>25, <1>26, <1>27 DEF Step, RequestStep, LoginStep, LogoutStep

\* A step that changes nothing preserves the invariant.
LEMMA StutterStep ==
  ASSUME IInv, UNCHANGED vars
  PROVE  IInv'
<1> USE DEF IInv, vars, shared, local, counts
<1>1. TypeOK' BY DEF TypeOK
<1>2. PlacesMatch' BY DEF PlacesMatch
<1>3. FailuresAddUp' BY DEF FailuresAddUp
<1>4. Undisturbed' BY DEF Undisturbed, Session
<1>5. NothingLeft' BY DEF NothingLeft
<1>6. LoginStaysKnown' BY DEF LoginStaysKnown, HasUserLogin
<1> QED BY <1>1, <1>2, <1>3, <1>4, <1>5, <1>6

\* Every reachable state satisfies the invariant.
THEOREM Invariance == Spec => []IInv
<1>1. IInv /\ [Next]_vars => IInv'
  <2> SUFFICES ASSUME IInv, [Next]_vars PROVE IInv'
    OBVIOUS
  <2>1. CASE UNCHANGED vars BY <2>1, StutterStep
  <2>2. ASSUME NEW t \in Thread, CallRequest(t) \/ CallLogin(t) \/ CallLogout(t) \/ Step(t)
        PROVE  IInv'
    <3>1. TypeOK' BY <2>2, TypeStep DEF IInv
    <3>2. PlacesMatch' BY <2>2, PlacesStep DEF IInv
    <3>3. FailuresAddUp' BY <2>2, FailuresStep DEF IInv
    <3>4. Undisturbed' BY <2>2, UndisturbedStep
    <3>5. NothingLeft' BY <2>2, NothingLeftStep
    <3>6. LoginStaysKnown' BY <2>2, LoginKnownStep
    <3> QED BY <3>1, <3>2, <3>3, <3>4, <3>5, <3>6 DEF IInv
  <2> QED BY <2>1, <2>2 DEF Next
<1> QED BY InitInv, <1>1, PTL DEF Spec

\* The connection keeps its types, and no counter of failures passes the number
\* of attempts, or of tries, that the code allows.
THEOREM TypeCorrect == Spec => []TypeOK
BY Invariance, PTL DEF IInv

\* A request that fails for want of authentication has used up its attempts or
\* the tries of one login, and if no other operation ran meanwhile it has never
\* found the cookie of its own login gone, and leaves neither token nor cookie.
THEOREM AuthErrorsJustified == Spec => []AuthErrorJustified
<1>1. IInv => AuthErrorIsFinal
  <2> SUFFICES ASSUME IInv, NEW t \in Thread, op[t] = "request", outcome[t] = "authError"
               PROVE  \/ refused[t] = LoginAttempts
                      \/ rejected[t] + lost[t] = Attempts /\ (alone[t] => lost[t] = 0)
    BY DEF AuthErrorIsFinal
  <2>1. pc[t] = "idle" BY DEF IInv, PlacesMatch
  <2>2. refused[t] = tries[t] /\ rejected[t] + lost[t] = attempt[t]
    BY <2>1 DEF IInv, FailuresAddUp
  <2>3. alone[t] => lost[t] = 0 BY DEF IInv, Undisturbed, Session
  <2> QED BY <2>2, <2>3 DEF IInv, FailuresAddUp
<1>2. IInv => AuthErrorJustified BY <1>1 DEF IInv, AuthErrorJustified
<1> QED BY Invariance, <1>2, PTL

\* Provided that no other operation ran meanwhile and has_user_login() was right
\* when the operation began: it is right after one that ended well and after a
\* request that failed for want of authentication; after one that failed otherwise,
\* and after a login of the user that was refused, it may be wrong, but it tells of
\* a login that is not there only when the next one finds credentials on disk, and
\* overlooks one that is there only after a login or logout, never after a request.
THEOREM LoginKnown == Spec => []LoginStaysKnown
BY Invariance, PTL DEF IInv
=============================================================================
