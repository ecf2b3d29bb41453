------------------------ MODULE PreflightCheckSuite ------------------------
(***************************************************************************)
(* zync_preflights/preflight_check_suite.py: preflight checks run as tasks *)
(* of a thread pool, their status told to a listener, and the end of them  *)
(* all announced.  The pool is taken from its interface, ThreadPool.       *)
(*                                                                         *)
(* A host thread starts the suite and may cancel it.  The status listener  *)
(* and on_checks_finished belong to the host: when its user interface has  *)
(* to be touched they are decorated to run on the main thread, which is    *)
(* the host thread here, and are served when it is back in its event loop. *)
(***************************************************************************)
EXTENDS Naturals, Sequences

CONSTANTS
    Check,          \* the preflight checks of the suite
    NoCheck,        \* stands for no check
    MaxCancels,     \* bound: how often the suite is cancelled
    ListenerOnMain, \* whether the status listener needs the main thread
    FinishedOnMain, \* whether on_checks_finished needs it
    ListenerRaises  \* whether the status listener may raise

ASSUME MaxCancelsIsNat == MaxCancels \in Nat
ASSUME OnMainAreBoolean == ListenerOnMain \in BOOLEAN /\ FinishedOnMain \in BOOLEAN
ASSUME ListenerRaisesIsBoolean == ListenerRaises \in BOOLEAN
ASSUME NoCheckIsNoCheck == NoCheck \notin Check
ASSUME OthersAreNoChecks == "free" \notin Check /\ "host" \notin Check

VARIABLES
    open, accepted, ended, settled,  \* the thread pool
    checks,       \* _preflight_checks, those not finalized
    lock,         \* who holds _preflight_checks_lock: a check's thread or the host
    host,         \* where the host thread is
    todo,         \* the checks its loop has yet to visit
    adding,       \* the check whose PENDING was told and that is to be added
    cancels,      \* how often cancel was called
    pc,           \* where each check's wrapper is
    status,       \* _execution_status of the wrapper
    new,          \* the new_status that is to be told
    interrupted,  \* the interrupted checks
    told,         \* history: what the listener was told of each check
    cancelled,    \* history: a cancel has returned
    begun,        \* history: the checks that the pool had started by then
    finishes      \* history: how often on_checks_finished was called

poolVars == <<open, accepted, ended, settled>>
hostVars == <<host, todo, adding, cancels, interrupted, cancelled, begun>>
checkVars == <<pc, status, new>>
vars == <<poolVars, hostVars, checkVars, checks, lock, told, finishes>>

Pool == INSTANCE ThreadPool WITH Job <- Check

\* PreflightCheckExecutionStatus.
Final == {"COMPLETED", "ERRORED", "CANCELLED"}

Init ==
    /\ Pool!Init
    /\ checks = Check
    /\ lock = "free"
    /\ host = "idle" /\ todo = {} /\ adding = NoCheck
    /\ cancels = 0 /\ cancelled = FALSE /\ begun = {}
    /\ interrupted = {}
    /\ pc = [c \in Check |-> "new"]
    /\ status = [c \in Check |-> "PENDING"]
    /\ new = [c \in Check |-> "PENDING"]
    /\ told = [c \in Check |-> <<>>]
    /\ finishes = 0

\* A callback that needs the main thread waits until that serves it.
CallbackRuns(onMain) == onMain => host = "idle"

Tell(c, s) == told' = [told EXCEPT ![c] = Append(@, s)]

-----------------------------------------------------------------------------
(* The host thread.                                                        *)

\* start() enters its loop, with the lock.
Start ==
    /\ host = "idle" /\ todo = {} /\ lock = "free"
    /\ \A c \in Check : pc[c] = "new" /\ told[c] = <<>>
    /\ host' = "starting" /\ lock' = "host" /\ todo' = checks
    /\ UNCHANGED <<adding, cancels, interrupted, cancelled, begun, checks, told, finishes>>
    /\ UNCHANGED <<poolVars, checkVars>>

\* The listener is told of the next check.
TellPending(c) ==
    /\ host = "starting" /\ adding = NoCheck /\ c \in todo
    /\ Tell(c, "PENDING")
    /\ todo' = todo \ {c} /\ adding' = c
    /\ UNCHANGED <<host, cancels, interrupted, cancelled, begun, checks, lock, finishes>>
    /\ UNCHANGED <<poolVars, checkVars>>

\* The check is added to the pool.
AddCheck ==
    /\ adding # NoCheck
    /\ Pool!Accept(adding)
    /\ pc' = [pc EXCEPT ![adding] = "queued"]
    /\ adding' = NoCheck
    /\ UNCHANGED <<host, todo, cancels, interrupted, cancelled, begun, status, new>>
    /\ UNCHANGED <<checks, lock, told, finishes>>

\* start or cancel comes to its end, its loop done or left by an exception.
LeaveLoop(left) ==
    /\ host' = "idle" /\ lock' = left
    /\ todo' = {} /\ adding' = NoCheck

StartReturns ==
    /\ host = "starting" /\ todo = {} /\ adding = NoCheck
    /\ LeaveLoop("free")
    /\ UNCHANGED <<cancels, interrupted, cancelled, begun, checks, told, finishes>>
    /\ UNCHANGED <<poolVars, checkVars>>

\* The listener raises, or the pool refuses the check because it was shut down.
RaiseFromStart(left) ==
    /\ adding # NoCheck
    /\ ListenerRaises \/ ~open
    /\ LeaveLoop(left)
    /\ UNCHANGED <<cancels, interrupted, cancelled, begun, checks, told, finishes>>
    /\ UNCHANGED <<poolVars, checkVars>>

\* Faulty: an exception leaves the lock behind.
StartRaisesLocked == RaiseFromStart("host")

StartRaises == RaiseFromStart("free")

\* cancel() is called and waits for the lock.
CallCancel ==
    /\ host = "idle" /\ cancels < MaxCancels
    /\ host' = "locking" /\ cancels' = cancels + 1
    /\ UNCHANGED <<todo, adding, interrupted, cancelled, begun, checks, lock, told, finishes>>
    /\ UNCHANGED <<poolVars, checkVars>>

\* cancel() goes through the checks that are `visited`.
CancelLoop(visited) ==
    /\ host = "locking" /\ lock = "free"
    /\ host' = "cancelling" /\ lock' = "host" /\ todo' = visited
    /\ UNCHANGED <<adding, cancels, interrupted, cancelled, begun, checks, told, finishes>>
    /\ UNCHANGED <<poolVars, checkVars>>

\* Faulty: only the checks the pool runs, not those it has pending.
CancelRunning == CancelLoop({c \in checks : pc[c] # "queued"})

BeginCancel == CancelLoop(checks)

InterruptCheck(c) ==
    /\ host = "cancelling" /\ c \in todo
    /\ interrupted' = interrupted \cup {c}
    /\ todo' = todo \ {c}
    /\ UNCHANGED <<host, adding, cancels, cancelled, begun, checks, lock, told, finishes>>
    /\ UNCHANGED <<poolVars, checkVars>>

CancelReturns ==
    /\ host = "cancelling" /\ todo = {}
    /\ LeaveLoop("free")
    /\ cancelled' = TRUE
    /\ begun' = IF cancelled THEN begun ELSE {c \in Check : pc[c] \notin {"new", "queued"}}
    /\ UNCHANGED <<cancels, interrupted, checks, told, finishes>>
    /\ UNCHANGED <<poolVars, checkVars>>

\* Somebody else shuts the pool down, and waits for it.
ShutDown ==
    /\ Pool!Close \/ Pool!Settle
    /\ UNCHANGED <<hostVars, checkVars, checks, lock, told, finishes>>

-----------------------------------------------------------------------------
(* _PreflightWrapper, on a thread of the pool.                             *)

\* The wrapper of check c goes on at `place`, with s to be told.
GoOn(c, place, s) ==
    /\ pc' = [pc EXCEPT ![c] = place]
    /\ new' = [new EXCEPT ![c] = s]

\* The pool starts the check: on_cancelled if it is interrupted, run if not.
BeginAt(c, place, ifInterrupted) ==
    /\ pc[c] = "queued"
    /\ GoOn(c, place, IF c \in interrupted THEN ifInterrupted ELSE "RUNNING")
    /\ UNCHANGED <<status, checks, lock, told, finishes>> /\ UNCHANGED <<poolVars, hostVars>>

\* Faulty: no such status.
BeginMisspelt(c) == BeginAt(c, "telling", "CANCELED")

\* Faulty: the interrupt is not looked at.
BeginRegardless(c) == BeginAt(c, "telling", "RUNNING")

\* Faulty: the listener is not told.
BeginSilently(c) ==
    BeginAt(c, IF c \in interrupted THEN "telling" ELSE "running", "CANCELLED")

Begin(c) == BeginAt(c, "telling", "CANCELLED")

\* The check's own run comes to an end; it raises TaskInterruptedException only
\* if it is interrupted.
RunEnds(c, s) ==
    /\ pc[c] = "running"
    /\ s = "CANCELLED" => c \in interrupted
    /\ GoOn(c, "telling", s)
    /\ UNCHANGED <<status, checks, lock, told, finishes>> /\ UNCHANGED <<poolVars, hostVars>>

\* _change_execution_status tells the listener, then goes on at `place`.
ChangeStatus(c, place) ==
    /\ pc[c] = "telling" /\ CallbackRuns(ListenerOnMain)
    /\ Tell(c, new[c])
    /\ status' = [status EXCEPT ![c] = new[c]]
    /\ pc' = [pc EXCEPT ![c] = place]
    /\ UNCHANGED <<new, checks, lock, finishes>> /\ UNCHANGED <<poolVars, hostVars>>

\* Faulty: the wrapper does not wait for its check.
ChangeAndFinalize(c) == ChangeStatus(c, "finalizing")

ChangeExecutionStatus(c) ==
    ChangeStatus(c, IF new[c] = "RUNNING" THEN "running" ELSE "finalizing")

\* The listener raises.  Outside the try statement, at RUNNING or in
\* on_cancelled, the wrapper is left there and then; in its body the exception
\* is the run's; in its except clauses the finally clause is next.
ListenerFails(c) ==
    /\ ListenerRaises
    /\ pc[c] = "telling" /\ CallbackRuns(ListenerOnMain)
    /\ Tell(c, new[c])
    /\ \/ /\ status[c] = "PENDING"
          /\ Pool!End(c)
          /\ GoOn(c, "done", new[c])
       \/ /\ status[c] = "RUNNING" /\ new[c] = "COMPLETED"
          /\ \E s \in {"ERRORED", "CANCELLED"} : GoOn(c, "telling", s)
          /\ UNCHANGED poolVars
       \/ /\ status[c] = "RUNNING" /\ new[c] # "COMPLETED"
          /\ GoOn(c, "finalizing", new[c])
          /\ UNCHANGED poolVars
    /\ UNCHANGED <<status, checks, lock, finishes>> /\ UNCHANGED hostVars

\* _finalize_check removes the check; if it is the `last` one its thread keeps
\* the lock.
Finalize(c, last) ==
    /\ pc[c] = "finalizing" /\ lock = "free"
    /\ checks' = checks \ {c}
    /\ IF last
       THEN lock' = c /\ GoOn(c, "last", new[c]) /\ UNCHANGED poolVars
       ELSE GoOn(c, "done", new[c]) /\ Pool!End(c) /\ UNCHANGED lock
    /\ UNCHANGED <<status, told, finishes>> /\ UNCHANGED hostVars

\* Faulty: the set is looked at before the check is removed.
FinalizeLate(c) == Finalize(c, checks = {})

FinalizeCheck(c) == Finalize(c, checks \ {c} = {})

\* on_checks_finished runs; whether it returns or raises, the lock is `left` so.
RunFinished(c, left) ==
    /\ pc[c] = "last" /\ CallbackRuns(FinishedOnMain)
    /\ finishes' = finishes + 1
    /\ lock' = left
    /\ GoOn(c, "done", new[c])
    /\ Pool!End(c)
    /\ UNCHANGED <<status, checks, told>> /\ UNCHANGED hostVars

\* Faulty: an exception leaves the lock behind.
FinishedKeepsLock(c) == RunFinished(c, lock)

ChecksFinished(c) == RunFinished(c, "free")

-----------------------------------------------------------------------------
HostStep ==
    \/ \E c \in Check : TellPending(c) \/ InterruptCheck(c)
    \/ AddCheck \/ StartReturns \/ StartRaises \/ BeginCancel \/ CancelReturns

CheckStep(c) ==
    \/ Begin(c) \/ (\E s \in Final : RunEnds(c, s))
    \/ ChangeExecutionStatus(c) \/ ListenerFails(c)
    \/ FinalizeCheck(c) \/ ChecksFinished(c)

Next ==
    \/ Start \/ CallCancel \/ HostStep \/ ShutDown
    \/ \E c \in Check : CheckStep(c)

Spec == Init /\ [][Next]_vars

\* The host's calls go on, the pool runs its tasks, and the checks end.  Each
\* thread needs the lock a bounded number of times, so that those who wait for
\* it get it at last.
FairSpec ==
    Spec /\ WF_vars(HostStep) /\ \A c \in Check : WF_vars(CheckStep(c))

-----------------------------------------------------------------------------
(* Properties.                                                             *)

Status == {"PENDING", "RUNNING"} \cup Final

\* The type invariant of the suite's state.
TypeOK ==
    /\ open \in BOOLEAN /\ settled \in BOOLEAN /\ cancelled \in BOOLEAN
    /\ accepted \subseteq Check /\ ended \subseteq Check
    /\ checks \subseteq Check /\ todo \subseteq Check /\ interrupted \subseteq Check
    /\ begun \subseteq Check
    /\ lock \in Check \cup {"free", "host"}
    /\ host \in {"idle", "starting", "locking", "cancelling"}
    /\ adding \in Check \cup {NoCheck}
    /\ cancels \in 0..MaxCancels
    /\ pc \in [Check -> {"new", "queued", "telling", "running", "finalizing", "last", "done"}]
    /\ status \in [Check -> Status] /\ new \in [Check -> Status]
    /\ told \in [Check -> Seq(Status)]
    /\ finishes \in Nat

\* What the listener may be told of a check after what.  It hears of a second
\* final status only if it raised at COMPLETED.
Follows ==
    {<<"PENDING", "RUNNING">>, <<"PENDING", "CANCELLED">>}
    \cup {"RUNNING"} \X Final
    \cup IF ListenerRaises THEN {"COMPLETED"} \X {"ERRORED", "CANCELLED"} ELSE {}

InOrder(s) ==
    /\ s # <<>> => s[1] = "PENDING"
    /\ \A i \in 1..(Len(s) - 1) : <<s[i], s[i + 1]>> \in Follows

\* The listener is told of each check's life in order, although PENDING is told
\* by the host's thread and the rest by the pool's.
ToldInOrder == \A c \in Check : InOrder(told[c])

\* on_checks_finished is called once, after the listener has heard the last of
\* every check.
FinishedLast ==
    finishes > 0 =>
        /\ finishes = 1
        /\ \A c \in Check : pc[c] = "done" /\ told[c][Len(told[c])] \in Final

\* Once cancel has returned, a check that the pool had not started by then is never
\* told to be RUNNING and its run is not called, whenever it is added: all that is
\* still told of it is PENDING and CANCELLED.  A check that the pool had started,
\* having found it not interrupted, may yet be told to be RUNNING and run after the
\* cancel; but it is interrupted, like every check that is not finalized.
CancelStopsPending ==
    cancelled =>
        /\ checks \subseteq interrupted
        /\ \A c \in Check \ begun :
              /\ told[c] \in {<<>>, <<"PENDING">>, <<"PENDING", "CANCELLED">>}
              /\ pc[c] # "running"

\* The listener raised before the wrapper of c was finalized, or in on_cancelled.
Stranded(c) == pc[c] = "done" /\ c \in checks /\ status[c] = "PENDING"

\* on_checks_finished waits for the main thread, which waits in cancel for the
\* lock under which it is called: neither ever gets on.
Embraced ==
    /\ FinishedOnMain
    /\ host = "locking" /\ lock \in Check /\ pc[lock] = "last"

\* When all the checks have been added, their end is announced at last, however
\* they end and whenever the suite is cancelled: only a listener that raises at
\* the wrong moment keeps it from being announced, or the deadly embrace of a
\* cancel with an on_checks_finished that needs the main thread.
AddedFinish ==
    accepted = Check ~>
        finishes = 1 \/ Embraced \/ \E c \in Check : ListenerRaises /\ Stranded(c)

\* A cancel gets the lock and interrupts what is unfinished, unless it is caught
\* in that embrace: the listener's callbacks and a start never hold it up for good.
CancelTakesEffect == host = "locking" ~> host = "cancelling" \/ Embraced

\* The suite gets to its end and a cancel through, whatever the checks and the
\* listener do, but for these reasons.
SuiteGoesOn == AddedFinish /\ CancelTakesEffect
=============================================================================
