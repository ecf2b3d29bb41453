----------------------------- MODULE AsyncCaller -----------------------------
(***************************************************************************)
(* zync_threading/async_caller.py: functions run in the background as      *)
(* tasks of a thread pool, with callbacks for success and error, and a set *)
(* of the tasks under way for interrupt_all_async_calls.  The pool is      *)
(* taken from its interface, ThreadPool.                                   *)
(***************************************************************************)
CONSTANTS
    Task,        \* the _AsyncTasks, one for each asynchronous call
    NoTask,      \* stands for no task
    Caller,      \* the threads that start calls and interrupt them
    HasSuccess,  \* the tasks whose call was given an on_success
    HasError     \* the tasks whose call was given an on_error

ASSUME CallbacksOfTasks == HasSuccess \subseteq Task /\ HasError \subseteq Task
ASSUME NoTaskIsNoTask == NoTask \notin Task
ASSUME FreeIsNoCaller == "free" \notin Caller

VARIABLES
    open, accepted, ended, settled,  \* the thread pool
    asyncTasks,   \* _async_tasks
    lock,         \* the caller in interrupt_all_async_calls, with _async_tasks_lock
    todo,         \* the tasks it has yet to interrupt
    starting,     \* the task each caller has tracked and is to add to the pool
    pc,           \* where each task is
    interrupted,  \* the interrupted tasks
    succeeded,    \* history: tasks whose on_success was called
    failed,       \* history: tasks whose on_error was called
    raised,       \* history: what raised in the try statement of each task's run
    leaked        \* history: tasks whose run an exception left

poolVars == <<open, accepted, ended, settled>>
callerVars == <<lock, todo, starting, interrupted>>
runVars == <<succeeded, failed, raised, leaked>>
vars == <<poolVars, callerVars, runVars, asyncTasks, pc>>

Pool == INSTANCE ThreadPool WITH Job <- Task

Init ==
    /\ Pool!Init
    /\ asyncTasks = {}
    /\ lock = "free" /\ todo = {}
    /\ starting = [th \in Caller |-> NoTask]
    /\ pc = [t \in Task |-> "new"]
    /\ interrupted = {}
    /\ succeeded = {} /\ failed = {} /\ leaked = {}
    /\ raised = [t \in Task |-> "nothing"]

GoTo(t, place) == pc' = [pc EXCEPT ![t] = place]

-----------------------------------------------------------------------------
(* The callers.                                                            *)

\* start_async_call makes a task and tracks it, if `may` allow it.
Track(th, t, may) ==
    /\ starting[th] = NoTask /\ lock # th
    /\ pc[t] = "new" /\ may
    /\ asyncTasks' = asyncTasks \cup {t}
    /\ starting' = [starting EXCEPT ![th] = t]
    /\ GoTo(t, "tracked")
    /\ UNCHANGED <<lock, todo, interrupted, poolVars, runVars>>

\* Faulty: the set is changed without the lock.
TrackUnlocked(th, t) == Track(th, t, TRUE)

TrackTask(th, t) == Track(th, t, lock = "free")

\* The task is added to the pool.
AddTask(th) ==
    /\ starting[th] # NoTask
    /\ Pool!Accept(starting[th])
    /\ GoTo(starting[th], "queued")
    /\ starting' = [starting EXCEPT ![th] = NoTask]
    /\ UNCHANGED <<asyncTasks, lock, todo, interrupted, runVars>>

\* The pool was shut down and refuses the task, which stays tracked.
AddRaises(th) ==
    /\ starting[th] # NoTask /\ ~open
    /\ GoTo(starting[th], "refused")
    /\ starting' = [starting EXCEPT ![th] = NoTask]
    /\ UNCHANGED <<asyncTasks, lock, todo, interrupted, poolVars, runVars>>

\* interrupt_all_async_calls enters its loop over the tracked tasks.
BeginInterruptAll(th) ==
    /\ starting[th] = NoTask /\ lock = "free"
    /\ lock' = th /\ todo' = asyncTasks
    /\ UNCHANGED <<asyncTasks, starting, pc, interrupted, poolVars, runVars>>

InterruptNext(t) ==
    /\ t \in todo
    /\ interrupted' = interrupted \cup {t}
    /\ todo' = todo \ {t}
    /\ UNCHANGED <<asyncTasks, lock, starting, pc, poolVars, runVars>>

\* The loop is over, and the lock is `released` or not.
LeaveInterruptAll(released) ==
    /\ lock # "free" /\ todo = {}
    /\ lock' = IF released THEN "free" ELSE lock
    /\ UNCHANGED <<asyncTasks, todo, starting, pc, interrupted, poolVars, runVars>>

\* Faulty: acquire without release.
KeepLock == LeaveInterruptAll(FALSE)

EndInterruptAll == LeaveInterruptAll(TRUE)

\* The task is handed to the caller, who may interrupt it alone.
InterruptOne(t) ==
    /\ pc[t] \notin {"new", "tracked", "refused"} /\ t \notin interrupted
    /\ interrupted' = interrupted \cup {t}
    /\ UNCHANGED <<asyncTasks, lock, todo, starting, pc, poolVars, runVars>>

\* Somebody shuts the pool down, and waits for it.
ShutDown ==
    /\ Pool!Close \/ Pool!Settle
    /\ UNCHANGED <<callerVars, runVars, asyncTasks, pc>>

-----------------------------------------------------------------------------
(* _AsyncTask, on a thread of the pool.                                    *)

\* The pool cancels a task that was interrupted before it could start: its
\* on_cancelled does nothing, so that the task stays tracked.
Cancel(t) ==
    /\ pc[t] = "queued" /\ t \in interrupted
    /\ GoTo(t, "cancelled")
    /\ Pool!End(t)
    /\ UNCHANGED <<callerVars, runVars, asyncTasks>>

\* The pool runs the task.
Run(t) ==
    /\ pc[t] = "queued" /\ t \notin interrupted
    /\ GoTo(t, "checking")
    /\ UNCHANGED <<poolVars, callerVars, runVars, asyncTasks>>

\* `cause` raises in the try statement and the except clause is next.
Raise(t, cause) ==
    /\ raised' = [raised EXCEPT ![t] = cause]
    /\ GoTo(t, "failing")
    /\ UNCHANGED <<poolVars, callerVars, succeeded, failed, leaked, asyncTasks>>

\* One of the two checks raises.
CheckRaises(t) ==
    /\ pc[t] \in {"checking", "returned"} /\ t \in interrupted
    /\ Raise(t, "check_interrupted")

\* The first check passes and func is called.
CallFunc(t) ==
    /\ pc[t] = "checking" /\ t \notin interrupted
    /\ GoTo(t, "func")
    /\ UNCHANGED <<poolVars, callerVars, runVars, asyncTasks>>

FuncReturns(t) ==
    /\ pc[t] = "func"
    /\ GoTo(t, IF t \in HasSuccess THEN "returned" ELSE "ending")
    /\ UNCHANGED <<poolVars, callerVars, runVars, asyncTasks>>

FuncRaises(t) == pc[t] = "func" /\ Raise(t, "func")

\* The second check passes and on_success is called.
CallOnSuccess(t) ==
    /\ pc[t] = "returned" /\ t \notin interrupted
    /\ succeeded' = succeeded \cup {t}
    /\ GoTo(t, "on_success")
    /\ UNCHANGED <<poolVars, callerVars, failed, raised, leaked, asyncTasks>>

SuccessReturns(t) ==
    /\ pc[t] = "on_success"
    /\ GoTo(t, "ending")
    /\ UNCHANGED <<poolVars, callerVars, runVars, asyncTasks>>

SuccessRaises(t) == pc[t] = "on_success" /\ Raise(t, "on_success")

\* The except clause calls on_error, which may raise; without one it raises the
\* exception again.
Report(t, hasError) ==
    /\ pc[t] = "failing"
    /\ failed' = IF hasError THEN failed \cup {t} ELSE failed
    /\ \/ hasError /\ UNCHANGED leaked
       \/ leaked' = leaked \cup {t}
    /\ GoTo(t, "ending")
    /\ UNCHANGED <<poolVars, callerVars, succeeded, raised, asyncTasks>>

\* Faulty: on_error is called without being there.
ReportAlways(t) == Report(t, TRUE)

\* Faulty: on_success is called outside the try statement.
ReportFuncOnly(t) == Report(t, t \in HasError \ succeeded)

ReportError(t) == Report(t, t \in HasError)

\* The finally clause stops tracking the task, if it `untracks` it, and the
\* pool is done with it.
Finally(t, untracks) ==
    /\ pc[t] = "ending" /\ lock = "free"
    /\ asyncTasks' = IF untracks THEN asyncTasks \ {t} ELSE asyncTasks
    /\ GoTo(t, "done")
    /\ Pool!End(t)
    /\ UNCHANGED <<callerVars, runVars>>

\* Faulty: no finally, so that an exception leaves the task tracked.
UntrackUnlessRaised(t) == Finally(t, t \notin leaked)

UntrackTask(t) == Finally(t, TRUE)

-----------------------------------------------------------------------------
CallerStep ==
    \/ \E th \in Caller : AddTask(th) \/ AddRaises(th)
    \/ \E t \in Task : InterruptNext(t)
    \/ EndInterruptAll

TaskStep(t) ==
    \/ Cancel(t) \/ Run(t) \/ CheckRaises(t) \/ CallFunc(t) \/ FuncReturns(t)
    \/ FuncRaises(t) \/ CallOnSuccess(t) \/ SuccessReturns(t) \/ SuccessRaises(t)
    \/ ReportError(t) \/ UntrackTask(t)

Next ==
    \/ \E th \in Caller : (\E t \in Task : TrackTask(th, t)) \/ BeginInterruptAll(th)
    \/ CallerStep
    \/ \E t \in Task : InterruptOne(t) \/ TaskStep(t)
    \/ ShutDown

Spec == Init /\ [][Next]_vars

\* The callers' calls go on, and the pool runs its tasks.  Tasks that are
\* interrupted all together again and again keep the lock busy, but leave it in
\* between: a task that wants it gets it at some point.
FairSpec ==
    /\ Spec /\ WF_vars(CallerStep)
    /\ \A t \in Task : WF_vars(TaskStep(t)) /\ SF_vars(UntrackTask(t))

-----------------------------------------------------------------------------
(* Properties.                                                             *)

\* The type invariant of the caller's state.
TypeOK ==
    /\ open \in BOOLEAN /\ settled \in BOOLEAN
    /\ accepted \subseteq Task /\ ended \subseteq Task
    /\ asyncTasks \subseteq Task /\ todo \subseteq Task /\ interrupted \subseteq Task
    /\ succeeded \subseteq HasSuccess /\ failed \subseteq HasError /\ leaked \subseteq Task
    /\ lock \in Caller \cup {"free"}
    /\ starting \in [Caller -> Task \cup {NoTask}]
    /\ pc \in [Task -> {"new", "tracked", "refused", "queued", "cancelled", "checking",
                        "func", "returned", "on_success", "failing", "ending", "done"}]
    /\ raised \in [Task -> {"nothing", "check_interrupted", "func", "on_success"}]

\* A task is tracked from before the pool can run it until its run has ended, so
\* that interrupt_all_async_calls reaches it; only a task that was never run is
\* tracked for good.
TrackedUntilRun ==
    \A t \in Task : t \in asyncTasks <=> pc[t] \notin {"new", "done"}

\* When interrupt_all_async_calls returns, no task under way is left out, however
\* tasks start and end meanwhile.
InterruptsAll ==
    [][lock # "free" /\ lock' = "free" => asyncTasks \subseteq interrupted]_vars

\* How a run that is over was reported: a result to on_success, an exception to
\* on_error or, without one, to the pool; both callbacks only if on_success
\* itself raised.
Reported ==
    \A t \in Task : pc[t] \in {"ending", "done"} =>
        /\ t \in HasSuccess /\ raised[t] = "nothing" => t \in succeeded
        /\ t \in succeeded => raised[t] \in {"nothing", "on_success"}
        /\ t \in HasError => (t \in failed <=> raised[t] # "nothing")
        /\ t \notin HasError => (t \in leaked <=> raised[t] # "nothing")

\* Every task that was added comes to an end, however often calls are
\* interrupted.
AddedEnds == \A t \in Task : pc[t] = "queued" ~> pc[t] \in {"cancelled", "done"}
=============================================================================
