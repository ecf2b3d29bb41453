--------------------------- MODULE HostApplication ---------------------------
(***************************************************************************)
(* The zync_threading package in a host application: background tasks run  *)
(* in a thread pool and call into the main thread through the executor,    *)
(* while the main thread also does what a host does with it: it waits for  *)
(* the pool's shutdown, or shows a modal dialog from a task's function,    *)
(* whose event loop calls maybe_execute_action again.  The hooks given to  *)
(* the executor are the host's code and may raise.                         *)
(*                                                                         *)
(* The executor is MainThreadExecutor with all its steps, the pool is used *)
(* through its interface, ThreadPool.                                      *)
(***************************************************************************)
EXTENDS MainThreadExecutor

VARIABLES
    open,       \* the pool accepts tasks
    accepted,   \* the tasks added to it
    ended,      \* those it is through with
    settled,    \* a shutdown that waits has returned
    host,       \* what the main thread is held up by: nothing ("loop"), a
                \* shutdown that waits ("joining"), or itself ("blocked")
    hookFailed  \* history: a hook raised, and none has reached the host since

poolVars == <<open, accepted, ended, settled>>
hostVars == <<vars, poolVars, host, hookFailed>>

Pool == INSTANCE ThreadPool WITH Job <- Task

HostInit == Init /\ Pool!Init /\ host = "loop" /\ hookFailed = FALSE

Working(t) == t \in accepted \ ended

\* A step that the executor takes as MainThreadExecutor has it.
AsBefore == UNCHANGED <<poolVars, host>> /\ hookFailed' = (hookFailed /\ ~wake')

-----------------------------------------------------------------------------
(* The tasks in the pool.                                                  *)

TaskCalls(t, ignore) == Working(t) /\ StartCall(t, ignore) /\ AsBefore

\* _on_action_submitted raises: run_on_main_thread is left with that exception,
\* the condition of the call in state `lock` and the queue as q.
HookRaises(t, lock, q) ==
    /\ pc[t] = "announce" /\ UseHooks
    /\ queue' = q
    /\ conditionLock' = [conditionLock EXCEPT ![Current(t)] = lock]
    /\ ComeBack(t, "hookError")
    /\ hookFailed' = TRUE
    /\ UNCHANGED <<wake, result, mainVars, poolVars, host>>

\* Faulty: the exception leaves the condition locked.
SubmittedHookHolds(t) == HookRaises(t, "task", queue)

\* Faulty: an action is withdrawn, whoever submitted the last one.
SubmittedHookWithdraws(t) ==
    HookRaises(t, "free", IF queue = <<>> THEN queue ELSE SubSeq(queue, 1, Len(queue) - 1))

SubmittedHookRaises(t) == HookRaises(t, "free", queue)

\* The task's run returns, or it was interrupted before it began.
TaskEnds(t) ==
    /\ pc[t] = "ready" /\ Pool!End(t)
    /\ UNCHANGED <<vars, host, hookFailed>>

-----------------------------------------------------------------------------
(* The main thread.                                                        *)

\* The host adds a task, from its event loop.
HostAdds(t) ==
    /\ host = "loop" /\ mainPc = "idle" /\ Pool!Accept(t)
    /\ UNCHANGED <<vars, host, hookFailed>>

\* Its event loop, when nothing holds it up, calls maybe_execute_action.
EventLoopCalls == host = "loop" /\ HostCalls /\ AsBefore

\* A function goes on, when nothing holds it up.
FunctionGoesOn == host = "loop" /\ FunctionStep /\ AsBefore

\* _on_actions_pending raises: maybe_execute_action is left with the queue lock
\* released, and the exception ends in the host's event loop.
PendingHookRaisesWith(locked) ==
    /\ mainPc = "finish" /\ UseHooks /\ queue # <<>>
    /\ queueLocked' = locked
    /\ running' = <<>> /\ mainResult' = "none" /\ nested' = 0
    /\ mainPc' = "idle"
    /\ hookFailed' = TRUE
    /\ UNCHANGED <<queue, wake, pc, conditionLock, result, ran, taskVars, poolVars, host>>

\* Faulty: with the lock taken.
PendingHookKeepsLock == PendingHookRaisesWith(TRUE)

PendingHookRaises == PendingHookRaisesWith(FALSE)

\* The main thread shuts the pool down and waits, in its event loop or in a
\* task's function, the executor's queue lock held.
CallShutdown ==
    /\ host = "loop" /\ mainPc \in {"idle", "exec"} /\ Pool!Close
    /\ host' = "joining"
    /\ UNCHANGED <<vars, hookFailed>>

ShutdownReturns ==
    /\ host = "joining" /\ Pool!Settle
    /\ host' = "loop"
    /\ UNCHANGED <<vars, hookFailed>>

\* A function runs an event loop of its own, which calls maybe_execute_action:
\* the main thread waits for the queue lock, which it holds.
CallAgain ==
    /\ host = "loop" /\ mainPc = "exec" /\ (UseHooks => wake)
    /\ wake' = FALSE
    /\ host' = "blocked"
    /\ UNCHANGED <<queue, mainVars, pc, taskVars, conditionLock, result, poolVars, hookFailed>>

-----------------------------------------------------------------------------
TaskStep(t) == (CallStep(t) /\ AsBefore) \/ SubmittedHookRaises(t) \/ TaskEnds(t)

MainStep == (ExecutorStep /\ AsBefore) \/ PendingHookRaises

HostNext ==
    \/ \E t \in Task :
          \/ HostAdds(t)
          \/ \E ignore \in BOOLEAN : TaskCalls(t, ignore)
          \/ TaskStep(t)
          \/ Interrupt(t) /\ AsBefore
    \/ EventLoopCalls \/ FunctionGoesOn \/ MainStep
    \/ CallShutdown \/ ShutdownReturns \/ CallAgain

\* Threads are scheduled, waits time out, the tasks end, and the event loop, if
\* nothing holds it up, gets round to the requests; a function on the main
\* thread may go on for ever.
HostSpec ==
    /\ HostInit /\ [][HostNext]_hostVars
    /\ \A t \in Task : WF_hostVars(TaskStep(t))
    /\ WF_hostVars(MainStep) /\ SF_hostVars(SubmitResult /\ AsBefore)
    /\ WF_hostVars(EventLoopCalls) /\ WF_hostVars(ShutdownReturns)

-----------------------------------------------------------------------------
(* Properties.                                                             *)

\* An action is forgotten, in the queue with nobody asked to execute it, only
\* after a hook has raised: requests that become one, hooks called without the
\* queue lock and actions left behind lose none.
NoForgottenAction ==
    UseHooks /\ queue # <<>> /\ mainPc = "idle" /\ ~wake =>
        hookFailed \/ \E t \in Task : pc[t] = "announce"

\* The calls as the abstract queue sees them: one that a hook has ended is given
\* up, whatever becomes of its action.
Answers == [c \in Call |-> IF outcome[c] = "hookError" THEN "interrupted" ELSE outcome[c]]

CallsOfHost == INSTANCE MainThreadCalls WITH pending <- Pending, done <- Done, answer <- Answers

\* Whatever holds the main thread up and whichever hook raises, each function
\* runs once at most, in the order of submission, and each call gets its own
\* result.
KeepsImplementingCalls == CallsOfHost!Spec

\* Places where a task waits for the main thread and looks at its interrupt.
Waits(t) == pc[t] \in {"waiting", "reacquire", "woken"}

\* A task that waits notices an interrupt even if the main thread never gets to
\* its action, because waits time out.
InterruptNoticed == \A t \in Task : Waits(t) /\ Raises(t) ~> pc[t] = "ready"

\* The main thread keeps t: t needs the queue lock, which it does not give up
\* for an interrupt, or waits and has not been interrupted.
KeptWaiting(t) == (pc[t] = "submit" /\ queueLocked) \/ (Waits(t) /\ ~Raises(t))

\* A shutdown on the main thread returns, unless a task waits for the main
\* thread that nobody has interrupted, or that is kept by the queue lock.
JoinEnds == []<>(host # "joining" \/ \E t \in Task : KeptWaiting(t))

\* These are the only reasons for which a call does not come back: the main
\* thread is in a function, waits for a shutdown or for itself, or is idle and a
\* hook has raised; and even then only as KeptWaiting has it.
OnlyMainThreadKeeps ==
    \A t \in Task :
        []<>(\/ pc[t] = "ready"
             \/ /\ KeptWaiting(t)
                /\ \/ host # "loop" \/ mainPc = "exec"
                   \/ mainPc = "idle" /\ hookFailed)

\* All of that together: what holds a task up, and who is to blame.
OnlyMainThreadHolds == InterruptNoticed /\ JoinEnds /\ OnlyMainThreadKeeps
=============================================================================
