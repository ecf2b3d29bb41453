------------------------- MODULE MainThreadExecutor -------------------------
(***************************************************************************)
(* zync_threading/main_thread_executor.py: background tasks queue          *)
(* functions that the main thread runs for them, and wait for the results. *)
(*                                                                         *)
(* Two kinds of lock matter.  The queue lock protects the queue, and the   *)
(* main thread keeps it while it runs a function and hands the result      *)
(* over.  Every call has a wait condition of its own, whose lock the       *)
(* calling task keeps from before the call is queued until it first waits. *)
(*                                                                         *)
(* A Task is a background task (an InterruptibleMainThreadCaller) running  *)
(* on a thread of the pool: its calls follow one another, and its          *)
(* `interrupted` flag is the one that check_interrupted reads.             *)
(***************************************************************************)
EXTENDS Naturals, Sequences

CONSTANTS
    Task,       \* the background tasks that call into the main thread
    MaxCalls,   \* bound: how many calls each task makes
    MaxNested,  \* bound: how many calls a function on the main thread makes
    UseHooks    \* whether the host gave the two callbacks, or polls instead

ASSUME MaxCallsIsNat == MaxCalls \in Nat
ASSUME MaxNestedIsNat == MaxNested \in Nat
ASSUME UseHooksIsBoolean == UseHooks \in BOOLEAN

VARIABLES
    queue,          \* _action_queue, the calls waiting for the main thread
    queueLocked,    \* _action_queue_lock is held by the main thread
    wake,           \* a hook asked the host to call maybe_execute_action
    mainPc,         \* where the main thread is
    running,        \* the call whose function the main thread runs (<<>>: none)
    nested,         \* how many calls that function made from the main thread
    mainResult,     \* the MainThreadActionResult being handed over
    pc,             \* where each task is
    made,           \* how many calls each task has made
    interrupted,    \* BaseInterruptibleTask._interrupted of each task
    ignoring,       \* calls made without check_interrupted
    conditionLock,  \* holder of the lock of each call's wait condition
    result,         \* _ActionContext.result of each call, "none" until submitted
    ran,            \* history: how many times each call's function ran
    outcome         \* history: what each call gave back to its task

mainVars == <<queueLocked, mainPc, running, nested, mainResult, ran>>
taskVars == <<made, interrupted, ignoring, outcome>>
vars == <<queue, queueLocked, wake, mainPc, running, nested, mainResult, pc,
          made, interrupted, ignoring, conditionLock, result, ran, outcome>>

\* Call <<t, n>> is the n-th call of task t.
Call == Task \X (1..MaxCalls)
Result == {"value", "error"}
Current(t) == <<t, made[t]>>
InQueue(c) == \E i \in DOMAIN queue : queue[i] = c

\* Faulty: a call made with ignore_interrupts checks all the same.
RaisesAlways(t) == interrupted[t]

\* check_interrupted, as the current call of t was given it, raises.
Raises(t) == interrupted[t] /\ ~ignoring[Current(t)]

\* The places where a task holds the lock of its call's wait condition.
Holding == {"submit", "announce", "loop", "woken"}

Init ==
    /\ queue = <<>>
    /\ queueLocked = FALSE
    /\ wake = FALSE
    /\ mainPc = "idle"
    /\ running = <<>>
    /\ nested = 0
    /\ mainResult = "none"
    /\ pc = [t \in Task |-> "ready"]
    /\ made = [t \in Task |-> 0]
    /\ interrupted = [t \in Task |-> FALSE]
    /\ ignoring = [c \in Call |-> FALSE]
    /\ conditionLock = [c \in Call |-> "free"]
    /\ result = [c \in Call |-> "none"]
    /\ ran = [c \in Call |-> 0]
    /\ outcome = [c \in Call |-> "none"]

-----------------------------------------------------------------------------
(* The calling task.                                                       *)

\* run_on_main_thread is called off the main thread.
StartCall(t, ignore) ==
    /\ pc[t] = "ready" /\ made[t] < MaxCalls
    /\ made' = [made EXCEPT ![t] = @ + 1]
    /\ ignoring' = [ignoring EXCEPT ![<<t, made[t] + 1>>] = ignore]
    /\ pc' = [pc EXCEPT ![t] = "start"]
    /\ UNCHANGED <<queue, wake, interrupted, conditionLock, result, outcome>>
    /\ UNCHANGED mainVars

\* The call comes back to its task with o.
ComeBack(t, o) ==
    /\ outcome' = [outcome EXCEPT ![Current(t)] = o]
    /\ pc' = [pc EXCEPT ![t] = "ready"]
    /\ UNCHANGED <<made, interrupted, ignoring>>

\* The first check passes: a wait condition is created and entered.
EnterCondition(t) ==
    /\ pc[t] = "start" /\ ~Raises(t)
    /\ conditionLock' = [conditionLock EXCEPT ![Current(t)] = "task"]
    /\ pc' = [pc EXCEPT ![t] = "submit"]
    /\ UNCHANGED <<queue, wake, result>> /\ UNCHANGED <<mainVars, taskVars>>

\* The first check raises, before anything is queued.
RefuseCall(t) ==
    /\ pc[t] = "start" /\ Raises(t)
    /\ ComeBack(t, "interrupted")
    /\ UNCHANGED <<queue, wake, conditionLock, result>> /\ UNCHANGED mainVars

\* The action is put in the queue, which becomes q, once its lock can be had.
SubmitAs(t, q) ==
    /\ pc[t] = "submit" /\ ~queueLocked
    /\ queue' = q
    /\ pc' = [pc EXCEPT ![t] = "announce"]
    /\ UNCHANGED <<wake, conditionLock, result>> /\ UNCHANGED <<mainVars, taskVars>>

\* Faulty: filed as the task's next call.
SubmitNext(t) == SubmitAs(t, Append(queue, <<t, made[t] + 1>>))

\* Faulty: in front of the others.
SubmitFirst(t) == SubmitAs(t, <<Current(t)>> \o queue)

Submit(t) == SubmitAs(t, Append(queue, Current(t)))

\* _on_action_submitted is called, if there is one.
AnnounceTo(t, hook) ==
    /\ pc[t] = "announce"
    /\ wake' = (wake \/ hook)
    /\ pc' = [pc EXCEPT ![t] = "loop"]
    /\ UNCHANGED <<queue, conditionLock, result>> /\ UNCHANGED <<mainVars, taskVars>>

\* Faulty: the host is not told.
AnnounceNothing(t) == AnnounceTo(t, FALSE)

Announce(t) == AnnounceTo(t, UseHooks)

\* No result yet: the task waits, which gives up the condition's lock.
Wait(t) ==
    /\ pc[t] = "loop" /\ result[Current(t)] = "none" /\ ~Raises(t)
    /\ conditionLock' = [conditionLock EXCEPT ![Current(t)] = "free"]
    /\ pc' = [pc EXCEPT ![t] = "waiting"]
    /\ UNCHANGED <<queue, wake, result>> /\ UNCHANGED <<mainVars, taskVars>>

\* Faulty: the wait has no timeout.
TimeoutNever(t) == FALSE

\* WAIT_CONDITION_TIMEOUT_SECONDS have passed.
Timeout(t) ==
    /\ pc[t] = "waiting"
    /\ pc' = [pc EXCEPT ![t] = "reacquire"]
    /\ UNCHANGED <<queue, wake, conditionLock, result>>
    /\ UNCHANGED <<mainVars, taskVars>>

\* wait returns only with the condition's lock.
Reacquire(t) ==
    /\ pc[t] = "reacquire" /\ conditionLock[Current(t)] = "free"
    /\ conditionLock' = [conditionLock EXCEPT ![Current(t)] = "task"]
    /\ pc' = [pc EXCEPT ![t] = "woken"]
    /\ UNCHANGED <<queue, wake, result>> /\ UNCHANGED <<mainVars, taskVars>>

\* The check after the wait passes and the task goes on at `place`.
GoOnAt(t, place) ==
    /\ pc[t] = "woken" /\ ~Raises(t)
    /\ pc' = [pc EXCEPT ![t] = place]
    /\ UNCHANGED <<queue, wake, conditionLock, result>>
    /\ UNCHANGED <<mainVars, taskVars>>

\* Faulty: the action is submitted again in every round.
ResubmitAgain(t) == GoOnAt(t, "submit")

\* The loop tests for the result again.
LoopAgain(t) == GoOnAt(t, "loop")

\* A check around the wait raises: the exception leaves the condition, and the
\* action stays in the queue.
AbandonCall(t) ==
    /\ \/ pc[t] = "woken"
       \/ pc[t] = "loop" /\ result[Current(t)] = "none"
    /\ Raises(t)
    /\ conditionLock' = [conditionLock EXCEPT ![Current(t)] = "free"]
    /\ ComeBack(t, "interrupted")
    /\ UNCHANGED <<queue, wake, result>> /\ UNCHANGED mainVars

\* The result has been submitted: the task takes it and leaves the condition.
Collect(t) ==
    /\ pc[t] = "loop" /\ result[Current(t)] # "none"
    /\ conditionLock' = [conditionLock EXCEPT ![Current(t)] = "free"]
    /\ pc' = [pc EXCEPT ![t] = "collected"]
    /\ UNCHANGED <<queue, wake, result>> /\ UNCHANGED <<mainVars, taskVars>>

\* The last check, then action_result.result returns the value or reraises the
\* exception of the function.
Return(t) ==
    /\ pc[t] = "collected"
    /\ ComeBack(t, IF Raises(t) THEN "interrupted" ELSE result[Current(t)])
    /\ UNCHANGED <<queue, wake, conditionLock, result>> /\ UNCHANGED mainVars

\* Anyone may interrupt a task at any time; the flag is never reset.
Interrupt(t) ==
    /\ ~interrupted[t]
    /\ interrupted' = [interrupted EXCEPT ![t] = TRUE]
    /\ UNCHANGED <<queue, wake, pc, made, ignoring, conditionLock, result, outcome>>
    /\ UNCHANGED mainVars

-----------------------------------------------------------------------------
(* The main thread.                                                        *)

\* The host's event loop calls maybe_execute_action: because a hook asked it to
\* (requests made before it gets round to it are one), or, when there are no
\* hooks, from time to time.
HostCalls ==
    /\ mainPc = "idle" /\ (UseHooks => wake)
    /\ wake' = FALSE
    /\ mainPc' = "enter"
    /\ UNCHANGED <<queue, queueLocked, running, nested, mainResult, pc>>
    /\ UNCHANGED <<conditionLock, result, ran, taskVars>>

\* maybe_execute_action finds nothing to do.
FindEmpty ==
    /\ mainPc = "enter" /\ ~queueLocked /\ queue = <<>>
    /\ mainPc' = "idle"
    /\ UNCHANGED <<queue, queueLocked, wake, running, nested, mainResult, pc>>
    /\ UNCHANGED <<conditionLock, result, ran, taskVars>>

\* The main thread takes action c and leaves `rest`; it keeps the queue lock.
Take(c, rest) ==
    /\ mainPc = "enter" /\ ~queueLocked /\ queue # <<>>
    /\ queueLocked' = TRUE
    /\ running' = c
    /\ queue' = rest
    /\ nested' = 0
    /\ mainPc' = "exec"
    /\ UNCHANGED <<wake, mainResult, pc, conditionLock, result, ran, taskVars>>

\* Faulty: the action is only looked at.
PeekAction == Take(Head(queue), queue)

\* Faulty: pop() takes the youngest action.
PopLastAction == Take(queue[Len(queue)], SubSeq(queue, 1, Len(queue) - 1))

\* The oldest action leaves the queue.
PopAction == Take(Head(queue), Tail(queue))

\* The function calls run_on_main_thread itself: it is on the main thread, so
\* the nested function runs at once and takes no lock.
BeginNested ==
    /\ mainPc = "exec" /\ nested < MaxNested
    /\ nested' = nested + 1
    /\ mainPc' = "nested"
    /\ UNCHANGED <<queue, queueLocked, wake, running, mainResult, pc>>
    /\ UNCHANGED <<conditionLock, result, ran, taskVars>>

EndNested ==
    /\ mainPc = "nested"
    /\ mainPc' = "exec"
    /\ UNCHANGED <<queue, queueLocked, wake, running, nested, mainResult, pc>>
    /\ UNCHANGED <<conditionLock, result, ran, taskVars>>

\* The function finishes; a value or an exception is its result.
ExecuteAction(r) ==
    /\ mainPc = "exec"
    /\ mainResult' = r
    /\ ran' = [ran EXCEPT ![running] = @ + 1]
    /\ mainPc' = "deliver"
    /\ UNCHANGED <<queue, queueLocked, wake, running, nested, pc>>
    /\ UNCHANGED <<conditionLock, result>> /\ UNCHANGED taskVars

\* _submit_result enters the condition of the call and stores the result in
\* the context of call c.
StoreResult(c) ==
    /\ mainPc = "deliver" /\ conditionLock[running] = "free"
    /\ conditionLock' = [conditionLock EXCEPT ![running] = "main"]
    /\ result' = [result EXCEPT ![c] = mainResult]
    /\ mainPc' = "notify"
    /\ UNCHANGED <<queue, queueLocked, wake, running, nested, mainResult, pc>>
    /\ UNCHANGED ran /\ UNCHANGED taskVars

\* Faulty: the task has one context for all its calls.
SubmitToTask == StoreResult(Current(running[1]))

SubmitResult == StoreResult(running)

\* The tasks in `sleeping` are woken; then the condition is left.
Notify(sleeping) ==
    /\ mainPc = "notify"
    /\ pc' = [t \in Task |-> IF t \in sleeping THEN "reacquire" ELSE pc[t]]
    /\ conditionLock' = [conditionLock EXCEPT ![running] = "free"]
    /\ mainPc' = "finish"
    /\ UNCHANGED <<queue, queueLocked, wake, running, nested, mainResult>>
    /\ UNCHANGED <<result, ran>> /\ UNCHANGED taskVars

\* Faulty: nobody is notified.
NotifyNobody == Notify({})

\* notify_all wakes the task if it still waits on this call.
NotifyAll == Notify({t \in Task : pc[t] = "waiting" /\ Current(t) = running})

\* _on_actions_pending is called if there is one and actions are `left`, then
\* the queue lock is released.
FinishWith(left) ==
    /\ mainPc = "finish"
    /\ wake' = (wake \/ (UseHooks /\ left))
    /\ queueLocked' = FALSE
    /\ running' = <<>> /\ mainResult' = "none" /\ nested' = 0
    /\ mainPc' = "idle"
    /\ UNCHANGED <<queue, pc, conditionLock, result, ran>> /\ UNCHANGED taskVars

\* Faulty: the host is not told of the actions left.
FinishSilently == FinishWith(FALSE)

FinishAction == FinishWith(queue # <<>>)

-----------------------------------------------------------------------------
\* What a task does inside a call.
CallStep(t) ==
    \/ EnterCondition(t) \/ RefuseCall(t) \/ Submit(t) \/ Announce(t)
    \/ Wait(t) \/ Timeout(t) \/ Reacquire(t) \/ LoopAgain(t)
    \/ AbandonCall(t) \/ Collect(t) \/ Return(t)

\* What the main thread does on its own account, outside a task's function.
ExecutorStep ==
    FindEmpty \/ PopAction \/ SubmitResult \/ NotifyAll \/ FinishAction

\* What a task's function does on the main thread.
FunctionStep ==
    BeginNested \/ EndNested \/ (\E r \in Result : ExecuteAction(r))

\* Every task has made its calls and nothing is left to do.
Finished ==
    /\ \A t \in Task : pc[t] = "ready" /\ made[t] = MaxCalls
    /\ queue = <<>> /\ mainPc = "idle" /\ ~wake

Next ==
    \/ \E t \in Task :
          \/ \E ignore \in BOOLEAN : StartCall(t, ignore)
          \/ CallStep(t)
          \/ Interrupt(t)
    \/ HostCalls
    \/ ExecutorStep
    \/ FunctionStep
    \/ Finished /\ UNCHANGED vars

Spec == Init /\ [][Next]_vars

\* Threads are scheduled, and waits time out after a second.
TaskFairness == \A t \in Task : WF_vars(CallStep(t))

\* The executor's own code goes on.  The lock of a condition is free for a
\* second in each round of its task's waiting, so the main thread gets it at
\* some point although it is never free for good.
ExecutorFairness == WF_vars(ExecutorStep) /\ SF_vars(SubmitResult)

\* The functions of the tasks end, and the host calls maybe_execute_action
\* when it has been asked to (or, without hooks, again and again).
HostFairness == WF_vars(HostCalls) /\ WF_vars(FunctionStep)

FairSpec == Spec /\ TaskFairness /\ ExecutorFairness /\ HostFairness

-----------------------------------------------------------------------------
(* Properties.                                                             *)

Locks == {"free", "task", "main"}

\* The types of the executor's state, calls coming back with one of `answers`.
TypesWith(answers) ==
    /\ queue \in Seq(Call)
    /\ queueLocked \in BOOLEAN
    /\ wake \in BOOLEAN
    /\ mainPc \in {"idle", "enter", "exec", "nested", "deliver", "notify", "finish"}
    /\ running \in Call \cup {<<>>}
    /\ nested \in 0..MaxNested
    /\ mainResult \in Result \cup {"none"}
    /\ pc \in [Task -> {"ready", "start", "waiting", "reacquire", "collected"}
                       \cup Holding]
    /\ made \in [Task -> 0..MaxCalls]
    /\ interrupted \in [Task -> BOOLEAN]
    /\ ignoring \in [Call -> BOOLEAN]
    /\ conditionLock \in [Call -> Locks]
    /\ result \in [Call -> Result \cup {"none"}]
    /\ ran \in [Call -> Nat]
    /\ outcome \in [Call -> answers]

\* The type invariant of the executor's state.
TypeOK == TypesWith(Result \cup {"none", "interrupted"})

\* A function never runs twice, whatever its caller did meanwhile: timed out and
\* waited again, was interrupted, or went on to its next call.
AtMostOnce == \A c \in Call : ran[c] <= 1

\* A call that comes back with a value or an exception got it from its own
\* function, which ran; a task never picks up what an abandoned call left over.
OwnResult ==
    \A c \in Call : outcome[c] \in Result => ran[c] = 1 /\ result[c] = outcome[c]

\* TaskInterruptedException reaches only interrupted tasks, and never a call
\* made with ignore_interrupts.
InterruptionJustified ==
    \A c \in Call : outcome[c] = "interrupted" => interrupted[c[1]] /\ ~ignoring[c]

\* No task sleeps on a result that is there already, unless notify_all is
\* about to wake it: without the timeout it would still be woken.
NoMissedWakeup ==
    \A t \in Task :
        pc[t] = "waiting" /\ result[Current(t)] # "none"
            => mainPc = "notify" /\ running = Current(t)

\* The main thread, holding the queue lock, never needs the condition of a task
\* that holds it and needs the queue lock.
NoDeadlyEmbrace ==
    mainPc = "deliver" /\ conditionLock[running] = "task"
        => /\ running = Current(running[1])
           /\ pc[running[1]] \in Holding \ {"submit"}

\* The main thread runs the calls of one task in the order the task made them,
\* those it abandoned included.
ProgramOrder ==
    \A c, d \in Call :
        c[1] = d[1] /\ c[2] < d[2] /\ ran[d] > 0 =>
            ~InQueue(c) /\ ~(mainPc \in {"exec", "nested"} /\ running = c)

\* Whatever the callers do meanwhile, functions run once at most, in the order of
\* their task's calls, and calls come back with their own function's result, or
\* interrupted for a reason.
ServedRight == AtMostOnce /\ OwnResult /\ InterruptionJustified /\ ProgramOrder

\* No task and main thread wait for what the other has already done or holds.
NobodyStuck == NoMissedWakeup /\ NoDeadlyEmbrace

\* The calls that were submitted and whose function has not finished.
Pending == (IF mainPc \in {"exec", "nested"} THEN <<running>> ELSE <<>>) \o queue

\* What the functions have returned so far, submitted or on its way.
Done ==
    [c \in Call |-> IF mainPc = "deliver" /\ running = c THEN mainResult ELSE result[c]]

Calls == INSTANCE MainThreadCalls WITH pending <- Pending, done <- Done, answer <- outcome

\* The executor implements the abstract queue: calls are performed once, one at
\* a time and in submission order, each answered with its own result or an
\* interruption.
ImplementsCalls == Calls!Spec

\* The same with the promise of progress: submitted calls are performed and
\* performed calls are answered.
ImplementsFairCalls == Calls!FairSpec

\* Every call comes back to its task, however calls and interrupts interleave.
EveryCallReturns == \A t \in Task : pc[t] # "ready" ~> pc[t] = "ready"
=============================================================================
