-------------------------- MODULE AsyncCallerProofs --------------------------
(***************************************************************************)
(* Proofs, for any asynchronous calls with any callbacks and any callers,  *)
(* that a task is tracked exactly as long as it must be, that its outcome  *)
(* reaches the right callback, and that interrupt_all_async_calls leaves   *)
(* no task out.                                                            *)
(***************************************************************************)
EXTENDS AsyncCaller, TLAPS

\* A caller adds a task of its own, which is tracked and not yet in the pool.
StartingTracked ==
    /\ \A th \in Caller : starting[th] # NoTask => pc[starting[th]] = "tracked"
    /\ \A th, other \in Caller :
          starting[th] # NoTask /\ starting[th] = starting[other] => th = other

\* While the set is being gone through, what it holds is interrupted or still
\* to be interrupted.
LoopCovers == lock # "free" => asyncTasks \subseteq interrupted \cup todo

\* Nothing has happened in the try statement of t's run.
Quiet(t) == raised[t] = "nothing" /\ t \notin failed \cup leaked

\* What has happened to t, place by place.
Trace(t) ==
    /\ pc[t] \in {"new", "tracked", "refused", "queued", "cancelled", "checking",
                  "func", "returned"} => Quiet(t) /\ t \notin succeeded
    /\ pc[t] = "returned" => t \in HasSuccess
    /\ pc[t] = "on_success" => Quiet(t) /\ t \in succeeded /\ t \in HasSuccess
    /\ pc[t] = "failing" =>
          /\ raised[t] # "nothing" /\ t \notin failed \cup leaked
          /\ t \in succeeded => raised[t] = "on_success"

Traces == \A t \in Task : Trace(t)

IInv == TypeOK /\ TrackedUntilRun /\ StartingTracked /\ LoopCovers /\ Traces /\ Reported

-----------------------------------------------------------------------------
USE CallbacksOfTasks, NoTaskIsNoTask, FreeIsNoCaller

\* The initial states satisfy the invariant.
LEMMA InitInv == Init => IInv
<1> SUFFICES ASSUME Init PROVE IInv
  OBVIOUS
<1> USE DEF Init, Pool!Init
<1>1. TypeOK BY DEF TypeOK
<1>2. TrackedUntilRun BY DEF TrackedUntilRun
<1>3. StartingTracked BY DEF StartingTracked
<1>4. LoopCovers BY DEF LoopCovers
<1>5. Traces BY DEF Traces, Trace, Quiet
<1>6. Reported BY DEF Reported
<1> QED BY <1>1, <1>2, <1>3, <1>4, <1>5, <1>6 DEF IInv

\* Tracking a new task preserves the invariant.
LEMMA TrackTaskStep ==
  ASSUME IInv, NEW th \in Caller, NEW t \in Task, TrackTask(th, t)
  PROVE  IInv'
<1> USE DEF IInv, TypeOK, TrackTask, Track, GoTo, poolVars, runVars
<1>1. TypeOK' OBVIOUS
<1>2. TrackedUntilRun' BY DEF TrackedUntilRun, StartingTracked
<1>3. StartingTracked' BY DEF StartingTracked
<1>4. LoopCovers' BY DEF LoopCovers
<1>5. Traces' BY DEF Traces, Trace, Quiet, StartingTracked
<1>6. Reported' BY DEF Reported, Traces, Trace, Quiet, StartingTracked
<1> QED BY <1>1, <1>2, <1>3, <1>4, <1>5, <1>6

\* Adding a task to the pool preserves the invariant.
LEMMA AddTaskStep ==
  ASSUME IInv, NEW th \in Caller, AddTask(th)
  PROVE  IInv'
<1> USE DEF IInv, TypeOK, AddTask, GoTo, Pool!Accept, runVars
<1>1. TypeOK' OBVIOUS
<1>2. TrackedUntilRun' BY DEF TrackedUntilRun, StartingTracked
<1>3. StartingTracked' BY DEF StartingTracked
<1>4. LoopCovers' BY DEF LoopCovers
<1>5. Traces' BY DEF Traces, Trace, Quiet, StartingTracked
<1>6. Reported' BY DEF Reported, Traces, Trace, Quiet, StartingTracked
<1> QED BY <1>1, <1>2, <1>3, <1>4, <1>5, <1>6

\* A refused task preserves the invariant.
LEMMA AddRaisesStep ==
  ASSUME IInv, NEW th \in Caller, AddRaises(th)
  PROVE  IInv'
<1> USE DEF IInv, TypeOK, AddRaises, GoTo, poolVars, runVars
<1>1. TypeOK' OBVIOUS
<1>2. TrackedUntilRun' BY DEF TrackedUntilRun, StartingTracked
<1>3. StartingTracked' BY DEF StartingTracked
<1>4. LoopCovers' BY DEF LoopCovers
<1>5. Traces' BY DEF Traces, Trace, Quiet, StartingTracked
<1>6. Reported' BY DEF Reported, Traces, Trace, Quiet, StartingTracked
<1> QED BY <1>1, <1>2, <1>3, <1>4, <1>5, <1>6

\* Entering interrupt_all_async_calls preserves the invariant.
LEMMA BeginInterruptAllStep ==
  ASSUME IInv, NEW th \in Caller, BeginInterruptAll(th)
  PROVE  IInv'
<1> USE DEF IInv, TypeOK, BeginInterruptAll, poolVars, runVars
<1>1. TypeOK' OBVIOUS
<1>2. TrackedUntilRun' BY DEF TrackedUntilRun, StartingTracked
<1>3. StartingTracked' BY DEF StartingTracked
<1>4. LoopCovers' BY DEF LoopCovers
<1>5. Traces' BY DEF Traces, Trace, Quiet, StartingTracked
<1>6. Reported' BY DEF Reported, Traces, Trace, Quiet, StartingTracked
<1> QED BY <1>1, <1>2, <1>3, <1>4, <1>5, <1>6

\* A round of its loop preserves the invariant.
LEMMA InterruptNextStep ==
  ASSUME IInv, NEW t \in Task, InterruptNext(t)
  PROVE  IInv'
<1> USE DEF IInv, TypeOK, InterruptNext, poolVars, runVars
<1>1. TypeOK' OBVIOUS
<1>2. TrackedUntilRun' BY DEF TrackedUntilRun, StartingTracked
<1>3. StartingTracked' BY DEF StartingTracked
<1>4. LoopCovers' BY DEF LoopCovers
<1>5. Traces' BY DEF Traces, Trace, Quiet, StartingTracked
<1>6. Reported' BY DEF Reported, Traces, Trace, Quiet, StartingTracked
<1> QED BY <1>1, <1>2, <1>3, <1>4, <1>5, <1>6

\* Leaving interrupt_all_async_calls preserves the invariant.
LEMMA EndInterruptAllStep ==
  ASSUME IInv, EndInterruptAll
  PROVE  IInv'
<1> USE DEF IInv, TypeOK, EndInterruptAll, LeaveInterruptAll, poolVars, runVars
<1>1. TypeOK' OBVIOUS
<1>2. TrackedUntilRun' BY DEF TrackedUntilRun, StartingTracked
<1>3. StartingTracked' BY DEF StartingTracked
<1>4. LoopCovers' BY DEF LoopCovers
<1>5. Traces' BY DEF Traces, Trace, Quiet, StartingTracked
<1>6. Reported' BY DEF Reported, Traces, Trace, Quiet, StartingTracked
<1> QED BY <1>1, <1>2, <1>3, <1>4, <1>5, <1>6

\* Interrupting one task preserves the invariant.
LEMMA InterruptOneStep ==
  ASSUME IInv, NEW t \in Task, InterruptOne(t)
  PROVE  IInv'
<1> USE DEF IInv, TypeOK, InterruptOne, poolVars, runVars
<1>1. TypeOK' OBVIOUS
<1>2. TrackedUntilRun' BY DEF TrackedUntilRun, StartingTracked
<1>3. StartingTracked' BY DEF StartingTracked
<1>4. LoopCovers' BY DEF LoopCovers
<1>5. Traces' BY DEF Traces, Trace, Quiet, StartingTracked
<1>6. Reported' BY DEF Reported, Traces, Trace, Quiet, StartingTracked
<1> QED BY <1>1, <1>2, <1>3, <1>4, <1>5, <1>6

\* Shutting the pool down preserves the invariant.
LEMMA ShutDownStep ==
  ASSUME IInv, ShutDown
  PROVE  IInv'
<1> USE DEF IInv, TypeOK, ShutDown, Pool!Close, Pool!Settle, callerVars, runVars
<1>1. TypeOK' OBVIOUS
<1>2. TrackedUntilRun' BY DEF TrackedUntilRun, StartingTracked
<1>3. StartingTracked' BY DEF StartingTracked
<1>4. LoopCovers' BY DEF LoopCovers
<1>5. Traces' BY DEF Traces, Trace, Quiet, StartingTracked
<1>6. Reported' BY DEF Reported, Traces, Trace, Quiet, StartingTracked
<1> QED BY <1>1, <1>2, <1>3, <1>4, <1>5, <1>6

\* Cancelling a task preserves the invariant.
LEMMA CancelStep ==
  ASSUME IInv, NEW t \in Task, Cancel(t)
  PROVE  IInv'
<1> USE DEF IInv, TypeOK, Cancel, Pool!End, GoTo, poolVars, callerVars, runVars
<1>1. TypeOK' OBVIOUS
<1>2. TrackedUntilRun' BY DEF TrackedUntilRun, StartingTracked
<1>3. StartingTracked' BY DEF StartingTracked
<1>4. LoopCovers' BY DEF LoopCovers
<1>5. Traces' BY DEF Traces, Trace, Quiet, StartingTracked
<1>6. Reported' BY DEF Reported, Traces, Trace, Quiet, StartingTracked
<1> QED BY <1>1, <1>2, <1>3, <1>4, <1>5, <1>6

\* Running a task preserves the invariant.
LEMMA RunStep ==
  ASSUME IInv, NEW t \in Task, Run(t)
  PROVE  IInv'
<1> USE DEF IInv, TypeOK, Run, GoTo, poolVars, callerVars, runVars
<1>1. TypeOK' OBVIOUS
<1>2. TrackedUntilRun' BY DEF TrackedUntilRun, StartingTracked
<1>3. StartingTracked' BY DEF StartingTracked
<1>4. LoopCovers' BY DEF LoopCovers
<1>5. Traces' BY DEF Traces, Trace, Quiet, StartingTracked
<1>6. Reported' BY DEF Reported, Traces, Trace, Quiet, StartingTracked
<1> QED BY <1>1, <1>2, <1>3, <1>4, <1>5, <1>6

\* A check that raises preserves the invariant.
LEMMA CheckRaisesStep ==
  ASSUME IInv, NEW t \in Task, CheckRaises(t)
  PROVE  IInv'
<1> USE DEF IInv, TypeOK, CheckRaises, Raise, GoTo, poolVars, callerVars, runVars
<1>1. TypeOK' OBVIOUS
<1>2. TrackedUntilRun' BY DEF TrackedUntilRun, StartingTracked
<1>3. StartingTracked' BY DEF StartingTracked
<1>4. LoopCovers' BY DEF LoopCovers
<1>5. Traces' BY DEF Traces, Trace, Quiet, StartingTracked
<1>6. Reported' BY DEF Reported, Traces, Trace, Quiet, StartingTracked
<1> QED BY <1>1, <1>2, <1>3, <1>4, <1>5, <1>6

\* Calling func preserves the invariant.
LEMMA CallFuncStep ==
  ASSUME IInv, NEW t \in Task, CallFunc(t)
  PROVE  IInv'
<1> USE DEF IInv, TypeOK, CallFunc, GoTo, poolVars, callerVars, runVars
<1>1. TypeOK' OBVIOUS
<1>2. TrackedUntilRun' BY DEF TrackedUntilRun, StartingTracked
<1>3. StartingTracked' BY DEF StartingTracked
<1>4. LoopCovers' BY DEF LoopCovers
<1>5. Traces' BY DEF Traces, Trace, Quiet, StartingTracked
<1>6. Reported' BY DEF Reported, Traces, Trace, Quiet, StartingTracked
<1> QED BY <1>1, <1>2, <1>3, <1>4, <1>5, <1>6

\* The return of func preserves the invariant.
LEMMA FuncReturnsStep ==
  ASSUME IInv, NEW t \in Task, FuncReturns(t)
  PROVE  IInv'
<1> USE DEF IInv, TypeOK, FuncReturns, GoTo, poolVars, callerVars, runVars
<1>1. TypeOK' OBVIOUS
<1>2. TrackedUntilRun' BY DEF TrackedUntilRun, StartingTracked
<1>3. StartingTracked' BY DEF StartingTracked
<1>4. LoopCovers' BY DEF LoopCovers
<1>5. Traces' BY DEF Traces, Trace, Quiet, StartingTracked
<1>6. Reported' BY DEF Reported, Traces, Trace, Quiet, StartingTracked
<1> QED BY <1>1, <1>2, <1>3, <1>4, <1>5, <1>6

\* An exception of func preserves the invariant.
LEMMA FuncRaisesStep ==
  ASSUME IInv, NEW t \in Task, FuncRaises(t)
  PROVE  IInv'
<1> USE DEF IInv, TypeOK, FuncRaises, Raise, GoTo, poolVars, callerVars, runVars
<1>1. TypeOK' OBVIOUS
<1>2. TrackedUntilRun' BY DEF TrackedUntilRun, StartingTracked
<1>3. StartingTracked' BY DEF StartingTracked
<1>4. LoopCovers' BY DEF LoopCovers
<1>5. Traces' BY DEF Traces, Trace, Quiet, StartingTracked
<1>6. Reported' BY DEF Reported, Traces, Trace, Quiet, StartingTracked
<1> QED BY <1>1, <1>2, <1>3, <1>4, <1>5, <1>6

\* Calling on_success preserves the invariant.
LEMMA CallOnSuccessStep ==
  ASSUME IInv, NEW t \in Task, CallOnSuccess(t)
  PROVE  IInv'
<1> USE DEF IInv, TypeOK, CallOnSuccess, GoTo, poolVars, callerVars, runVars
<1>1. TypeOK' BY DEF Traces, Trace
<1>2. TrackedUntilRun' BY DEF TrackedUntilRun, StartingTracked
<1>3. StartingTracked' BY DEF StartingTracked
<1>4. LoopCovers' BY DEF LoopCovers
<1>5. Traces' BY DEF Traces, Trace, Quiet, StartingTracked
<1>6. Reported' BY DEF Reported, Traces, Trace, Quiet, StartingTracked
<1> QED BY <1>1, <1>2, <1>3, <1>4, <1>5, <1>6

\* The return of on_success preserves the invariant.
LEMMA SuccessReturnsStep ==
  ASSUME IInv, NEW t \in Task, SuccessReturns(t)
  PROVE  IInv'
<1> USE DEF IInv, TypeOK, SuccessReturns, GoTo, poolVars, callerVars, runVars
<1>1. TypeOK' OBVIOUS
<1>2. TrackedUntilRun' BY DEF TrackedUntilRun, StartingTracked
<1>3. StartingTracked' BY DEF StartingTracked
<1>4. LoopCovers' BY DEF LoopCovers
<1>5. Traces' BY DEF Traces, Trace, Quiet, StartingTracked
<1>6. Reported' BY DEF Reported, Traces, Trace, Quiet, StartingTracked
<1> QED BY <1>1, <1>2, <1>3, <1>4, <1>5, <1>6

\* An exception of on_success preserves the invariant.
LEMMA SuccessRaisesStep ==
  ASSUME IInv, NEW t \in Task, SuccessRaises(t)
  PROVE  IInv'
<1> USE DEF IInv, TypeOK, SuccessRaises, Raise, GoTo, poolVars, callerVars, runVars
<1>1. TypeOK' OBVIOUS
<1>2. TrackedUntilRun' BY DEF TrackedUntilRun, StartingTracked
<1>3. StartingTracked' BY DEF StartingTracked
<1>4. LoopCovers' BY DEF LoopCovers
<1>5. Traces' BY DEF Traces, Trace, Quiet, StartingTracked
<1>6. Reported' BY DEF Reported, Traces, Trace, Quiet, StartingTracked
<1> QED BY <1>1, <1>2, <1>3, <1>4, <1>5, <1>6

\* Reporting an exception preserves the invariant.
LEMMA ReportErrorStep ==
  ASSUME IInv, NEW t \in Task, ReportError(t)
  PROVE  IInv'
<1> USE DEF IInv, TypeOK, ReportError, Report, GoTo, poolVars, callerVars, runVars
<1>1. TypeOK' OBVIOUS
<1>2. TrackedUntilRun' BY DEF TrackedUntilRun, StartingTracked
<1>3. StartingTracked' BY DEF StartingTracked
<1>4. LoopCovers' BY DEF LoopCovers
<1>5. Traces' BY DEF Traces, Trace, Quiet, StartingTracked
<1>6. Reported' BY DEF Reported, Traces, Trace, Quiet, StartingTracked
<1> QED BY <1>1, <1>2, <1>3, <1>4, <1>5, <1>6

\* The end of a run preserves the invariant.
LEMMA UntrackTaskStep ==
  ASSUME IInv, NEW t \in Task, UntrackTask(t)
  PROVE  IInv'
<1> USE DEF IInv, TypeOK, UntrackTask, Finally, Pool!End, GoTo, poolVars, callerVars, runVars
<1>1. TypeOK' OBVIOUS
<1>2. TrackedUntilRun' BY DEF TrackedUntilRun, StartingTracked
<1>3. StartingTracked' BY DEF StartingTracked
<1>4. LoopCovers' BY DEF LoopCovers
<1>5. Traces' BY DEF Traces, Trace, Quiet, StartingTracked
<1>6. Reported' BY DEF Reported, Traces, Trace, Quiet, StartingTracked
<1> QED BY <1>1, <1>2, <1>3, <1>4, <1>5, <1>6

-----------------------------------------------------------------------------
\* Every step preserves the invariant.
LEMMA NextInv == IInv /\ [Next]_vars => IInv'
<1> SUFFICES ASSUME IInv, [Next]_vars PROVE IInv'
  OBVIOUS
<1>1. CASE \E th \in Caller : (\E t \in Task : TrackTask(th, t)) \/ BeginInterruptAll(th)
  BY <1>1, TrackTaskStep, BeginInterruptAllStep
<1>2. CASE CallerStep
  <2>1. CASE \E th \in Caller : AddTask(th) \/ AddRaises(th)
    BY <2>1, AddTaskStep, AddRaisesStep
  <2>2. CASE \E t \in Task : InterruptNext(t)
    BY <2>2, InterruptNextStep
  <2>3. CASE EndInterruptAll
    BY <2>3, EndInterruptAllStep
  <2> QED BY <1>2, <2>1, <2>2, <2>3 DEF CallerStep
<1>3. CASE \E t \in Task : InterruptOne(t) \/ TaskStep(t)
  <2> PICK t \in Task : InterruptOne(t) \/ TaskStep(t)
    BY <1>3
  <2> QED BY InterruptOneStep, CancelStep, RunStep, CheckRaisesStep, CallFuncStep,
             FuncReturnsStep, FuncRaisesStep, CallOnSuccessStep, SuccessReturnsStep,
             SuccessRaisesStep, ReportErrorStep, UntrackTaskStep DEF TaskStep
<1>4. CASE ShutDown
  BY <1>4, ShutDownStep
<1>5. CASE UNCHANGED vars
  BY <1>5 DEF vars, poolVars, callerVars, runVars, IInv, TypeOK, TrackedUntilRun,
              StartingTracked, LoopCovers, Traces, Trace, Quiet, Reported
<1> QED BY <1>1, <1>2, <1>3, <1>4, <1>5 DEF Next

LEMMA Invariance == Spec => []IInv
BY InitInv, NextInv, PTL DEF Spec

\* The variables of AsyncCaller keep their types, for any calls and callers.
THEOREM TypeCorrect == Spec => []TypeOK
<1>1. IInv => TypeOK BY DEF IInv
<1> QED BY <1>1, Invariance, PTL

\* The tasks in _async_tasks are those from before the pool can run them until
\* their run has ended, in any interleaving of callers and pool threads.
THEOREM TracksUntilRun == Spec => []TrackedUntilRun
<1>1. IInv => TrackedUntilRun BY DEF IInv
<1> QED BY <1>1, Invariance, PTL

\* The outcome of every run that is over was passed to on_success, to on_error
\* or, without on_error, to the pool.
THEOREM ReportsOutcomes == Spec => []Reported
<1>1. IInv => Reported BY DEF IInv
<1> QED BY <1>1, Invariance, PTL

\* interrupt_all_async_calls returns only when every tracked task is interrupted.
THEOREM InterruptsAllTracked == Spec => InterruptsAll
<1>1. IInv /\ [Next]_vars =>
          [lock # "free" /\ lock' = "free" => asyncTasks \subseteq interrupted]_vars
  <2> SUFFICES ASSUME IInv, Next, lock # "free", lock' = "free"
               PROVE  asyncTasks \subseteq interrupted
    OBVIOUS
  <2>1. EndInterruptAll
    BY DEF Next, CallerStep, TaskStep, TrackTask, Track, BeginInterruptAll, AddTask,
           AddRaises, InterruptNext, InterruptOne, ShutDown, callerVars, Cancel, Run,
           CheckRaises, Raise, CallFunc, FuncReturns, FuncRaises, CallOnSuccess,
           SuccessReturns, SuccessRaises, ReportError, Report, UntrackTask, Finally
  <2> QED BY <2>1 DEF EndInterruptAll, LeaveInterruptAll, IInv, LoopCovers
<1> QED BY <1>1, Invariance, PTL DEF Spec, InterruptsAll
=============================================================================
