---------------------- MODULE MainThreadExecutorProofs ----------------------
(***************************************************************************)
(* Proofs, for any set of tasks and any number of calls.                   *)
(*                                                                         *)
(* First for MainThreadExecutor: that the executor runs every function at  *)
(* most once, in its task's order, answers a call with the result of its   *)
(* own function, loses no wake-up and never blocks on a condition whose    *)
(* holder needs the queue lock; and that it implements MainThreadCalls,    *)
(* through Pending, Done and outcome.                                      *)
(*                                                                         *)
(* Then for HostApplication: that a shutdown on the main thread, an event  *)
(* loop in a function and hooks that raise cost the executor none of its   *)
(* promises but progress.  What the executor's own steps do is known by    *)
(* then; what is left are the steps of the host.                           *)
(***************************************************************************)
EXTENDS HostApplication, TLAPS

\* The types of the executor, which does not depend on what else than a result or
\* an interruption a call may come back with: a hook may raise in between.
Typed == TypesWith(Result \cup {"none", "interrupted", "hookError"})

Busy == {"exec", "nested", "deliver", "notify", "finish"}

\* A call that has not reached the queue yet.
Fresh(c) ==
    \/ c[2] > made[c[1]]
    \/ c[2] = made[c[1]] /\ pc[c[1]] \in {"start", "submit"}

\* The main thread has a call exactly while it holds the queue lock.
MainConsistent ==
    /\ mainPc \in Busy <=> queueLocked
    /\ mainPc \in Busy => running \in Call
    /\ mainPc \in {"deliver", "notify"} => mainResult \in Result

InCall == \A t \in Task : pc[t] # "ready" => made[t] \in 1..MaxCalls

\* A call that was not submitted has left no trace.
FreshUnused ==
    \A c \in Call : Fresh(c) =>
        /\ \A i \in 1..Len(queue) : queue[i] # c
        /\ mainPc \in Busy => running # c
        /\ ran[c] = 0 /\ result[c] = "none" /\ outcome[c] = "none"

\* Calls that wait in the queue have not run, nor are they running.
QueuedNotRun ==
    \A i \in 1..Len(queue) :
        /\ ran[queue[i]] = 0 /\ result[queue[i]] = "none"
        /\ mainPc \in Busy => queue[i] # running

\* The queue keeps the calls of a task in order; the running one is older.
QueueOrdered ==
    /\ \A i, j \in 1..Len(queue) :
          i < j /\ queue[i][1] = queue[j][1] => queue[i][2] < queue[j][2]
    /\ mainPc \in Busy =>
          \A i \in 1..Len(queue) :
              queue[i][1] = running[1] => running[2] < queue[i][2]

\* A call that ran is younger than no call of its task that has yet to run.
RanInOrder ==
    \A c, d \in Call :
        c[1] = d[1] /\ c[2] < d[2] /\ ran[d] > 0 =>
            /\ \A i \in 1..Len(queue) : queue[i] # c
            /\ mainPc \in {"exec", "nested"} => running # c

\* The function of the running call runs once, and then its result is stored.
RunningOnce ==
    /\ mainPc \in {"exec", "nested"} => ran[running] = 0
    /\ mainPc \in {"deliver", "notify", "finish"} => ran[running] = 1
    /\ mainPc \in {"exec", "nested", "deliver"} => result[running] = "none"

\* Results exist only of functions that ran, and answers only of results.
ResultsReal ==
    /\ \A c \in Call : ran[c] <= 1
    /\ \A c \in Call : result[c] # "none" => ran[c] = 1
    /\ \A c \in Call : outcome[c] \in Result => result[c] = outcome[c]
    /\ \A t \in Task : pc[t] = "collected" => result[Current(t)] # "none"

\* Who holds the lock of each call's condition.
LocksHeld ==
    \A c \in Call :
        /\ conditionLock[c] = "task" <=> c[2] = made[c[1]] /\ pc[c[1]] \in Holding
        /\ conditionLock[c] = "main" <=> mainPc = "notify" /\ running = c

MainSide ==
    MainConsistent /\ QueuedNotRun /\ QueueOrdered /\ RanInOrder /\ RunningOnce

CallSide ==
    InCall /\ FreshUnused /\ ResultsReal /\ LocksHeld /\ NoMissedWakeup

IInv == Typed /\ MainSide /\ CallSide

-----------------------------------------------------------------------------
\* The members keep their positions, and c comes last.
LEMMA AppendPositions ==
  ASSUME NEW S, NEW q \in Seq(S), NEW c \in S
  PROVE  /\ Append(q, c) \in Seq(S)
         /\ Len(Append(q, c)) = Len(q) + 1
         /\ \A i \in 1..Len(q) : Append(q, c)[i] = q[i]
         /\ Append(q, c)[Len(q) + 1] = c
  OBVIOUS

\* The oldest member is the first, and the others move up by one.
LEMMA TailPositions ==
  ASSUME NEW S, NEW q \in Seq(S), q # <<>>
  PROVE  /\ Head(q) \in S /\ Head(q) = q[1]
         /\ Tail(q) \in Seq(S)
         /\ Len(q) \in Nat \ {0} /\ Len(Tail(q)) = Len(q) - 1
         /\ \A i \in 1..Len(Tail(q)) : Tail(q)[i] = q[i + 1]
  OBVIOUS

USE MaxCallsIsNat, MaxNestedIsNat

\* What a task does to its own call is nothing to the main thread's side.
LEMMA MainSideUnchanged ==
  ASSUME MainSide, UNCHANGED mainVars, UNCHANGED <<queue, result>>
  PROVE  MainSide'
<1>1. MainConsistent' BY DEF MainSide, MainConsistent, mainVars
<1>2. QueuedNotRun' BY DEF MainSide, QueuedNotRun, mainVars
<1>3. QueueOrdered' BY DEF MainSide, QueueOrdered, mainVars
<1>4. RanInOrder' BY DEF MainSide, RanInOrder, mainVars
<1>5. RunningOnce' BY DEF MainSide, RunningOnce, mainVars
<1> QED BY <1>1, <1>2, <1>3, <1>4, <1>5 DEF MainSide

\* A task's step can disturb only the lock of its own call.
LEMMA LockOfOwnCall ==
  ASSUME NEW t \in Task, Typed, LocksHeld, UNCHANGED <<made, mainPc, running>>,
         \A u \in Task \ {t} : pc'[u] = pc[u],
         \A c \in Call \ {Current(t)} : conditionLock'[c] = conditionLock[c],
         conditionLock'[Current(t)] = "task" <=> pc'[t] \in Holding,
         conditionLock'[Current(t)] = "main" <=> mainPc = "notify" /\ running = Current(t)
  PROVE  LocksHeld'
<1> SUFFICES ASSUME NEW c \in Call
    PROVE /\ conditionLock'[c] = "task" <=> c[2] = made[c[1]] /\ pc'[c[1]] \in Holding
          /\ conditionLock'[c] = "main" <=> mainPc = "notify" /\ running = c
  BY DEF LocksHeld
<1>1. CASE c = Current(t)
  BY <1>1 DEF Current
<1>2. CASE c # Current(t)
  <2>1. c[1] # t \/ c[2] # made[t]
    BY <1>2 DEF Current, Call
  <2>2. conditionLock'[c] = conditionLock[c]
    BY <1>2
  <2> QED BY <2>1, <2>2 DEF LocksHeld, Call
<1> QED BY <1>1, <1>2

\* StartCall preserves the invariant.
LEMMA StartCallStep ==
  ASSUME IInv, NEW t \in Task, NEW ignore \in BOOLEAN, StartCall(t, ignore)
  PROVE  IInv'
<1> USE DEF IInv, CallSide, StartCall, Call, Current
<1>1. Typed' BY DEF Typed, TypesWith, mainVars, taskVars, Holding, Locks, Result
<1>2. MainSide' BY MainSideUnchanged DEF mainVars, taskVars
<1>3. InCall' BY DEF Typed, TypesWith, InCall, mainVars, taskVars, Raises
<1>4. FreshUnused' BY DEF Typed, TypesWith, InCall, FreshUnused, Fresh, mainVars, taskVars
<1>5. ResultsReal' BY DEF Typed, TypesWith, InCall, ResultsReal, mainVars, taskVars, Result
<1>6. LocksHeld' BY DEF Typed, TypesWith, InCall, LocksHeld, mainVars, taskVars, Holding
<1>7. NoMissedWakeup' BY DEF Typed, TypesWith, InCall, NoMissedWakeup, mainVars, taskVars
<1> QED BY <1>1, <1>2, <1>3, <1>4, <1>5, <1>6, <1>7

\* EnterCondition preserves the invariant.
LEMMA EnterConditionStep ==
  ASSUME IInv, NEW t \in Task, EnterCondition(t)
  PROVE  IInv'
<1> USE DEF IInv, CallSide, EnterCondition, Call, Current
<1>1. Typed' BY DEF Typed, TypesWith, mainVars, taskVars, Holding, Locks, Result
<1>2. MainSide' BY MainSideUnchanged DEF mainVars, taskVars
<1>3. InCall' BY DEF Typed, TypesWith, InCall, mainVars, taskVars, Raises
<1>4. FreshUnused' BY DEF Typed, TypesWith, InCall, FreshUnused, Fresh, mainVars, taskVars
<1>5. ResultsReal' BY DEF Typed, TypesWith, InCall, ResultsReal, mainVars, taskVars, Result
<1>6. LocksHeld'
  <2>1. Current(t) \in Call BY DEF Typed, TypesWith, InCall
  <2>2. conditionLock'[Current(t)] = "task" <=> pc'[t] \in Holding
    BY <2>1 DEF Typed, TypesWith, LocksHeld, Holding
  <2>3. conditionLock'[Current(t)] = "main" <=> mainPc = "notify" /\ running = Current(t)
    BY <2>1 DEF Typed, TypesWith, LocksHeld, Holding, FreshUnused, Fresh, Busy
  <2> QED BY <2>1, <2>2, <2>3, LockOfOwnCall DEF Typed, TypesWith, mainVars, taskVars
<1>7. NoMissedWakeup' BY DEF Typed, TypesWith, InCall, NoMissedWakeup, mainVars, taskVars
<1> QED BY <1>1, <1>2, <1>3, <1>4, <1>5, <1>6, <1>7

\* RefuseCall preserves the invariant.
LEMMA RefuseCallStep ==
  ASSUME IInv, NEW t \in Task, RefuseCall(t)
  PROVE  IInv'
<1> USE DEF IInv, CallSide, RefuseCall, ComeBack, Call, Current
<1>1. Typed' BY DEF Typed, TypesWith, mainVars, taskVars, Holding, Locks, Result
<1>2. MainSide' BY MainSideUnchanged DEF mainVars, taskVars
<1>3. InCall' BY DEF Typed, TypesWith, InCall, mainVars, taskVars, Raises
<1>4. FreshUnused' BY DEF Typed, TypesWith, InCall, FreshUnused, Fresh, mainVars, taskVars
<1>5. ResultsReal' BY DEF Typed, TypesWith, InCall, ResultsReal, mainVars, taskVars, Result
<1>6. LocksHeld'
  <2>1. Current(t) \in Call BY DEF Typed, TypesWith, InCall
  <2>2. conditionLock'[Current(t)] = "task" <=> pc'[t] \in Holding
    BY <2>1 DEF Typed, TypesWith, LocksHeld, Holding
  <2>3. conditionLock'[Current(t)] = "main" <=> mainPc = "notify" /\ running = Current(t)
    BY <2>1 DEF Typed, TypesWith, LocksHeld, Holding
  <2> QED BY <2>1, <2>2, <2>3, LockOfOwnCall DEF Typed, TypesWith, mainVars, taskVars
<1>7. NoMissedWakeup' BY DEF Typed, TypesWith, InCall, NoMissedWakeup, mainVars, taskVars
<1> QED BY <1>1, <1>2, <1>3, <1>4, <1>5, <1>6, <1>7

\* Announce preserves the invariant.
LEMMA AnnounceStep ==
  ASSUME IInv, NEW t \in Task, Announce(t)
  PROVE  IInv'
<1> USE DEF IInv, CallSide, Announce, AnnounceTo, Call, Current
<1>1. Typed' BY DEF Typed, TypesWith, mainVars, taskVars, Holding, Locks, Result
<1>2. MainSide' BY MainSideUnchanged DEF mainVars, taskVars
<1>3. InCall' BY DEF Typed, TypesWith, InCall, mainVars, taskVars, Raises
<1>4. FreshUnused' BY DEF Typed, TypesWith, InCall, FreshUnused, Fresh, mainVars, taskVars
<1>5. ResultsReal' BY DEF Typed, TypesWith, InCall, ResultsReal, mainVars, taskVars, Result
<1>6. LocksHeld'
  <2>1. Current(t) \in Call BY DEF Typed, TypesWith, InCall
  <2>2. conditionLock'[Current(t)] = "task" <=> pc'[t] \in Holding
    BY <2>1 DEF Typed, TypesWith, LocksHeld, Holding
  <2>3. conditionLock'[Current(t)] = "main" <=> mainPc = "notify" /\ running = Current(t)
    BY <2>1 DEF Typed, TypesWith, LocksHeld, Holding
  <2> QED BY <2>1, <2>2, <2>3, LockOfOwnCall DEF Typed, TypesWith, mainVars, taskVars
<1>7. NoMissedWakeup' BY DEF Typed, TypesWith, InCall, NoMissedWakeup, mainVars, taskVars
<1> QED BY <1>1, <1>2, <1>3, <1>4, <1>5, <1>6, <1>7

\* Wait preserves the invariant.
LEMMA WaitStep ==
  ASSUME IInv, NEW t \in Task, Wait(t)
  PROVE  IInv'
<1> USE DEF IInv, CallSide, Wait, Call, Current
<1>1. Typed' BY DEF Typed, TypesWith, mainVars, taskVars, Holding, Locks, Result
<1>2. MainSide' BY MainSideUnchanged DEF mainVars, taskVars
<1>3. InCall' BY DEF Typed, TypesWith, InCall, mainVars, taskVars, Raises
<1>4. FreshUnused' BY DEF Typed, TypesWith, InCall, FreshUnused, Fresh, mainVars, taskVars
<1>5. ResultsReal' BY DEF Typed, TypesWith, InCall, ResultsReal, mainVars, taskVars, Result
<1>6. LocksHeld'
  <2>1. Current(t) \in Call BY DEF Typed, TypesWith, InCall
  <2>2. conditionLock'[Current(t)] = "task" <=> pc'[t] \in Holding
    BY <2>1 DEF Typed, TypesWith, LocksHeld, Holding
  <2>3. conditionLock'[Current(t)] = "main" <=> mainPc = "notify" /\ running = Current(t)
    BY <2>1 DEF Typed, TypesWith, LocksHeld, Holding
  <2> QED BY <2>1, <2>2, <2>3, LockOfOwnCall DEF Typed, TypesWith, mainVars, taskVars
<1>7. NoMissedWakeup' BY DEF Typed, TypesWith, InCall, NoMissedWakeup, mainVars, taskVars
<1> QED BY <1>1, <1>2, <1>3, <1>4, <1>5, <1>6, <1>7

\* Timeout preserves the invariant.
LEMMA TimeoutStep ==
  ASSUME IInv, NEW t \in Task, Timeout(t)
  PROVE  IInv'
<1> USE DEF IInv, CallSide, Timeout, Call, Current
<1>1. Typed' BY DEF Typed, TypesWith, mainVars, taskVars, Holding, Locks, Result
<1>2. MainSide' BY MainSideUnchanged DEF mainVars, taskVars
<1>3. InCall' BY DEF Typed, TypesWith, InCall, mainVars, taskVars, Raises
<1>4. FreshUnused' BY DEF Typed, TypesWith, InCall, FreshUnused, Fresh, mainVars, taskVars
<1>5. ResultsReal' BY DEF Typed, TypesWith, InCall, ResultsReal, mainVars, taskVars, Result
<1>6. LocksHeld'
  <2>1. Current(t) \in Call BY DEF Typed, TypesWith, InCall
  <2>2. conditionLock'[Current(t)] = "task" <=> pc'[t] \in Holding
    BY <2>1 DEF Typed, TypesWith, LocksHeld, Holding
  <2>3. conditionLock'[Current(t)] = "main" <=> mainPc = "notify" /\ running = Current(t)
    BY <2>1 DEF Typed, TypesWith, LocksHeld, Holding
  <2> QED BY <2>1, <2>2, <2>3, LockOfOwnCall DEF Typed, TypesWith, mainVars, taskVars
<1>7. NoMissedWakeup' BY DEF Typed, TypesWith, InCall, NoMissedWakeup, mainVars, taskVars
<1> QED BY <1>1, <1>2, <1>3, <1>4, <1>5, <1>6, <1>7

\* Reacquire preserves the invariant.
LEMMA ReacquireStep ==
  ASSUME IInv, NEW t \in Task, Reacquire(t)
  PROVE  IInv'
<1> USE DEF IInv, CallSide, Reacquire, Call, Current
<1>1. Typed' BY DEF Typed, TypesWith, mainVars, taskVars, Holding, Locks, Result
<1>2. MainSide' BY MainSideUnchanged DEF mainVars, taskVars
<1>3. InCall' BY DEF Typed, TypesWith, InCall, mainVars, taskVars, Raises
<1>4. FreshUnused' BY DEF Typed, TypesWith, InCall, FreshUnused, Fresh, mainVars, taskVars
<1>5. ResultsReal' BY DEF Typed, TypesWith, InCall, ResultsReal, mainVars, taskVars, Result
<1>6. LocksHeld'
  <2>1. Current(t) \in Call BY DEF Typed, TypesWith, InCall
  <2>2. conditionLock'[Current(t)] = "task" <=> pc'[t] \in Holding
    BY <2>1 DEF Typed, TypesWith, LocksHeld, Holding
  <2>3. conditionLock'[Current(t)] = "main" <=> mainPc = "notify" /\ running = Current(t)
    BY <2>1 DEF Typed, TypesWith, LocksHeld, Holding
  <2> QED BY <2>1, <2>2, <2>3, LockOfOwnCall DEF Typed, TypesWith, mainVars, taskVars
<1>7. NoMissedWakeup' BY DEF Typed, TypesWith, InCall, NoMissedWakeup, mainVars, taskVars
<1> QED BY <1>1, <1>2, <1>3, <1>4, <1>5, <1>6, <1>7

\* LoopAgain preserves the invariant.
LEMMA LoopAgainStep ==
  ASSUME IInv, NEW t \in Task, LoopAgain(t)
  PROVE  IInv'
<1> USE DEF IInv, CallSide, LoopAgain, GoOnAt, Call, Current
<1>1. Typed' BY DEF Typed, TypesWith, mainVars, taskVars, Holding, Locks, Result
<1>2. MainSide' BY MainSideUnchanged DEF mainVars, taskVars
<1>3. InCall' BY DEF Typed, TypesWith, InCall, mainVars, taskVars, Raises
<1>4. FreshUnused' BY DEF Typed, TypesWith, InCall, FreshUnused, Fresh, mainVars, taskVars
<1>5. ResultsReal' BY DEF Typed, TypesWith, InCall, ResultsReal, mainVars, taskVars, Result
<1>6. LocksHeld'
  <2>1. Current(t) \in Call BY DEF Typed, TypesWith, InCall
  <2>2. conditionLock'[Current(t)] = "task" <=> pc'[t] \in Holding
    BY <2>1 DEF Typed, TypesWith, LocksHeld, Holding
  <2>3. conditionLock'[Current(t)] = "main" <=> mainPc = "notify" /\ running = Current(t)
    BY <2>1 DEF Typed, TypesWith, LocksHeld, Holding
  <2> QED BY <2>1, <2>2, <2>3, LockOfOwnCall DEF Typed, TypesWith, mainVars, taskVars
<1>7. NoMissedWakeup' BY DEF Typed, TypesWith, InCall, NoMissedWakeup, mainVars, taskVars
<1> QED BY <1>1, <1>2, <1>3, <1>4, <1>5, <1>6, <1>7

\* AbandonCall preserves the invariant.
LEMMA AbandonCallStep ==
  ASSUME IInv, NEW t \in Task, AbandonCall(t)
  PROVE  IInv'
<1> USE DEF IInv, CallSide, AbandonCall, ComeBack, Call, Current
<1>1. Typed' BY DEF Typed, TypesWith, mainVars, taskVars, Holding, Locks, Result
<1>2. MainSide' BY MainSideUnchanged DEF mainVars, taskVars
<1>3. InCall' BY DEF Typed, TypesWith, InCall, mainVars, taskVars, Raises
<1>4. FreshUnused'
  <2>1. \A c \in Call : Fresh(c)' => Fresh(c) /\ c # Current(t)
    BY DEF Typed, TypesWith, InCall, Fresh, mainVars, taskVars
  <2> QED BY <2>1 DEF Typed, TypesWith, FreshUnused, mainVars, taskVars
<1>5. ResultsReal' BY DEF Typed, TypesWith, InCall, ResultsReal, mainVars, taskVars, Result
<1>6. LocksHeld'
  <2>1. Current(t) \in Call BY DEF Typed, TypesWith, InCall
  <2>2. conditionLock'[Current(t)] = "task" <=> pc'[t] \in Holding
    BY <2>1 DEF Typed, TypesWith, LocksHeld, Holding
  <2>3. conditionLock'[Current(t)] = "main" <=> mainPc = "notify" /\ running = Current(t)
    BY <2>1 DEF Typed, TypesWith, LocksHeld, Holding
  <2> QED BY <2>1, <2>2, <2>3, LockOfOwnCall DEF Typed, TypesWith, mainVars, taskVars
<1>7. NoMissedWakeup' BY DEF Typed, TypesWith, InCall, NoMissedWakeup, mainVars, taskVars
<1> QED BY <1>1, <1>2, <1>3, <1>4, <1>5, <1>6, <1>7

\* Collect preserves the invariant.
LEMMA CollectStep ==
  ASSUME IInv, NEW t \in Task, Collect(t)
  PROVE  IInv'
<1> USE DEF IInv, CallSide, Collect, Call, Current
<1>1. Typed' BY DEF Typed, TypesWith, mainVars, taskVars, Holding, Locks, Result
<1>2. MainSide' BY MainSideUnchanged DEF mainVars, taskVars
<1>3. InCall' BY DEF Typed, TypesWith, InCall, mainVars, taskVars, Raises
<1>4. FreshUnused' BY DEF Typed, TypesWith, InCall, FreshUnused, Fresh, mainVars, taskVars
<1>5. ResultsReal' BY DEF Typed, TypesWith, InCall, ResultsReal, mainVars, taskVars, Result
<1>6. LocksHeld'
  <2>1. Current(t) \in Call BY DEF Typed, TypesWith, InCall
  <2>2. conditionLock'[Current(t)] = "task" <=> pc'[t] \in Holding
    BY <2>1 DEF Typed, TypesWith, LocksHeld, Holding
  <2>3. conditionLock'[Current(t)] = "main" <=> mainPc = "notify" /\ running = Current(t)
    BY <2>1 DEF Typed, TypesWith, LocksHeld, Holding
  <2> QED BY <2>1, <2>2, <2>3, LockOfOwnCall DEF Typed, TypesWith, mainVars, taskVars
<1>7. NoMissedWakeup' BY DEF Typed, TypesWith, InCall, NoMissedWakeup, mainVars, taskVars
<1> QED BY <1>1, <1>2, <1>3, <1>4, <1>5, <1>6, <1>7

\* Return preserves the invariant.
LEMMA ReturnStep ==
  ASSUME IInv, NEW t \in Task, Return(t)
  PROVE  IInv'
<1> USE DEF IInv, CallSide, Return, ComeBack, Call, Current
<1>1. Typed' BY DEF Typed, TypesWith, mainVars, taskVars, Holding, Locks, Result
<1>2. MainSide' BY MainSideUnchanged DEF mainVars, taskVars
<1>3. InCall' BY DEF Typed, TypesWith, InCall, mainVars, taskVars, Raises
<1>4. FreshUnused' BY DEF Typed, TypesWith, InCall, FreshUnused, Fresh, mainVars, taskVars
<1>5. ResultsReal' BY DEF Typed, TypesWith, InCall, ResultsReal, mainVars, taskVars, Result
<1>6. LocksHeld'
  <2>1. Current(t) \in Call BY DEF Typed, TypesWith, InCall
  <2>2. conditionLock'[Current(t)] = "task" <=> pc'[t] \in Holding
    BY <2>1 DEF Typed, TypesWith, LocksHeld, Holding
  <2>3. conditionLock'[Current(t)] = "main" <=> mainPc = "notify" /\ running = Current(t)
    BY <2>1 DEF Typed, TypesWith, LocksHeld, Holding
  <2> QED BY <2>1, <2>2, <2>3, LockOfOwnCall DEF Typed, TypesWith, mainVars, taskVars
<1>7. NoMissedWakeup' BY DEF Typed, TypesWith, InCall, NoMissedWakeup, mainVars, taskVars
<1> QED BY <1>1, <1>2, <1>3, <1>4, <1>5, <1>6, <1>7

\* Interrupt preserves the invariant.
LEMMA InterruptStep ==
  ASSUME IInv, NEW t \in Task, Interrupt(t)
  PROVE  IInv'
<1> USE DEF IInv, CallSide, Interrupt, Call, Current
<1>1. Typed' BY DEF Typed, TypesWith, mainVars, taskVars, Holding, Locks, Result
<1>2. MainSide' BY MainSideUnchanged DEF mainVars, taskVars
<1>3. InCall' BY DEF Typed, TypesWith, InCall, mainVars, taskVars, Raises
<1>4. FreshUnused' BY DEF Typed, TypesWith, InCall, FreshUnused, Fresh, mainVars, taskVars
<1>5. ResultsReal' BY DEF Typed, TypesWith, InCall, ResultsReal, mainVars, taskVars, Result
<1>6. LocksHeld' BY DEF Typed, TypesWith, InCall, LocksHeld, mainVars, taskVars, Holding
<1>7. NoMissedWakeup' BY DEF Typed, TypesWith, InCall, NoMissedWakeup, mainVars, taskVars
<1> QED BY <1>1, <1>2, <1>3, <1>4, <1>5, <1>6, <1>7

-----------------------------------------------------------------------------
\* Submit preserves the invariant.
LEMMA SubmitStep ==
  ASSUME IInv, NEW t \in Task, Submit(t)
  PROVE  IInv'
<1> USE DEF IInv, CallSide, MainSide, Submit, SubmitAs, mainVars, taskVars
<1> DEFINE c == Current(t)
<1>1. c \in Call /\ Fresh(c) BY DEF Typed, TypesWith, InCall, Fresh, Call, Current
<1>2. /\ queue \in Seq(Call) /\ Len(queue) \in Nat /\ queue' \in Seq(Call)
      /\ Len(queue') = Len(queue) + 1
      /\ \A i \in 1..Len(queue) : queue'[i] = queue[i]
      /\ queue'[Len(queue) + 1] = c
  BY <1>1, AppendPositions DEF Typed, TypesWith
<1>3. Typed' BY <1>2 DEF Typed, TypesWith, Holding
<1>4. MainConsistent' BY DEF MainConsistent
<1>5. QueuedNotRun' BY <1>1, <1>2 DEF QueuedNotRun, FreshUnused
<1>6. QueueOrdered'
  <2>1. \A i \in 1..Len(queue) : queue[i] \in Call /\ ~Fresh(queue[i])
    BY <1>2 DEF FreshUnused
  <2>2. \A i \in 1..Len(queue) : queue[i][1] = t => queue[i][2] < made[t]
    BY <2>1 DEF Fresh, Typed, TypesWith, Call
  <2>3. mainPc \in Busy /\ running[1] = t => running[2] < made[t]
    BY <1>1 DEF MainConsistent, FreshUnused, Fresh, Typed, TypesWith, Call
  <2> QED BY <1>2, <2>2, <2>3 DEF QueueOrdered, Current
<1>7. RanInOrder'
  <2>1. \A d \in Call : c[1] = d[1] /\ c[2] < d[2] => ran[d] = 0
    BY <1>1 DEF FreshUnused, Fresh, Current, Typed, TypesWith, Call
  <2>2. ASSUME NEW b \in Call, NEW d \in Call, b[1] = d[1], b[2] < d[2], ran[d] > 0,
                NEW i \in 1..Len(queue')
         PROVE queue'[i] # b
    <3>1. CASE i \in 1..Len(queue) BY <1>2, <2>2, <3>1 DEF RanInOrder
    <3>2. CASE i = Len(queue) + 1 BY <1>2, <2>1, <2>2, <3>2
    <3> QED BY <1>2, <3>1, <3>2
  <2> QED BY <2>2 DEF RanInOrder
<1>8. RunningOnce' BY DEF RunningOnce
<1>9. InCall' BY DEF Typed, TypesWith, InCall
<1>10. FreshUnused'
  <2> SUFFICES ASSUME NEW d \in Call, Fresh(d)'
      PROVE /\ \A i \in 1..Len(queue') : queue'[i] # d
            /\ mainPc \in Busy => running # d
            /\ ran[d] = 0 /\ result[d] = "none" /\ outcome[d] = "none"
    BY DEF FreshUnused
  <2>1. Fresh(d) /\ d # c
    BY DEF Fresh, Typed, TypesWith, Current, Call
  <2> QED BY <1>2, <2>1 DEF FreshUnused
<1>11. ResultsReal' BY DEF Typed, TypesWith, InCall, ResultsReal, Result, Current
<1>12. LocksHeld'
  <2>2. conditionLock'[c] = "task" <=> pc'[t] \in Holding
    BY <1>1 DEF Typed, TypesWith, LocksHeld, Holding, Current
  <2>3. conditionLock'[c] = "main" <=> mainPc = "notify" /\ running = c
    BY <1>1 DEF Typed, TypesWith, LocksHeld, Holding
  <2> QED BY <1>1, <2>2, <2>3, LockOfOwnCall DEF Typed, TypesWith
<1>13. NoMissedWakeup' BY DEF Typed, TypesWith, InCall, NoMissedWakeup, Current
<1> QED BY <1>3, <1>4, <1>5, <1>6, <1>7, <1>8, <1>9, <1>10, <1>11, <1>12, <1>13

\* PopAction preserves the invariant.
LEMMA PopActionStep ==
  ASSUME IInv, PopAction
  PROVE  IInv'
<1> USE DEF IInv, CallSide, MainSide, PopAction, Take, taskVars
<1>1. /\ queue \in Seq(Call) /\ Len(queue) \in Nat \ {0}
      /\ running' = queue[1] /\ running' \in Call
      /\ queue' \in Seq(Call) /\ Len(queue') = Len(queue) - 1
      /\ \A i \in 1..Len(queue') : queue'[i] = queue[i + 1]
  BY TailPositions DEF Typed, TypesWith
<1>2. Typed' BY <1>1 DEF Typed, TypesWith
<1>3. MainConsistent' BY <1>1 DEF MainConsistent, Busy
<1>4. QueuedNotRun'
  <2> SUFFICES ASSUME NEW i \in 1..Len(queue')
      PROVE ran[queue'[i]] = 0 /\ result[queue'[i]] = "none" /\ queue'[i] # running'
    BY DEF QueuedNotRun
  <2>1. i + 1 \in 1..Len(queue) /\ 1 \in 1..Len(queue) /\ 1 < i + 1 BY <1>1
  <2>2. queue[i + 1] \in Call /\ queue[1] \in Call BY <1>1, <2>1
  <2>3. queue[i + 1] # queue[1] BY <2>1, <2>2 DEF QueueOrdered, Call
  <2> QED BY <1>1, <2>1, <2>3 DEF QueuedNotRun
<1>5. QueueOrdered'
  <2>1. ASSUME NEW i \in 1..Len(queue'), NEW j \in 1..Len(queue'), i < j,
               queue'[i][1] = queue'[j][1]
        PROVE queue'[i][2] < queue'[j][2]
    <3>1. i + 1 \in 1..Len(queue) /\ j + 1 \in 1..Len(queue) /\ i + 1 < j + 1 BY <1>1,
       <2>1
    <3> QED BY <1>1, <2>1, <3>1 DEF QueueOrdered
  <2>2. ASSUME NEW i \in 1..Len(queue'), queue'[i][1] = running'[1]
        PROVE running'[2] < queue'[i][2]
    <3>1. i + 1 \in 1..Len(queue) /\ 1 \in 1..Len(queue) /\ 1 < i + 1 BY <1>1
    <3> QED BY <1>1, <2>2, <3>1 DEF QueueOrdered
  <2> QED BY <2>1, <2>2 DEF QueueOrdered
<1>6. RanInOrder' BY <1>1 DEF RanInOrder
<1>7. RunningOnce' BY <1>1 DEF RunningOnce, QueuedNotRun
<1>8. InCall' BY DEF InCall
<1>9. FreshUnused' BY <1>1 DEF FreshUnused, Fresh
<1>10. ResultsReal' BY DEF ResultsReal, Current
<1>11. LocksHeld' BY DEF LocksHeld
<1>12. NoMissedWakeup' BY DEF NoMissedWakeup, Current
<1> QED BY <1>2, <1>3, <1>4, <1>5, <1>6, <1>7, <1>8, <1>9, <1>10, <1>11, <1>12

\* HostCalls preserves the invariant.
LEMMA HostCallsStep ==
  ASSUME IInv, HostCalls
  PROVE  IInv'
<1> USE DEF IInv, CallSide, MainSide, HostCalls, taskVars
<1>1. Typed' BY DEF Typed, TypesWith, Result, Locks, Holding, MainConsistent, Busy
<1>2. MainConsistent' BY DEF MainConsistent, Busy
<1>3. QueuedNotRun' BY DEF QueuedNotRun, MainConsistent, Busy, Typed, TypesWith
<1>4. QueueOrdered' BY DEF QueueOrdered, Busy
<1>5. RanInOrder' BY DEF RanInOrder, MainConsistent, QueueOrdered, Busy, Typed, TypesWith, Call
<1>6. RunningOnce' BY DEF RunningOnce, MainConsistent, Busy, Typed, TypesWith
<1>7. InCall' BY DEF InCall, Typed, TypesWith
<1>8. FreshUnused' BY DEF FreshUnused, Fresh, MainConsistent, Busy, Typed, TypesWith
<1>9. ResultsReal' BY DEF ResultsReal, Current, RunningOnce, MainConsistent, Busy,
     Typed, TypesWith, Result, Call
<1>10. LocksHeld' BY DEF LocksHeld, Holding, MainConsistent, Busy, Typed, TypesWith
<1>11. NoMissedWakeup' BY DEF NoMissedWakeup, Current, MainConsistent, Busy, Typed, TypesWith,
     InCall, Call
<1> QED BY <1>1, <1>2, <1>3, <1>4, <1>5, <1>6, <1>7, <1>8, <1>9, <1>10, <1>11

\* FindEmpty preserves the invariant.
LEMMA FindEmptyStep ==
  ASSUME IInv, FindEmpty
  PROVE  IInv'
<1> USE DEF IInv, CallSide, MainSide, FindEmpty, taskVars
<1>1. Typed' BY DEF Typed, TypesWith, Result, Locks, Holding, MainConsistent, Busy
<1>2. MainConsistent' BY DEF MainConsistent, Busy
<1>3. QueuedNotRun' BY DEF QueuedNotRun, MainConsistent, Busy, Typed, TypesWith
<1>4. QueueOrdered' BY DEF QueueOrdered, Busy
<1>5. RanInOrder' BY DEF RanInOrder, MainConsistent, QueueOrdered, Busy, Typed, TypesWith, Call
<1>6. RunningOnce' BY DEF RunningOnce, MainConsistent, Busy, Typed, TypesWith
<1>7. InCall' BY DEF InCall, Typed, TypesWith
<1>8. FreshUnused' BY DEF FreshUnused, Fresh, MainConsistent, Busy, Typed, TypesWith
<1>9. ResultsReal' BY DEF ResultsReal, Current, RunningOnce, MainConsistent, Busy,
     Typed, TypesWith, Result, Call
<1>10. LocksHeld' BY DEF LocksHeld, Holding, MainConsistent, Busy, Typed, TypesWith
<1>11. NoMissedWakeup' BY DEF NoMissedWakeup, Current, MainConsistent, Busy, Typed, TypesWith,
     InCall, Call
<1> QED BY <1>1, <1>2, <1>3, <1>4, <1>5, <1>6, <1>7, <1>8, <1>9, <1>10, <1>11

\* BeginNested preserves the invariant.
LEMMA BeginNestedStep ==
  ASSUME IInv, BeginNested
  PROVE  IInv'
<1> USE DEF IInv, CallSide, MainSide, BeginNested, taskVars
<1>1. Typed' BY DEF Typed, TypesWith, Result, Locks, Holding, MainConsistent, Busy
<1>2. MainConsistent' BY DEF MainConsistent, Busy
<1>3. QueuedNotRun' BY DEF QueuedNotRun, MainConsistent, Busy, Typed, TypesWith
<1>4. QueueOrdered' BY DEF QueueOrdered, Busy
<1>5. RanInOrder' BY DEF RanInOrder, MainConsistent, QueueOrdered, Busy, Typed, TypesWith, Call
<1>6. RunningOnce' BY DEF RunningOnce, MainConsistent, Busy, Typed, TypesWith
<1>7. InCall' BY DEF InCall, Typed, TypesWith
<1>8. FreshUnused' BY DEF FreshUnused, Fresh, MainConsistent, Busy, Typed, TypesWith
<1>9. ResultsReal' BY DEF ResultsReal, Current, RunningOnce, MainConsistent, Busy,
     Typed, TypesWith, Result, Call
<1>10. LocksHeld' BY DEF LocksHeld, Holding, MainConsistent, Busy, Typed, TypesWith
<1>11. NoMissedWakeup' BY DEF NoMissedWakeup, Current, MainConsistent, Busy, Typed, TypesWith,
     InCall, Call
<1> QED BY <1>1, <1>2, <1>3, <1>4, <1>5, <1>6, <1>7, <1>8, <1>9, <1>10, <1>11

\* EndNested preserves the invariant.
LEMMA EndNestedStep ==
  ASSUME IInv, EndNested
  PROVE  IInv'
<1> USE DEF IInv, CallSide, MainSide, EndNested, taskVars
<1>1. Typed' BY DEF Typed, TypesWith, Result, Locks, Holding, MainConsistent, Busy
<1>2. MainConsistent' BY DEF MainConsistent, Busy
<1>3. QueuedNotRun' BY DEF QueuedNotRun, MainConsistent, Busy, Typed, TypesWith
<1>4. QueueOrdered' BY DEF QueueOrdered, Busy
<1>5. RanInOrder' BY DEF RanInOrder, MainConsistent, QueueOrdered, Busy, Typed, TypesWith, Call
<1>6. RunningOnce' BY DEF RunningOnce, MainConsistent, Busy, Typed, TypesWith
<1>7. InCall' BY DEF InCall, Typed, TypesWith
<1>8. FreshUnused' BY DEF FreshUnused, Fresh, MainConsistent, Busy, Typed, TypesWith
<1>9. ResultsReal' BY DEF ResultsReal, Current, RunningOnce, MainConsistent, Busy,
     Typed, TypesWith, Result, Call
<1>10. LocksHeld' BY DEF LocksHeld, Holding, MainConsistent, Busy, Typed, TypesWith
<1>11. NoMissedWakeup' BY DEF NoMissedWakeup, Current, MainConsistent, Busy, Typed, TypesWith,
     InCall, Call
<1> QED BY <1>1, <1>2, <1>3, <1>4, <1>5, <1>6, <1>7, <1>8, <1>9, <1>10, <1>11

\* ExecuteAction preserves the invariant.
LEMMA ExecuteActionStep ==
  ASSUME IInv, NEW r \in Result, ExecuteAction(r)
  PROVE  IInv'
<1> USE DEF IInv, CallSide, MainSide, ExecuteAction, taskVars
<1>1. Typed' BY DEF Typed, TypesWith, Result, Locks, Holding, MainConsistent, Busy
<1>2. MainConsistent' BY DEF MainConsistent, Busy
<1>3. QueuedNotRun' BY DEF QueuedNotRun, MainConsistent, Busy, Typed, TypesWith
<1>4. QueueOrdered' BY DEF QueueOrdered, Busy
<1>5. RanInOrder'
  <2> SUFFICES ASSUME NEW b \in Call, NEW d \in Call, b[1] = d[1], b[2] < d[2],
       ran'[d] > 0
      PROVE \A i \in 1..Len(queue) : queue[i] # b
    BY DEF RanInOrder
  <2>1. CASE d = running
    <3>1. \A i \in 1..Len(queue) : queue[i][1] = d[1] => d[2] < queue[i][2]
      BY <2>1 DEF QueueOrdered, Busy
    <3>2. b[2] \in Nat /\ d[2] \in Nat BY DEF Call
    <3> QED BY <3>1, <3>2
  <2>2. CASE d # running BY <2>2 DEF RanInOrder, Typed, TypesWith
  <2> QED BY <2>1, <2>2
<1>6. RunningOnce' BY DEF RunningOnce, MainConsistent, Busy, Typed, TypesWith
<1>7. InCall' BY DEF InCall, Typed, TypesWith
<1>8. FreshUnused' BY DEF FreshUnused, Fresh, MainConsistent, Busy, Typed, TypesWith
<1>9. ResultsReal' BY DEF ResultsReal, Current, RunningOnce, MainConsistent, Busy,
     Typed, TypesWith, Result, Call
<1>10. LocksHeld' BY DEF LocksHeld, Holding, MainConsistent, Busy, Typed, TypesWith
<1>11. NoMissedWakeup' BY DEF NoMissedWakeup, Current, MainConsistent, Busy, Typed, TypesWith,
     InCall, Call
<1> QED BY <1>1, <1>2, <1>3, <1>4, <1>5, <1>6, <1>7, <1>8, <1>9, <1>10, <1>11

\* SubmitResult preserves the invariant.
LEMMA SubmitResultStep ==
  ASSUME IInv, SubmitResult
  PROVE  IInv'
<1> USE DEF IInv, CallSide, MainSide, SubmitResult, StoreResult, taskVars
<1>1. Typed' BY DEF Typed, TypesWith, Result, Locks, Holding, MainConsistent, Busy
<1>2. MainConsistent' BY DEF MainConsistent, Busy
<1>3. QueuedNotRun' BY DEF QueuedNotRun, MainConsistent, Busy, Typed, TypesWith
<1>4. QueueOrdered' BY DEF QueueOrdered, Busy
<1>5. RanInOrder' BY DEF RanInOrder, MainConsistent, QueueOrdered, Busy, Typed, TypesWith, Call
<1>6. RunningOnce' BY DEF RunningOnce, MainConsistent, Busy, Typed, TypesWith
<1>7. InCall' BY DEF InCall, Typed, TypesWith
<1>8. FreshUnused' BY DEF FreshUnused, Fresh, MainConsistent, Busy, Typed, TypesWith
<1>9. ResultsReal' BY DEF ResultsReal, Current, RunningOnce, MainConsistent, Busy,
     Typed, TypesWith, Result, Call
<1>10. LocksHeld' BY DEF LocksHeld, Holding, MainConsistent, Busy, Typed, TypesWith
<1>11. NoMissedWakeup' BY DEF NoMissedWakeup, Current, MainConsistent, Busy, Typed, TypesWith,
     InCall, Call
<1> QED BY <1>1, <1>2, <1>3, <1>4, <1>5, <1>6, <1>7, <1>8, <1>9, <1>10, <1>11

\* NotifyAll preserves the invariant.
LEMMA NotifyAllStep ==
  ASSUME IInv, NotifyAll
  PROVE  IInv'
<1> USE DEF IInv, CallSide, MainSide, NotifyAll, Notify, taskVars
<1>1. Typed' BY DEF Typed, TypesWith, Result, Locks, Holding, MainConsistent, Busy
<1>2. MainConsistent' BY DEF MainConsistent, Busy
<1>3. QueuedNotRun' BY DEF QueuedNotRun, MainConsistent, Busy, Typed, TypesWith
<1>4. QueueOrdered' BY DEF QueueOrdered, Busy
<1>5. RanInOrder' BY DEF RanInOrder, MainConsistent, QueueOrdered, Busy, Typed, TypesWith, Call
<1>6. RunningOnce' BY DEF RunningOnce, MainConsistent, Busy, Typed, TypesWith
<1>7. InCall' BY DEF InCall, Typed, TypesWith
<1>8. FreshUnused'
  <2>1. \A c \in Call : Fresh(c)' => Fresh(c) BY DEF Fresh, Typed, TypesWith, Call
  <2> QED BY <2>1 DEF FreshUnused, Busy
<1>9. ResultsReal' BY DEF ResultsReal, Current, RunningOnce, MainConsistent, Busy,
     Typed, TypesWith, Result, Call
<1>10. LocksHeld'
  <2>1. \A u \in Task : pc'[u] \in Holding <=> pc[u] \in Holding BY DEF Typed, TypesWith, Holding
  <2>2. \A c \in Call : c # running => conditionLock'[c] = conditionLock[c] BY DEF Typed, TypesWith
  <2>3. running \in Call /\ conditionLock[running] = "main" /\ conditionLock'[running] = "free"
    BY DEF LocksHeld, MainConsistent, Busy, Typed, TypesWith
  <2> QED BY <2>1, <2>2, <2>3 DEF LocksHeld, Call
<1>11. NoMissedWakeup' BY DEF NoMissedWakeup, Current, MainConsistent, Busy, Typed, TypesWith,
     InCall, Call
<1> QED BY <1>1, <1>2, <1>3, <1>4, <1>5, <1>6, <1>7, <1>8, <1>9, <1>10, <1>11

\* FinishAction preserves the invariant.
LEMMA FinishActionStep ==
  ASSUME IInv, FinishAction
  PROVE  IInv'
<1> USE DEF IInv, CallSide, MainSide, FinishAction, FinishWith, taskVars
<1>1. wake' \in BOOLEAN BY Zenon
<1>0. Typed'
  <2> HIDE DEF FinishAction, FinishWith
  <2>1. /\ queueLocked' = FALSE /\ running' = <<>> /\ mainResult' = "none" /\ nested' = 0
        /\ mainPc' = "idle"
    BY DEF FinishAction, FinishWith
  <2>2. UNCHANGED <<queue, pc, conditionLock, result, ran>> /\ UNCHANGED taskVars
    BY DEF FinishAction, FinishWith
  <2>3. mainResult' \in Result \cup {"none"} /\ nested' \in 0..MaxNested BY <2>1
  <2>0. queueLocked' \in BOOLEAN BY <2>1, Zenon
  <2>4. running' \in Call \cup {<<>>} BY <2>1
  <2> QED BY <1>1, <2>0, <2>1, <2>2, <2>3, <2>4 DEF Typed, TypesWith
<1>2. MainConsistent' BY DEF MainConsistent, Busy
<1>3. QueuedNotRun' BY DEF QueuedNotRun, MainConsistent, Busy, Typed, TypesWith
<1>4. QueueOrdered' BY DEF QueueOrdered, Busy
<1>5. RanInOrder' BY DEF RanInOrder, MainConsistent, QueueOrdered, Busy, Typed, TypesWith, Call
<1>6. RunningOnce' BY DEF RunningOnce, MainConsistent, Busy, Typed, TypesWith
<1>7. InCall' BY DEF InCall, Typed, TypesWith
<1>8. FreshUnused' BY DEF FreshUnused, Fresh, MainConsistent, Busy, Typed, TypesWith
<1>9. ResultsReal' BY DEF ResultsReal, Current, RunningOnce, MainConsistent, Busy,
     Typed, TypesWith, Result, Call
<1>10. LocksHeld' BY DEF LocksHeld, Holding, MainConsistent, Busy, Typed, TypesWith
<1>11. NoMissedWakeup' BY DEF NoMissedWakeup, Current, MainConsistent, Busy, Typed, TypesWith,
     InCall, Call
<1> QED BY <1>0, <1>2, <1>3, <1>4, <1>5, <1>6, <1>7, <1>8, <1>9, <1>10, <1>11

-----------------------------------------------------------------------------
\* The invariant holds initially.
LEMMA InitInvariant == Init => IInv
<1> SUFFICES ASSUME Init PROVE IInv OBVIOUS
<1> USE DEF Init
<1>1. Typed
  <2>1. queue \in Seq(Call) /\ running \in Call \cup {<<>>} OBVIOUS
  <2>2. nested \in 0..MaxNested /\ made \in [Task -> 0..MaxCalls]
    OBVIOUS
  <2>3. queueLocked \in BOOLEAN /\ wake \in BOOLEAN BY Zenon
  <2> QED BY <2>1, <2>2, <2>3 DEF Typed, TypesWith, Locks
<1>2. MainSide
  BY DEF MainSide, MainConsistent, QueuedNotRun, QueueOrdered, RanInOrder, RunningOnce,
     Busy
<1>3. CallSide
  <2>1. InCall BY DEF InCall
  <2>2. FreshUnused BY DEF FreshUnused, Busy
  <2>3. ResultsReal BY DEF ResultsReal, Result
  <2>4. LocksHeld BY DEF LocksHeld, Holding, Call
  <2>5. NoMissedWakeup BY DEF NoMissedWakeup
  <2> QED BY <2>1, <2>2, <2>3, <2>4, <2>5 DEF CallSide
<1> QED BY <1>1, <1>2, <1>3 DEF IInv

\* The same values of the variables satisfy the same invariant.
LEMMA StutterStep == ASSUME IInv, UNCHANGED vars PROVE IInv'
<1> USE DEF vars, IInv, MainSide, CallSide
<1>1. Typed' BY DEF Typed, TypesWith
<1>2. MainSide' BY MainSideUnchanged DEF mainVars
<1>3. (InCall /\ FreshUnused)' BY DEF InCall, FreshUnused, Fresh
<1>4. (ResultsReal /\ LocksHeld /\ NoMissedWakeup)'
  BY DEF ResultsReal, LocksHeld, NoMissedWakeup, Current
<1> QED BY <1>1, <1>2, <1>3, <1>4

\* Every step preserves the invariant.
LEMMA NextInvariant == IInv /\ [Next]_vars => IInv'
<1> SUFFICES ASSUME IInv, [Next]_vars PROVE IInv' OBVIOUS
<1>1. ASSUME NEW t \in Task, NEW ignore \in BOOLEAN, StartCall(t, ignore) PROVE IInv'
  BY <1>1, StartCallStep
<1>2. ASSUME NEW t \in Task, CallStep(t) PROVE IInv'
  BY <1>2, EnterConditionStep, RefuseCallStep, SubmitStep, AnnounceStep, WaitStep,
     TimeoutStep, ReacquireStep, LoopAgainStep, AbandonCallStep, CollectStep, ReturnStep
     DEF CallStep
<1>3. ASSUME NEW t \in Task, Interrupt(t) PROVE IInv'
  BY <1>3, InterruptStep
<1>4. CASE HostCalls BY <1>4, HostCallsStep
<1>5. CASE ExecutorStep
  BY <1>5, FindEmptyStep, PopActionStep, SubmitResultStep, NotifyAllStep, FinishActionStep
     DEF ExecutorStep
<1>6. CASE FunctionStep
  BY <1>6, BeginNestedStep, EndNestedStep, ExecuteActionStep DEF FunctionStep
<1>7. CASE UNCHANGED vars BY <1>7, StutterStep
<1> QED BY <1>1, <1>2, <1>3, <1>4, <1>5, <1>6, <1>7 DEF Next

\* The strengthened invariant holds in every reachable state.
LEMMA Invariance == Spec => []IInv
BY InitInvariant, NextInvariant, PTL DEF Spec

\* A call comes back with a result or interrupted.
LEMMA AnswersTyped ==
  ASSUME IInv, TypeOK, [Next]_vars
  PROVE  TypeOK'
<1>1. Typed' BY NextInvariant DEF IInv
<1>2. outcome' \in [Call -> Result \cup {"none", "interrupted"}]
  <2>1. ASSUME NEW t \in Task, RefuseCall(t) \/ AbandonCall(t) \/ Return(t)
        PROVE  outcome' \in [Call -> Result \cup {"none", "interrupted"}]
    <3>1. PICK o \in Result \cup {"none", "interrupted"} : ComeBack(t, o)
      <4>1. CASE RefuseCall(t) \/ AbandonCall(t) BY <4>1 DEF RefuseCall, AbandonCall
      <4>2. CASE Return(t)
        BY <4>2 DEF Return, IInv, CallSide, InCall, Current, Call, TypeOK, TypesWith
      <4> QED BY <2>1, <4>1, <4>2
    <3> QED BY <3>1 DEF ComeBack, TypeOK, TypesWith
  <2>2. CASE UNCHANGED outcome BY <2>2 DEF TypeOK, TypesWith
  <2>3. ASSUME NEW t \in Task, CallStep(t) PROVE outcome' \in [Call -> Result \cup {"none", "interrupted"}]
    BY <2>1, <2>2, <2>3 DEF CallStep, EnterCondition, Submit, SubmitAs, Announce,
       AnnounceTo, Wait, Timeout, Reacquire, LoopAgain, GoOnAt, Collect, taskVars
  <2>4. CASE HostCalls \/ ExecutorStep \/ FunctionStep
    BY <2>2, <2>4 DEF HostCalls, ExecutorStep, FunctionStep, FindEmpty,
       PopAction, Take, SubmitResult, StoreResult, NotifyAll, Notify, FinishAction,
       FinishWith, BeginNested, EndNested, ExecuteAction, taskVars
  <2> QED BY <2>2, <2>3, <2>4 DEF Next, StartCall, Interrupt, vars
<1> QED BY <1>1, <1>2 DEF Typed, TypeOK, TypesWith

\* The executor's variables keep their types, for any tasks and bounds.
THEOREM TypeCorrect == Spec => []TypeOK
<1>1. Init => TypeOK
  <2> SUFFICES ASSUME Init PROVE TypeOK
    OBVIOUS
  <2>1. outcome \in [Call -> Result \cup {"none", "interrupted"}] BY DEF Init
  <2> QED BY <2>1, InitInvariant DEF IInv, Typed, TypeOK, TypesWith
<1> QED BY <1>1, AnswersTyped, Invariance, PTL DEF Spec

\* No function handed to run_on_main_thread runs twice.
THEOREM RunsAtMostOnce == Spec => []AtMostOnce
<1>1. IInv => AtMostOnce BY DEF IInv, CallSide, ResultsReal, AtMostOnce
<1> QED BY <1>1, Invariance, PTL

\* A call that returns a value or raises its function's exception got it from
\* the one run of that function.
THEOREM ReturnsOwnResult == Spec => []OwnResult
<1>1. IInv => OwnResult
  BY DEF IInv, CallSide, Typed, TypesWith, ResultsReal, OwnResult, Result
<1> QED BY <1>1, Invariance, PTL

\* In the states of the invariant nobody sleeps through a notification, and main
\* thread and task never hold the one lock the other is waiting for.
LEMMA InvGivesNobodyStuck == IInv => NobodyStuck
<1> SUFFICES ASSUME IInv PROVE NobodyStuck
  OBVIOUS
<1> USE DEF IInv, MainSide, CallSide
<1>1. NoDeadlyEmbrace
  <2> SUFFICES ASSUME mainPc = "deliver", conditionLock[running] = "task"
      PROVE running = Current(running[1]) /\ pc[running[1]] \in Holding \ {"submit"}
    BY DEF NoDeadlyEmbrace
  <2>1. running \in Call BY DEF MainConsistent, Busy
  <2>2. running[2] = made[running[1]] /\ pc[running[1]] \in Holding
    BY <2>1 DEF LocksHeld
  <2>3. ~Fresh(running) BY <2>1 DEF FreshUnused, Busy
  <2> QED BY <2>1, <2>2, <2>3 DEF Fresh, Current, Call
<1> QED BY <1>1 DEF NobodyStuck

\* The functions of one task run in the order in which the task called.
THEOREM RunsInProgramOrder == Spec => []ProgramOrder
<1>1. ASSUME IInv PROVE ProgramOrder
  BY <1>1 DEF IInv, MainSide, Typed, TypesWith, RanInOrder, ProgramOrder, InQueue
<1> QED BY <1>1, Invariance, PTL

\* A check raises only where an interrupted task did not ask to ignore that.
LEMMA JustifiedPreserved ==
  ASSUME IInv, InterruptionJustified, [Next]_vars
  PROVE  InterruptionJustified'
<1> USE DEF IInv, CallSide
<1>1. ASSUME NEW t \in Task, NEW ignore \in BOOLEAN, StartCall(t, ignore)
      PROVE InterruptionJustified'
  <2> DEFINE d == <<t, made[t] + 1>>
  <2>1. d \in Call /\ Fresh(d)
    BY <1>1 DEF StartCall, Typed, TypesWith, Call, Fresh
  <2>2. outcome[d] = "none" BY <2>1 DEF FreshUnused
  <2>3. /\ UNCHANGED <<interrupted, outcome>>
        /\ \A c \in Call : c # d => ignoring'[c] = ignoring[c]
    BY <1>1 DEF StartCall, Typed, TypesWith
  <2> QED BY <2>2, <2>3 DEF InterruptionJustified
<1>2. ASSUME NEW t \in Task, RefuseCall(t) \/ AbandonCall(t) \/ Return(t)
      PROVE InterruptionJustified'
  <2>1. PICK o : ComeBack(t, o) /\ pc[t] # "ready" /\ (o = "interrupted" => Raises(t))
    <3>1. CASE RefuseCall(t) \/ AbandonCall(t) BY <3>1 DEF RefuseCall, AbandonCall
    <3>2. CASE Return(t)
      <4>1. Current(t) \in Call BY <3>2 DEF Return, InCall, Current, Call
      <4>2. result[Current(t)] # "interrupted" BY <4>1 DEF Typed, TypesWith, Result
      <4> QED BY <3>2, <4>2 DEF Return
    <3> QED BY <1>2, <3>1, <3>2
  <2>2. Current(t) \in Call BY <2>1 DEF InCall, Current, Call
  <2>3. /\ UNCHANGED <<interrupted, ignoring>> /\ outcome'[Current(t)] = o
        /\ \A c \in Call : c # Current(t) => outcome'[c] = outcome[c]
    BY <2>1, <2>2 DEF ComeBack, Typed, TypesWith
  <2>4. Current(t)[1] = t BY DEF Current
  <2> QED BY <2>1, <2>2, <2>3, <2>4 DEF InterruptionJustified, Raises
<1>3. ASSUME NEW t \in Task, Interrupt(t) PROVE InterruptionJustified'
  <2>1. /\ UNCHANGED <<ignoring, outcome>>
        /\ \A u \in Task : interrupted[u] => interrupted'[u]
    BY <1>3 DEF Interrupt, Typed, TypesWith
  <2> QED BY <2>1 DEF InterruptionJustified, Call
<1>4. CASE UNCHANGED <<interrupted, ignoring, outcome>>
  BY <1>4 DEF InterruptionJustified
<1>5. ASSUME NEW t \in Task, CallStep(t) PROVE InterruptionJustified'
  BY <1>2, <1>4, <1>5 DEF CallStep, EnterCondition, Submit, SubmitAs, Announce,
     AnnounceTo, Wait, Timeout,
     Reacquire, LoopAgain, GoOnAt, Collect, taskVars
<1>6. CASE HostCalls \/ ExecutorStep \/ FunctionStep
  BY <1>4, <1>6 DEF HostCalls, ExecutorStep, FunctionStep, FindEmpty,
     PopAction, Take, SubmitResult, StoreResult,
     NotifyAll, Notify, FinishAction, FinishWith, BeginNested, EndNested,
       ExecuteAction, taskVars
<1>7. CASE UNCHANGED vars BY <1>4, <1>7 DEF vars
<1> QED BY <1>1, <1>3, <1>5, <1>6, <1>7 DEF Next

\* Only interrupted tasks see TaskInterruptedException, and never in a call
\* made with ignore_interrupts.
THEOREM InterruptsOnlyTheInterrupted == Spec => []InterruptionJustified
<1>1. Init => InterruptionJustified BY DEF Init, InterruptionJustified
<1>2. IInv /\ InterruptionJustified /\ [Next]_vars => InterruptionJustified'
  BY JustifiedPreserved
<1> QED BY <1>1, <1>2, Invariance, PTL DEF Spec

\* Functions run once at most and in order, and calls come back with their own
\* function's result or interrupted for a reason.
THEOREM ServesRight == Spec => []ServedRight
  BY RunsAtMostOnce, ReturnsOwnResult, InterruptsOnlyTheInterrupted, RunsInProgramOrder, PTL
     DEF ServedRight

\* No task and main thread wait for what the other has already done or holds.
THEOREM NobodyGetsStuck == Spec => []NobodyStuck
BY InvGivesNobodyStuck, Invariance, PTL

-----------------------------------------------------------------------------
(* The executor as the abstract queue of MainThreadCalls sees it.             *)

\* A task has answers for the calls it made, but for the one it is in.
Answered ==
    \A t \in Task, n \in 1..MaxCalls :
        outcome[<<t, n>>] = "none" <=> n > made[t] \/ (n = made[t] /\ pc[t] # "ready")

AInv == IInv /\ Answered

\* Putting the running call back in front of the queue, or nothing.
LEMMA PendingIdentities ==
  ASSUME NEW q \in Seq(Call)
  PROVE  /\ <<>> \o q = q
         /\ \A c \in Call : /\ Head(<<c>> \o q) = c /\ Tail(<<c>> \o q) = q
                            /\ <<c>> \o q # <<>>
         /\ q # <<>> => <<Head(q)>> \o Tail(q) = q
<1>1. <<>> \o q = q OBVIOUS
<1>2. ASSUME NEW c \in Call
      PROVE Head(<<c>> \o q) = c /\ Tail(<<c>> \o q) = q /\ <<c>> \o q # <<>>
  OBVIOUS
<1>3. ASSUME q # <<>> PROVE <<Head(q)>> \o Tail(q) = q
  BY <1>3
<1> QED BY <1>1, <1>2, <1>3

\* Every step keeps the account of answered calls.
LEMMA AnsweredPreserved ==
  ASSUME AInv, [Next]_vars
  PROVE  Answered'
<1> USE DEF AInv, IInv, CallSide
<1>1. ASSUME NEW t \in Task, NEW ignore \in BOOLEAN, StartCall(t, ignore) PROVE Answered'
  <2>1. /\ pc[t] = "ready" /\ made[t] \in 0..MaxCalls /\ made'[t] = made[t] + 1
        /\ pc'[t] = "start" /\ UNCHANGED outcome
        /\ \A u \in Task \ {t} : made'[u] = made[u] /\ pc'[u] = pc[u]
    BY <1>1 DEF StartCall, Typed, TypesWith
  <2>2. ASSUME NEW u \in Task, NEW n \in 1..MaxCalls
        PROVE outcome'[<<u,
       n>>] = "none" <=> n > made'[u] \/ (n = made'[u] /\ pc'[u] # "ready")
    <3>1. CASE u = t BY <2>1, <3>1 DEF Answered
    <3>2. CASE u # t BY <2>1, <3>2 DEF Answered
    <3> QED BY <3>1, <3>2
  <2> QED BY <2>2 DEF Answered
<1>2. ASSUME NEW t \in Task, CallStep(t) PROVE Answered'
  <2>1. CASE RefuseCall(t) \/ AbandonCall(t) \/ Return(t)
    <3>1. PICK o \in Result \cup {"interrupted"} :
              ComeBack(t, o) /\ pc[t] # "ready" /\ UNCHANGED mainVars
      BY <2>1 DEF RefuseCall, AbandonCall, Return, ResultsReal, Typed, TypesWith, InCall,
       Current, Call
    <3>2. Current(t) \in Call BY <3>1 DEF InCall, Current, Call
    <3>3. o # "none" BY DEF Result
    <3>4. /\ UNCHANGED made /\ pc'[t] = "ready" /\ outcome'[<<t, made[t]>>] = o
          /\ \A u \in Task \ {t} : pc'[u] = pc[u]
          /\ \A c \in Call : c # <<t, made[t]>> => outcome'[c] = outcome[c]
      BY <3>1, <3>2 DEF ComeBack, Typed, TypesWith, Current
    <3>5. ASSUME NEW u \in Task, NEW n \in 1..MaxCalls
          PROVE outcome'[<<u,
       n>>] = "none" <=> n > made'[u] \/ (n = made'[u] /\ pc'[u] # "ready")
      <4>1. CASE u = t /\ n = made[t] BY <3>3, <3>4, <4>1 DEF Typed, TypesWith
      <4>2. CASE u = t /\ n # made[t]
        BY <3>4, <4>2 DEF Answered, Call
      <4>3. CASE u # t BY <3>4, <4>3 DEF Answered, Call
      <4> QED BY <4>1, <4>2, <4>3
    <3> QED BY <3>5 DEF Answered
  <2>2. CASE ~(RefuseCall(t) \/ AbandonCall(t) \/ Return(t))
    <3>1. /\ UNCHANGED <<made, outcome>>
          /\ \E x : x # "ready" /\ pc[t] # "ready" /\ pc' = [pc EXCEPT ![t] = x]
      BY <1>2, <2>2 DEF CallStep, EnterCondition, Submit, SubmitAs, Announce,
       AnnounceTo, Wait, Timeout, Reacquire,
         LoopAgain, GoOnAt, Collect, taskVars
    <3>2. \A u \in Task : pc'[u] # "ready" <=> pc[u] # "ready" BY <3>1 DEF Typed, TypesWith
    <3> QED BY <3>1, <3>2 DEF Answered
  <2> QED BY <2>1, <2>2
<1>3. ASSUME NEW t \in Task, Interrupt(t) PROVE Answered'
  BY <1>3 DEF Interrupt, Answered
<1>4. CASE HostCalls \/ ExecutorStep \/ FunctionStep
  <2>1. UNCHANGED taskVars /\ \A t \in Task : pc'[t] # "ready" <=> pc[t] # "ready"
    BY <1>4 DEF HostCalls, ExecutorStep, FunctionStep, FindEmpty,
       PopAction, Take, SubmitResult, StoreResult,
       NotifyAll, Notify, FinishAction, FinishWith, BeginNested, EndNested,
       ExecuteAction, Typed, TypesWith
  <2> QED BY <2>1 DEF Answered, taskVars
<1>5. CASE UNCHANGED vars BY <1>5 DEF vars, Answered
<1> QED BY <1>1, <1>2, <1>3, <1>4, <1>5 DEF Next

\* With that account, the invariant is inductive too.
LEMMA AnsweredInvariance == Spec => []AInv
<1>1. Init => AInv
  <2>1. Init => Answered BY DEF Init, Answered, Call
  <2> QED BY <2>1, InitInvariant DEF AInv
<1>2. AInv /\ [Next]_vars => AInv'
  BY AnsweredPreserved, NextInvariant DEF AInv
<1> QED BY <1>1, <1>2, PTL DEF Spec

-----------------------------------------------------------------------------
\* The state that MainThreadCalls sees.
abstract == <<Pending, Done, outcome>>

\* Call c is the current one: everything before it has been answered.
LEMMA CurrentCall ==
  ASSUME AInv, NEW t \in Task, pc[t] # "ready"
  PROVE  /\ Current(t) \in Call
         /\ outcome[Current(t)] = "none"
         /\ Calls!EarlierAnswered(Current(t))
<1>1. Current(t) = <<t, made[t]>> /\ made[t] \in 1..MaxCalls
  BY DEF AInv, IInv, CallSide, InCall, Current
<1>2. Current(t) \in Call /\ outcome[Current(t)] = "none"
  BY <1>1 DEF AInv, Answered, Call
<1>3. Calls!EarlierAnswered(<<t, made[t]>>)
  <2> SUFFICES ASSUME NEW n \in 1..MaxCalls, n < made[t] PROVE outcome[<<t, n>>] # "none"
    BY DEF Calls!EarlierAnswered
  <2> QED BY <1>1 DEF AInv, Answered
<1> QED BY <1>1, <1>2, <1>3

\* A task's step that answers nothing and queues nothing is not seen.
LEMMA UnseenTaskStep ==
  ASSUME UNCHANGED mainVars, UNCHANGED <<queue, result, outcome>>
  PROVE  UNCHANGED abstract
<1>1. UNCHANGED Pending BY DEF Pending, mainVars
<1>2. UNCHANGED Done BY DEF Done, mainVars
<1> QED BY <1>1, <1>2 DEF abstract

\* What is done is done, wherever the result is on its way.
LEMMA DoneCases ==
  ASSUME AInv, NEW c \in Call
  PROVE  /\ Done[c] = IF mainPc = "deliver" /\ running = c THEN mainResult ELSE result[c]
         /\ result[c] # "none" => Done[c] = result[c]
  BY DEF AInv, IInv, MainSide, RunningOnce, Done

\* Appending an action submits the call.
LEMMA SubmitRefines ==
  ASSUME AInv, NEW t \in Task, Submit(t)
  PROVE  Calls!Submit(Current(t))
<1> USE DEF AInv, IInv, MainSide, CallSide
<1>1. Current(t) \in Call /\ outcome[Current(t)] = "none" /\ Calls!EarlierAnswered(Current(t))
  BY CurrentCall DEF Submit, SubmitAs
<1>2. mainPc \notin Busy /\ mainPc' = mainPc
  BY DEF Submit, SubmitAs, MainConsistent, mainVars
<1>3. Pending = queue /\ Pending' = queue'
  BY <1>1, <1>2, PendingIdentities, AppendPositions DEF Pending, Busy, Submit,
     SubmitAs, Typed, TypesWith
<1>4. Fresh(Current(t)) BY <1>1 DEF Submit, SubmitAs, Fresh, Current, Typed, TypesWith
<1>5. Done[Current(t)] = "none" /\ \A i \in DOMAIN Pending : Pending[i] # Current(t)
  BY <1>1, <1>2, <1>3, <1>4, DoneCases DEF FreshUnused, Busy, Typed, TypesWith
<1>6. UNCHANGED Done BY DEF Done, Submit, SubmitAs, mainVars
<1> QED BY <1>1, <1>3, <1>5, <1>6 DEF Calls!Submit, Submit, SubmitAs, taskVars

\* A call that comes back is an answer or a refusal in MainThreadCalls.
LEMMA ComeBackRefines ==
  ASSUME AInv, NEW t \in Task, pc[t] # "ready",
         NEW o, ComeBack(t, o), UNCHANGED mainVars, UNCHANGED <<queue, result>>,
         o = "interrupted" \/ (o = result[Current(t)] /\ o # "none")
  PROVE  Calls!Answer(Current(t)) \/ Calls!GiveUp(Current(t))
<1>1. Current(t) \in Call /\ outcome[Current(t)] = "none" /\ Calls!EarlierAnswered(Current(t))
  BY CurrentCall
<1>2. UNCHANGED <<Pending, Done>> BY DEF Pending, Done, mainVars
<1>3. CASE o = "interrupted"
  BY <1>1, <1>2, <1>3 DEF ComeBack, Calls!Answer, Calls!GiveUp
<1>4. CASE o = result[Current(t)] /\ o # "none"
  BY <1>1, <1>2, <1>4, DoneCases DEF ComeBack, Calls!Answer
<1> QED BY <1>3, <1>4

\* Taking an action from the queue leaves it pending until its function ends.
LEMMA PopActionUnseen == ASSUME AInv, PopAction PROVE UNCHANGED abstract
<1> USE DEF AInv, IInv, MainSide
<1>1. queue \in Seq(Call) /\ queue # <<>> BY DEF PopAction, Take, Typed, TypesWith
<1>2. Pending = queue
  BY <1>1, PendingIdentities DEF PopAction, Take, Pending
<1>3. Pending' = queue
  BY <1>1, PendingIdentities DEF PopAction, Take, Pending
<1>4. UNCHANGED Done BY DEF PopAction, Take, Done
<1> QED BY <1>2, <1>3, <1>4 DEF abstract, PopAction, Take, taskVars

\* The end of a function performs its call.
LEMMA ExecuteActionRefines ==
  ASSUME AInv, NEW r \in Result, ExecuteAction(r)
  PROVE  Calls!Perform(r)
<1> USE DEF AInv, IInv, MainSide
<1>1. queue \in Seq(Call) /\ running \in Call
  BY DEF ExecuteAction, MainConsistent, Busy, Typed, TypesWith
<1>2. Pending = <<running>> \o queue BY DEF ExecuteAction, Pending
<1>3. Pending' = queue
  BY <1>1, PendingIdentities DEF ExecuteAction, Pending
<1>4. Pending # <<>> /\ Head(Pending) = running /\ Pending' = Tail(Pending)
  BY <1>1, <1>2, <1>3, PendingIdentities
<1>5. Done' = [Done EXCEPT ![running] = r]
  BY <1>1 DEF ExecuteAction, Done
<1> QED BY <1>4, <1>5 DEF Calls!Perform, ExecuteAction, taskVars

\* The other steps of the main thread are not seen either.
LEMMA MainStepUnseen ==
  ASSUME AInv, HostCalls \/ FindEmpty \/ BeginNested \/ EndNested
                 \/ SubmitResult \/ NotifyAll \/ FinishAction
  PROVE  UNCHANGED abstract
<1> USE DEF AInv, IInv, MainSide, taskVars
<1>1. CASE HostCalls \/ FindEmpty \/ BeginNested \/ EndNested
  <2>1. UNCHANGED Pending
    BY <1>1 DEF HostCalls, FindEmpty, BeginNested, EndNested, Pending
  <2>2. UNCHANGED Done
    BY <1>1 DEF HostCalls, FindEmpty, BeginNested, EndNested, Done
  <2> QED BY <1>1, <2>1, <2>2 DEF abstract, HostCalls, FindEmpty,
       BeginNested, EndNested
<1>2. CASE SubmitResult
  <2>1. UNCHANGED Pending BY <1>2 DEF SubmitResult, StoreResult, Pending
  <2>2. UNCHANGED Done
    BY <1>2 DEF SubmitResult, StoreResult, Done, Typed, TypesWith, MainConsistent, Busy
  <2> QED BY <1>2, <2>1, <2>2 DEF abstract, SubmitResult, StoreResult
<1>3. CASE NotifyAll \/ FinishAction
  <2>1. UNCHANGED Pending BY <1>3 DEF NotifyAll, Notify, FinishAction, FinishWith, Pending
  <2>2. UNCHANGED Done BY <1>3 DEF NotifyAll, Notify, FinishAction, FinishWith, Done
  <2> QED BY <1>3, <2>1, <2>2 DEF abstract, NotifyAll, Notify, FinishAction, FinishWith
<1> QED BY <1>1, <1>2, <1>3

\* A task's step submits, answers or gives up its current call, or is not seen.
LEMMA CallStepRefines ==
  ASSUME AInv, NEW t \in Task, CallStep(t)
  PROVE  \/ \E c \in Call : Calls!Submit(c) \/ Calls!Answer(c) \/ Calls!GiveUp(c)
         \/ UNCHANGED abstract
<1>1. pc[t] # "ready" => Current(t) \in Call BY CurrentCall
<1>2. CASE Submit(t) BY <1>1, <1>2, SubmitRefines DEF Submit, SubmitAs
<1>3. CASE RefuseCall(t)
  BY <1>1, <1>3, ComeBackRefines DEF RefuseCall
<1>4. CASE AbandonCall(t)
  BY <1>1, <1>4, ComeBackRefines DEF AbandonCall
<1>5. CASE Return(t)
  <2>1. result[Current(t)] # "none"
    BY <1>5 DEF AInv, IInv, CallSide, ResultsReal, Return
  <2> QED BY <1>1, <1>5, <2>1, ComeBackRefines DEF Return
<1>6. CASE EnterCondition(t) \/ Announce(t) \/ Wait(t) \/ Timeout(t) \/ Reacquire(t)
             \/ LoopAgain(t) \/ Collect(t)
  BY <1>6, UnseenTaskStep DEF EnterCondition, Announce, AnnounceTo, Wait, Timeout,
     Reacquire,
     LoopAgain, GoOnAt, Collect, taskVars
<1> QED BY <1>2, <1>3, <1>4, <1>5, <1>6, CallStep(t) DEF CallStep

\* Every step of the executor is one of MainThreadCalls or a stutter.
LEMMA StepRefines == AInv /\ [Next]_vars => [Calls!Next]_abstract
<1> SUFFICES ASSUME AInv, [Next]_vars PROVE [Calls!Next]_abstract OBVIOUS
<1>1. ASSUME NEW t \in Task, CallStep(t) PROVE [Calls!Next]_abstract
  BY <1>1, CallStepRefines DEF Calls!Next, Calls!Call, Call
<1>2. ASSUME NEW t \in Task,
             Interrupt(t) \/ \E ignore \in BOOLEAN : StartCall(t, ignore)
      PROVE UNCHANGED abstract
  BY <1>2, UnseenTaskStep DEF Interrupt, StartCall
<1>3. CASE PopAction BY <1>3, PopActionUnseen
<1>4. ASSUME NEW r \in Result, ExecuteAction(r) PROVE Calls!Next
  BY <1>4, ExecuteActionRefines DEF Calls!Next, Calls!Result, Result
<1>5. CASE HostCalls \/ FindEmpty \/ BeginNested \/ EndNested
             \/ SubmitResult \/ NotifyAll \/ FinishAction
  BY <1>5, MainStepUnseen
<1>6. CASE UNCHANGED vars
  BY <1>6, UnseenTaskStep DEF vars, mainVars
<1> QED BY <1>1, <1>2, <1>3, <1>4, <1>5, <1>6 DEF Next, ExecutorStep, FunctionStep

\* The executor implements MainThreadCalls: whatever the interleaving, calls
\* are performed once, one at a time, in submission order, and answered with
\* their own result or an interruption.
THEOREM RefinesCalls == Spec => ImplementsCalls
<1>1. Init => Calls!Init
  BY DEF Init, Calls!Init, Pending, Done, Call, Calls!Call
<1>2. Spec => [][Calls!Next]_abstract
  BY AnsweredInvariance, StepRefines, PTL DEF Spec
<1> QED BY <1>1, <1>2, PTL DEF Spec, ImplementsCalls, Calls!Spec, Calls!vars, abstract

-----------------------------------------------------------------------------
(* The executor in a host application.                                     *)

\* The variables of the host have their types, and those of the pool.
HostTyped ==
    /\ open \in BOOLEAN /\ settled \in BOOLEAN /\ hookFailed \in BOOLEAN
    /\ accepted \subseteq Task /\ ended \subseteq accepted
    /\ host \in {"loop", "joining", "blocked"}

\* Only a task that the pool has accepted and is not through with is in a call,
\* and a shutdown that waits returns when there is none.
CallsAreWorking ==
    /\ \A t \in Task : pc[t] # "ready" => Working(t)
    /\ settled => ~open /\ accepted = ended

HInv == AInv /\ HostTyped /\ CallsAreWorking /\ NoForgottenAction

\* A step of the host that is none of the executor's.
HostOnly ==
    \/ \E t \in Task : HostAdds(t) \/ TaskEnds(t)
    \/ CallShutdown \/ ShutdownReturns

-----------------------------------------------------------------------------
\* A step of the host application is one of the executor's, a hook's exception, a
\* step of the host alone, or the call that blocks the main thread.
LEMMA HostSteps ==
  ASSUME HostNext
  PROVE  \/ Next /\ AsBefore
         \/ \E t \in Task : SubmittedHookRaises(t)
         \/ PendingHookRaises
         \/ HostOnly
         \/ CallAgain
<1>1. ASSUME NEW t \in Task, TaskStep(t)
      PROVE (Next /\ AsBefore) \/ SubmittedHookRaises(t) \/ TaskEnds(t)
  BY <1>1 DEF TaskStep, Next
<1>2. ASSUME NEW t \in Task, NEW ignore \in BOOLEAN, TaskCalls(t, ignore)
      PROVE Next /\ AsBefore
  BY <1>2 DEF TaskCalls, Next
<1>3. ASSUME NEW t \in Task, Interrupt(t) /\ AsBefore PROVE Next /\ AsBefore
  BY <1>3 DEF Next
<1>4. CASE EventLoopCalls BY <1>4 DEF EventLoopCalls, Next
<1>5. CASE FunctionGoesOn BY <1>5 DEF FunctionGoesOn, Next
<1>6. CASE MainStep BY <1>6 DEF MainStep, Next
<1> QED BY <1>1, <1>2, <1>3, <1>4, <1>5, <1>6 DEF HostNext, HostOnly

\* A hook that raises after the submission leaves the executor's state in order:
\* the call is over, and its action stays in the queue.
LEMMA SubmittedHookStep ==
  ASSUME AInv, NEW t \in Task, SubmittedHookRaises(t)
  PROVE  AInv'
<1> USE DEF AInv, IInv, CallSide, SubmittedHookRaises, HookRaises, ComeBack, Call, Current
<1>1. Typed' BY DEF Typed, TypesWith, mainVars, Holding, Locks, Result
<1>2. MainSide' BY MainSideUnchanged DEF mainVars
<1>3. InCall' BY DEF Typed, TypesWith, InCall
<1>4. FreshUnused'
  <2>1. \A c \in Call : Fresh(c)' => Fresh(c) /\ c # Current(t)
    BY DEF Typed, TypesWith, InCall, Fresh
  <2> QED BY <2>1 DEF Typed, TypesWith, FreshUnused, mainVars
<1>5. ResultsReal' BY DEF Typed, TypesWith, InCall, ResultsReal, mainVars, Result
<1>6. LocksHeld'
  <2>1. Current(t) \in Call BY DEF Typed, TypesWith, InCall
  <2>2. conditionLock'[Current(t)] = "task" <=> pc'[t] \in Holding
    BY <2>1 DEF Typed, TypesWith, LocksHeld, Holding
  <2>3. conditionLock'[Current(t)] = "main" <=> mainPc = "notify" /\ running = Current(t)
    BY <2>1 DEF Typed, TypesWith, LocksHeld, Holding
  <2> QED BY <2>1, <2>2, <2>3, LockOfOwnCall DEF Typed, TypesWith, mainVars
<1>7. NoMissedWakeup' BY DEF Typed, TypesWith, InCall, NoMissedWakeup, mainVars
<1>8. Answered'
  <2>1. Current(t) \in Call /\ pc[t] # "ready" BY DEF InCall
  <2>2. /\ UNCHANGED made /\ pc'[t] = "ready" /\ outcome'[<<t, made[t]>>] = "hookError"
        /\ \A u \in Task \ {t} : pc'[u] = pc[u]
        /\ \A c \in Call : c # <<t, made[t]>> => outcome'[c] = outcome[c]
    BY <2>1 DEF Typed, TypesWith
  <2>3. ASSUME NEW u \in Task, NEW n \in 1..MaxCalls
        PROVE  outcome'[<<u, n>>] = "none"
                  <=> n > made'[u] \/ (n = made'[u] /\ pc'[u] # "ready")
    <3>1. CASE u = t /\ n = made[t] BY <2>2, <3>1 DEF Typed, TypesWith
    <3>2. CASE u = t /\ n # made[t] BY <2>2, <3>2 DEF Answered
    <3>3. CASE u # t BY <2>2, <3>3 DEF Answered
    <3> QED BY <3>1, <3>2, <3>3
  <2> QED BY <2>3 DEF Answered
<1> QED BY <1>1, <1>2, <1>3, <1>4, <1>5, <1>6, <1>7, <1>8

\* A hook that raises after an action leaves the executor's state as if there
\* were none.
LEMMA PendingHookStep ==
  ASSUME AInv, PendingHookRaises
  PROVE  AInv'
<1> USE DEF AInv, IInv, CallSide, MainSide, taskVars
<1>1. /\ mainPc = "finish" /\ mainPc' = "idle" /\ queueLocked' = FALSE /\ running' = <<>>
      /\ mainResult' = "none" /\ nested' = 0
      /\ UNCHANGED <<queue, wake, pc, conditionLock, result, ran, taskVars>>
  BY DEF PendingHookRaises, PendingHookRaisesWith
<1>2. Typed'
  <2>1. mainResult' \in Result \cup {"none"} /\ nested' \in 0..MaxNested
    BY <1>1, MaxNestedIsNat
  <2>2. queueLocked' \in BOOLEAN BY <1>1, Zenon
  <2>3. running' \in Call \cup {<<>>} BY <1>1
  <2> QED BY <1>1, <2>1, <2>2, <2>3 DEF Typed, TypesWith
<1>3. MainConsistent' BY <1>1 DEF MainConsistent, Busy
<1>4. QueuedNotRun' BY <1>1 DEF QueuedNotRun, Busy
<1>5. QueueOrdered' BY <1>1 DEF QueueOrdered, Busy
<1>6. RanInOrder' BY <1>1 DEF RanInOrder
<1>7. RunningOnce' BY <1>1 DEF RunningOnce
<1>8. InCall' BY <1>1 DEF InCall
<1>9. FreshUnused' BY <1>1 DEF FreshUnused, Fresh, Busy
<1>10. ResultsReal' BY <1>1 DEF ResultsReal, Current
<1>11. LocksHeld' BY <1>1 DEF LocksHeld
<1>12. NoMissedWakeup' BY <1>1 DEF NoMissedWakeup, Current
<1>13. Answered' BY <1>1 DEF Answered
<1> QED BY <1>2, <1>3, <1>4, <1>5, <1>6, <1>7, <1>8, <1>9, <1>10, <1>11, <1>12, <1>13

\* So does maybe_execute_action when it is called again by a function.
LEMMA CallAgainStep ==
  ASSUME AInv, CallAgain
  PROVE  AInv'
<1>1. wake' \in BOOLEAN /\ UNCHANGED <<queue, mainVars, pc, taskVars, conditionLock, result>>
  BY DEF CallAgain
<1> USE <1>1 DEF AInv, IInv, CallSide, mainVars, taskVars
<1>2. Typed' BY DEF Typed, TypesWith
<1>3. MainSide' BY MainSideUnchanged
<1>4. InCall' /\ FreshUnused' BY DEF InCall, FreshUnused, Fresh
<1>5. ResultsReal' /\ LocksHeld' BY DEF ResultsReal, LocksHeld, Current
<1>6. NoMissedWakeup' BY DEF NoMissedWakeup, Current
<1>7. Answered' BY DEF Answered
<1> QED BY <1>2, <1>3, <1>4, <1>5, <1>6, <1>7

\* Every step of the host application keeps the executor's invariant.
LEMMA ExecutorKept ==
  ASSUME AInv, [HostNext]_hostVars
  PROVE  AInv'
<1>1. ASSUME [Next]_vars PROVE AInv'
  BY <1>1, NextInvariant, AnsweredPreserved DEF AInv
<1>2. HostOnly => UNCHANGED vars
  BY DEF HostOnly, HostAdds, TaskEnds, CallShutdown, ShutdownReturns
<1> QED BY <1>1, <1>2, HostSteps, SubmittedHookStep, PendingHookStep, CallAgainStep
       DEF hostVars

\* Tasks call only while they work, and none begins to when the pool has settled.
LEMMA WorkingKept ==
  ASSUME HInv, [HostNext]_hostVars
  PROVE  HostTyped' /\ CallsAreWorking'
<1> USE DEF HInv, HostTyped, CallsAreWorking, Working
<1>1. ASSUME NEW t \in Task, HostAdds(t) PROVE HostTyped' /\ CallsAreWorking'
  BY <1>1 DEF HostAdds, Pool!Accept, vars
<1>2. ASSUME NEW t \in Task, TaskEnds(t) PROVE HostTyped' /\ CallsAreWorking'
  BY <1>2 DEF TaskEnds, Pool!End, vars
<1>3. CASE CallShutdown \/ ShutdownReturns
  <2>1. CASE CallShutdown BY <2>1 DEF CallShutdown, Pool!Close, vars
  <2>2. CASE ShutdownReturns
    <3>1. ~open' /\ settled' /\ accepted' = ended' /\ accepted' = accepted
      BY <2>2 DEF ShutdownReturns, Pool!Settle
    <3>2. settled' \in BOOLEAN /\ UNCHANGED <<open, accepted, ended, hookFailed, pc>>
      BY <2>2, Zenon DEF ShutdownReturns, Pool!Settle, vars
    <3>3. host' = "loop" BY <2>2 DEF ShutdownReturns
    <3> QED BY <3>1, <3>2, <3>3
  <2> QED BY <1>3, <2>1, <2>2
<1>4. ASSUME UNCHANGED poolVars, host' \in {host, "blocked"}, hookFailed' \in BOOLEAN,
             \A t \in Task : pc'[t] # "ready" => pc[t] # "ready" \/ Working(t)
      PROVE  HostTyped' /\ CallsAreWorking'
  BY <1>4 DEF poolVars
<1>5. ASSUME NEW t \in Task, NEW ignore \in BOOLEAN, TaskCalls(t, ignore)
      PROVE  HostTyped' /\ CallsAreWorking'
  BY <1>4, <1>5 DEF TaskCalls, StartCall, AsBefore, AInv, IInv, Typed, TypesWith
<1>6. ASSUME NEW t \in Task, CallStep(t), AsBefore
      PROVE  HostTyped' /\ CallsAreWorking'
  <2>1. pc[t] # "ready" /\ \A u \in Task \ {t} : pc'[u] = pc[u]
    BY <1>6 DEF CallStep, EnterCondition, RefuseCall, Submit, SubmitAs, Announce, AnnounceTo,
       Wait, Timeout, Reacquire, LoopAgain, GoOnAt, AbandonCall, Collect, Return, ComeBack,
       AInv, IInv, Typed, TypesWith
  <2> QED BY <1>4, <1>6, <2>1 DEF AsBefore
<1>7. CASE (HostCalls \/ ExecutorStep \/ FunctionStep) /\ AsBefore
  <2>1. \A t \in Task : pc'[t] # "ready" => pc[t] # "ready"
    BY <1>7 DEF HostCalls, ExecutorStep, FunctionStep, FindEmpty, PopAction, Take,
       SubmitResult, StoreResult, NotifyAll, Notify, FinishAction, FinishWith, BeginNested,
       EndNested, ExecuteAction
  <2> QED BY <1>4, <1>7, <2>1 DEF AsBefore
<1>8. ASSUME NEW t \in Task, SubmittedHookRaises(t)
      PROVE  HostTyped' /\ CallsAreWorking'
  BY <1>4, <1>8 DEF SubmittedHookRaises, HookRaises, ComeBack, AInv, IInv, Typed, TypesWith
<1>9. CASE PendingHookRaises \/ CallAgain
  BY <1>4, <1>9 DEF PendingHookRaises, PendingHookRaisesWith, CallAgain
<1>10. ASSUME NEW t \in Task, Interrupt(t), AsBefore PROVE HostTyped' /\ CallsAreWorking'
  BY <1>4, <1>10 DEF Interrupt, AsBefore
<1>11. CASE UNCHANGED hostVars
  BY <1>4, <1>11 DEF hostVars, vars
<1> QED BY <1>1, <1>2, <1>3, <1>5, <1>6, <1>7, <1>8, <1>9, <1>10, <1>11
       DEF HostNext, TaskStep, EventLoopCalls, FunctionGoesOn, MainStep

\* An action reaches the queue while its task still has to announce it, and stays
\* there only while it is announced, being executed around, or a hook has raised.
LEMMA ForgottenKept ==
  ASSUME HInv, [HostNext]_hostVars
  PROVE  NoForgottenAction'
<1> USE DEF HInv, AInv, IInv, HostTyped, NoForgottenAction
<1>1. pc \in [Task -> {"ready", "start", "waiting", "reacquire", "collected"} \cup Holding]
      /\ wake \in BOOLEAN
  BY DEF Typed, TypesWith
<1>2. ASSUME UNCHANGED <<queue, wake>>, mainPc' = "idle" => mainPc = "idle",
             AsBefore \/ UNCHANGED hookFailed,
             \A t \in Task : pc[t] = "announce" => pc'[t] = "announce"
      PROVE  NoForgottenAction'
  BY <1>2 DEF AsBefore
<1>3. ASSUME NEW t \in Task, CallStep(t), AsBefore PROVE NoForgottenAction'
  <2>1. CASE Submit(t)
    <3>1. pc'[t] = "announce" BY <1>1, <2>1 DEF Submit, SubmitAs
    <3> QED BY <3>1
  <2>2. CASE Announce(t)
    <3>1. UseHooks => wake' BY <2>2 DEF Announce, AnnounceTo
    <3> QED BY <3>1
  <2>3. CASE ~Submit(t) /\ ~Announce(t)
    <3>1. /\ UNCHANGED <<queue, wake, mainPc>> /\ pc[t] # "announce"
          /\ \A u \in Task \ {t} : pc'[u] = pc[u]
      BY <1>1, <1>3, <2>3 DEF CallStep, EnterCondition, RefuseCall, Wait, Timeout, Reacquire,
         LoopAgain, GoOnAt, AbandonCall, Collect, Return, ComeBack, mainVars
    <3> QED BY <1>2, <1>3, <3>1
  <2> QED BY <2>1, <2>2, <2>3
<1>4. ASSUME NEW t \in Task, NEW ignore \in BOOLEAN, TaskCalls(t, ignore)
      PROVE  NoForgottenAction'
  BY <1>1, <1>2, <1>4 DEF TaskCalls, StartCall, mainVars
<1>5. ASSUME NEW t \in Task, Interrupt(t), AsBefore PROVE NoForgottenAction'
  BY <1>2, <1>5 DEF Interrupt, mainVars
<1>6. CASE PopAction \/ HostCalls \/ CallAgain
  BY <1>6 DEF PopAction, Take, HostCalls, CallAgain, mainVars
<1>7. CASE FindEmpty BY <1>7 DEF FindEmpty
<1>8. CASE FinishAction BY <1>8 DEF FinishAction, FinishWith
<1>9. CASE (SubmitResult \/ NotifyAll \/ FunctionStep) /\ AsBefore
  BY <1>2, <1>9 DEF SubmitResult, StoreResult, NotifyAll, Notify, FunctionStep, BeginNested,
     EndNested, ExecuteAction
<1>10. ASSUME NEW t \in Task, SubmittedHookRaises(t) PROVE NoForgottenAction'
  BY <1>10 DEF SubmittedHookRaises, HookRaises
<1>11. CASE PendingHookRaises
  BY <1>11 DEF PendingHookRaises, PendingHookRaisesWith
<1>12. CASE HostOnly \/ UNCHANGED hostVars
  BY <1>2, <1>12 DEF HostOnly, HostAdds, TaskEnds, CallShutdown, ShutdownReturns, hostVars, vars
<1> QED BY <1>3, <1>4, <1>5, <1>6, <1>7, <1>8, <1>9, <1>10, <1>11, <1>12
       DEF HostNext, TaskStep, EventLoopCalls, FunctionGoesOn, MainStep, ExecutorStep, HostOnly

\* Every reachable state of the host application satisfies the invariant.
LEMMA HostInvariance == HostInit /\ [][HostNext]_hostVars => []HInv
<1>1. HostInit => HInv
  <2> SUFFICES ASSUME HostInit PROVE HInv
    OBVIOUS
  <2>1. AInv BY InitInvariant DEF HostInit, Init, AInv, Answered, Call
  <2>2. HostTyped /\ CallsAreWorking
    BY DEF HostInit, Init, Pool!Init, HostTyped, CallsAreWorking
  <2>3. NoForgottenAction BY DEF HostInit, Init, NoForgottenAction
  <2> QED BY <2>1, <2>2, <2>3 DEF HInv
<1>2. HInv /\ [HostNext]_hostVars => HInv'
  BY ExecutorKept, WorkingKept, ForgottenKept DEF HInv
<1> QED BY <1>1, <1>2, PTL

\* An action stays in the queue with nobody asked to execute it only after a hook
\* has raised.
THEOREM ForgetsNoAction == HostSpec => []NoForgottenAction
<1>1. HInv => NoForgottenAction BY DEF HInv
<1> QED BY <1>1, HostInvariance, PTL DEF HostSpec

\* Whatever the host does, no task and the main thread wait for what the other has
\* already done or holds: a wait can only be for the main thread's own sake.
THEOREM NobodyGetsStuckInHost == HostSpec => []NobodyStuck
<1>1. HInv => NobodyStuck
  BY InvGivesNobodyStuck DEF HInv, AInv
<1> QED BY <1>1, HostInvariance, PTL DEF HostSpec

\* No task is in a call to the main thread once a shutdown that waits has returned,
\* nor will one be.
THEOREM SettledPoolCallsNothing ==
  HostSpec => [](settled => \A t \in Task : pc[t] = "ready")
<1>1. HInv => (settled => \A t \in Task : pc[t] = "ready")
  BY DEF HInv, HostTyped, CallsAreWorking, Working, AInv, IInv, Typed, TypesWith
<1> QED BY <1>1, HostInvariance, PTL DEF HostSpec

-----------------------------------------------------------------------------
(* The host application as the abstract queue sees it.                     *)

hostAbstract == <<Pending, Done, Answers>>

\* What MainThreadCalls sees of a step of the executor it sees in the host too.
LEMMA SeenAlike ==
  ASSUME AInv, AInv', [Calls!Next]_abstract
  PROVE  [CallsOfHost!Next]_hostAbstract
<1>1. \A c \in Call : Answers[c] = "none" <=> outcome[c] = "none" BY DEF Answers
<1>2. Done \in [Call -> Result \cup {"none"}]
  BY DEF Done, AInv, IInv, Typed, TypesWith
<1>3. ASSUME NEW c \in Call PROVE Calls!EarlierAnswered(c) => CallsOfHost!EarlierAnswered(c)
  BY <1>1 DEF Calls!EarlierAnswered, CallsOfHost!EarlierAnswered, Call
<1>4. UNCHANGED outcome => UNCHANGED Answers BY DEF Answers
<1>5. ASSUME NEW c \in Call, NEW o \in Result \cup {"none", "interrupted"},
             outcome' = [outcome EXCEPT ![c] = o]
      PROVE  Answers' = [Answers EXCEPT ![c] = o]
  BY <1>5 DEF Answers, AInv, IInv, Typed, TypesWith, Result
<1>6. CASE UNCHANGED abstract BY <1>4, <1>6 DEF abstract, hostAbstract
<1>7. ASSUME NEW c \in Call, Calls!Submit(c) PROVE CallsOfHost!Submit(c)
  BY <1>1, <1>3, <1>4, <1>7 DEF Calls!Submit, CallsOfHost!Submit
<1>8. ASSUME NEW c \in Call, Calls!Answer(c) PROVE CallsOfHost!Answer(c)
  BY <1>1, <1>2, <1>3, <1>5, <1>8 DEF Calls!Answer, CallsOfHost!Answer
<1>9. ASSUME NEW c \in Call, Calls!GiveUp(c) PROVE CallsOfHost!GiveUp(c)
  BY <1>1, <1>3, <1>5, <1>9 DEF Calls!GiveUp, CallsOfHost!GiveUp
<1>10. ASSUME NEW r \in Result, Calls!Perform(r) PROVE CallsOfHost!Perform(r)
  BY <1>4, <1>10 DEF Calls!Perform, CallsOfHost!Perform
<1> QED BY <1>6, <1>7, <1>8, <1>9, <1>10 DEF Calls!Next, CallsOfHost!Next,
       Calls!Call, CallsOfHost!Call, Call, Calls!Result, CallsOfHost!Result, Result

\* A hook's exception after the submission gives the call up.
LEMMA SubmittedHookRefines ==
  ASSUME AInv, NEW t \in Task, SubmittedHookRaises(t)
  PROVE  CallsOfHost!Next
<1> USE DEF SubmittedHookRaises, HookRaises
<1>1. /\ Current(t) \in Call /\ outcome[Current(t)] = "none"
      /\ Calls!EarlierAnswered(Current(t))
  BY CurrentCall
<1>2. Answers[Current(t)] = "none" /\ CallsOfHost!EarlierAnswered(Current(t))
  BY <1>1 DEF Answers, Calls!EarlierAnswered, CallsOfHost!EarlierAnswered, Call
<1>3. UNCHANGED <<Pending, Done>> BY DEF Pending, Done, mainVars
<1>4. Answers' = [Answers EXCEPT ![Current(t)] = "interrupted"]
  BY <1>1 DEF ComeBack, Answers, AInv, IInv, Typed, TypesWith
<1>5. CallsOfHost!Answer(Current(t)) \/ CallsOfHost!GiveUp(Current(t))
  BY <1>2, <1>3, <1>4 DEF CallsOfHost!Answer, CallsOfHost!GiveUp
<1> QED BY <1>1, <1>5 DEF CallsOfHost!Next, CallsOfHost!Call, Call

\* Every step of the host application is one of MainThreadCalls or a stutter.
LEMMA HostStepRefines ==
  ASSUME AInv, AInv', [HostNext]_hostVars
  PROVE  [CallsOfHost!Next]_hostAbstract
<1>1. CASE [Next]_vars BY <1>1, StepRefines, SeenAlike
<1>2. CASE PendingHookRaises \/ CallAgain
  <2>1. UNCHANGED Pending
    BY <1>2 DEF PendingHookRaises, PendingHookRaisesWith, CallAgain, mainVars, Pending
  <2>2. UNCHANGED Done
    BY <1>2 DEF PendingHookRaises, PendingHookRaisesWith, CallAgain, mainVars, Done
  <2>3. UNCHANGED Answers
    BY <1>2 DEF PendingHookRaises, PendingHookRaisesWith, CallAgain, taskVars, Answers
  <2> QED BY <2>1, <2>2, <2>3 DEF hostAbstract
<1>3. HostOnly \/ UNCHANGED hostVars => UNCHANGED vars
  BY DEF HostOnly, HostAdds, TaskEnds, CallShutdown, ShutdownReturns, hostVars
<1> QED BY <1>1, <1>2, <1>3, HostSteps, SubmittedHookRefines

\* In the host application, too, functions run once at most, in the order of
\* submission, and each call gets its own result, an interruption, or the exception
\* of a hook: whatever holds the main thread up, and whichever hook raises.
THEOREM HostKeepsImplementingCalls == HostSpec => KeepsImplementingCalls
<1>1. HostInit => CallsOfHost!Init
  BY DEF HostInit, Init, CallsOfHost!Init, Pending, Done, Answers, Call, CallsOfHost!Call
<1>2. HostSpec => [][CallsOfHost!Next]_hostAbstract
  <2>1. HInv /\ HInv' /\ [HostNext]_hostVars => [CallsOfHost!Next]_hostAbstract
    BY HostStepRefines DEF HInv
  <2> QED BY <2>1, HostInvariance, PTL DEF HostSpec
<1> QED BY <1>1, <1>2, PTL
       DEF HostSpec, KeepsImplementingCalls, CallsOfHost!Spec, CallsOfHost!vars, hostAbstract
=============================================================================
