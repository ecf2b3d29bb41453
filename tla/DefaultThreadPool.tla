-------------------------- MODULE DefaultThreadPool --------------------------
(***************************************************************************)
(* zync_threading/default_thread_pool.py: interruptible tasks run by the   *)
(* threads of a multiprocessing.dummy.Pool.                                *)
(*                                                                         *)
(* A client is a thread outside the pool that adds tasks or shuts the pool *)
(* down; a running task may add tasks too.  Nothing keeps a task from      *)
(* being added again, so what the pool works on are jobs: job <<t, n>> is  *)
(* the n-th addition of task t.                                            *)
(*                                                                         *)
(* The Pool itself is Python's: it keeps a queue of jobs, apply_async      *)
(* asserts that it was not closed, and join returns when all jobs are done.*)
(***************************************************************************)
EXTENDS Naturals, Sequences, FiniteSets

CONSTANTS
    Task,       \* the InterruptibleTasks
    Client,     \* the threads that use the pool
    Worker,     \* the threads of the pool (concurrency_level of them)
    NoJob,      \* stands for no job
    MaxAdds,    \* bound: how often one task is added
    HasHandler  \* whether an error_handler was given

ASSUME MaxAddsIsNat == MaxAdds \in Nat
ASSUME HasHandlerIsBoolean == HasHandler \in BOOLEAN
ASSUME ThreadsAreDifferent == Client \cap Worker = {}

Job == Task \X (1..MaxAdds)
Thread == Client \cup Worker

ASSUME NoJobIsNoJob == NoJob \notin Job

VARIABLES
    tasks,        \* _tasks
    tasksLocked,  \* _tasks_lock is held by a thread inside add_task
    closed,       \* the Pool was closed
    jobs,         \* the jobs the Pool has not started, oldest first
    adds,         \* how often each task has been added
    adding,       \* the job each thread is adding, inside add_task
    joining,      \* the clients waiting in shutdown
    pc,           \* where each worker is
    work,         \* the job each worker works on
    interrupted,  \* the interrupted tasks
    accepted,     \* history: jobs that apply_async took
    shared,       \* history: jobs added while another of their task was unfinished,
                  \* and those others
    ran,          \* history: jobs whose task's run was called
    cancelled,    \* history: jobs whose task's on_cancelled was called
    raised,       \* history: jobs of which one of these raised
    reported,     \* history: jobs passed to the error handler
    finished,     \* history: jobs the pool is through with
    settled       \* history: a shutdown that waits has returned

addVars == <<tasksLocked, adds, adding, accepted, shared>>
shutdownVars == <<closed, joining, settled>>
workVars == <<pc, work, ran, cancelled, raised, reported, finished>>
vars == <<tasks, jobs, interrupted, addVars, shutdownVars, workVars>>

Init ==
    /\ tasks = {} /\ tasksLocked = FALSE
    /\ closed = FALSE
    /\ jobs = <<>>
    /\ adds = [t \in Task |-> 0]
    /\ adding = [th \in Thread |-> NoJob]
    /\ joining = {}
    /\ pc = [w \in Worker |-> "idle"]
    /\ work = [w \in Worker |-> NoJob]
    /\ interrupted = {}
    /\ accepted = {} /\ shared = {} /\ ran = {} /\ cancelled = {}
    /\ raised = {} /\ reported = {} /\ finished = {}
    /\ settled = FALSE

-----------------------------------------------------------------------------
(* add_task, by a client or by the task a worker is running.               *)

MayCall(th) ==
    /\ adding[th] = NoJob
    /\ th \notin joining
    /\ th \in Worker => pc[th] = "running"

\* The jobs of task t that the pool has accepted and is not through with.
Unfinished(t) == {j \in accepted \ finished : j[1] = t}

\* The lock is taken and the task recorded.
BeginAdd(th, t) ==
    /\ MayCall(th) /\ adds[t] < MaxAdds
    /\ ~tasksLocked
    /\ tasksLocked' = TRUE
    /\ tasks' = tasks \cup {t}
    /\ adds' = [adds EXCEPT ![t] = @ + 1]
    /\ adding' = [adding EXCEPT ![th] = <<t, adds[t] + 1>>]
    /\ shared' = IF Unfinished(t) = {} THEN shared
                 ELSE shared \cup Unfinished(t) \cup {<<t, adds[t] + 1>>}
    /\ UNCHANGED <<jobs, interrupted, accepted, shutdownVars, workVars>>

\* apply_async queues job j if it may, and the lock is released.
Enqueue(th, j, may) ==
    /\ adding[th] # NoJob /\ may
    /\ jobs' = Append(jobs, j)
    /\ accepted' = accepted \cup {adding[th]}
    /\ adding' = [adding EXCEPT ![th] = NoJob]
    /\ tasksLocked' = FALSE
    /\ UNCHANGED <<tasks, interrupted, adds, shared, shutdownVars, workVars>>

\* Faulty: the job is forgotten before it is queued.
ApplyAsyncNothing(th) == Enqueue(th, NoJob, ~closed)

\* Faulty: the Pool does not check its state.
ApplyAsyncAnyway(th) == Enqueue(th, adding[th], TRUE)

ApplyAsync(th) == Enqueue(th, adding[th], ~closed)

\* apply_async raises AssertionError: the task stays in _tasks, and the lock
\* stays `locked` or not.
Refuse(th, locked) ==
    /\ adding[th] # NoJob /\ closed
    /\ adding' = [adding EXCEPT ![th] = NoJob]
    /\ tasksLocked' = locked
    /\ UNCHANGED <<tasks, jobs, interrupted, adds, accepted, shared, shutdownVars, workVars>>

\* Faulty: the exception leaves the lock behind.
RefuseLocked(th) == Refuse(th, TRUE)

RefuseAdd(th) == Refuse(th, FALSE)

-----------------------------------------------------------------------------
(* _run_task, in a thread of the pool.                                     *)

\* A thread takes the oldest job.
TakeJob(w) ==
    /\ pc[w] = "idle" /\ jobs # <<>>
    /\ work' = [work EXCEPT ![w] = Head(jobs)]
    /\ jobs' = Tail(jobs)
    /\ pc' = [pc EXCEPT ![w] = "started"]
    /\ UNCHANGED <<tasks, interrupted, ran, cancelled, raised, reported, finished>>
    /\ UNCHANGED <<addVars, shutdownVars>>

\* The task was interrupted before it started; `also` it is run or not.
CancelAnd(w, also) ==
    /\ pc[w] = "started" /\ work[w][1] \in interrupted
    /\ cancelled' = cancelled \cup {work[w]}
    /\ ran' = IF also THEN ran \cup {work[w]} ELSE ran
    /\ pc' = [pc EXCEPT ![w] = "cancelling"]
    /\ UNCHANGED <<tasks, jobs, interrupted, work, raised, reported, finished>>
    /\ UNCHANGED <<addVars, shutdownVars>>

\* Faulty: no `else` before run.
CancelAndRun(w) == CancelAnd(w, TRUE)

CallOnCancelled(w) == CancelAnd(w, FALSE)

\* The task runs, while _tasks is `known`.
RunKnowing(w, known) ==
    /\ pc[w] = "started" /\ work[w][1] \notin interrupted
    /\ ran' = ran \cup {work[w]}
    /\ pc' = [pc EXCEPT ![w] = "running"]
    /\ tasks' = known
    /\ UNCHANGED <<jobs, interrupted, work, cancelled, raised, reported, finished>>
    /\ UNCHANGED <<addVars, shutdownVars>>

\* Faulty: the task is removed before it runs.
CallRunRemoved(w) == RunKnowing(w, tasks \ {work[w][1]})

CallRun(w) == RunKnowing(w, tasks)

TaskReturns(w) ==
    /\ pc[w] \in {"running", "cancelling"} /\ adding[w] = NoJob
    /\ pc' = [pc EXCEPT ![w] = "removing"]
    /\ UNCHANGED <<tasks, jobs, interrupted, work, ran, cancelled, raised, reported, finished>>
    /\ UNCHANGED <<addVars, shutdownVars>>

\* run or on_cancelled raises, and `place` is where that leads.
RaiseTo(w, place) ==
    /\ pc[w] \in {"running", "cancelling"} /\ adding[w] = NoJob
    /\ raised' = raised \cup {work[w]}
    /\ pc' = [pc EXCEPT ![w] = place]
    /\ UNCHANGED <<tasks, jobs, interrupted, work, ran, cancelled, reported, finished>>
    /\ UNCHANGED <<addVars, shutdownVars>>

\* Faulty: no `except` clause.
TaskRaisesUncaught(w) == RaiseTo(w, "removing")

TaskRaises(w) == RaiseTo(w, "failed")

\* The handler may raise in turn: the Pool keeps that to itself, and the
\* `finally` clause is next in any case.
HandleError(w) ==
    /\ pc[w] = "failed"
    /\ reported' = IF HasHandler THEN reported \cup {work[w]} ELSE reported
    /\ pc' = [pc EXCEPT ![w] = "removing"]
    /\ UNCHANGED <<tasks, jobs, interrupted, work, ran, cancelled, raised, finished>>
    /\ UNCHANGED <<addVars, shutdownVars>>

\* The thread is through with its job, and leaves _tasks `known`.
EndKnowing(w, known) ==
    /\ pc[w] = "removing" /\ ~tasksLocked
    /\ tasks' = known
    /\ finished' = finished \cup {work[w]}
    /\ work' = [work EXCEPT ![w] = NoJob]
    /\ pc' = [pc EXCEPT ![w] = "idle"]
    /\ UNCHANGED <<jobs, interrupted, ran, cancelled, raised, reported>>
    /\ UNCHANGED <<addVars, shutdownVars>>

\* Faulty: a task that raised stays recorded.
RemoveUnraised(w) == EndKnowing(w, IF work[w] \in raised THEN tasks ELSE tasks \ {work[w][1]})

\* _remove_task.  If the task is not there, because another job of it has removed
\* it, set.remove raises KeyError; the Pool keeps that to itself too.
RemoveTask(w) == EndKnowing(w, tasks \ {work[w][1]})

-----------------------------------------------------------------------------
(* shutdown, by a client, and interrupts, by anyone.                       *)

\* shutdown(wait): the Pool is closed, and the client waits for it or not.
CloseAnd(c, wait, close) ==
    /\ MayCall(c)
    /\ closed' = (closed \/ close)
    /\ joining' = IF wait THEN joining \cup {c} ELSE joining
    /\ UNCHANGED <<tasks, jobs, interrupted, settled, addVars, workVars>>

\* Faulty: a shutdown that waits does not close the Pool first.
ShutdownOpen(c, wait) == CloseAnd(c, wait, ~wait)

Shutdown(c, wait) == CloseAnd(c, wait, TRUE)

\* Pool.join returns once no job is left and its threads are idle.
JoinReturns(c) ==
    /\ c \in joining
    /\ jobs = <<>> /\ \A w \in Worker : pc[w] = "idle"
    /\ joining' = joining \ {c}
    /\ settled' = TRUE
    /\ UNCHANGED <<tasks, jobs, interrupted, closed, addVars, workVars>>

Interrupt(t) ==
    /\ t \notin interrupted
    /\ interrupted' = interrupted \cup {t}
    /\ UNCHANGED <<tasks, jobs, addVars, shutdownVars, workVars>>

-----------------------------------------------------------------------------
AddStep(th) == ApplyAsync(th) \/ RefuseAdd(th)

WorkerStep(w) ==
    \/ TakeJob(w) \/ CallOnCancelled(w) \/ CallRun(w) \/ TaskReturns(w)
    \/ TaskRaises(w) \/ HandleError(w) \/ RemoveTask(w)

Next ==
    \/ \E th \in Thread : (\E t \in Task : BeginAdd(th, t)) \/ AddStep(th)
    \/ \E w \in Worker : WorkerStep(w)
    \/ \E c \in Client : (\E wait \in BOOLEAN : Shutdown(c, wait)) \/ JoinReturns(c)
    \/ \E t \in Task : Interrupt(t)

Spec == Init /\ [][Next]_vars

\* Threads are scheduled, locks are released, and tasks come to an end.
Fairness ==
    /\ \A th \in Thread : WF_vars(AddStep(th))
    /\ \A w \in Worker : WF_vars(WorkerStep(w))
    /\ \A c \in Client : WF_vars(JoinReturns(c))

FairSpec == Spec /\ Fairness

-----------------------------------------------------------------------------
(* Properties.                                                             *)

\* The type invariant of the pool's state.
TypeOK ==
    /\ tasks \subseteq Task /\ interrupted \subseteq Task
    /\ tasksLocked \in BOOLEAN /\ closed \in BOOLEAN /\ settled \in BOOLEAN
    /\ jobs \in Seq(Job)
    /\ adds \in [Task -> 0..MaxAdds]
    /\ adding \in [Thread -> Job \cup {NoJob}]
    /\ joining \subseteq Client
    /\ pc \in [Worker -> {"idle", "started", "running", "cancelling", "failed", "removing"}]
    /\ work \in [Worker -> Job \cup {NoJob}]
    /\ accepted \subseteq Job /\ shared \subseteq Job /\ ran \subseteq Job /\ cancelled \subseteq Job
    /\ raised \subseteq Job /\ reported \subseteq Job /\ finished \subseteq Job

\* has_tasks().
HasTasks == tasks # {}

\* _tasks has the task of every unfinished job, unless two jobs of that task were
\* in the pool at a time and one of them has ended since: _remove_task then takes
\* the task out for both.
ForgetsOnlyShared ==
    \A j \in accepted \ finished :
        j[1] \notin tasks => j \in shared /\ \E i \in shared \cap finished : i[1] = j[1]

\* _tasks has no task whose last addition is over; one that is neither accepted
\* nor under way was refused by the closed pool.
RemembersNoFinished ==
    \A t \in tasks : LET last == <<t, adds[t]>> IN
        /\ last \notin finished
        /\ last \in accepted \/ closed \/ \E th \in Thread : adding[th] = last

\* What has_tasks() goes by is right however additions, ends, interrupts and a
\* shutdown interleave, but for the two ways in which it is not what its
\* documentation says: a task that is in the pool twice is forgotten when the first
\* of its jobs ends, one that was refused never is.
TasksTracked == ForgetsOnlyShared /\ RemembersNoFinished

\* A job is worked on by one thread and once, and its task is either run or
\* told that it was cancelled, never both and never neither.
RunOrCancelled ==
    /\ \A v, w \in Worker : v # w /\ work[v] # NoJob => work[v] # work[w]
    /\ \A w \in Worker : work[w] \notin finished
    /\ ran \cap cancelled = {}
    /\ finished \subseteq ran \cup cancelled

\* The error handler hears of a job exactly when its task raised, in run or in
\* on_cancelled.
ErrorsReported ==
    \A j \in finished : j \in reported <=> j \in raised /\ HasHandler

\* A shutdown that waits returns only when every accepted job is finished, and
\* from then on nothing runs.
SettledMeansIdle ==
    settled => /\ accepted \subseteq finished
               /\ \A w \in Worker : work[w] = NoJob

\* Every accepted job comes to one good end, whoever interrupts its task, adds it
\* again or shuts the pool down: it is run or cancelled, its error is reported, and
\* a shutdown has waited for it.
JobsEndRight == RunOrCancelled /\ ErrorsReported /\ SettledMeansIdle

Interface == INSTANCE ThreadPool
                WITH open <- ~closed, ended <- finished

\* The pool keeps the promise of its interface: it accepts jobs only while it is
\* open, is through with each once, and lets a shutdown that waits return only
\* when all have ended.
ImplementsThreadPool == Interface!Spec

\* The same with the promise of progress: every accepted job comes to its end.
ImplementsFairThreadPool == Interface!FairSpec

\* A shutdown that waits comes back.
ShutdownReturns == \A c \in Client : c \in joining ~> c \notin joining

\* What the documentation of has_tasks says: it is True only if there are
\* running or pending tasks.  A task whose addition was refused stays for good.
TasksMeanWork ==
    HasTasks => (accepted \ finished) # {} \/ \E th \in Thread : adding[th] # NoJob
=============================================================================
