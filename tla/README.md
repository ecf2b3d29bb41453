# Zync Python client: TLA+ models and proofs

The Zync Python client is the library that host applications (Maya, Nuke, 3ds
Max, Houdini, Cinema 4D) load to prepare, check and submit render jobs to the
Zync service. This directory models in TLA+ what several actors do to one another
in it: the threads of a plugin through `zync_threading/`, the preflight checks, the
HTTP session with its logins, the submission of jobs to a service that may answer
late or never, the settings that processes share on disk, and the user's clicks in
the file dialog. TLC checks the modules on small instances; TLAPS proves their
safety properties for every value of the constants.

1. [The system](#1-the-system): its parts, their state, how they interact
2. [Plan](#2-plan): modules, composition, order
3. [Modules](#3-modules) and how they correspond to the code
4. [Runs](#4-runs): what is asked, bounds, fairness
5. [Proofs](#5-proofs)
6. [Disagreements found](#6-disagreements-between-code-and-documentation)
7. [What is not modelled](#7-what-is-not-modelled)

## 1. The system

Host applications have one main thread, which runs their event loop and is the
only one that may touch their scene or their user interface. The client does its
slow work (checks, requests) on the threads of a pool, and needs the main thread
from there. Everything hard in this code is in that traffic.

| Component (source) | State | Operations | Correct when |
|---|---|---|---|
| Main thread executor (`zync_threading/main_thread_executor.py`, `main_thread_action.py`, `main_thread_caller.py`, `thread_synchronization.py`) | a FIFO of actions and its lock; per call a wait condition, a result, a `check_interrupted` | `run_on_main_thread` (on and off the main thread), `maybe_execute_action`, the hooks `on_action_submitted` and `on_actions_pending` | each function runs once, in its caller's order, and answers its own call; no wake-up is lost; the two kinds of lock never block each other; an interrupt reaches a waiting caller and nobody else |
| Interruptible tasks (`base_interruptible_task.py`, `interruptible_task.py`, `forwarding_interruptible_task.py`) | one flag, never reset | `interrupt`, `is_interrupted`, `check_interrupted`, `run`, `on_cancelled` | an interrupted task is cancelled if it has not started, and can notice if it has |
| Thread pool (`thread_pool.py`, `default_thread_pool.py`) | `_tasks` and its lock; Python's `multiprocessing.dummy.Pool` | `add_task`, `_run_task`, `_remove_task`, `shutdown`, `has_tasks` | every accepted task is run or cancelled, once; errors reach the handler; a waiting shutdown returns when all is done and not before |
| Asynchronous calls (`async_caller.py`) | `_async_tasks` and its lock; per call the callbacks | `start_async_call`, `async_call`, `interrupt_all_async_calls` | calls are tracked while they run, outcomes reach the right callback, interrupting all leaves none out |
| Preflight check suite (`zync_preflights/`) | the unfinished checks and their lock; per check a status | `start`, `cancel`, the wrapper's `run` and `on_cancelled`, `_finalize_check` | the listener hears of each check in order; the end is announced once and last; a cancel stops what is pending and interrupts the rest |
| HTTP session (`zync.py`, `HTTPBackend`) | token, e-mail, cookie; credentials on disk | `request`, `login_with_google`, `logout`, `has_user_login`, `set_cookie` | an authentication error comes out only when the retries are used up; `has_user_login()` is right, or errs as stated; every call ends |
| Service queries and jobs (`zync.py`, `Zync`, `Job` and subclasses) | the job's id; configuration fetched once | `submit_job`, `preflight`, `submit`, `set_status`, queries of price, instance types, files | one submission makes one job, and the id is that of the last one that succeeded |
| Settings (`settings.py`) | `config.json` and `aux_files.json` on disk, and a copy of each in every process | `get_...` from the copy, `put_...` to the copy and the whole file | a file can be read, and holds what was saved last |
| File selection dialog (`file_select_dialog.py`) | check marks of entries in a tree that is listed when needed | `setData`, `data`, opening, accepting and rejecting; `get_extra_assets` for the upload | a click does what it says, and what is shown is uploaded |
| Consent dialog, dialog helper, analytics, examples, vendored libraries | little or none | | see section 7 |

How they interact:

- A pool thread runs a task. The task calls `run_on_main_thread`; the executor
  queues an action, tells the host through a hook and waits, with a time-out of
  one second, on the call's own condition. The host's event loop calls
  `maybe_execute_action`, which runs one action while it holds the queue lock.
- `AsyncCaller` and `PreflightCheckSuite` are clients of the pool: they hand it
  tasks and are called back on its threads. Their callbacks may be decorated with
  `MainThreadCaller.main_thread`, which brings the executor in again.
- A plugin has one `HTTPBackend`. Nothing in it is locked, and preflight checks,
  asynchronous calls and the user interface all send requests through it. Its
  `request` repeats a request after a new login; the vendored `httplib2` below it
  repeats a request of its own accord and follows redirects.
- The dialog reads its marks from the settings when it is opened and saves them when
  it is accepted; the upload of a job walks the saved directories. All host
  applications of a user share the settings' files.

Hard behaviours, line by line, are the `hazards` of `PROJECT.json`. In short:
interleavings of the executor's two kinds of lock, results that race time-outs
and interrupts, hooks that coalesce, tasks that are cancelled, raise or are
refused at every point of the pool, callbacks under locks, retries around retries
on state that other threads reset, requests carried out without an answer, files
shared by processes that die while they write, and marks left by earlier clicks.

## 2. Plan

In the order of their weight for the system. Everything planned is there.

1. **Executor** - `MainThreadCalls` (what it promises), `MainThreadExecutor` (the
   code), proofs of its safety and of the refinement.
2. **Thread pool** - `ThreadPool` (the interface), `DefaultThreadPool` (the code),
   proofs and refinement.
3. **Clients of the pool** - `PreflightCheckSuite` and `AsyncCaller`, both composed
   with the interface `ThreadPool` rather than with its implementation, with proofs.
4. **Host application** - `HostApplication` composes the executor, in full, with the
   pool's interface and with what a host's main thread does besides: shutdowns,
   nested event loops, hooks that raise. It is shown and proved to implement
   `MainThreadCalls`.
5. **HTTP session** - `HTTPBackend`, with proofs.
6. **Job submission** - `JobSubmission`: script, `request`, `httplib2` and service, with
   proofs.
7. **Settings** - `Settings`: processes, whole-file writes, crashes, with proofs.
8. **File selection dialog** - `CheckableDirModel`: a pure algorithm on marks, against
   the reference definition of what a selection means, with proofs.

Every safety property of a passing run is proved. What could follow is a suite that is
started again, and a longer life of the session (its constructor, several accounts).

Modules that are proved about hold no recursive operators: recursion up the tree of
the dialog is by recursive functions, and sequences are handled position by position.

## 3. Modules

### Executor

`MainThreadExecutor` has one action per step between two accesses to shared
state. A *call* `<<t, n>>` is the n-th `run_on_main_thread` of background task `t`.

| Code | Model |
|---|---|
| `_action_queue`, `_action_queue_lock` | `queue`, `queueLocked` |
| the call's `WaitCondition` and its lock | `conditionLock[c]`; waiting is `pc[t] = "waiting"` |
| `_ActionContext.result` | `result[c]` |
| `check_interrupted()` of the call raises | `Raises(t)`: the flag, unless the call ignores interrupts |
| entering the condition, queueing, hook, loop | `EnterCondition`, `Submit`, `Announce`, `Wait`, `Timeout`, `Reacquire`, `LoopAgain` |
| leaving the loop | `Collect` then `Return`, or `AbandonCall` when a check raises |
| `maybe_execute_action` | `HostCalls`, then `FindEmpty` or `PopAction`, `ExecuteAction`, `SubmitResult`, `NotifyAll`, `FinishAction` |
| `run_on_main_thread` on the main thread | `BeginNested`, `EndNested`: no queue, no lock |

A hook does not call `maybe_execute_action` itself, it asks the host to do so;
`wake` is that request, and requests made before the host gets round to it are one.
A function's value is one of two results, `"value"` or `"error"`: the properties
compare results call by call, so more values would tell no more apart.

`MainThreadCalls` is the abstract specification: a FIFO of calls, performed one at
a time in the order of submission, each answered with its own result or with an
interruption; a call whose caller gave up is still performed. The refinement
mapping: the pending calls are the one whose function is running, then the queue;
`done` is what has been stored or is on its way; `answer` is `outcome`.

### Thread pool

`DefaultThreadPool` works on *jobs* `<<t, n>>`, the n-th addition of task `t`, since
nothing keeps a task from being added again. Python's `Pool` is external: a FIFO
of jobs, `apply_async` that asserts the pool is open, `join` that returns when the
FIFO is empty and the threads are idle (`TakeJob`, `JoinReturns`). `add_task` is two
actions, since the pool may be closed in between: `BeginAdd` (lock, record), then
`ApplyAsync` or `RefuseAdd`. `_run_task` is `CallOnCancelled` or `CallRun`,
`TaskReturns` or `TaskRaises`, `HandleError` if it raised, `RemoveTask` (the
`finally`). Running tasks add tasks too. `shared` is history: the jobs of a task that
were in the pool at the same time, of which `_tasks` has one record only.

`ThreadPool` is the interface: jobs are accepted while it is open, each ends once,
and a waiting shutdown settles when all have ended. The mapping is
`open <- ~closed`, `ended <- finished`.

### Preflight check suite

`PreflightCheckSuite` takes the pool from its interface: its steps conjoin
`Pool!Accept`, `Pool!End`, `Pool!Close` and `Pool!Settle`. The host thread runs
`start` (`Start`, `TellPending`, `AddCheck`, `StartReturns`, `StartRaises`) and
`cancel` (`CallCancel`, `BeginCancel`, `InterruptCheck`, `CancelReturns`) under the
suite's lock; each check's wrapper runs on a thread of the pool (`Begin`,
`RunEnds`, `ChangeExecutionStatus`, `FinalizeCheck`, `ChecksFinished`). When the
callbacks need the main thread (`OnMainThread`) they run only while the host
thread is in its event loop. `ListenerFails` follows an exception of the listener
to where Python takes it: out of the wrapper, into the `except` clauses, or into the
`finally` clause. `todo` is the rest of a loop over the set; a set has no order,
so any order is possible. `begun` is history: the checks that the pool had started,
which is where it reads their interrupt, when the first cancel returned.

### Asynchronous calls

`AsyncCaller` composes with `ThreadPool` in the same way. `TrackTask`, `AddTask` and
`AddRaises` are `start_async_call`; `BeginInterruptAll`, `InterruptNext` and
`EndInterruptAll` are `interrupt_all_async_calls`; the other actions follow the
task's `run` through its `try` statement: two checks, `func`, `on_success`, the
`except` clause with `on_error`, the `finally` clause. Only the fact that there is a
callback matters of it (`HasSuccess`, `HasError`).

### Host application

`HostApplication` extends `MainThreadExecutor`, so that its steps are the executor's,
each joined with what it leaves alone (`AsBefore`), and uses the pool as
`INSTANCE ThreadPool`. `host` says what holds the main thread up: nothing, a shutdown
that waits for the pool (`CallShutdown`, `ShutdownReturns`; from the event loop or from
within a task's function), or itself: `CallAgain` is a nested event loop that calls
`maybe_execute_action` while a function runs, on the thread that holds the queue lock,
which is not reentrant. `SubmittedHookRaises` and `PendingHookRaises` are exceptions
of the two hooks, which leave `run_on_main_thread` and `maybe_execute_action` where
Python takes them.

### HTTP session

`HTTPBackend` lets any number of threads be inside `request`, `login_with_google`
and `logout`, with one action per read or write of token, cookie or credentials
file, and one per answer of a site. Sites answer as they like, users decline,
files cannot be removed, connections break. Of a token or cookie only its presence
is kept; the e-mail address goes with the token. `rejected`, `lost` and `refused`
count, as history, why attempts failed; `alone` and `agreed` say whether an operation
had the connection to itself and began with token and cookie in agreement. The
constructor's own login is the initial state; `external` is whether token and e-mail
were handed to it, in which case no login asks the user.

### Job submission

`JobSubmission` has one script that submits a job (`SubmitJob`, checks first, or
`Resubmit`) and sends status messages (`SetStatus`, `RefuseStatus`), and a service.

| Code | Model |
|---|---|
| `submit_job`, `Job.preflight` | `SubmitJob`, `CheckMatches`, `ChecksPass` |
| `Job.submit`, `self.id` | `Resubmit`, `Receive`, `id` |
| the loop of `HTTPBackend.request` | `BeginAttempt`, `LoginFails`, `Refused`, `Fail`, `attempts` |
| `_conn_request`: `i`, `seen_bad_status_line`, the two exceptions it retries after | `Unreachable`, `Send`, `Closed`, `Break`; `i`, `stale` |
| redirects in `_request` | `Follow`, or `Fail` when `redirections` are used up; `method` |
| the service | `Serve` (it creates the job, or refuses, answers with an error, or redirects, before or after the script has given up), `Answer` for other requests |

Requests to create a job are numbered, and a job has the number of the request that
created it: that is what lets a property say which job an id is of.
`unanswered`, `failed` and `returned` are history.

### Settings

`Settings` has any number of processes, each with a copy of both files' values
(`ReadConfig`, `ReadAuxFiles`). `Put` is `put_aux_files` or `put_pvm_ack` up to `open`,
which truncates; `Close` is the end of the `with` block, when the text gets to the
file; in between other processes read, put and close, and the process may be killed
or the disk be full (`CutShort`). `PutFails` is a file that cannot be opened. A value
is the number of the put that set it, so that "older" has a meaning. When two writes
overlap the file has one of the texts, or a mixture that is no JSON (`garbled`).
`harmed`, `undone`, `fresh` and `last` are history.

### File selection dialog

`CheckableDirModel` is `setData` as a function on marks: `ClearDown`, `Toggle`,
`SetStatusSideways`, `PropagateUp`, in the order of the code, `GetCheckStatus` and
`Shown` are what it shows, and `Open`, `Accepted`, `Rejected` join it to the settings.
`ClearDown` reaches one level, as the code does. `Propagated` recurs as `_propagateUp`
does, from an entry to its directory up to the root; that one gets there is the
assumption `NoCycles` on the tree. A directory may become *blind*
(emptied, unreadable, or named like a glob pattern): listing it yields nothing. The
reference definition is `Selection`: the files that are, or are below, a
checked entry. `Assets` is what the upload's walk finds, entry by saved entry.

### Instances and faulty variants

The `MC...` modules give names to small constant values and symmetries. Definitions
whose comment begins with *Faulty* (`PeekAction`, `TrackUnlocked`, ...) are not part
of any specification: each is a plausible bug that a property is sensitive to,
and `PROJECT.json` pairs them. A property that is a conjunction of named parts
(`ServedRight`, `JobsEndRight`, ...) has one for most of its parts.

## 4. Runs

| Run | Configuration | Shows |
|---|---|---|
| `executor_safety` | 2 tasks, 2 calls each, polling host, every interrupt; symmetric tasks | the executor's safety properties and that it implements `MainThreadCalls` |
| `executor_liveness` | 2 tasks, 1 call each, 1 nested call, hooks | every call comes back, every queued action runs, abandoned ones too, although hooks coalesce |
| `host_application` | 2 tasks, 1 call each, hooks, all of the host's doings | the calls still implement `MainThreadCalls`; a waiting task notices its interrupt whatever holds the main thread up; what alone can keep a call or a shutdown from coming back; no action is forgotten but after a hook raised |
| `pool` | 2 tasks added up to twice, 1 client, 2 workers, a handler | jobs are run or cancelled once, errors are reported, a settled pool is idle, `has_tasks()` is wrong only about a task that was in the pool twice at a time, or was refused; `ThreadPool` is implemented, with its promise of progress, and a waiting shutdown returns |
| `pool_leak` | 2 clients, each task added once | violation, section 6 |
| `suite_checks` | 3 checks, 1 cancel, a listener that may raise, `on_checks_finished` on the main thread, a pool that may be shut down | order of the listener's news, one announcement and last; after a cancel a check that the pool had not started is never told to be RUNNING nor run, and the rest are interrupted; the announcement comes and a cancel takes effect, but for the deadly embrace of these two and for a listener that raises |
| `async_calls` | 2 calls, with and without callbacks, 2 callers | tracking, reporting, interrupting all, and that every call ends |
| `session` | 2 threads, 2 x 2 attempts, logins and logouts, credentials given or on disk | every call ends; an authentication error means that the retries were used up, and leaves a clean state; `has_user_login()` is right after what went undisturbed and well, and which way it may err after what did not |
| `job_submission` | 2 attempts, 1 redirect, 2 submissions, 5 requests | an id is that of the last submission that succeeded; why there can be a second job or one nobody knows; what was stopped made none; at most two requests an attempt; every call ends |
| `settings` | 2 processes, 3 settings in 2 files, 4 puts; symmetric | when a file cannot be read, and when something saved is lost |
| `dialog` | 7 entries, 3 directories deep, one of which may turn blind | what a click does to the selection, in a directory that cannot be listed too; that marks stay consistent, that the dialog opens again as it was left; that what was shown is uploaded, but for what is in directories that cannot be listed by then |
| `dialog_clear` | the same tree, no blind directory | violation, section 6 |

### Bounds, and why they are enough

- Two tasks with two calls each (`MaxCalls = 2`) are the least in which a call can
  pick up what an earlier, abandoned call left, and in which two calls compete for
  the queue, the order and the lock. One nested call shows that it takes no lock.
- A client, running tasks that add tasks and two workers reach every race of
  `add_task`, `close`, `join` and the start and end of a task; `MaxAdds = 2` is a task
  in `_tasks` once and in the Pool twice. A shutdown may be called again and again,
  waiting or not.
- Three checks: one that ends, one that is the last and one still pending when
  the suite is cancelled.
- In `host_application` the host has two tasks, so that one keeps the queue lock while
  the other needs it; a second call of a task adds nothing to what holds it up.
- The session has 2 x 2 attempts with two threads, the least in which both retry loops
  repeat and the threads disturb each other in each.
- Two attempts of two requests each are one submission's most (`AtMostTwicePerAttempt`);
  the fifth of `MaxRequests` belongs to a second submission, which is what it takes for
  an old id and an old request to be mistaken for new ones. One redirect is followed, a
  second is refused.
- Four puts: a stale copy takes two (one process saves, another undoes it), a third
  meets them in the other file or cuts one short, a fourth mends it.
- The dialog's tree has a file and a directory side by side at two depths, and two
  files at the third: a click can be at, just below and two levels below a checked
  directory, which are the cases the code tells apart, and marks can be left two levels
  down. The number of clicks
  is not bounded.
- Interrupts, time-outs and outcomes are not bounded.

The safety properties are proved without these bounds (section 5).

### Fairness, and why the code justifies it

- *Threads are scheduled*: weak fairness of each task's, worker's, caller's or
  session thread's own steps. A task in `waiting` has a time-out, so that it too goes
  on without being notified.
- *The executor's own code* is weakly fair, and the step that takes a call's
  condition (`SubmitResult`) strongly: the caller releases that lock in each
  round of waiting, for up to a second, but takes it again. The same holds of
  a task's end against a caller that interrupts all calls again and again
  (`UntrackTask`).
- *The host*: in `executor_liveness`, functions on the main thread end, and
  `maybe_execute_action` is called after a hook asked for it (weak fairness of
  `HostCalls`). `host_application` assumes less: the event loop gets round to requests
  only while nothing holds the main thread up, and a function may go on for ever.
- *Tasks, checks and requests end*; connections time out, users answer. A script's
  thread runs, and its wait for an answer times out: nothing is assumed of the service,
  which may never get round to a request.
- Nothing is assumed of those who *begin* something: tasks, calls, cancels,
  interrupts and shutdowns may or may not happen. `settings` and `dialog` have safety
  properties only and no fairness.

TLC's deadlock check is off in three runs, in which the system really may stop:
`suite_checks` (the embrace, or all checks done and the cancel used up),
`host_application` (a nested event loop; a shutdown that waits for a task that waits
for the main thread) and `settings` (a broken file that no process has a copy of).
What is allowed to stop, and when, is what their properties say.

## 5. Proofs

Each `...Proofs` module extends its component and proves `Spec => []Inv` through
an inductive invariant `IInv`: `Init => IInv`, `IInv /\ [Next]_vars => IInv'` (a lemma
for each action) and `IInv => Inv`. Assumptions are only those on the constants:
bounds are naturals, flags Boolean, "no task" is no task, and the dialog's entries are
a tree, in which every way up ends at the root.

- **`MainThreadExecutorProofs`**: `TypeOK`, `ServedRight` (`AtMostOnce`, `OwnResult`,
  `ProgramOrder`, `InterruptionJustified`) and `NobodyStuck` (`NoMissedWakeup`,
  `NoDeadlyEmbrace`), for any number of tasks and calls. None is inductive. `IInv`
  adds two sides. The main thread's: it has a call exactly while it holds the queue lock;
  queued calls have neither run nor been answered and are ordered task by task, after the
  running one; a running function has run zero times, a finished one once. The tasks': a
  call that was not submitted has left no trace (it is in no queue, has no result, no
  outcome); results exist only of functions that ran; each condition's lock is
  held exactly by the task inside the critical section or by the notifying main
  thread. "Left no trace" is what makes `Submit` preserve the rest: the new action
  cannot be one that ran before.
  The refinement: every behaviour is one of `MainThreadCalls`. `Submit` maps to `Submit`,
  `ExecuteAction` to `Perform`, `Return` to `Answer`, `RefuseCall` to `GiveUp`,
  `AbandonCall` to `GiveUp` or to an `Answer` that came too late, the rest to stutters;
  `PopAction` stutters because the running call is still pending.

  The second half is about `HostApplication`. Its steps are the executor's, exceptions of
  hooks, steps of the host alone, and the call that blocks the main thread (`HostSteps`);
  the last two leave the executor's variables as `IInv` wants them, and so does an
  exception, which ends the call or gives up the queue lock. So `NobodyStuck` holds there,
  and the refinement again, in which a call that a hook has ended is given up
  (`KeepsImplementingCalls`). `HInv` adds `NoForgottenAction`, and `CallsAreWorking`: a task
  in a call is one that the pool has accepted and is not through with. From that follows
  that, when a shutdown that waits has returned, no task is in a call
  (`SettledPoolCallsNothing`).
- **`DefaultThreadPoolProofs`**: `TypeOK`, `JobsEndRight` (`RunOrCancelled`,
  `ErrorsReported`, `SettledMeansIdle`), `TasksTracked` (`ForgetsOnlyShared`,
  `RemembersNoFinished`) and the refinement of
  `ThreadPool`, however often tasks are added. `IInv` says that the thread
  inside `add_task` is alone and its job new, that queued jobs are distinct and untouched, what has happened to
  a worker's job at each place, and that no accepted job is lost: it is queued, worked
  on or finished. The last is why an empty queue and idle threads mean that all
  is done. `Sharing` says that jobs of one task that are unfinished at the same time are
  in `shared`: so the end of a job that is not shared removes the record of no other.
- **`AsyncCallerProofs`**: `TypeOK`, `TrackedUntilRun`, `Reported`, `InterruptsAll`. `IInv`
  adds that a caller adds only its own tracked task, that the loop of
  `interrupt_all_async_calls` and what it has interrupted cover the set (the lock
  keeps the set from growing), and what each place in `run` says of the callbacks.
- **`PreflightCheckSuiteProofs`**: `TypeOK`, `ToldInOrder`, `FinishedLast`,
  `CancelStopsPending`. `IInv` adds what was told last of a check at each place, who holds
  the lock, that the set of checks is empty from the moment that one is the last,
  that a cancel covers what is not finalized, that a check which the pool has not started
  was told at most to be PENDING (`Unstarted`), and that of one it had not started when the
  first cancel returned nothing follows but CANCELLED (`HeldBack`).
- **`SettingsProofs`**: `TypeOK`, `BrokenHasReason`, `NothingLost`, for any processes,
  settings and number of puts. `IInv` adds `SaversKnow` (a process that saves alone is
  the only one that saves that file, and a file being saved is empty until somebody
  else interferes), `FreshIsNew` (a fresh copy has no value older than the last that
  was saved) and `PutsBound` (no value is newer than the latest put). Without
  `FreshIsNew` a save could bring an old value back without being stale.
- **`JobSubmissionProofs`**: `TypeOK`, `KnowsItsJobs` (`IdIsOfJob`, `NoUnknownJob`,
  `StoppedMeansNone`) and `RepeatsHaveReason` (`SecondJobHasReason`,
  `AtMostTwicePerAttempt`), for any number of attempts, redirects and submissions. `IInv`
  follows the request that creates a job: `Fates` (what is in flight is being waited for or was given up, a job is known, given up, or about to be
  known), `LastOfSubmission` (a request that was answered for good is its submission's
  last), `LeadsToJob` (a good answer, or the GET a 303 led to, is about a job that
  exists), `Sends` (how many requests an attempt can have sent, place by place) and
  `Counters`.
- **`HTTPBackendProofs`**: `TypeOK`, `AuthErrorJustified` and `LoginStaysKnown`, for any
  threads and numbers of attempts. `IInv` adds which operation can be at each place
  (`PlacesMatch`), that the failures counted add up to the attempts made, place by place
  (`FailuresAddUp`), what an operation that is alone with the connection knows of token,
  cookie and the credentials on disk at each place (`Undisturbed`), and that a failure for want of
  authentication leaves none of them (`NothingLeft`). `FailuresAddUp` gives the first half of
  `AuthErrorJustified`, `Undisturbed` the second.
- **`CheckableDirModelProofs`**: `TypeOK`, `ClickIsRight`, `MarksMakeSense`, `ReopensTheSame`,
  `UploadsWhatWasShown`, in any tree and with any directories that become impossible
  to list at any time. Such directories are exceptions in the statements: a click on a
  checked entry unchecks it, tidy marks stay tidy and the selection changes as it should
  if the directories above can be listed, and a file is uploaded as it was shown unless
  it is in a directory shown as checked that cannot be. `BlindIsChecked` says what a click
  does when they cannot. `IInv` is `TypeOK` and `PartialHasReason`; what is difficult is a
  single click, which goes through all directories up to the root.
  - *Trees.* `TreeInduction` (a set that has the root, and with a directory what is in it, has
    every entry) follows from `NoCycles`; `TreeRecursion`, that functions can be defined down
    the tree, from it. These give what the recursive functions compute (`AncestorsDef`,
    `StatusDef`, `PropagatedDef`), and that the directories above an entry form a chain
    (`AboveLinear`).
  - *Going up.* `UpInduction` is the induction on the steps of `_propagateUp`: what holds of
    the marks and an entry, and still does of the marks that its directory is given and
    that directory, holds in the end of the root. Each property has its own relation of
    that kind. `ReasonsUpTo` and `TidyUpTo` leave out the directories that are still to be
    marked; `CheckedUpTo` says which entry makes the clicked one checked so far;
    `UncheckedUpTo` says that after unchecking no directory becomes checked and which ones
    cease to be; `SelectsTheSame`, that a directory's new mark selects no more and no less
    than what is in it, if none above was checked.
  - *From marks to selections.* `CheckedDef` (an entry is checked because of one above it with
    no other mark on the way) holds of any marks, which is what `ClickToggles` needs;
    `CheckedWhenTidy` (it is, or is below, a checked one) is what tidiness gives.
    `UncheckingBelow` says exactly which entries are checked after unchecking one below a
    checked directory.

Only model-checked: liveness and fairness (`ImplementsFairCalls`, `EveryCallReturns`,
`OnlyMainThreadHolds`, `ImplementsFairThreadPool`, `ShutdownReturns`, `SuiteGoesOn`,
`AddedEnds`, `EveryCallEnds`, `CallEnds`), which is out of the prover's reach. The
safety part of the two refinements with fairness is proved (`RefinesCalls`,
`RefinesThreadPool`).

## 6. Disagreements between code and documentation

- **`pool_leak`**: `has_tasks` "returns True if there are running or pending tasks and
  False otherwise" (`default_thread_pool.py:82`). `add_task` records the task before
  `apply_async`, which raises once the pool is closed; the record stays and
  `has_tasks()` is True for ever.
- **`dialog_clear`**: `_clearDown` "Clears check status for all elements down the
  hierarchy" (`file_select_dialog.py:182`). It deletes an entry's mark and then calls
  itself for that entry, which returns at once because the entry is not in the
  dictionary any more: marks two or more levels below stay.

Further behaviour the models make explicit, which a reader should know.

*Pool.* A second disagreement with `default_thread_pool.py:82`: `_tasks` is a set, and the
end of a job removes its task (line 115), so `has_tasks()` is False while another job of
the same task is pending or running, and the end of that one raises a `KeyError`, which
the Pool swallows. `ForgetsOnlyShared` states it as the exception it is: only a task
added again before its first job has ended can be forgotten. The client adds no task
twice.

*Executor and host.* An action whose caller was interrupted stays in the queue and is
executed (`GiveUp` leaves it there); a caller blocked on the queue lock, because
another task's function runs, does not look at its interrupt (`KeptWaiting`). A function
that runs a nested event loop whose host calls `maybe_execute_action` blocks the main
thread on its own lock for good (`CallAgain`). A shutdown in a task's function never
returns when another task is at the queue lock, interrupted or not (`JoinEnds`).

*Pool's clients.* A call that is cancelled before it starts, or refused by the pool,
stays in `_async_tasks` (`TrackedUntilRun`); `on_error` is also called for interrupts and
for what `on_success` raised (`Reported`); a listener that raises at RUNNING or in
`on_cancelled` leaves its check unfinalized (`Stranded`). `_finalize_check` calls
`on_checks_finished` under the suite's lock: if that needs the main thread while the
main thread is in `cancel()`, waiting for the lock, neither goes on (`Embraced`).
A check whose interrupt the pool has read (`default_thread_pool.py:103`) before `cancel()`
sets it, but which has not told the listener yet (`preflight_check_suite.py:23-25`), is told
to be RUNNING, and its `run` is called, after `cancel()` has returned; it runs interrupted.
`CancelStopsPending` is about all the others.

*Session.* The token is set before the e-mail address is fetched; when that fails with
`ZyncError` the token stays and `has_user_login()` is True without a session, with
the next login's credentials on disk. A login that the service refuses clears the token
and not the cookie: `has_user_login()` is then False while requests still go through, as
it is after a logout that could not remove the file. `LoginStaysKnown` says that it errs
in no other way, undisturbed.

*Jobs.* A POST that creates a job is sent again by `httplib2` when the connection was
closed without an answer, although the service may have carried it out: one submission
makes two jobs, of which the script knows the second. So does a 303 whose GET is
refused and repeated as a POST after a new login. A wait that times out leaves a job
that may be created later. `set_status` after a failed resubmission is about the
earlier job.

*Settings.* After a save that was cut short the file cannot be read, at every start,
until a process that still has a copy saves it; if none does, it stays so. A process
that saves from an old copy undoes what others saved since, all projects of the file
included.

*Dialog.* Unchecking an entry two or more levels below the checked directory loses what
is beside the directories in between, since only the entry's own level is checked in
their stead (`UncheckLosesInside`). A directory whose listing is empty when one of its
entries is clicked becomes checked, since all of its no entries are: the click that was
to uncheck a file leaves it checked, with all of the directory (`BlindCountsAsChecked`).
When a directory shown as checked cannot be listed at the upload, `glob` finds nothing in it
(`file_select_dialog.py:144`, `258-259`): files that were shown as checked are left out, and
nobody is told (`UploadsWhatWasShown`).

## 7. What is not modelled

- Queries of price, instance types, labels, projects and files (`Zync`), and `Job`'s
  details: they return what the service answers and change no state that a later
  step depends on.
- Consent dialog, dialog helper: forms of the Qt toolkit around `put_pvm_ack`, which is
  in `Settings`. Of the file dialog, the widgets.
- Analytics: one task that posts an event and swallows every exception, on the pool
  that is modelled.
- Of the session, the contents of requests and answers, delays between retries and
  the local web server of the OAuth flow, with its retry after an interrupted system
  call.
- Preflight results are immutable values; `DependencyCheck` is a check like any
  other to the suite.
- A suite that is started twice, or empty: no code does either. One without
  `on_checks_finished`: nothing is called then.
- Steps taken together because nothing observes what is between them: the
  `check_interrupted()` before and after a function called on the main thread
  (`BeginNested`), which may only raise into the caller; a refused login's clearing of
  token and file (`RefuseLogin`); and text that `json.dump` writes before the file is closed
  (`CloseWith`), which is incomplete until then.
- The command line examples, scripts around the calls that are modelled.
- Vendored libraries under `zync_lib/`, but for the retries and redirects of
  `httplib2`. They are most of the source files' lines (idna and Unicode tables, yaml,
  requests, oauth2client, appdirs): some 45,000 of 50,500. They are third-party code with
  projects of their own, and the client uses a few entry points of each. What is mapped
  here is therefore a small share of all lines, although the client's own stateful code
  is covered nearly in full; its remaining lines are Qt forms, parameter checks, wrappers
  of one request and scripts.
