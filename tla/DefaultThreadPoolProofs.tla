------------------------ MODULE DefaultThreadPoolProofs ------------------------
(***************************************************************************)
(* Proofs, for any tasks, clients and workers and any number of additions, *)
(* that the pool runs or cancels every job once, reports its error, lets a *)
(* waiting shutdown return only when all is done, and implements the       *)
(* safety part of its interface.                                           *)
(***************************************************************************)
EXTENDS DefaultThreadPool, TLAPS

InJobs(j) == \E i \in 1..Len(jobs) : jobs[i] = j

JobsDistinct == \A i, k \in 1..Len(jobs) : jobs[i] = jobs[k] => i = k

\* One thread at a time is inside add_task, with a job that is new.
OneAdds ==
    /\ \A th \in Thread : adding[th] # NoJob =>
          /\ tasksLocked
          /\ adding[th] \notin accepted
          /\ adding[th][2] = adds[adding[th][1]]
    /\ \A th, other \in Thread :
          adding[th] # NoJob /\ adding[other] # NoJob => th = other
    /\ \A j \in accepted : j[2] <= adds[j[1]]

\* A job in the Pool's queue was accepted and has not been touched.
Waiting ==
    \A j \in Job : InJobs(j) =>
        /\ j \in accepted
        /\ j \notin ran \cup cancelled \cup raised \cup reported \cup finished
        /\ \A w \in Worker : work[w] # j

\* What has happened to the job that worker w works on, place by place.
WorkingOn(w) ==
    /\ pc[w] = "idle" <=> work[w] = NoJob
    /\ work[w] # NoJob => work[w] \in accepted \ finished
    /\ pc[w] = "started" => work[w] \notin ran \cup cancelled
    /\ pc[w] \notin {"idle", "started"} => work[w] \in ran \cup cancelled
    /\ pc[w] \in {"started", "running", "cancelling"} => work[w] \notin raised \cup reported
    /\ pc[w] = "failed" => work[w] \in raised \ reported
    /\ pc[w] = "removing" => (work[w] \in reported <=> work[w] \in raised /\ HasHandler)

Working ==
    /\ \A w \in Worker : WorkingOn(w)
    /\ \A v, w \in Worker : v # w /\ work[v] # NoJob => work[v] # work[w]

Over ==
    /\ ran \cap cancelled = {}
    /\ ran \cup cancelled \cup raised \cup reported \subseteq accepted
    /\ finished \subseteq accepted /\ finished \subseteq ran \cup cancelled
    /\ ErrorsReported

\* No accepted job is lost.
Accounted ==
    \A j \in accepted \ finished : InJobs(j) \/ \E w \in Worker : work[w] = j

Settling ==
    /\ joining # {} => closed
    /\ settled => closed /\ accepted \subseteq finished

\* A recorded task was added; and jobs of one task that are in the pool at a time
\* are known to share it.
Sharing ==
    /\ \A t \in tasks : <<t, adds[t]>> \in Job
    /\ \A i, j \in accepted \ finished : i # j /\ i[1] = j[1] => i \in shared
    /\ \A th \in Thread : adding[th] # NoJob =>
          /\ adding[th][1] \in tasks
          /\ \A i \in accepted \ finished :
                i[1] = adding[th][1] => i \in shared /\ adding[th] \in shared

IInv ==
    /\ TypeOK /\ JobsDistinct /\ OneAdds /\ Waiting /\ Working
    /\ Over /\ Accounted /\ Settling /\ Sharing /\ TasksTracked

-----------------------------------------------------------------------------
\* The members keep their positions, and c comes last.
LEMMA AppendPositions ==
  ASSUME NEW S, NEW q \in Seq(S), NEW c \in S
  PROVE  /\ Append(q, c) \in Seq(S)
         /\ Len(Append(q, c)) = Len(q) + 1
         /\ \A i \in 1..Len(q) : Append(q, c)[i] = q[i]
         /\ Append(q, c)[Len(q) + 1] = c
  OBVIOUS

\* The oldest member is the first, and the others move up by one.
LEMMA TailPositions ==
  ASSUME NEW S, NEW q \in Seq(S), q # <<>>
  PROVE  /\ Head(q) \in S /\ Head(q) = q[1]
         /\ Tail(q) \in Seq(S)
         /\ Len(q) \in Nat \ {0} /\ Len(Tail(q)) = Len(q) - 1
         /\ \A i \in 1..Len(Tail(q)) : Tail(q)[i] = q[i + 1]
  OBVIOUS

USE MaxAddsIsNat, HasHandlerIsBoolean, NoJobIsNoJob

\* The initial states satisfy the invariant.
LEMMA InitInv == Init => IInv
<1> SUFFICES ASSUME Init PROVE IInv
  OBVIOUS
<1> USE DEF Init
<1>1. TypeOK
  <2>1. <<>> \in Seq(Job) /\ 0 \in 0..MaxAdds
    OBVIOUS
  <2> QED BY <2>1 DEF TypeOK
<1>2. JobsDistinct BY DEF JobsDistinct
<1>3. OneAdds BY DEF OneAdds
<1>4. Waiting BY DEF Waiting, InJobs
<1>5. Working BY DEF Working, WorkingOn
<1>6. Over BY DEF Over, ErrorsReported
<1>7. Accounted BY DEF Accounted
<1>8. Settling BY DEF Settling
<1>9. Sharing BY DEF Sharing
<1>10. TasksTracked BY DEF TasksTracked, ForgetsOnlyShared, RemembersNoFinished
<1> QED BY <1>1, <1>2, <1>3, <1>4, <1>5, <1>6, <1>7, <1>8, <1>9, <1>10 DEF IInv

\* What queueing a job does to the queue.
LEMMA QueueGrows ==
  ASSUME TypeOK, JobsDistinct, NEW j \in Job, ~InJobs(j), jobs' = Append(jobs, j)
  PROVE  /\ jobs' \in Seq(Job) /\ JobsDistinct'
         /\ \A k \in Job : InJobs(k)' <=> InJobs(k) \/ k = j
<1>1. /\ jobs' \in Seq(Job) /\ Len(jobs') = Len(jobs) + 1 /\ Len(jobs) \in Nat
      /\ \A i \in 1..Len(jobs) : jobs'[i] = jobs[i]
      /\ jobs'[Len(jobs) + 1] = j
  BY AppendPositions DEF TypeOK
<1>2. JobsDistinct'
  BY <1>1 DEF JobsDistinct, InJobs
<1>3. ASSUME NEW k \in Job PROVE InJobs(k)' <=> InJobs(k) \/ k = j
  <2>1. ASSUME InJobs(k) PROVE InJobs(k)'
    <3>1. PICK i \in 1..Len(jobs) : jobs[i] = k
      BY <2>1 DEF InJobs
    <3>2. i \in 1..Len(jobs') /\ jobs'[i] = k
      BY <3>1, <1>1
    <3> QED BY <3>2 DEF InJobs
  <2>2. InJobs(j)'
    <3>1. Len(jobs) + 1 \in 1..Len(jobs')
      BY <1>1
    <3> QED BY <3>1, <1>1 DEF InJobs
  <2>3. ASSUME InJobs(k)', k # j PROVE InJobs(k)
    <3>1. PICK i \in 1..Len(jobs') : jobs'[i] = k
      BY <2>3 DEF InJobs
    <3>2. i \in 1..Len(jobs) /\ jobs[i] = k
      BY <3>1, <2>3, <1>1
    <3> QED BY <3>2 DEF InJobs
  <2> QED BY <2>1, <2>2, <2>3
<1> QED BY <1>1, <1>2, <1>3

\* What taking the oldest job does to the queue.
LEMMA QueueShrinks ==
  ASSUME TypeOK, JobsDistinct, jobs # <<>>, jobs' = Tail(jobs)
  PROVE  /\ jobs' \in Seq(Job) /\ JobsDistinct'
         /\ Head(jobs) \in Job /\ InJobs(Head(jobs))
         /\ \A k \in Job : InJobs(k)' <=> InJobs(k) /\ k # Head(jobs)
<1>1. /\ Head(jobs) = jobs[1] /\ Head(jobs) \in Job
      /\ jobs' \in Seq(Job) /\ Len(jobs) \in Nat \ {0} /\ Len(jobs') = Len(jobs) - 1
      /\ \A i \in 1..Len(jobs') : jobs'[i] = jobs[i + 1]
  BY TailPositions DEF TypeOK
<1>2. InJobs(Head(jobs))
  <2>1. 1 \in 1..Len(jobs)
    BY <1>1
  <2> QED BY <2>1, <1>1 DEF InJobs
<1>3. \A i \in 1..Len(jobs') : i + 1 \in 1..Len(jobs)
  BY <1>1
<1>4. JobsDistinct'
  <2> SUFFICES ASSUME NEW i \in 1..Len(jobs'), NEW k \in 1..Len(jobs'), jobs'[i] = jobs'[k]
      PROVE i = k
    BY DEF JobsDistinct
  <2>1. i + 1 = k + 1
    BY <1>1, <1>3 DEF JobsDistinct
  <2> QED BY <2>1, <1>1
<1>5. ASSUME NEW k \in Job PROVE InJobs(k)' <=> InJobs(k) /\ k # Head(jobs)
  <2>1. ASSUME InJobs(k)' PROVE InJobs(k) /\ k # Head(jobs)
    <3>1. PICK i \in 1..Len(jobs') : jobs'[i] = k
      BY <2>1 DEF InJobs
    <3>2. i + 1 \in 1..Len(jobs) /\ jobs[i + 1] = k /\ i + 1 # 1 /\ 1 \in 1..Len(jobs)
      BY <3>1, <1>1, <1>3
    <3>3. jobs[i + 1] # jobs[1]
      BY <3>2 DEF JobsDistinct
    <3> QED BY <3>2, <3>3, <1>1 DEF InJobs
  <2>2. ASSUME InJobs(k), k # Head(jobs) PROVE InJobs(k)'
    <3>1. PICK i \in 1..Len(jobs) : jobs[i] = k
      BY <2>2 DEF InJobs
    <3>2. i # 1
      BY <3>1, <2>2, <1>1
    <3>3. i - 1 \in 1..Len(jobs') /\ (i - 1) + 1 = i
      BY <3>1, <3>2, <1>1
    <3>4. jobs'[i - 1] = k
      BY <3>1, <3>3, <1>1
    <3> QED BY <3>3, <3>4 DEF InJobs
  <2> QED BY <2>1, <2>2
<1> QED BY <1>1, <1>2, <1>4, <1>5

\* Entering add_task preserves the invariant.
LEMMA BeginAddStep ==
  ASSUME IInv, NEW th \in Thread, NEW t \in Task, BeginAdd(th, t)
  PROVE  IInv'
<1> USE DEF IInv, BeginAdd, MayCall, workVars, shutdownVars
<1>1. jobs' \in Seq(Job) /\ JobsDistinct' /\ \A k \in Job : InJobs(k)' <=> InJobs(k)
  BY DEF TypeOK, JobsDistinct, InJobs
<1>0. <<t, adds[t] + 1>> \in Job /\ Unfinished(t) \subseteq Job
  BY DEF TypeOK, Job, Unfinished
<1>2. TypeOK'
  <2>1. adds' \in [Task -> 0..MaxAdds]
    BY DEF TypeOK
  <2>2. adding' \in [Thread -> Job \cup {NoJob}]
    BY <1>0 DEF TypeOK
  <2>3. shared' \subseteq Job
    BY <1>0 DEF TypeOK
  <2> QED BY <1>1, <2>1, <2>2, <2>3 DEF TypeOK
<1>3. OneAdds' BY DEF OneAdds, TypeOK, Job
<1>4. Waiting' BY <1>1 DEF Waiting, TypeOK
<1>5. Working' BY <1>1 DEF Working, WorkingOn, TypeOK
<1>6. Over' BY <1>1 DEF Over, ErrorsReported, TypeOK
<1>7. Accounted' BY <1>1 DEF Accounted, TypeOK
<1>8. Settling' BY <1>1 DEF Settling, TypeOK
<1>9. Sharing' BY DEF Sharing, Unfinished, OneAdds, TypeOK, Job
<1>10. TasksTracked'
  <2>0. shared \subseteq shared'
    OBVIOUS
  <2>1. ForgetsOnlyShared'
    BY <2>0 DEF TasksTracked, ForgetsOnlyShared, TypeOK
  <2>2. ASSUME NEW u \in tasks', u # t
        PROVE  /\ (<<u, adds[u]>> \notin finished)'
               /\ (<<u, adds[u]>> \in accepted \/ closed
                   \/ \E other \in Thread : adding[other] = <<u, adds[u]>>)'
    <3>1. u \in tasks /\ u \in Task /\ adds'[u] = adds[u] /\ \A other \in Thread : adding[other] = NoJob
      BY <2>2 DEF TypeOK, OneAdds
    <3>2. <<u, adds[u]>> \notin finished /\ (<<u, adds[u]>> \in accepted \/ closed
            \/ \E other \in Thread : adding[other] = <<u, adds[u]>>)
      BY <3>1 DEF TasksTracked, RemembersNoFinished
    <3>3. ASSUME NEW other \in Thread, adding[other] = <<u, adds[u]>> PROVE FALSE
      BY <3>1, <3>3 DEF Sharing
    <3> QED BY <3>1, <3>2, <3>3
  <2>3. /\ (<<t, adds[t]>> \notin finished)'
        /\ (\E other \in Thread : adding[other] = <<t, adds[t]>>)'
    <3>1. adds'[t] = adds[t] + 1 /\ adds[t] \in Nat /\ adding'[th] = <<t, adds[t] + 1>>
      BY DEF TypeOK
    <3>2. <<t, adds[t] + 1>> \notin finished
      BY <3>1 DEF OneAdds, Over
    <3> QED BY <3>1, <3>2
  <2>4. RemembersNoFinished'
    BY <2>2, <2>3 DEF RemembersNoFinished
  <2> QED BY <2>1, <2>4 DEF TasksTracked
<1> QED BY <1>1, <1>2, <1>3, <1>4, <1>5, <1>6, <1>7, <1>8, <1>9, <1>10

\* Queueing a job preserves the invariant.
LEMMA ApplyAsyncStep ==
  ASSUME IInv, NEW th \in Thread, ApplyAsync(th)
  PROVE  IInv'
<1> USE DEF IInv, ApplyAsync, Enqueue, workVars, shutdownVars
<1>0. adding[th] \in Job /\ ~InJobs(adding[th])
  BY DEF TypeOK, OneAdds, Waiting
<1>1. /\ jobs' \in Seq(Job) /\ JobsDistinct'
      /\ \A k \in Job : InJobs(k)' <=> InJobs(k) \/ k = adding[th]
  BY <1>0, QueueGrows
<1>2. TypeOK' BY <1>0, <1>1 DEF TypeOK
<1>3. OneAdds' BY <1>0 DEF OneAdds, TypeOK, Job
<1>4. Waiting' BY <1>0, <1>1 DEF Waiting, OneAdds, Working, WorkingOn, Over, TypeOK
<1>5. Working' BY DEF Working, WorkingOn, TypeOK
<1>6. Over' BY <1>0 DEF Over, ErrorsReported
<1>7. Accounted' BY <1>0, <1>1 DEF Accounted, TypeOK
<1>8. Settling' BY DEF Settling
<1>9. Sharing' BY <1>0 DEF Sharing, TypeOK, OneAdds
<1>10. TasksTracked' BY <1>0 DEF TasksTracked, ForgetsOnlyShared, RemembersNoFinished, TypeOK,
                                 Sharing
<1> QED BY <1>1, <1>2, <1>3, <1>4, <1>5, <1>6, <1>7, <1>8, <1>9, <1>10

\* A refused addition preserves the invariant.
LEMMA RefuseAddStep ==
  ASSUME IInv, NEW th \in Thread, RefuseAdd(th)
  PROVE  IInv'
<1> USE DEF IInv, RefuseAdd, Refuse, workVars, shutdownVars
<1>1. jobs' \in Seq(Job) /\ JobsDistinct' /\ \A k \in Job : InJobs(k)' <=> InJobs(k)
  BY DEF TypeOK, JobsDistinct, InJobs
<1>2. TypeOK' BY <1>1 DEF TypeOK
<1>3. OneAdds' BY <1>1 DEF OneAdds, TypeOK
<1>4. Waiting' BY <1>1 DEF Waiting, TypeOK
<1>5. Working' BY <1>1 DEF Working, WorkingOn, TypeOK
<1>6. Over' BY <1>1 DEF Over, ErrorsReported, TypeOK
<1>7. Accounted' BY <1>1 DEF Accounted, TypeOK
<1>8. Settling' BY <1>1 DEF Settling, TypeOK
<1>9. Sharing' BY <1>1 DEF Sharing, TypeOK
<1>10. TasksTracked' BY <1>1 DEF TasksTracked, ForgetsOnlyShared, RemembersNoFinished, TypeOK
<1> QED BY <1>1, <1>2, <1>3, <1>4, <1>5, <1>6, <1>7, <1>8, <1>9, <1>10

\* Taking a job preserves the invariant.
LEMMA TakeJobStep ==
  ASSUME IInv, NEW w \in Worker, TakeJob(w)
  PROVE  IInv'
<1> USE DEF IInv, TakeJob, addVars, shutdownVars
<1>0. Head(jobs) \in Job /\ InJobs(Head(jobs))
  BY QueueShrinks
<1>1. /\ jobs' \in Seq(Job) /\ JobsDistinct'
      /\ \A k \in Job : InJobs(k)' <=> InJobs(k) /\ k # Head(jobs)
  BY QueueShrinks
<1>2. TypeOK' BY <1>0, <1>1 DEF TypeOK
<1>3. OneAdds' BY <1>1 DEF OneAdds, TypeOK
<1>4. Waiting' BY <1>0, <1>1 DEF Waiting, TypeOK
<1>5. Working' BY <1>0, <1>1 DEF Working, WorkingOn, Waiting, TypeOK
<1>6. Over' BY <1>1 DEF Over, ErrorsReported, TypeOK
<1>7. Accounted' BY <1>0, <1>1 DEF Accounted, Working, WorkingOn, TypeOK
<1>8. Settling' BY <1>1 DEF Settling, TypeOK
<1>9. Sharing' BY <1>1 DEF Sharing, TypeOK
<1>10. TasksTracked' BY <1>1 DEF TasksTracked, ForgetsOnlyShared, RemembersNoFinished, TypeOK
<1> QED BY <1>1, <1>2, <1>3, <1>4, <1>5, <1>6, <1>7, <1>8, <1>9, <1>10

\* Cancelling a job preserves the invariant.
LEMMA CallOnCancelledStep ==
  ASSUME IInv, NEW w \in Worker, CallOnCancelled(w)
  PROVE  IInv'
<1> USE DEF IInv, CallOnCancelled, CancelAnd, addVars, shutdownVars
<1>1. jobs' \in Seq(Job) /\ JobsDistinct' /\ \A k \in Job : InJobs(k)' <=> InJobs(k)
  BY DEF TypeOK, JobsDistinct, InJobs
<1>2. TypeOK' BY <1>1 DEF TypeOK, Working, WorkingOn
<1>3. OneAdds' BY <1>1 DEF OneAdds, TypeOK
<1>4. Waiting' BY <1>1 DEF Waiting, TypeOK
<1>5. Working' BY <1>1 DEF Working, WorkingOn, TypeOK
<1>6. Over' BY DEF Over, ErrorsReported, Working, WorkingOn, TypeOK
<1>7. Accounted' BY <1>1 DEF Accounted, TypeOK
<1>8. Settling' BY <1>1 DEF Settling, TypeOK
<1>9. Sharing' BY <1>1 DEF Sharing, TypeOK
<1>10. TasksTracked' BY <1>1 DEF TasksTracked, ForgetsOnlyShared, RemembersNoFinished, TypeOK
<1> QED BY <1>1, <1>2, <1>3, <1>4, <1>5, <1>6, <1>7, <1>8, <1>9, <1>10

\* Running a job preserves the invariant.
LEMMA CallRunStep ==
  ASSUME IInv, NEW w \in Worker, CallRun(w)
  PROVE  IInv'
<1> USE DEF IInv, CallRun, RunKnowing, addVars, shutdownVars
<1>1. jobs' \in Seq(Job) /\ JobsDistinct' /\ \A k \in Job : InJobs(k)' <=> InJobs(k)
  BY DEF TypeOK, JobsDistinct, InJobs
<1>2. TypeOK' BY <1>1 DEF TypeOK, Working, WorkingOn
<1>3. OneAdds' BY <1>1 DEF OneAdds, TypeOK
<1>4. Waiting' BY <1>1 DEF Waiting, TypeOK
<1>5. Working' BY <1>1 DEF Working, WorkingOn, TypeOK
<1>6. Over' BY DEF Over, ErrorsReported, Working, WorkingOn, TypeOK
<1>7. Accounted' BY <1>1 DEF Accounted, TypeOK
<1>8. Settling' BY <1>1 DEF Settling, TypeOK
<1>9. Sharing' BY <1>1 DEF Sharing, TypeOK
<1>10. TasksTracked' BY <1>1 DEF TasksTracked, ForgetsOnlyShared, RemembersNoFinished, TypeOK
<1> QED BY <1>1, <1>2, <1>3, <1>4, <1>5, <1>6, <1>7, <1>8, <1>9, <1>10

\* The return of a task preserves the invariant.
LEMMA TaskReturnsStep ==
  ASSUME IInv, NEW w \in Worker, TaskReturns(w)
  PROVE  IInv'
<1> USE DEF IInv, TaskReturns, addVars, shutdownVars
<1>1. jobs' \in Seq(Job) /\ JobsDistinct' /\ \A k \in Job : InJobs(k)' <=> InJobs(k)
  BY DEF TypeOK, JobsDistinct, InJobs
<1>2. TypeOK' BY <1>1 DEF TypeOK
<1>3. OneAdds' BY <1>1 DEF OneAdds, TypeOK
<1>4. Waiting' BY <1>1 DEF Waiting, TypeOK
<1>5. Working' BY <1>1 DEF Working, WorkingOn, TypeOK
<1>6. Over' BY <1>1 DEF Over, ErrorsReported, TypeOK
<1>7. Accounted' BY <1>1 DEF Accounted, TypeOK
<1>8. Settling' BY <1>1 DEF Settling, TypeOK
<1>9. Sharing' BY <1>1 DEF Sharing, TypeOK
<1>10. TasksTracked' BY <1>1 DEF TasksTracked, ForgetsOnlyShared, RemembersNoFinished, TypeOK
<1> QED BY <1>1, <1>2, <1>3, <1>4, <1>5, <1>6, <1>7, <1>8, <1>9, <1>10

\* An exception of a task preserves the invariant.
LEMMA TaskRaisesStep ==
  ASSUME IInv, NEW w \in Worker, TaskRaises(w)
  PROVE  IInv'
<1> USE DEF IInv, TaskRaises, RaiseTo, addVars, shutdownVars
<1>1. jobs' \in Seq(Job) /\ JobsDistinct' /\ \A k \in Job : InJobs(k)' <=> InJobs(k)
  BY DEF TypeOK, JobsDistinct, InJobs
<1>2. TypeOK' BY <1>1 DEF TypeOK, Working, WorkingOn
<1>3. OneAdds' BY <1>1 DEF OneAdds, TypeOK
<1>4. Waiting' BY <1>1 DEF Waiting, TypeOK
<1>5. Working' BY <1>1 DEF Working, WorkingOn, TypeOK
<1>6. Over' BY DEF Over, ErrorsReported, Working, WorkingOn, TypeOK
<1>7. Accounted' BY <1>1 DEF Accounted, TypeOK
<1>8. Settling' BY <1>1 DEF Settling, TypeOK
<1>9. Sharing' BY <1>1 DEF Sharing, TypeOK
<1>10. TasksTracked' BY <1>1 DEF TasksTracked, ForgetsOnlyShared, RemembersNoFinished, TypeOK
<1> QED BY <1>1, <1>2, <1>3, <1>4, <1>5, <1>6, <1>7, <1>8, <1>9, <1>10

\* Reporting an error preserves the invariant.
LEMMA HandleErrorStep ==
  ASSUME IInv, NEW w \in Worker, HandleError(w)
  PROVE  IInv'
<1> USE DEF IInv, HandleError, addVars, shutdownVars
<1>1. jobs' \in Seq(Job) /\ JobsDistinct' /\ \A k \in Job : InJobs(k)' <=> InJobs(k)
  BY DEF TypeOK, JobsDistinct, InJobs
<1>2. TypeOK' BY <1>1 DEF TypeOK, Working, WorkingOn
<1>3. OneAdds' BY <1>1 DEF OneAdds, TypeOK
<1>4. Waiting' BY <1>1 DEF Waiting, TypeOK
<1>5. Working' BY <1>1 DEF Working, WorkingOn, TypeOK
<1>6. Over' BY DEF Over, ErrorsReported, Working, WorkingOn, TypeOK
<1>7. Accounted' BY <1>1 DEF Accounted, TypeOK
<1>8. Settling' BY <1>1 DEF Settling, TypeOK
<1>9. Sharing' BY <1>1 DEF Sharing, TypeOK
<1>10. TasksTracked' BY <1>1 DEF TasksTracked, ForgetsOnlyShared, RemembersNoFinished, TypeOK
<1> QED BY <1>1, <1>2, <1>3, <1>4, <1>5, <1>6, <1>7, <1>8, <1>9, <1>10

\* The end of a job preserves the invariant.
LEMMA RemoveTaskStep ==
  ASSUME IInv, NEW w \in Worker, RemoveTask(w)
  PROVE  IInv'
<1> USE DEF IInv, RemoveTask, EndKnowing, addVars, shutdownVars
<1>1. jobs' \in Seq(Job) /\ JobsDistinct' /\ \A k \in Job : InJobs(k)' <=> InJobs(k)
  BY DEF TypeOK, JobsDistinct, InJobs
<1>2. TypeOK' BY <1>1 DEF TypeOK, Working, WorkingOn
<1>3. OneAdds' BY <1>1 DEF OneAdds, TypeOK
<1>4. Waiting' BY <1>1 DEF Waiting, Working, WorkingOn, TypeOK
<1>5. Working' BY <1>1 DEF Working, WorkingOn, TypeOK
<1>6. Over' BY DEF Over, ErrorsReported, Working, WorkingOn, TypeOK
<1>7. Accounted' BY <1>1 DEF Accounted, Working, WorkingOn, TypeOK
<1>8. Settling' BY <1>1 DEF Settling, TypeOK
<1>0. /\ work[w] \in Job /\ work[w] \in accepted \ finished
      /\ tasks' = tasks \ {work[w][1]} /\ finished' = finished \cup {work[w]}
  BY DEF Working, WorkingOn, TypeOK
<1>9. Sharing'
  <2>1. \A th \in Thread : adding[th] = NoJob
    BY DEF OneAdds
  <2> QED BY <1>0, <2>1 DEF Sharing
<1>10. TasksTracked'
  <2>1. ASSUME NEW j \in accepted' \ finished', (j[1] \notin tasks)'
        PROVE  (j \in shared /\ \E i \in shared \cap finished : i[1] = j[1])'
    <3>1. j \in accepted \ finished /\ j # work[w]
      BY <1>0, <2>1
    <3>2. CASE j[1] \notin tasks
      <4>1. j \in shared /\ \E i \in shared \cap finished : i[1] = j[1]
        BY <3>1, <3>2 DEF TasksTracked, ForgetsOnlyShared
      <4> QED BY <4>1, <1>0
    <3>3. CASE j[1] = work[w][1]
      <4>1. j \in shared /\ work[w] \in shared
        BY <1>0, <3>1, <3>3 DEF Sharing
      <4> QED BY <4>1, <1>0, <3>3
    <3> QED BY <1>0, <2>1, <3>2, <3>3
  <2>2. RemembersNoFinished'
    <3> SUFFICES ASSUME NEW t \in tasks'
                 PROVE  /\ <<t, adds[t]>> \notin finished'
                        /\ \/ <<t, adds[t]>> \in accepted \/ closed
                           \/ \E th \in Thread : adding[th] = <<t, adds[t]>>
      BY DEF RemembersNoFinished
    <3>1. t \in tasks /\ t # work[w][1]
      BY <1>0
    <3>2. <<t, adds[t]>> # work[w]
      BY <3>1
    <3> QED BY <1>0, <3>1, <3>2 DEF TasksTracked, RemembersNoFinished
  <2> QED BY <2>1, <2>2 DEF TasksTracked, ForgetsOnlyShared
<1> QED BY <1>1, <1>2, <1>3, <1>4, <1>5, <1>6, <1>7, <1>8, <1>9, <1>10

\* Closing the pool preserves the invariant.
LEMMA ShutdownStep ==
  ASSUME IInv, NEW c \in Client, NEW wait \in BOOLEAN, Shutdown(c, wait)
  PROVE  IInv'
<1> USE DEF IInv, Shutdown, CloseAnd, MayCall, addVars, workVars
<1>1. jobs' \in Seq(Job) /\ JobsDistinct' /\ \A k \in Job : InJobs(k)' <=> InJobs(k)
  BY DEF TypeOK, JobsDistinct, InJobs
<1>2. TypeOK' BY <1>1 DEF TypeOK
<1>3. OneAdds' BY <1>1 DEF OneAdds, TypeOK
<1>4. Waiting' BY <1>1 DEF Waiting, TypeOK
<1>5. Working' BY <1>1 DEF Working, WorkingOn, TypeOK
<1>6. Over' BY <1>1 DEF Over, ErrorsReported, TypeOK
<1>7. Accounted' BY <1>1 DEF Accounted, TypeOK
<1>8. Settling' BY <1>1 DEF Settling, TypeOK
<1>9. Sharing' BY <1>1 DEF Sharing, TypeOK
<1>10. TasksTracked' BY <1>1 DEF TasksTracked, ForgetsOnlyShared, RemembersNoFinished, TypeOK
<1> QED BY <1>1, <1>2, <1>3, <1>4, <1>5, <1>6, <1>7, <1>8, <1>9, <1>10

\* The return of a waiting shutdown preserves the invariant.
LEMMA JoinReturnsStep ==
  ASSUME IInv, NEW c \in Client, JoinReturns(c)
  PROVE  IInv'
<1> USE DEF IInv, JoinReturns, addVars, workVars
<1>1. jobs' \in Seq(Job) /\ JobsDistinct' /\ \A k \in Job : InJobs(k)' <=> InJobs(k)
  BY DEF TypeOK, JobsDistinct, InJobs
<1>2. TypeOK' BY <1>1 DEF TypeOK
<1>3. OneAdds' BY <1>1 DEF OneAdds, TypeOK
<1>4. Waiting' BY <1>1 DEF Waiting, TypeOK
<1>5. Working' BY <1>1 DEF Working, WorkingOn, TypeOK
<1>6. Over' BY <1>1 DEF Over, ErrorsReported, TypeOK
<1>7. Accounted' BY <1>1 DEF Accounted, TypeOK
<1>8. Settling' BY DEF Settling, Accounted, Working, WorkingOn, InJobs, TypeOK
<1>9. Sharing' BY <1>1 DEF Sharing, TypeOK
<1>10. TasksTracked' BY <1>1 DEF TasksTracked, ForgetsOnlyShared, RemembersNoFinished, TypeOK
<1> QED BY <1>1, <1>2, <1>3, <1>4, <1>5, <1>6, <1>7, <1>8, <1>9, <1>10

\* Interrupting a task preserves the invariant.
LEMMA InterruptStep ==
  ASSUME IInv, NEW t \in Task, Interrupt(t)
  PROVE  IInv'
<1> USE DEF IInv, Interrupt, addVars, shutdownVars, workVars
<1>1. jobs' \in Seq(Job) /\ JobsDistinct' /\ \A k \in Job : InJobs(k)' <=> InJobs(k)
  BY DEF TypeOK, JobsDistinct, InJobs
<1>2. TypeOK' BY <1>1 DEF TypeOK
<1>3. OneAdds' BY <1>1 DEF OneAdds, TypeOK
<1>4. Waiting' BY <1>1 DEF Waiting, TypeOK
<1>5. Working' BY <1>1 DEF Working, WorkingOn, TypeOK
<1>6. Over' BY <1>1 DEF Over, ErrorsReported, TypeOK
<1>7. Accounted' BY <1>1 DEF Accounted, TypeOK
<1>8. Settling' BY <1>1 DEF Settling, TypeOK
<1>9. Sharing' BY <1>1 DEF Sharing, TypeOK
<1>10. TasksTracked' BY <1>1 DEF TasksTracked, ForgetsOnlyShared, RemembersNoFinished, TypeOK
<1> QED BY <1>1, <1>2, <1>3, <1>4, <1>5, <1>6, <1>7, <1>8, <1>9, <1>10

-----------------------------------------------------------------------------
\* Every step preserves the invariant.
LEMMA NextInv == IInv /\ [Next]_vars => IInv'
<1> SUFFICES ASSUME IInv, [Next]_vars PROVE IInv'
  OBVIOUS
<1>1. CASE \E th \in Thread : (\E t \in Task : BeginAdd(th, t)) \/ AddStep(th)
  BY <1>1, BeginAddStep, ApplyAsyncStep, RefuseAddStep DEF AddStep
<1>2. CASE \E w \in Worker : WorkerStep(w)
  BY <1>2, TakeJobStep, CallOnCancelledStep, CallRunStep, TaskReturnsStep, TaskRaisesStep,
     HandleErrorStep, RemoveTaskStep DEF WorkerStep
<1>3. CASE \E c \in Client : (\E wait \in BOOLEAN : Shutdown(c, wait)) \/ JoinReturns(c)
  BY <1>3, ShutdownStep, JoinReturnsStep
<1>4. CASE \E t \in Task : Interrupt(t)
  BY <1>4, InterruptStep
<1>5. CASE UNCHANGED vars
  <2> USE <1>5 DEF vars, addVars, shutdownVars, workVars, IInv
  <2>1. TypeOK' /\ JobsDistinct' /\ OneAdds' /\ Waiting'
    BY DEF TypeOK, JobsDistinct, OneAdds, Waiting, InJobs
  <2>2. Working' /\ Over' /\ Accounted' /\ Settling'
    BY DEF Working, WorkingOn, Over, ErrorsReported, Accounted, InJobs, Settling
  <2>3. Sharing' /\ TasksTracked'
    BY DEF Sharing, TasksTracked, ForgetsOnlyShared, RemembersNoFinished
  <2> QED BY <2>1, <2>2, <2>3
<1> QED BY <1>1, <1>2, <1>3, <1>4, <1>5 DEF Next

LEMMA Invariance == Spec => []IInv
BY InitInv, NextInv, PTL DEF Spec

\* The variables of the pool keep their types, for any tasks and threads.
THEOREM TypeCorrect == Spec => []TypeOK
<1>1. IInv => TypeOK BY DEF IInv
<1> QED BY <1>1, Invariance, PTL

\* No two threads work on one job, and a finished job's task was either run or
\* told that it was cancelled.
THEOREM RunsOrCancelsOnce == Spec => []RunOrCancelled
<1>1. IInv => RunOrCancelled BY DEF IInv, TypeOK, Working, WorkingOn, Over, RunOrCancelled
<1> QED BY <1>1, Invariance, PTL

\* The error handler hears of exactly the jobs whose task raised.
THEOREM ReportsErrors == Spec => []ErrorsReported
<1>1. IInv => ErrorsReported BY DEF IInv, Over
<1> QED BY <1>1, Invariance, PTL

\* A shutdown that waits returns only when every accepted job is finished and no
\* thread works on one.
THEOREM SettlesIdle == Spec => []SettledMeansIdle
<1>1. IInv => SettledMeansIdle
  BY DEF IInv, Working, WorkingOn, Settling, SettledMeansIdle
<1> QED BY <1>1, Invariance, PTL

\* Every accepted job is run or cancelled once, its error is reported, and a
\* shutdown waits for it.
THEOREM JobsEnd == Spec => []JobsEndRight
  BY RunsOrCancelsOnce, ReportsErrors, SettlesIdle, PTL DEF JobsEndRight

\* _tasks has every unfinished job's task, and only tasks whose last addition is
\* not over, but for tasks that are in the pool twice and those that were refused,
\* however often tasks are added and by how many threads.
THEOREM TracksTasks == Spec => []TasksTracked
<1>1. IInv => TasksTracked BY DEF IInv
<1> QED BY <1>1, Invariance, PTL

\* Every behaviour of the pool keeps the safety promise of its interface: jobs are
\* accepted while the pool is open, each ends once, and a shutdown that waits
\* settles only when all have ended.
THEOREM RefinesThreadPool == Spec => ImplementsThreadPool
<1>1. Init => Interface!Init
  BY DEF Init, Interface!Init
<1>2. IInv /\ [Next]_vars => [Interface!Next]_(Interface!vars)
  <2> SUFFICES ASSUME IInv, [Next]_vars PROVE Interface!Next \/ UNCHANGED Interface!vars
    OBVIOUS
  <2> USE DEF Interface!vars, Interface!Next
  <2>1. CASE \E th \in Thread : ApplyAsync(th)
    <3>1. PICK th \in Thread : ApplyAsync(th)
      BY <2>1
    <3>2. Interface!Accept(adding[th]) /\ adding[th] \in Job
      BY <3>1 DEF ApplyAsync, Enqueue, Interface!Accept, IInv, TypeOK, OneAdds,
         shutdownVars, workVars
    <3> QED BY <3>2
  <2>2. CASE \E w \in Worker : RemoveTask(w)
    <3>1. PICK w \in Worker : RemoveTask(w)
      BY <2>2
    <3>2. Interface!End(work[w]) /\ work[w] \in Job
      BY <3>1 DEF RemoveTask, EndKnowing, Interface!End, IInv, TypeOK, Working, WorkingOn,
         addVars, shutdownVars
    <3> QED BY <3>2
  <2>3. CASE \E c \in Client, wait \in BOOLEAN : Shutdown(c, wait)
    BY <2>3 DEF Shutdown, CloseAnd, Interface!Close, addVars, workVars, IInv, TypeOK
  <2>4. CASE \E c \in Client : JoinReturns(c)
    <3>1. jobs = <<>> /\ closed /\ \A w \in Worker : work[w] = NoJob
      BY <2>4 DEF JoinReturns, IInv, Settling, Working, WorkingOn
    <3>2. ASSUME NEW j \in accepted PROVE j \in finished
      BY <3>1 DEF IInv, Accounted, InJobs, TypeOK
    <3>3. accepted = finished
      BY <3>2 DEF IInv, Over
    <3> QED BY <2>4, <3>1, <3>3 DEF JoinReturns, Interface!Settle, addVars, workVars
  <2>5. CASE UNCHANGED vars
    BY <2>5 DEF vars, addVars, shutdownVars, workVars
  <2>6. ASSUME NEW th \in Thread, (\E t \in Task : BeginAdd(th, t)) \/ RefuseAdd(th)
        PROVE  UNCHANGED Interface!vars
    BY <2>6 DEF BeginAdd, RefuseAdd, Refuse, shutdownVars, workVars
  <2>7. ASSUME NEW w \in Worker, TakeJob(w) \/ CallOnCancelled(w) \/ CallRun(w)
               \/ TaskReturns(w) \/ TaskRaises(w) \/ HandleError(w)
        PROVE  UNCHANGED Interface!vars
    BY <2>7 DEF TakeJob, CallOnCancelled, CancelAnd, CallRun, RunKnowing, TaskReturns,
       TaskRaises, RaiseTo, HandleError, addVars, shutdownVars
  <2>8. ASSUME NEW t \in Task, Interrupt(t) PROVE UNCHANGED Interface!vars
    BY <2>8 DEF Interrupt, addVars, shutdownVars, workVars
  <2> QED BY <2>1, <2>2, <2>3, <2>4, <2>5, <2>6, <2>7, <2>8 DEF Next, AddStep, WorkerStep
<1> QED BY <1>1, <1>2, Invariance, PTL DEF Spec, ImplementsThreadPool, Interface!Spec
=============================================================================
