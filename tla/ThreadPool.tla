----------------------------- MODULE ThreadPool -----------------------------
(***************************************************************************)
(* The promise of the ThreadPool interface (zync_threading/thread_pool.py) *)
(* to those who add tasks: while it is open the pool accepts jobs and runs *)
(* each to its end once, and a shutdown that waits returns only when every *)
(* accepted job has ended.  DefaultThreadPool is shown to implement it.    *)
(***************************************************************************)
EXTENDS Naturals

CONSTANT Job

VARIABLES
    open,       \* the pool still accepts jobs
    accepted,   \* the jobs it accepted
    ended,      \* those it is through with
    settled     \* a shutdown that waits has returned

vars == <<open, accepted, ended, settled>>

Init ==
    /\ open = TRUE
    /\ accepted = {} /\ ended = {}
    /\ settled = FALSE

Accept(j) ==
    /\ open /\ j \notin accepted
    /\ accepted' = accepted \cup {j}
    /\ UNCHANGED <<open, ended, settled>>

End(j) ==
    /\ j \in accepted \ ended
    /\ ended' = ended \cup {j}
    /\ UNCHANGED <<open, accepted, settled>>

Close ==
    /\ open
    /\ open' = FALSE
    /\ UNCHANGED <<accepted, ended, settled>>

Settle ==
    /\ ~open /\ accepted = ended
    /\ settled' = TRUE
    /\ UNCHANGED <<open, accepted, ended>>

Next == (\E j \in Job : Accept(j) \/ End(j)) \/ Close \/ Settle

Fairness == \A j \in Job : WF_vars(End(j))

Spec == Init /\ [][Next]_vars

FairSpec == Spec /\ Fairness
=============================================================================
