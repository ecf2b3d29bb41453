-------------------------- MODULE MainThreadCalls --------------------------
(***************************************************************************)
(* What MainThreadExecutor promises to background tasks, without locks,    *)
(* conditions or wake-ups: a call is submitted once, the main thread       *)
(* performs the submitted calls one at a time and in submission order, and *)
(* a call is answered with the result of its own function or with an       *)
(* interruption.  MainThreadExecutor is shown to implement this module.    *)
(***************************************************************************)
EXTENDS Naturals, Sequences

CONSTANTS
    Task,       \* the background tasks that call into the main thread
    MaxCalls    \* how many calls each of them makes, one after the other

VARIABLES
    pending,    \* the calls submitted and not performed yet, oldest first
    done,       \* done[c]: the result of c's function, "none" before it ran
    answer      \* answer[c]: what the task making call c got back, or "none"

vars == <<pending, done, answer>>

\* Call <<t, n>> is the n-th call of task t.
Call == Task \X (1..MaxCalls)
Result == {"value", "error"}

\* Calls c made before n by the same task have come back to it.
EarlierAnswered(c) ==
    \A n \in 1..MaxCalls : n < c[2] => answer[<<c[1], n>>] # "none"

Init ==
    /\ pending = <<>>
    /\ done = [c \in Call |-> "none"]
    /\ answer = [c \in Call |-> "none"]

\* Call c joins the end of the queue.
Submit(c) ==
    /\ answer[c] = "none" /\ done[c] = "none"
    /\ \A i \in DOMAIN pending : pending[i] # c
    /\ EarlierAnswered(c)
    /\ pending' = Append(pending, c)
    /\ UNCHANGED <<done, answer>>

\* The main thread performs the oldest call, with result r.
Perform(r) ==
    /\ pending # <<>>
    /\ done' = [done EXCEPT ![Head(pending)] = r]
    /\ pending' = Tail(pending)
    /\ UNCHANGED answer

\* A performed call is answered: with its result, or with an interruption that
\* arrived too late to stop it.
Answer(c) ==
    /\ answer[c] = "none" /\ done[c] # "none"
    /\ EarlierAnswered(c)
    /\ answer' = [answer EXCEPT ![c] = done[c]]
       \/ answer' = [answer EXCEPT ![c] = "interrupted"]
    /\ UNCHANGED <<pending, done>>

\* A task gives up on a call that has not been performed: the call stays where
\* it is, in the queue or nowhere.
GiveUp(c) ==
    /\ answer[c] = "none" /\ done[c] = "none"
    /\ EarlierAnswered(c)
    /\ answer' = [answer EXCEPT ![c] = "interrupted"]
    /\ UNCHANGED <<pending, done>>

Next ==
    \/ \E c \in Call : Submit(c) \/ Answer(c) \/ GiveUp(c)
    \/ \E r \in Result : Perform(r)

Fairness ==
    /\ WF_vars(\E r \in Result : Perform(r))
    /\ \A c \in Call : WF_vars(Answer(c))

Spec == Init /\ [][Next]_vars

FairSpec == Spec /\ Fairness
=============================================================================
