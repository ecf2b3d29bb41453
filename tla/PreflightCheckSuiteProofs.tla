---------------------- MODULE PreflightCheckSuiteProofs ----------------------
(***************************************************************************)
(* Proofs, for any set of checks and any listener, that the listener hears *)
(* of every check in order, that the end of all checks is announced once   *)
(* and last, and that a cancel stops the checks that are still pending.    *)
(***************************************************************************)
EXTENDS PreflightCheckSuite, TLAPS

\* What the listener heard last of check c.
Last(c) == IF told[c] = <<>> THEN "nothing" ELSE told[c][Len(told[c])]

\* What was told of c, place by place.
Heard(c) ==
    /\ pc[c] = "new" => status[c] = "PENDING"
    /\ pc[c] = "queued" => status[c] = "PENDING" /\ Last(c) = "PENDING"
    /\ pc[c] = "telling" =>
          /\ <<Last(c), new[c]>> \in Follows
          /\ \/ status[c] = "PENDING" /\ Last(c) = "PENDING" /\ new[c] \in {"RUNNING", "CANCELLED"}
             \/ status[c] = "RUNNING" /\ new[c] \in Final
    /\ pc[c] = "running" => status[c] = "RUNNING" /\ Last(c) = "RUNNING"
    /\ pc[c] \in {"finalizing", "last"} \/ (pc[c] = "done" /\ c \notin checks)
          => Last(c) \in Final

AllHeard == \A c \in Check : Heard(c)

\* start() tells and adds the checks it has yet to visit, one after the other.
StartLoop ==
    /\ host = "starting" => \A c \in todo : pc[c] = "new" /\ Last(c) = "nothing"
    /\ adding # NoCheck =>
          /\ host = "starting" /\ adding \notin todo
          /\ pc[adding] = "new" /\ Last(adding) = "PENDING"

\* Who holds the lock.
LockHeld ==
    /\ lock = "host" <=> host \in {"starting", "cancelling"}
    /\ \A c \in Check : lock = c <=> pc[c] = "last"

\* _preflight_checks empties, then the end is announced.
EndAnnounced ==
    /\ \A c \in Check :
          /\ pc[c] \notin {"last", "done"} => c \in checks
          /\ pc[c] = "last" => checks = {} /\ finishes = 0
    /\ finishes # 0 => finishes = 1 /\ checks = {} /\ \A c \in Check : pc[c] = "done"

\* A cancel interrupts whatever is not finalized.
CancelCovers ==
    /\ host = "cancelling" => checks \subseteq interrupted \cup todo
    /\ cancelled => checks \subseteq interrupted

\* A check the pool has not started: the listener has heard of PENDING at most.
Unstarted(c) ==
    /\ pc[c] = "new" => told[c] \in {<<>>, <<"PENDING">>}
    /\ pc[c] = "queued" => told[c] = <<"PENDING">>

\* A check the pool starts after a cancel: it goes straight to CANCELLED.
HeldBack(c) ==
    /\ pc[c] # "running"
    /\ pc[c] = "telling" =>
          new[c] = "CANCELLED" /\ status[c] = "PENDING" /\ told[c] = <<"PENDING">>
    /\ pc[c] \in {"finalizing", "last", "done"} => told[c] = <<"PENDING", "CANCELLED">>

PendingStopped ==
    /\ \A c \in Check : Unstarted(c)
    /\ cancelled => \A c \in Check \ begun : HeldBack(c)

IInv ==
    /\ TypeOK /\ ToldInOrder /\ AllHeard
    /\ StartLoop /\ LockHeld /\ EndAnnounced /\ CancelCovers /\ PendingStopped

-----------------------------------------------------------------------------
USE MaxCancelsIsNat, ListenerRaisesIsBoolean, NoCheckIsNoCheck, OthersAreNoChecks

\* A sequence of statuses in order stays so when a status is appended that may
\* follow the last one.
LEMMA AppendInOrder ==
  ASSUME NEW s \in Seq(Status), NEW x \in Status, InOrder(s),
         IF s = <<>> THEN x = "PENDING" ELSE <<s[Len(s)], x>> \in Follows
  PROVE  /\ Append(s, x) \in Seq(Status) /\ Append(s, x) # <<>>
         /\ Append(s, x)[Len(Append(s, x))] = x
         /\ InOrder(Append(s, x))
<1> DEFINE r == Append(s, x)
<1>1. /\ r \in Seq(Status) /\ Len(r) = Len(s) + 1 /\ r[Len(r)] = x
      /\ \A i \in 1..Len(s) : r[i] = s[i]
  OBVIOUS
<1>2. r # <<>>
  BY <1>1
<1>3. r[1] = "PENDING"
  <2>1. CASE s = <<>>
    BY <2>1, <1>1
  <2>2. CASE s # <<>>
    BY <2>2, <1>1 DEF InOrder
  <2> QED BY <2>1, <2>2
<1>4. ASSUME NEW i \in 1..(Len(r) - 1) PROVE <<r[i], r[i + 1]>> \in Follows
  <2>1. CASE i < Len(s)
    <3>1. i \in 1..(Len(s) - 1) /\ r[i] = s[i] /\ r[i + 1] = s[i + 1]
      BY <2>1, <1>1
    <3> QED BY <3>1 DEF InOrder
  <2>2. CASE i = Len(s)
    BY <2>2, <1>1
  <2> QED BY <2>1, <2>2, <1>1
<1> HIDE DEF r
<1>5. InOrder(r)
  BY <1>3, <1>4 DEF InOrder
<1> QED BY <1>1, <1>2, <1>5 DEF r

\* What telling x of check c leaves behind.
LEMMA TellAppends ==
  ASSUME TypeOK, ToldInOrder, NEW c \in Check, NEW x \in Status, Tell(c, x),
         IF Last(c) = "nothing" THEN x = "PENDING" ELSE <<Last(c), x>> \in Follows
  PROVE  /\ told' \in [Check -> Seq(Status)] /\ ToldInOrder'
         /\ Last(c)' = x
         /\ \A d \in Check \ {c} : Last(d)' = Last(d)
<1>1. told[c] \in Seq(Status) /\ InOrder(told[c])
  BY DEF TypeOK, ToldInOrder
<1>2. Last(c) = "nothing" <=> told[c] = <<>>
  BY <1>1 DEF Last, Status, Final
<1>3. /\ Append(told[c], x) \in Seq(Status) /\ Append(told[c], x) # <<>>
      /\ Append(told[c], x)[Len(Append(told[c], x))] = x
      /\ InOrder(Append(told[c], x))
  BY <1>1, <1>2, AppendInOrder DEF Last
<1>4. /\ told'[c] = Append(told[c], x)
      /\ \A d \in Check \ {c} : told'[d] = told[d]
  BY DEF Tell, TypeOK
<1>5. told' \in [Check -> Seq(Status)]
  BY <1>3 DEF Tell, TypeOK
<1>6. ToldInOrder'
  <2>1. InOrder(told[c])'
    BY <1>3, <1>4 DEF InOrder
  <2>2. ASSUME NEW d \in Check \ {c} PROVE InOrder(told[d])'
    BY <1>4 DEF InOrder, ToldInOrder
  <2> QED BY <2>1, <2>2 DEF ToldInOrder
<1> QED BY <1>3, <1>4, <1>5, <1>6 DEF Last

\* A sequence of one member and another member make the pair of them.
LEMMA PairAppended ==
  ASSUME NEW x, NEW y
  PROVE  Append(<<x>>, y) = <<x, y>>
<1> DEFINE r == Append(<<x>>, y)
<1>1. <<x>> \in Seq({x, y}) /\ Len(<<x>>) = 1 /\ <<x>>[1] = x
  OBVIOUS
<1>2. r \in Seq({x, y}) /\ Len(r) = 2 /\ r[1] = x /\ r[2] = y
  BY <1>1
<1>3. <<x, y>> \in Seq({x, y}) /\ Len(<<x, y>>) = 2 /\ <<x, y>>[1] = x /\ <<x, y>>[2] = y
  OBVIOUS
<1> HIDE DEF r
<1>4. r = <<x, y>>
  <2>1. DOMAIN r = 1..2 /\ DOMAIN <<x, y>> = 1..2
    BY <1>2, <1>3
  <2>2. \A i \in 1..2 : r[i] = <<x, y>>[i]
    BY <1>2, <1>3
  <2> QED BY <1>2, <1>3, <2>1, <2>2, SMTT(20)
<1> QED BY <1>4 DEF r

\* The initial states satisfy the invariant.
LEMMA InitInv == Init => IInv
<1> SUFFICES ASSUME Init PROVE IInv
  OBVIOUS
<1> USE DEF Init, Pool!Init
<1>0. <<>> \in Seq(Status) /\ Len(<<>>) = 0
  OBVIOUS
<1>1. TypeOK
  <2>1. told \in [Check -> Seq(Status)]
    BY <1>0
  <2>2. status \in [Check -> Status] /\ new \in [Check -> Status]
    BY DEF Status
  <2>3. pc \in [Check -> {"new", "queued", "telling", "running", "finalizing", "last", "done"}]
    OBVIOUS
  <2>4. cancels \in 0..MaxCancels /\ finishes \in Nat
    OBVIOUS
  <2>5. /\ open \in BOOLEAN /\ settled \in BOOLEAN /\ cancelled \in BOOLEAN
        /\ accepted \subseteq Check /\ ended \subseteq Check
        /\ checks \subseteq Check /\ todo \subseteq Check /\ interrupted \subseteq Check
        /\ lock \in Check \cup {"free", "host"} /\ adding \in Check \cup {NoCheck}
        /\ host \in {"idle", "starting", "locking", "cancelling"}
    OBVIOUS
  <2> QED BY <2>1, <2>2, <2>3, <2>4, <2>5 DEF TypeOK
<1>2. ToldInOrder
  <2>1. ASSUME NEW c \in Check PROVE told[c] = <<>>
    OBVIOUS
  <2>2. InOrder(<<>>)
    BY <1>0 DEF InOrder
  <2> QED BY <2>1, <2>2 DEF ToldInOrder
<1>3. AllHeard BY DEF AllHeard, Heard
<1>4. StartLoop BY DEF StartLoop
<1>5. LockHeld BY DEF LockHeld
<1>6. EndAnnounced BY DEF EndAnnounced
<1>7. CancelCovers BY DEF CancelCovers
<1>8. PendingStopped BY DEF PendingStopped, Unstarted
<1> QED BY <1>1, <1>2, <1>3, <1>4, <1>5, <1>6, <1>7, <1>8 DEF IInv

\* Entering start preserves the invariant.
LEMMA StartStep ==
  ASSUME IInv, Start
  PROVE  IInv'
<1> USE DEF IInv, Start, poolVars, checkVars
<1>1. told' \in [Check -> Seq(Status)] /\ ToldInOrder' /\ \A d \in Check : Last(d)' = Last(d)
  BY DEF TypeOK, ToldInOrder, Last
<1>2. TypeOK' BY <1>1 DEF TypeOK
<1>3. AllHeard' BY <1>1 DEF AllHeard, Heard, TypeOK
<1>4. StartLoop' BY <1>1 DEF StartLoop, TypeOK, Last
<1>5. LockHeld' BY DEF LockHeld, TypeOK
<1>6. EndAnnounced' BY DEF EndAnnounced, TypeOK
<1>7. CancelCovers' BY DEF CancelCovers, TypeOK
<1>8. PendingStopped' BY DEF PendingStopped, Unstarted, HeldBack, TypeOK
<1> QED BY <1>1, <1>2, <1>3, <1>4, <1>5, <1>6, <1>7, <1>8

\* Telling that a check is pending preserves the invariant.
LEMMA TellPendingStep ==
  ASSUME IInv, NEW c \in Check, TellPending(c)
  PROVE  IInv'
<1> USE DEF IInv, TellPending, poolVars, checkVars
<1>0. "PENDING" \in Status /\ Tell(c, "PENDING") /\
      IF Last(c) = "nothing" THEN "PENDING" = "PENDING" ELSE <<Last(c), "PENDING">> \in Follows
  BY DEF StartLoop, Status
<1>1. /\ told' \in [Check -> Seq(Status)] /\ ToldInOrder'
      /\ Last(c)' = "PENDING"
      /\ \A d \in Check \ {c} : Last(d)' = Last(d)
  BY <1>0, TellAppends
<1>2. TypeOK' BY <1>1 DEF TypeOK
<1>3. AllHeard' BY <1>1 DEF AllHeard, Heard, TypeOK, StartLoop
<1>4. StartLoop' BY <1>1 DEF StartLoop, TypeOK
<1>5. LockHeld' BY DEF LockHeld, TypeOK
<1>6. EndAnnounced' BY DEF EndAnnounced, TypeOK
<1>7. CancelCovers' BY DEF CancelCovers, TypeOK
<1>8. PendingStopped'
  <2>1. pc[c] = "new" /\ told[c] = <<>>
    BY DEF StartLoop, Last, PendingStopped, Unstarted
  <2>2. told' = [told EXCEPT ![c] = <<"PENDING">>]
    <3>1. Append(<<>>, "PENDING") = <<"PENDING">>
      OBVIOUS
    <3> QED BY <2>1, <3>1 DEF Tell
  <2> QED BY <2>1, <2>2 DEF PendingStopped, Unstarted, HeldBack, TypeOK
<1> QED BY <1>1, <1>2, <1>3, <1>4, <1>5, <1>6, <1>7, <1>8

\* Adding a check preserves the invariant.
LEMMA AddCheckStep ==
  ASSUME IInv, AddCheck
  PROVE  IInv'
<1> USE DEF IInv, AddCheck, Pool!Accept
<1>1. told' \in [Check -> Seq(Status)] /\ ToldInOrder' /\ \A d \in Check : Last(d)' = Last(d)
  BY DEF TypeOK, ToldInOrder, Last
<1>2. TypeOK' BY <1>1 DEF TypeOK
<1>3. AllHeard' BY <1>1 DEF AllHeard, Heard, TypeOK, StartLoop
<1>4. StartLoop' BY <1>1 DEF StartLoop, TypeOK
<1>5. LockHeld' BY DEF LockHeld, TypeOK, StartLoop
<1>6. EndAnnounced' BY DEF EndAnnounced, TypeOK, StartLoop
<1>7. CancelCovers' BY DEF CancelCovers, TypeOK
<1>8. PendingStopped'
  <2>1. adding \in Check /\ pc[adding] = "new" /\ told[adding] = <<"PENDING">>
    <3>1. adding \in Check /\ pc[adding] = "new" /\ told[adding] # <<>>
      BY DEF StartLoop, Last, TypeOK
    <3> QED BY <3>1 DEF PendingStopped, Unstarted
  <2>2. pc' = [pc EXCEPT ![adding] = "queued"] /\ told' = told
    OBVIOUS
  <2> QED BY <2>1, <2>2 DEF PendingStopped, Unstarted, HeldBack, TypeOK
<1> QED BY <1>1, <1>2, <1>3, <1>4, <1>5, <1>6, <1>7, <1>8

\* The return of start preserves the invariant.
LEMMA StartReturnsStep ==
  ASSUME IInv, StartReturns
  PROVE  IInv'
<1> USE DEF IInv, StartReturns, LeaveLoop, poolVars, checkVars
<1>1. told' \in [Check -> Seq(Status)] /\ ToldInOrder' /\ \A d \in Check : Last(d)' = Last(d)
  BY DEF TypeOK, ToldInOrder, Last
<1>2. TypeOK' BY <1>1 DEF TypeOK
<1>3. AllHeard' BY <1>1 DEF AllHeard, Heard, TypeOK
<1>4. StartLoop' BY <1>1 DEF StartLoop, TypeOK
<1>5. LockHeld' BY DEF LockHeld, TypeOK
<1>6. EndAnnounced' BY DEF EndAnnounced, TypeOK
<1>7. CancelCovers' BY DEF CancelCovers, TypeOK
<1>8. PendingStopped' BY DEF PendingStopped, Unstarted, HeldBack, TypeOK
<1> QED BY <1>1, <1>2, <1>3, <1>4, <1>5, <1>6, <1>7, <1>8

\* An exception in start preserves the invariant.
LEMMA StartRaisesStep ==
  ASSUME IInv, StartRaises
  PROVE  IInv'
<1> USE DEF IInv, StartRaises, RaiseFromStart, LeaveLoop, poolVars, checkVars
<1>1. told' \in [Check -> Seq(Status)] /\ ToldInOrder' /\ \A d \in Check : Last(d)' = Last(d)
  BY DEF TypeOK, ToldInOrder, Last
<1>2. TypeOK' BY <1>1 DEF TypeOK
<1>3. AllHeard' BY <1>1 DEF AllHeard, Heard, TypeOK
<1>4. StartLoop' BY <1>1 DEF StartLoop, TypeOK
<1>5. LockHeld' BY DEF LockHeld, TypeOK, StartLoop
<1>6. EndAnnounced' BY DEF EndAnnounced, TypeOK
<1>7. CancelCovers' BY DEF CancelCovers, TypeOK
<1>8. PendingStopped' BY DEF PendingStopped, Unstarted, HeldBack, TypeOK
<1> QED BY <1>1, <1>2, <1>3, <1>4, <1>5, <1>6, <1>7, <1>8

\* Calling cancel preserves the invariant.
LEMMA CallCancelStep ==
  ASSUME IInv, CallCancel
  PROVE  IInv'
<1> USE DEF IInv, CallCancel, poolVars, checkVars
<1>1. told' \in [Check -> Seq(Status)] /\ ToldInOrder' /\ \A d \in Check : Last(d)' = Last(d)
  BY DEF TypeOK, ToldInOrder, Last
<1>2. TypeOK' BY <1>1 DEF TypeOK
<1>3. AllHeard' BY <1>1 DEF AllHeard, Heard, TypeOK
<1>4. StartLoop' BY <1>1 DEF StartLoop, TypeOK
<1>5. LockHeld' BY DEF LockHeld, TypeOK
<1>6. EndAnnounced' BY DEF EndAnnounced, TypeOK
<1>7. CancelCovers' BY DEF CancelCovers, TypeOK
<1>8. PendingStopped' BY DEF PendingStopped, Unstarted, HeldBack, TypeOK
<1> QED BY <1>1, <1>2, <1>3, <1>4, <1>5, <1>6, <1>7, <1>8

\* Entering the loop of cancel preserves the invariant.
LEMMA BeginCancelStep ==
  ASSUME IInv, BeginCancel
  PROVE  IInv'
<1> USE DEF IInv, BeginCancel, CancelLoop, poolVars, checkVars
<1>1. told' \in [Check -> Seq(Status)] /\ ToldInOrder' /\ \A d \in Check : Last(d)' = Last(d)
  BY DEF TypeOK, ToldInOrder, Last
<1>2. TypeOK' BY <1>1 DEF TypeOK
<1>3. AllHeard' BY <1>1 DEF AllHeard, Heard, TypeOK
<1>4. StartLoop' BY <1>1 DEF StartLoop, TypeOK
<1>5. LockHeld' BY DEF LockHeld, TypeOK
<1>6. EndAnnounced' BY DEF EndAnnounced, TypeOK
<1>7. CancelCovers' BY DEF CancelCovers, TypeOK
<1>8. PendingStopped' BY DEF PendingStopped, Unstarted, HeldBack, TypeOK
<1> QED BY <1>1, <1>2, <1>3, <1>4, <1>5, <1>6, <1>7, <1>8

\* A round of it preserves the invariant.
LEMMA InterruptCheckStep ==
  ASSUME IInv, NEW c \in Check, InterruptCheck(c)
  PROVE  IInv'
<1> USE DEF IInv, InterruptCheck, poolVars, checkVars
<1>1. told' \in [Check -> Seq(Status)] /\ ToldInOrder' /\ \A d \in Check : Last(d)' = Last(d)
  BY DEF TypeOK, ToldInOrder, Last
<1>2. TypeOK' BY <1>1 DEF TypeOK
<1>3. AllHeard' BY <1>1 DEF AllHeard, Heard, TypeOK
<1>4. StartLoop' BY <1>1 DEF StartLoop, TypeOK
<1>5. LockHeld' BY DEF LockHeld, TypeOK
<1>6. EndAnnounced' BY DEF EndAnnounced, TypeOK
<1>7. CancelCovers' BY DEF CancelCovers, TypeOK
<1>8. PendingStopped' BY DEF PendingStopped, Unstarted, HeldBack, TypeOK
<1> QED BY <1>1, <1>2, <1>3, <1>4, <1>5, <1>6, <1>7, <1>8

\* The return of cancel preserves the invariant.
LEMMA CancelReturnsStep ==
  ASSUME IInv, CancelReturns
  PROVE  IInv'
<1> USE DEF IInv, CancelReturns, LeaveLoop, poolVars, checkVars
<1>1. told' \in [Check -> Seq(Status)] /\ ToldInOrder' /\ \A d \in Check : Last(d)' = Last(d)
  BY DEF TypeOK, ToldInOrder, Last
<1>2. TypeOK' BY <1>1 DEF TypeOK
<1>3. AllHeard' BY <1>1 DEF AllHeard, Heard, TypeOK
<1>4. StartLoop' BY <1>1 DEF StartLoop, TypeOK
<1>5. LockHeld' BY DEF LockHeld, TypeOK
<1>6. EndAnnounced' BY DEF EndAnnounced, TypeOK
<1>7. CancelCovers' BY DEF CancelCovers, TypeOK
<1>8. PendingStopped' BY DEF PendingStopped, Unstarted, HeldBack, TypeOK
<1> QED BY <1>1, <1>2, <1>3, <1>4, <1>5, <1>6, <1>7, <1>8

\* Shutting the pool down preserves the invariant.
LEMMA ShutDownStep ==
  ASSUME IInv, ShutDown
  PROVE  IInv'
<1> USE DEF IInv, ShutDown, Pool!Close, Pool!Settle, hostVars, checkVars
<1>1. told' \in [Check -> Seq(Status)] /\ ToldInOrder' /\ \A d \in Check : Last(d)' = Last(d)
  BY DEF TypeOK, ToldInOrder, Last
<1>2. TypeOK' BY <1>1 DEF TypeOK
<1>3. AllHeard' BY <1>1 DEF AllHeard, Heard, TypeOK
<1>4. StartLoop' BY <1>1 DEF StartLoop, TypeOK
<1>5. LockHeld' BY DEF LockHeld, TypeOK
<1>6. EndAnnounced' BY DEF EndAnnounced, TypeOK
<1>7. CancelCovers' BY DEF CancelCovers, TypeOK
<1>8. PendingStopped' BY DEF PendingStopped, Unstarted, HeldBack, TypeOK
<1> QED BY <1>1, <1>2, <1>3, <1>4, <1>5, <1>6, <1>7, <1>8

\* The start of a check on the pool preserves the invariant.
LEMMA BeginStep ==
  ASSUME IInv, NEW c \in Check, Begin(c)
  PROVE  IInv'
<1> USE DEF IInv, Begin, BeginAt, GoOn, poolVars, hostVars
<1>1. told' \in [Check -> Seq(Status)] /\ ToldInOrder' /\ \A d \in Check : Last(d)' = Last(d)
  BY DEF TypeOK, ToldInOrder, Last
<1>2. TypeOK' BY <1>1 DEF TypeOK, Status, Final
<1>3. AllHeard' BY <1>1 DEF AllHeard, Heard, TypeOK, Follows, Final
<1>4. StartLoop' BY <1>1 DEF StartLoop, TypeOK
<1>5. LockHeld' BY DEF LockHeld, TypeOK
<1>6. EndAnnounced' BY DEF EndAnnounced, TypeOK
<1>7. CancelCovers' BY DEF CancelCovers, TypeOK
<1>8. PendingStopped'
  <2>1. pc[c] = "queued" /\ status[c] = "PENDING" /\ told[c] = <<"PENDING">>
    BY DEF AllHeard, Heard, PendingStopped, Unstarted
  <2>2. cancelled => c \in interrupted
    BY <2>1 DEF EndAnnounced, CancelCovers
  <2>3. pc' = [pc EXCEPT ![c] = "telling"] /\ told' = told /\ status' = status
        /\ (cancelled => new' = [new EXCEPT ![c] = "CANCELLED"])
    BY <2>2
  <2> QED BY <2>1, <2>3 DEF PendingStopped, Unstarted, HeldBack, TypeOK
<1> QED BY <1>1, <1>2, <1>3, <1>4, <1>5, <1>6, <1>7, <1>8

\* The end of a check's run preserves the invariant.
LEMMA RunEndsStep ==
  ASSUME IInv, NEW c \in Check, NEW s \in Final, RunEnds(c, s)
  PROVE  IInv'
<1> USE DEF IInv, RunEnds, GoOn, poolVars, hostVars
<1>1. told' \in [Check -> Seq(Status)] /\ ToldInOrder' /\ \A d \in Check : Last(d)' = Last(d)
  BY DEF TypeOK, ToldInOrder, Last
<1>2. TypeOK' BY <1>1 DEF TypeOK, Status
<1>3. AllHeard' BY <1>1 DEF AllHeard, Heard, TypeOK, Follows, Final
<1>4. StartLoop' BY <1>1 DEF StartLoop, TypeOK
<1>5. LockHeld' BY DEF LockHeld, TypeOK
<1>6. EndAnnounced' BY DEF EndAnnounced, TypeOK
<1>7. CancelCovers' BY DEF CancelCovers, TypeOK
<1>8. PendingStopped' BY DEF PendingStopped, Unstarted, HeldBack, TypeOK
<1> QED BY <1>1, <1>2, <1>3, <1>4, <1>5, <1>6, <1>7, <1>8

\* Telling a new status preserves the invariant.
LEMMA ChangeExecutionStatusStep ==
  ASSUME IInv, NEW c \in Check, ChangeExecutionStatus(c)
  PROVE  IInv'
<1> USE DEF IInv, ChangeExecutionStatus, ChangeStatus, poolVars, hostVars
<1>0. new[c] \in Status /\ Tell(c, new[c]) /\
      IF Last(c) = "nothing" THEN new[c] = "PENDING" ELSE <<Last(c), new[c]>> \in Follows
  BY DEF AllHeard, Heard, TypeOK, Follows, Final
<1>1. /\ told' \in [Check -> Seq(Status)] /\ ToldInOrder'
      /\ Last(c)' = new[c]
      /\ \A d \in Check \ {c} : Last(d)' = Last(d)
  BY <1>0, TellAppends
<1>2. TypeOK' BY <1>1 DEF TypeOK
<1>3. AllHeard' BY <1>1 DEF AllHeard, Heard, TypeOK, Final
<1>4. StartLoop' BY <1>1 DEF StartLoop, TypeOK
<1>5. LockHeld' BY DEF LockHeld, TypeOK
<1>6. EndAnnounced' BY DEF EndAnnounced, TypeOK
<1>7. CancelCovers' BY DEF CancelCovers, TypeOK
<1>8. PendingStopped'
  <2>1. Append(<<"PENDING">>, "CANCELLED") = <<"PENDING", "CANCELLED">>
    BY PairAppended
  <2>2. /\ told'[c] = Append(told[c], new[c]) /\ pc[c] = "telling"
        /\ \A d \in Check \ {c} : told'[d] = told[d] /\ pc'[d] = pc[d] /\ new'[d] = new[d]
        /\ cancelled' = cancelled /\ begun' = begun /\ status' \in [Check -> Status]
        /\ \A d \in Check \ {c} : status'[d] = status[d]
    BY <1>2 DEF Tell, TypeOK
  <2>3. Unstarted(c)'
    <3>1. pc'[c] \notin {"new", "queued"}
      BY DEF TypeOK
    <3> QED BY <3>1 DEF Unstarted
  <2>4. ASSUME cancelled, c \notin begun PROVE HeldBack(c)'
    <3>1. new[c] = "CANCELLED" /\ status[c] = "PENDING" /\ told[c] = <<"PENDING">>
      BY <2>2, <2>4 DEF PendingStopped, HeldBack
    <3>2. told'[c] = <<"PENDING", "CANCELLED">>
      BY <2>1, <2>2, <3>1
    <3>3. pc'[c] \in {"finalizing", "done"}
      BY <3>1 DEF TypeOK
    <3> QED BY <3>2, <3>3 DEF HeldBack
  <2>5. ASSUME NEW d \in Check \ {c}
        PROVE  Unstarted(d)' /\ (cancelled /\ d \notin begun => HeldBack(d)')
    BY <2>2 DEF PendingStopped, Unstarted, HeldBack
  <2> QED BY <2>2, <2>3, <2>4, <2>5 DEF PendingStopped
<1> QED BY <1>1, <1>2, <1>3, <1>4, <1>5, <1>6, <1>7, <1>8

\* A listener that raises preserves the invariant.
LEMMA ListenerFailsStep ==
  ASSUME IInv, NEW c \in Check, ListenerFails(c)
  PROVE  IInv'
<1> USE DEF IInv, ListenerFails, GoOn, Pool!End, poolVars, hostVars
<1>0. new[c] \in Status /\ Tell(c, new[c]) /\
      IF Last(c) = "nothing" THEN new[c] = "PENDING" ELSE <<Last(c), new[c]>> \in Follows
  BY DEF AllHeard, Heard, TypeOK, Follows, Final
<1>1. /\ told' \in [Check -> Seq(Status)] /\ ToldInOrder'
      /\ Last(c)' = new[c]
      /\ \A d \in Check \ {c} : Last(d)' = Last(d)
  BY <1>0, TellAppends
<1>2. TypeOK' 
  <2>1. CASE status[c] = "PENDING"
    BY <1>1, <2>1 DEF TypeOK, Status, Final
  <2>2. CASE status[c] = "RUNNING" /\ new[c] = "COMPLETED"
    <3>1. new' \in [Check -> Status]
      BY <2>2 DEF TypeOK, Status, Final
    <3> QED BY <1>1, <2>2, <3>1 DEF TypeOK
  <2>3. CASE status[c] = "RUNNING" /\ new[c] # "COMPLETED"
    BY <1>1, <2>3 DEF TypeOK, Status, Final
  <2> QED BY <2>1, <2>2, <2>3
<1>3. AllHeard' 
  <2>1. ASSUME NEW d \in Check \ {c} PROVE Heard(d)'
    <3>1. pc'[d] = pc[d] /\ new'[d] = new[d] /\ Last(d)' = Last(d)
      BY <1>1 DEF TypeOK
    <3> QED BY <3>1 DEF AllHeard, Heard
  <2>2. Heard(c)'
    <3>1. CASE status[c] = "PENDING"
      <4>1. pc'[c] = "done" /\ c \in checks'
        BY <3>1 DEF EndAnnounced, TypeOK
      <4> QED BY <4>1 DEF Heard
    <3>2. CASE status[c] = "RUNNING" /\ new[c] = "COMPLETED"
      <4>1. pc'[c] = "telling" /\ new'[c] \in {"ERRORED", "CANCELLED"} /\ status'[c] = "RUNNING"
        BY <3>2 DEF TypeOK
      <4>2. <<"COMPLETED", new'[c]>> \in Follows
        BY <4>1 DEF Follows
      <4> QED BY <1>1, <3>2, <4>1, <4>2 DEF Heard, Final
    <3>3. CASE status[c] = "RUNNING" /\ new[c] # "COMPLETED"
      <4>1. pc'[c] = "finalizing" /\ new[c] \in Final
        BY <3>3 DEF TypeOK, AllHeard, Heard
      <4> QED BY <1>1, <4>1 DEF Heard
    <3> QED BY <3>1, <3>2, <3>3
  <2> QED BY <2>1, <2>2 DEF AllHeard
<1>4. StartLoop' BY <1>1 DEF StartLoop, TypeOK
<1>5. LockHeld' BY DEF LockHeld, TypeOK
<1>6. EndAnnounced' BY DEF EndAnnounced, TypeOK
<1>7. CancelCovers' BY DEF CancelCovers, TypeOK
<1>8. PendingStopped'
  <2>1. Append(<<"PENDING">>, "CANCELLED") = <<"PENDING", "CANCELLED">>
    BY PairAppended
  <2>2. /\ told'[c] = Append(told[c], new[c]) /\ pc[c] = "telling"
        /\ \A d \in Check \ {c} : told'[d] = told[d] /\ pc'[d] = pc[d] /\ new'[d] = new[d]
        /\ cancelled' = cancelled /\ begun' = begun /\ status' \in [Check -> Status]
        /\ \A d \in Check \ {c} : status'[d] = status[d]
    BY <1>2 DEF Tell, TypeOK
  <2>3. Unstarted(c)'
    <3>1. pc'[c] \notin {"new", "queued"}
      BY DEF TypeOK
    <3> QED BY <3>1 DEF Unstarted
  <2>4. ASSUME cancelled, c \notin begun PROVE HeldBack(c)'
    <3>1. new[c] = "CANCELLED" /\ status[c] = "PENDING" /\ told[c] = <<"PENDING">>
      BY <2>2, <2>4 DEF PendingStopped, HeldBack
    <3>2. told'[c] = <<"PENDING", "CANCELLED">>
      BY <2>1, <2>2, <3>1
    <3>3. pc'[c] \in {"finalizing", "done"}
      BY <3>1 DEF TypeOK
    <3> QED BY <3>2, <3>3 DEF HeldBack
  <2>5. ASSUME NEW d \in Check \ {c}
        PROVE  Unstarted(d)' /\ (cancelled /\ d \notin begun => HeldBack(d)')
    BY <2>2 DEF PendingStopped, Unstarted, HeldBack
  <2> QED BY <2>2, <2>3, <2>4, <2>5 DEF PendingStopped
<1> QED BY <1>1, <1>2, <1>3, <1>4, <1>5, <1>6, <1>7, <1>8

\* Finalizing a check preserves the invariant.
LEMMA FinalizeCheckStep ==
  ASSUME IInv, NEW c \in Check, FinalizeCheck(c)
  PROVE  IInv'
<1> USE DEF IInv, FinalizeCheck, Finalize, GoOn, Pool!End, poolVars, hostVars
<1>1. told' \in [Check -> Seq(Status)] /\ ToldInOrder' /\ \A d \in Check : Last(d)' = Last(d)
  BY DEF TypeOK, ToldInOrder, Last
<1>2. TypeOK' BY <1>1 DEF TypeOK
<1>3. AllHeard' BY <1>1 DEF AllHeard, Heard, TypeOK
<1>4. StartLoop' BY <1>1 DEF StartLoop, TypeOK
<1>5. LockHeld'
  <2>1. /\ lock = "free" /\ host' = host /\ pc \in [Check -> {"new", "queued", "telling",
              "running", "finalizing", "last", "done"}]
        /\ c # "free" /\ c # "host"
    BY DEF TypeOK
  <2>2. CASE checks \ {c} = {}
    <3>1. lock' = c /\ pc' = [pc EXCEPT ![c] = "last"]
      BY <2>2
    <3> QED BY <2>1, <3>1 DEF LockHeld
  <2>3. CASE checks \ {c} # {}
    <3>1. lock' = lock /\ pc' = [pc EXCEPT ![c] = "done"]
      BY <2>3
    <3> QED BY <2>1, <3>1 DEF LockHeld
  <2> QED BY <2>2, <2>3
<1>6. EndAnnounced' BY DEF EndAnnounced, TypeOK
<1>7. CancelCovers' BY DEF CancelCovers, TypeOK
<1>8. PendingStopped' BY DEF PendingStopped, Unstarted, HeldBack, TypeOK
<1> QED BY <1>1, <1>2, <1>3, <1>4, <1>5, <1>6, <1>7, <1>8

\* Announcing the end preserves the invariant.
LEMMA ChecksFinishedStep ==
  ASSUME IInv, NEW c \in Check, ChecksFinished(c)
  PROVE  IInv'
<1> USE DEF IInv, ChecksFinished, RunFinished, GoOn, Pool!End, hostVars
<1>1. told' \in [Check -> Seq(Status)] /\ ToldInOrder' /\ \A d \in Check : Last(d)' = Last(d)
  BY DEF TypeOK, ToldInOrder, Last
<1>2. TypeOK' BY <1>1 DEF TypeOK
<1>3. AllHeard' BY <1>1 DEF AllHeard, Heard, TypeOK
<1>4. StartLoop' BY <1>1 DEF StartLoop, TypeOK
<1>5. LockHeld' BY DEF LockHeld, TypeOK
<1>6. EndAnnounced' BY DEF EndAnnounced, LockHeld, TypeOK
<1>7. CancelCovers' BY DEF CancelCovers, TypeOK
<1>8. PendingStopped' BY DEF PendingStopped, Unstarted, HeldBack, TypeOK
<1> QED BY <1>1, <1>2, <1>3, <1>4, <1>5, <1>6, <1>7, <1>8

-----------------------------------------------------------------------------
\* Every step preserves the invariant.
LEMMA NextInv == IInv /\ [Next]_vars => IInv'
<1> SUFFICES ASSUME IInv, [Next]_vars PROVE IInv'
  OBVIOUS
<1>1. CASE Start \/ CallCancel \/ ShutDown
  BY <1>1, StartStep, CallCancelStep, ShutDownStep
<1>2. CASE HostStep
  <2>1. CASE \E c \in Check : TellPending(c) \/ InterruptCheck(c)
    BY <2>1, TellPendingStep, InterruptCheckStep
  <2>2. CASE AddCheck \/ StartReturns \/ StartRaises \/ BeginCancel \/ CancelReturns
    BY <2>2, AddCheckStep, StartReturnsStep, StartRaisesStep, BeginCancelStep,
       CancelReturnsStep
  <2> QED BY <1>2, <2>1, <2>2 DEF HostStep
<1>3. CASE \E c \in Check : CheckStep(c)
  <2> PICK c \in Check : CheckStep(c)
    BY <1>3
  <2> QED BY BeginStep, RunEndsStep, ChangeExecutionStatusStep, ListenerFailsStep,
             FinalizeCheckStep, ChecksFinishedStep DEF CheckStep
<1>4. CASE UNCHANGED vars
  BY <1>4 DEF vars, poolVars, hostVars, checkVars, IInv, TypeOK, ToldInOrder, AllHeard,
              Heard, Last, StartLoop, LockHeld, EndAnnounced, CancelCovers, PendingStopped,
              Unstarted, HeldBack
<1> QED BY <1>1, <1>2, <1>3, <1>4 DEF Next

LEMMA Invariance == Spec => []IInv
BY InitInv, NextInv, PTL DEF Spec

\* The variables of the suite keep their types, for any checks and bounds.
THEOREM TypeCorrect == Spec => []TypeOK
<1>1. IInv => TypeOK BY DEF IInv
<1> QED BY <1>1, Invariance, PTL

\* The status listener hears of every check in order: PENDING, RUNNING, then a
\* final status, in any interleaving of start, cancel and the pool's threads.
THEOREM TellsInOrder == Spec => []ToldInOrder
<1>1. IInv => ToldInOrder BY DEF IInv
<1> QED BY <1>1, Invariance, PTL

\* on_checks_finished is called at most once, and after the listener has heard
\* the final status of every check.
THEOREM AnnouncesEndOnceAndLast == Spec => []FinishedLast
<1>1. ASSUME IInv PROVE FinishedLast
  <2> SUFFICES ASSUME finishes > 0
      PROVE finishes = 1 /\ \A c \in Check : pc[c] = "done" /\ told[c][Len(told[c])] \in Final
    BY DEF FinishedLast
  <2>1. finishes = 1 /\ checks = {} /\ \A c \in Check : pc[c] = "done"
    BY <1>1 DEF IInv, TypeOK, EndAnnounced
  <2>2. \A c \in Check : Last(c) \in Final
    BY <1>1, <2>1 DEF IInv, AllHeard, Heard
  <2> QED BY <2>1, <2>2 DEF Last, Final
<1> QED BY <1>1, Invariance, PTL

\* Once cancel has returned, the checks that the pool had not started by then are
\* never told to be RUNNING and not run, and all that are not finalized are
\* interrupted, in any interleaving of start, cancel and the pool's threads.
THEOREM StopsPending == Spec => []CancelStopsPending
<1>1. ASSUME IInv PROVE CancelStopsPending
  <2> SUFFICES ASSUME cancelled, NEW c \in Check \ begun
               PROVE  /\ told[c] \in {<<>>, <<"PENDING">>, <<"PENDING", "CANCELLED">>}
                      /\ pc[c] # "running"
    BY <1>1 DEF IInv, CancelCovers, CancelStopsPending
  <2>1. HeldBack(c) /\ Unstarted(c)
    BY <1>1 DEF IInv, PendingStopped
  <2>2. pc[c] \in {"new", "queued", "telling", "running", "finalizing", "last", "done"}
    BY <1>1 DEF IInv, TypeOK
  <2> QED BY <2>1, <2>2 DEF HeldBack, Unstarted
<1> QED BY <1>1, Invariance, PTL
=============================================================================
