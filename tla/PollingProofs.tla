----------------------------- MODULE PollingProofs -----------------------------
(***************************************************************************)
(* For any number of poller invocations, threads, events and faults, and   *)
(* any limit on the working threads: one poll per user, on the only        *)
(* current copy of the user's event, and counters that cover the threads.  *)
(* And for the throttler through which a poller re-invokes itself, with    *)
(* any number of requests: no call without a request of its own.           *)
(***************************************************************************)
EXTENDS Polling, Throttler, FiniteSetTheorems, TLAPS

Holding == {"park", "load", "poll", "touch", "release"}

(* Between try_acquire and release a thread has the lock of its event's    *)
(* user; the lock outlives it only as Dead.                                *)
LocksHeld ==
    \A t \in Threads :
        /\ thread[t].pc # "none" => thread[t].event \in Events
        /\ thread[t].pc \in Holding => lock[thread[t].event] = t

(* An invocation that has added no event has no threads. *)
ThreadsAdded ==
    \A p \in Pollers, s \in Slots : thread[<<p, s>>].pc # "none" => poller[p].any

(* submit_count and working_count bound the threads they stand for, and    *)
(* together they stay within the limit.                                    *)
Counted(p) ==
    /\ IsFiniteSet(Deciding(p)) /\ IsFiniteSet(AtWork(p))
    /\ Cardinality(Deciding(p)) <= poller[p].submit
    /\ Cardinality(AtWork(p)) <= poller[p].working
    /\ Total(poller[p]) <= MaxWorking

AllCounted == \A p \in Pollers : Counted(p)

IInv == TypeOK /\ LocksHeld /\ WorkerOwnsEvent /\ ThreadsAdded /\ AllCounted

-----------------------------------------------------------------------------
Groups == [pc : {"idle", "query", "add", "unlock", "join"},
           rows : SUBSET Events, more : BOOLEAN, any : BOOLEAN,
           submit : 0..MaxWorking, working : 0..MaxWorking, again : BOOLEAN]

ThreadRecords == [pc : {"none", "lock", "park", "load", "poll", "touch", "release", "again"},
                  event : Events \cup {Free}]

(* Initially there are no threads. *)
LEMMA InitIInv == Init => IInv
<1> SUFFICES ASSUME Init PROVE IInv
  OBVIOUS
<1>1. /\ poller \in [Pollers -> Groups] /\ thread \in [Threads -> ThreadRecords]
      /\ \A p \in Pollers : poller[p] = Resting
      /\ \A t \in Threads : thread[t] = NoThread
  <2>1. Resting \in Groups /\ NoThread \in ThreadRecords
    BY WorkingAssumption DEF Resting, NoThread, Groups, ThreadRecords
  <2> QED
    BY <2>1 DEF Init
<1>2. TypeOK
  <2>1. /\ row \in [Events -> {"none", "due", "parked"}]
        /\ lock \in [Events -> Threads \cup {Free, Dead}]
        /\ collectLock \in Pollers \cup {Free, Dead}
        /\ queue \in 0..MaxQueue /\ faults \in 0..MaxFaults
        /\ current \subseteq Threads /\ passed \subseteq Pollers \X Events
        /\ strayed \subseteq Events /\ missed \in BOOLEAN
    <3>1. row \in [Events -> {"none", "due", "parked"}] /\ lock \in [Events -> Threads \cup {Free, Dead}]
      BY DEF Init
    <3>2. queue \in 0..MaxQueue /\ faults \in 0..MaxFaults
      BY BoundsAssumption DEF Init
    <3>3. missed \in BOOLEAN
      BY DEF Init
    <3> QED
      BY <3>1, <3>2, <3>3 DEF Init
  <2> QED
    BY <1>1, <2>1 DEF TypeOK, Groups, ThreadRecords
<1>3. LocksHeld /\ WorkerOwnsEvent /\ ThreadsAdded
  <2>1. \A t \in Threads : thread[t].pc = "none"
    BY <1>1 DEF NoThread
  <2> QED
    BY <2>1 DEF LocksHeld, WorkerOwnsEvent, ThreadsAdded, Holding, Threads
<1>4. AllCounted
  <2> SUFFICES ASSUME NEW p \in Pollers PROVE Counted(p)
    BY DEF AllCounted
  <2>1. Deciding(p) = {} /\ AtWork(p) = {}
    BY <1>1 DEF Deciding, AtWork, Threads, NoThread
  <2>2. poller[p].submit = 0 /\ poller[p].working = 0
    BY <1>1 DEF Resting
  <2> QED
    BY <2>1, <2>2, FS_EmptySet, WorkingAssumption DEF Counted, Total
<1> QED
  BY <1>2, <1>3, <1>4 DEF IInv

-----------------------------------------------------------------------------
(* A step of one thread leaves the other threads as they are. *)
LEMMA OthersKept ==
    ASSUME thread \in [Threads -> ThreadRecords], NEW t \in Threads, ThreadStep(t)
    PROVE  \A u \in Threads : u # t => thread'[u] = thread[u]
BY DEF ThreadStep, TryLock, Park, Load, Poll, TouchEvent, Release, InvokeAgain, Goto, End

(* Where a step takes its own thread. *)
LEMMA OwnMoves ==
    ASSUME thread \in [Threads -> ThreadRecords], NEW t \in Threads
    PROVE  /\ \A label : Goto(t, label) =>
                 thread'[t].pc = label /\ thread'[t].event = thread[t].event
           /\ End(t) => thread'[t].pc = "none"
BY DEF ThreadRecords, Goto, End, NoThread

(* Only its own thread, or the death of its invocation, moves a thread on; *)
(* Add starts one.                                                         *)
LEMMA ThreadsKept ==
    ASSUME NEW p \in Pollers,
           Deliver(p) \/ Query(p) \/ Full(p) \/ NextPage(p) \/ UnlockCollect(p) \/ Join(p)
             \/ InvokeLambda(p)
    PROVE  UNCHANGED <<thread, lock, row, current>>
BY DEF Deliver, Query, Full, NextPage, UnlockCollect, Join, InvokeLambda

(* A query leaves the counters of every group alone. *)
LEMMA QueryKeeps ==
    ASSUME poller \in [Pollers -> Groups], NEW q \in Pollers, Query(q), NEW p \in Pollers
    PROVE  /\ poller'[p].any = poller[p].any /\ poller'[p].submit = poller[p].submit
           /\ poller'[p].working = poller[p].working
<1>1. PICK page \in SUBSET Remaining(q) :
        poller' = [poller EXCEPT ![q].pc = IF page = {} THEN "unlock" ELSE "add",
                                 ![q].rows = page,
                                 ![q].more = (Cardinality(page) = MaxWorking)]
  BY DEF Query
<1> DEFINE label == IF page = {} THEN "unlock" ELSE "add"
           more == Cardinality(page) = MaxWorking
<1>2. poller' = [poller EXCEPT ![q].pc = label, ![q].rows = page, ![q].more = more]
  BY <1>1
<1> HIDE DEF label, more
<1> QED
  BY <1>2 DEF Groups

(* What is deciding is counted by submit_count, so that it can be taken    *)
(* back.                                                                   *)
LEMMA SubmitPositive ==
    ASSUME TypeOK, AllCounted, NEW p \in Pollers, NEW s \in Slots,
           thread[<<p, s>>].pc \in {"lock", "park", "load"}
    PROVE  poller[p].submit >= 1
<1>1. s \in Deciding(p)
  BY DEF Deciding
<1>2. /\ IsFiniteSet(Deciding(p)) /\ Cardinality(Deciding(p)) <= poller[p].submit
      /\ poller[p].submit \in 0..MaxWorking
  BY DEF AllCounted, Counted, TypeOK
<1>3. Cardinality(Deciding(p)) \in Nat /\ Cardinality(Deciding(p)) # 0
  BY <1>1, <1>2, FS_EmptySet, FS_CardinalityType
<1> QED
  BY <1>2, <1>3, WorkingAssumption

-----------------------------------------------------------------------------
(* Type correctness; that the counters stay in their ranges needs that     *)
(* they cover the threads.                                                 *)
LEMMA NextTypeOK == TypeOK /\ LocksHeld /\ AllCounted /\ [Next]_vars => TypeOK'
<1> SUFFICES ASSUME TypeOK, LocksHeld, AllCounted, [Next]_vars PROVE TypeOK'
  OBVIOUS
<1> USE WorkingAssumption, BoundsAssumption
<1> DEFINE Basics ==
      /\ row \in [Events -> {"none", "due", "parked"}]
      /\ lock \in [Events -> Threads \cup {Free, Dead}]
      /\ collectLock \in Pollers \cup {Free, Dead}
      /\ queue \in 0..MaxQueue
      /\ current \subseteq Threads /\ passed \subseteq Pollers \X Events
      /\ faults \in 0..MaxFaults /\ strayed \subseteq Events /\ missed \in BOOLEAN
<1>1. TypeOK <=> Basics /\ poller \in [Pollers -> Groups] /\ thread \in [Threads -> ThreadRecords]
  BY DEF TypeOK, Groups, ThreadRecords
<1>2. TypeOK' <=> Basics' /\ poller' \in [Pollers -> Groups] /\ thread' \in [Threads -> ThreadRecords]
  BY DEF TypeOK, Groups, ThreadRecords
<1>3. Basics /\ poller \in [Pollers -> Groups] /\ thread \in [Threads -> ThreadRecords]
  BY <1>1
<1>4. Invoked \in 0..MaxQueue
  BY <1>3 DEF Invoked
<1>5. Resting \in Groups /\ NoThread \in ThreadRecords
  BY DEF Resting, NoThread, Groups, ThreadRecords
<1>6. \A t \in Threads : thread[t].pc # "none" => thread[t].event \in Events
  BY DEF LocksHeld
<1>7. Basics'
  <2>1. ASSUME NEW e \in Events, Connect(e) \/ Expire(e) \/ Ripen(e) PROVE Basics'
    BY <2>1, <1>3, <1>4 DEF Connect, Expire, Ripen, Rekey, Fault, Threads
  <2>2. ASSUME NEW p \in Pollers,
               Deliver(p) \/ CollectorStep(p) \/ InvokeLambda(p) PROVE Basics'
    <3>1. CASE Deliver(p)
      <4>1. queue' \in 0..MaxQueue /\ collectLock' \in Pollers \cup {Free, Dead}
        BY <3>1, <1>3 DEF Deliver
      <4>2. missed' \in BOOLEAN
        BY <3>1, <1>3, Zenon DEF Deliver
      <4> QED
        BY <3>1, <1>3, <4>1, <4>2 DEF Deliver
    <3>2. CASE Query(p) \/ Add(p) \/ Full(p) \/ NextPage(p)
      BY <3>2, <1>3 DEF Query, Add, Full, NextPage, Remaining, Threads
    <3>3. CASE UnlockCollect(p) \/ Join(p) \/ InvokeLambda(p)
      BY <3>3, <1>3, <1>4 DEF UnlockCollect, Join, InvokeLambda, Forget
    <3> QED
      BY <2>2, <3>1, <3>2, <3>3 DEF CollectorStep
  <2>3. ASSUME NEW p \in Pollers, Crash(p) PROVE Basics'
    BY <2>3, <1>3, <1>4 DEF Crash, Forget, Fault
  <2>4. ASSUME NEW t \in Threads, ThreadStep(t) PROVE Basics'
    <3>1. CASE TryLock(t) \/ Release(t) \/ InvokeAgain(t)
      BY <3>1, <1>3 DEF TryLock, Release, InvokeAgain
    <3>2. CASE Park(t) \/ TouchEvent(t)
      BY <3>2, <1>3, <1>6 DEF Park, TouchEvent, UpdateActionTime
    <3>3. CASE Load(t) \/ Poll(t)
      BY <3>3, <1>3, <1>6 DEF Load, Poll, Rekey
    <3> QED
      BY <2>4, <3>1, <3>2, <3>3 DEF ThreadStep
  <2>5. CASE ExpireCollect
    BY <2>5, <1>3 DEF ExpireCollect
  <2>6. CASE UNCHANGED vars
    BY <2>6, <1>3 DEF vars
  <2> QED
    BY <2>1, <2>2, <2>3, <2>4, <2>5, <2>6 DEF Next
<1>8. poller' \in [Pollers -> Groups] /\ thread' \in [Threads -> ThreadRecords]
  <2> HIDE DEF Basics
  <2>0. poller \in [Pollers -> Groups] /\ thread \in [Threads -> ThreadRecords]
    BY <1>3
  <2>1. ASSUME NEW e \in Events, Connect(e) \/ Expire(e) \/ Ripen(e)
        PROVE  UNCHANGED <<poller, thread>>
    BY <2>1 DEF Connect, Expire, Ripen
  <2>2. ASSUME NEW p \in Pollers, Deliver(p) \/ CollectorStep(p) \/ InvokeLambda(p)
        PROVE  poller' \in [Pollers -> Groups] /\ thread' \in [Threads -> ThreadRecords]
    <3>0. poller[p] \in Groups
      BY <2>0
    <3>1. CASE Deliver(p) \/ Full(p) \/ NextPage(p) \/ InvokeLambda(p)
      <4>1. /\ [poller[p] EXCEPT !.pc = "query"] \in Groups
            /\ [poller[p] EXCEPT !.pc = "unlock"] \in Groups
            /\ [poller[p] EXCEPT !.pc = "unlock", !.rows = {}, !.again = TRUE] \in Groups
            /\ [poller[p] EXCEPT !.again = FALSE] \in Groups
        BY <3>0 DEF Groups
      <4> QED
        BY <2>0, <3>1, <4>1 DEF Deliver, Full, NextPage, InvokeLambda
    <3>2. CASE Query(p)
      <4>1. PICK page \in SUBSET Remaining(p) :
              poller' = [poller EXCEPT ![p].pc = IF page = {} THEN "unlock" ELSE "add",
                                       ![p].rows = page,
                                       ![p].more = (Cardinality(page) = MaxWorking)]
        BY <3>2 DEF Query
      <4>2. [poller[p] EXCEPT !.pc = IF page = {} THEN "unlock" ELSE "add", !.rows = page,
                              !.more = (Cardinality(page) = MaxWorking)] \in Groups
        BY <3>0 DEF Groups, Remaining
      <4> QED
        BY <2>0, <3>2, <4>1, <4>2 DEF Query
    <3>3. CASE Add(p)
      <4>1. PICK e \in poller[p].rows, s \in Slots :
              /\ thread' = [thread EXCEPT ![<<p, s>>] = [pc |-> "lock", event |-> e]]
              /\ poller' = [poller EXCEPT ![p].rows = @ \ {e}, ![p].any = TRUE,
                                          ![p].submit = @ + 1]
        BY <3>3 DEF Add
      <4>2. poller[p].submit + 1 \in 0..MaxWorking
        BY <3>0, <3>3 DEF Add, Total, Groups
      <4>3. [poller[p] EXCEPT !.rows = @ \ {e}, !.any = TRUE, !.submit = @ + 1] \in Groups
        BY <3>0, <4>2 DEF Groups
      <4>4. [pc |-> "lock", event |-> e] \in ThreadRecords
        BY <3>0, <4>1 DEF Groups, ThreadRecords
      <4> QED
        BY <2>0, <4>1, <4>3, <4>4
    <3>4. CASE UnlockCollect(p) \/ Join(p)
      <4>1. [poller[p] EXCEPT !.pc = "join"] \in Groups
        BY <3>0 DEF Groups
      <4> QED
        BY <2>0, <1>5, <3>4, <4>1 DEF UnlockCollect, Join
    <3> QED
      BY <2>2, <3>1, <3>2, <3>3, <3>4 DEF CollectorStep
  <2>3. ASSUME NEW p \in Pollers, Crash(p)
        PROVE  poller' \in [Pollers -> Groups] /\ thread' \in [Threads -> ThreadRecords]
    BY <2>0, <2>3, <1>5 DEF Crash
  <2>4. ASSUME NEW t \in Threads, ThreadStep(t)
        PROVE  poller' \in [Pollers -> Groups] /\ thread' \in [Threads -> ThreadRecords]
    <3>1. PICK p \in Pollers, s \in Slots : t = <<p, s>>
      BY DEF Threads
    <3>2. poller[p] \in Groups /\ thread[t] \in ThreadRecords /\ t[1] = p
      BY <2>0, <3>1
    <3>3. thread' \in [Threads -> ThreadRecords]
      <4>1. \A label \in {"park", "load", "poll", "touch", "release", "again"} :
              [thread[t] EXCEPT !.pc = label] \in ThreadRecords
        BY <3>2 DEF ThreadRecords
      <4> QED
        BY <2>0, <2>4, <1>5, <4>1 DEF ThreadStep, TryLock, Park, Load, Poll, TouchEvent, Release,
                                 InvokeAgain, Goto, End
    <3>4. thread[t].pc \in {"lock", "park", "load"} =>
            /\ [poller[p] EXCEPT !.submit = @ - 1] \in Groups
            /\ [poller[p] EXCEPT !.submit = @ - 1, !.working = @ + 1] \in Groups
      <4> SUFFICES ASSUME thread[t].pc \in {"lock", "park", "load"}
                   PROVE  /\ [poller[p] EXCEPT !.submit = @ - 1] \in Groups
                          /\ [poller[p] EXCEPT !.submit = @ - 1, !.working = @ + 1] \in Groups
        OBVIOUS
      <4>1. poller[p].submit >= 1
        BY <3>1, SubmitPositive
      <4>2. Total(poller[p]) <= MaxWorking
        BY DEF AllCounted, Counted
      <4>3. poller[p].submit - 1 \in 0..MaxWorking /\ poller[p].working + 1 \in 0..MaxWorking
        BY <3>2, <4>1, <4>2 DEF Total, Groups
      <4> QED
        BY <3>2, <4>3 DEF Groups
    <3>5. [poller[p] EXCEPT !.again = TRUE] \in Groups
      BY <3>2 DEF Groups
    <3>6. \/ poller' = poller
          \/ thread[t].pc \in {"lock", "park", "load"} /\
               \/ poller' = [poller EXCEPT ![p].submit = @ - 1]
               \/ poller' = [poller EXCEPT ![p].submit = @ - 1, ![p].working = @ + 1]
          \/ poller' = [poller EXCEPT ![p].again = TRUE]
      BY <2>4, <3>2 DEF ThreadStep, TryLock, Park, Load, Poll, TouchEvent, Release, InvokeAgain,
                        DecSubmit
    <3> QED
      BY <2>0, <3>3, <3>4, <3>5, <3>6
  <2>5. CASE ExpireCollect
    BY <2>0, <2>5 DEF ExpireCollect
  <2>6. CASE UNCHANGED vars
    BY <2>0, <2>6 DEF vars
  <2> QED
    BY <2>0, <2>1, <2>2, <2>3, <2>4, <2>5, <2>6 DEF Next
<1> QED
  BY <1>2, <1>7, <1>8

-----------------------------------------------------------------------------
(* try_acquire gives a lock to one thread at a time, and nobody else gives *)
(* it back.                                                                *)
LEMMA NextLocksHeld ==
    TypeOK /\ LocksHeld /\ [Next]_vars => LocksHeld'
<1> SUFFICES ASSUME TypeOK, LocksHeld, [Next]_vars PROVE LocksHeld'
  OBVIOUS
<1> DEFINE Fine(t) == /\ thread[t].pc # "none" => thread[t].event \in Events
                      /\ thread[t].pc \in Holding => lock[thread[t].event] = t
<1>0. /\ \A t \in Threads : Fine(t)
      /\ lock \in [Events -> Threads \cup {Free, Dead}]
      /\ poller \in [Pollers -> Groups] /\ thread \in [Threads -> ThreadRecords]
  BY DEF LocksHeld, TypeOK, Groups, ThreadRecords
<1>1. Free \notin Threads /\ Dead \notin Threads
  BY LockAssumption
<1>2. ASSUME NEW t \in Threads, thread'[t] = thread[t],
             thread[t].pc \in Holding => lock'[thread[t].event] = lock[thread[t].event]
      PROVE  Fine(t)'
  BY <1>0, <1>2
<1>3. CASE UNCHANGED <<thread, lock>>
  BY <1>2, <1>3 DEF LocksHeld
<1>4. ASSUME NEW e \in Events, Connect(e) \/ Expire(e) \/ Ripen(e) PROVE LocksHeld'
  <2>1. thread' = thread
    BY <1>4 DEF Connect, Expire, Ripen
  <2>2. \A t \in Threads : thread[t].pc \in Holding =>
           lock'[thread[t].event] = lock[thread[t].event]
    <3>1. CASE Expire(e)
      BY <1>0, <1>1, <3>1 DEF Expire, Holding
    <3> QED
      BY <1>4, <3>1 DEF Connect, Ripen
  <2> QED
    BY <1>2, <2>1, <2>2 DEF LocksHeld
<1>5. ASSUME NEW p \in Pollers, Add(p) PROVE LocksHeld'
  <2>1. PICK e \in poller[p].rows, s \in Slots :
          /\ thread[<<p, s>>].pc = "none"
          /\ thread' = [thread EXCEPT ![<<p, s>>] = [pc |-> "lock", event |-> e]]
    BY <1>5 DEF Add
  <2>2. e \in Events /\ <<p, s>> \in Threads /\ lock' = lock
    BY <1>0, <1>5, <2>1 DEF Add, Groups, Threads
  <2>3. \A t \in Threads : t # <<p, s>> => Fine(t)'
    BY <1>0, <1>2, <2>1, <2>2
  <2>4. thread'[<<p, s>>] = [pc |-> "lock", event |-> e]
    BY <1>0, <2>1, <2>2
  <2> QED
    BY <2>2, <2>3, <2>4 DEF LocksHeld, Holding
<1>6. ASSUME NEW p \in Pollers, Crash(p) PROVE LocksHeld'
  <2>1. ASSUME NEW t \in Threads, t[1] # p PROVE Fine(t)'
    <3>1. thread'[t] = thread[t]
      BY <1>6, <2>1 DEF Crash
    <3>2. t \notin {p} \X Slots
      BY <2>1
    <3>3. thread[t].pc \in Holding => lock'[thread[t].event] = lock[thread[t].event]
      BY <1>0, <1>6, <3>2 DEF Crash, Holding
    <3> QED
      BY <1>2, <3>1, <3>3
  <2>2. ASSUME NEW t \in Threads, t[1] = p PROVE thread'[t].pc = "none"
    BY <1>6, <2>2 DEF Crash, NoThread
  <2> QED
    BY <2>1, <2>2 DEF LocksHeld, Holding
<1>7. ASSUME NEW t \in Threads, ThreadStep(t) PROVE LocksHeld'
  <2> DEFINE e == thread[t].event
  <2>1. \A u \in Threads : u # t => thread'[u] = thread[u]
    BY <1>0, <1>7, OthersKept
  <2>2. thread[t].pc # "none" /\ e \in Events
    BY <1>0, <1>7 DEF ThreadStep, TryLock, Park, Load, Poll, TouchEvent, Release, InvokeAgain
  <2>3. /\ lock' = lock \/ lock' = [lock EXCEPT ![e] = t] \/ lock' = [lock EXCEPT ![e] = Free]
        /\ lock' # lock => lock[e] \in {t, Free}
    BY <1>0, <1>7 DEF ThreadStep, TryLock, Park, Load, Poll, TouchEvent, Release, InvokeAgain, Holding
  <2>4. ASSUME NEW u \in Threads, u # t PROVE Fine(u)'
    <3>1. thread[u].pc \in Holding => lock'[thread[u].event] = lock[thread[u].event]
      BY <1>0, <1>1, <2>2, <2>3, <2>4 DEF Holding
    <3> QED
      BY <1>2, <2>1, <2>4, <3>1
  <2>5. Fine(t)'
    <3>0. /\ \A label : Goto(t, label) => thread'[t].pc = label /\ thread'[t].event = e
          /\ End(t) => thread'[t].pc = "none"
      BY <1>0, OwnMoves
    <3>1. CASE TryLock(t)
      BY <1>0, <2>2, <3>0, <3>1 DEF TryLock, Holding
    <3>2. CASE Park(t) \/ Load(t) \/ Poll(t) \/ TouchEvent(t)
      BY <1>0, <2>2, <3>0, <3>2 DEF Park, Load, Poll, TouchEvent, Holding
    <3>3. CASE Release(t) \/ InvokeAgain(t)
      BY <1>0, <2>2, <3>0, <3>3 DEF Release, InvokeAgain, Holding
    <3> QED
      BY <1>7, <3>1, <3>2, <3>3 DEF ThreadStep
  <2> QED
    BY <2>4, <2>5 DEF LocksHeld
<1>8. CASE ExpireCollect
  BY <1>3, <1>8 DEF ExpireCollect
<1>9. CASE UNCHANGED vars
  BY <1>3, <1>9 DEF vars
<1> QED
  BY <1>3, <1>4, <1>5, <1>6, <1>7, <1>8, <1>9, ThreadsKept DEF Next, CollectorStep

-----------------------------------------------------------------------------
(* While the lock is held nobody else gives the row a new key. *)
LEMMA NextWorkerOwnsEvent ==
    TypeOK /\ LocksHeld /\ WorkerOwnsEvent /\ [Next]_vars => WorkerOwnsEvent'
<1> SUFFICES ASSUME TypeOK, LocksHeld, WorkerOwnsEvent, [Next]_vars,
                    NEW t \in Threads, thread'[t].pc \in {"load", "poll", "touch"}
             PROVE  /\ t \in current' /\ lock'[thread'[t].event] = t
                    /\ row'[thread'[t].event] = "parked"
  BY DEF WorkerOwnsEvent
<1>0. /\ lock \in [Events -> Threads \cup {Free, Dead}]
      /\ row \in [Events -> {"none", "due", "parked"}]
      /\ current \subseteq Threads
      /\ thread \in [Threads -> ThreadRecords]
  BY DEF TypeOK, ThreadRecords
<1>1. LocksHeld'
  BY NextLocksHeld
<1>2. lock'[thread'[t].event] = t
  BY <1>1 DEF LocksHeld, Holding
<1>3. ASSUME thread'[t] = thread[t]
      PROVE  t \in current /\ thread[t].event \in Events /\ row[thread[t].event] = "parked"
             /\ lock[thread[t].event] = t
  BY <1>3 DEF WorkerOwnsEvent, LocksHeld
<1>4. ASSUME thread'[t] = thread[t], t \in current', row'[thread[t].event] = row[thread[t].event]
      PROVE  t \in current' /\ row'[thread'[t].event] = "parked"
  BY <1>3, <1>4
<1>5. CASE UNCHANGED <<thread, current, row>>
  BY <1>2, <1>3, <1>5
<1>6. ASSUME NEW e \in Events, Connect(e) \/ Expire(e) \/ Ripen(e)
      PROVE  t \in current' /\ row'[thread'[t].event] = "parked"
  <2>0. thread' = thread
    BY <1>6 DEF Connect, Expire, Ripen
  <2>1. CASE Connect(e)
    BY <1>0, <1>3, <2>0, <2>1 DEF Connect, Rekey
  <2>2. CASE Expire(e)
    BY <1>3, <2>0, <2>2 DEF Expire
  <2>3. CASE Ripen(e)
    <3>1. thread[t].event # e
      BY <1>3, <2>0, <2>3, LockAssumption DEF Ripen
    <3> QED
      BY <1>0, <1>3, <2>0, <2>3, <3>1 DEF Ripen
  <2> QED
    BY <1>6, <2>1, <2>2, <2>3
<1>7. ASSUME NEW p \in Pollers, Add(p)
      PROVE  t \in current' /\ row'[thread'[t].event] = "parked"
  <2>1. PICK e \in poller[p].rows, s \in Slots :
          /\ thread' = [thread EXCEPT ![<<p, s>>] = [pc |-> "lock", event |-> e]]
          /\ current' = IF <<p, e>> \in passed THEN current \cup {<<p, s>>} ELSE current
    BY <1>7 DEF Add
  <2>2. t # <<p, s>>
    BY <1>0, <2>1
  <2> QED
    BY <1>0, <1>3, <1>7, <2>1, <2>2 DEF Add
<1>8. ASSUME NEW p \in Pollers, Crash(p)
      PROVE  t \in current' /\ row'[thread'[t].event] = "parked"
  <2>1. t[1] # p
    BY <1>8 DEF Crash, NoThread
  <2>2. thread'[t] = thread[t]
    BY <1>8, <2>1 DEF Crash
  <2> QED
    BY <1>3, <1>8, <2>1, <2>2 DEF Crash
<1>9. ASSUME NEW u \in Threads, ThreadStep(u), u # t
      PROVE  t \in current' /\ row'[thread'[t].event] = "parked"
  <2>1. thread'[t] = thread[t]
    BY <1>0, <1>9, OthersKept
  <2>2. /\ t \in current /\ thread[t].event \in Events /\ row[thread[t].event] = "parked"
        /\ lock[thread[t].event] = t
    BY <1>3, <2>1
  <2>3. CASE TryLock(u) \/ Release(u) \/ InvokeAgain(u)
    BY <1>9, <2>1, <2>2, <2>3 DEF TryLock, Release, InvokeAgain
  <2>4. CASE Park(u) \/ Load(u) \/ Poll(u) \/ TouchEvent(u)
    <3>1. thread[u].event \in Events /\ thread[u].event # thread[t].event
      BY <1>9, <2>2, <2>4 DEF LocksHeld, Holding, Park, Load, Poll, TouchEvent
    <3>2. row'[thread[t].event] = row[thread[t].event] /\ t \in current'
      BY <1>0, <2>2, <2>4, <3>1 DEF Park, Load, Poll, TouchEvent, UpdateActionTime, Rekey
    <3> QED
      BY <2>1, <2>2, <3>2
  <2> QED
    BY <1>9, <2>3, <2>4 DEF ThreadStep
<1>10. ASSUME ThreadStep(t) PROVE t \in current' /\ row'[thread'[t].event] = "parked"
  <2> DEFINE e == thread[t].event
  <2>0. e \in Events
    BY <1>10 DEF LocksHeld, ThreadStep, TryLock, Park, Load, Poll, TouchEvent, Release, InvokeAgain
  <2>1. /\ \A label : Goto(t, label) => thread'[t].pc = label /\ thread'[t].event = e
        /\ End(t) => thread'[t].pc = "none"
    BY <1>0, OwnMoves
  <2>2. CASE Park(t)
    BY <1>0, <2>0, <2>1, <2>2 DEF Park, UpdateActionTime
  <2>3. CASE Load(t)
    BY <1>0, <2>1, <2>3 DEF Load, WorkerOwnsEvent
  <2>4. CASE Poll(t)
    BY <1>0, <2>1, <2>4 DEF Poll, WorkerOwnsEvent
  <2>5. CASE TryLock(t) \/ TouchEvent(t)
    BY <1>0, <2>1, <2>5 DEF TryLock, TouchEvent
  <2>6. CASE Release(t) \/ InvokeAgain(t)
    BY <1>0, <2>1, <2>6 DEF Release, InvokeAgain
  <2> QED
    BY <1>10, <2>2, <2>3, <2>4, <2>5, <2>6 DEF ThreadStep
<1>11. CASE ExpireCollect
  BY <1>2, <1>5, <1>11 DEF ExpireCollect
<1>12. CASE UNCHANGED vars
  BY <1>2, <1>5, <1>12 DEF vars
<1> QED
  BY <1>2, <1>5, <1>6, <1>7, <1>8, <1>9, <1>10, <1>11, <1>12, ThreadsKept DEF Next, CollectorStep

-----------------------------------------------------------------------------
(* Add notes that there are threads; the note is dropped when they are     *)
(* gone.                                                                   *)
LEMMA NextThreadsAdded ==
    TypeOK /\ ThreadsAdded /\ [Next]_vars => ThreadsAdded'
<1> SUFFICES ASSUME TypeOK, ThreadsAdded, [Next]_vars, NEW p \in Pollers, NEW s \in Slots,
                    thread'[<<p, s>>].pc # "none"
             PROVE  poller'[p].any
  BY DEF ThreadsAdded
<1>0. /\ poller \in [Pollers -> Groups] /\ thread \in [Threads -> ThreadRecords]
      /\ <<p, s>> \in Threads
  BY DEF TypeOK, Groups, ThreadRecords, Threads
<1>1. thread[<<p, s>>].pc # "none" => poller[p].any
  BY DEF ThreadsAdded
<1>2. CASE UNCHANGED <<thread, poller>>
  BY <1>1, <1>2
<1>3. ASSUME NEW q \in Pollers,
             Deliver(q) \/ Query(q) \/ Full(q) \/ NextPage(q) \/ InvokeLambda(q)
      PROVE  poller'[p].any
  <2>1. thread' = thread
    BY <1>3, ThreadsKept
  <2>2. poller'[p].any = poller[p].any
    <3>1. CASE Query(q)
      BY <1>0, <3>1, QueryKeeps
    <3>2. CASE Full(q)
      BY <1>0, <3>2 DEF Full, Groups
    <3> QED
      BY <1>0, <1>3, <3>1, <3>2 DEF Deliver, NextPage, InvokeLambda, Groups
  <2> QED
    BY <1>1, <2>1, <2>2
<1>4. ASSUME NEW q \in Pollers, Add(q) PROVE poller'[p].any
  <2>1. q = p => poller'[p].any
    BY <1>0, <1>4 DEF Add, Groups
  <2>2. q # p => poller'[p] = poller[p] /\ thread'[<<p, s>>] = thread[<<p, s>>]
    BY <1>0, <1>4 DEF Add
  <2> QED
    BY <1>1, <2>1, <2>2
<1>5. ASSUME NEW q \in Pollers, UnlockCollect(q) \/ Join(q) PROVE poller'[p].any
  <2>1. thread' = thread
    BY <1>5, ThreadsKept
  <2>2. q # p => poller'[p] = poller[p]
    BY <1>0, <1>5 DEF UnlockCollect, Join
  <2>3. q = p => ~Join(q)
    BY <2>1 DEF Join
  <2>4. q = p => poller'[p].any = poller[p].any
    BY <1>0, <1>1, <1>5, <2>1, <2>3 DEF UnlockCollect, Groups
  <2> QED
    BY <1>1, <2>1, <2>2, <2>4
<1>6. ASSUME NEW q \in Pollers, Crash(q) PROVE poller'[p].any
  <2>1. q # p
    BY <1>0, <1>6 DEF Crash, NoThread
  <2> QED
    BY <1>0, <1>1, <1>6, <2>1 DEF Crash
<1>7. ASSUME NEW t \in Threads, ThreadStep(t) PROVE poller'[p].any
  <2>1. poller'[p].any = poller[p].any
    BY <1>0, <1>7 DEF ThreadStep, TryLock, Park, Load, Poll, TouchEvent, Release, InvokeAgain,
                      DecSubmit, Groups
  <2>2. thread[<<p, s>>].pc # "none"
    <3>1. CASE t = <<p, s>>
      BY <1>7, <3>1 DEF ThreadStep, TryLock, Park, Load, Poll, TouchEvent, Release, InvokeAgain
    <3>2. CASE t # <<p, s>>
      BY <1>0, <1>7, <3>2, OthersKept
    <3> QED
      BY <3>1, <3>2
  <2> QED
    BY <1>1, <2>1, <2>2
<1>8. CASE ExpireCollect \/ (\E e \in Events : Connect(e) \/ Expire(e) \/ Ripen(e))
  BY <1>2, <1>8 DEF ExpireCollect, Connect, Expire, Ripen
<1>9. CASE UNCHANGED vars
  BY <1>2, <1>9 DEF vars
<1> QED
  BY <1>3, <1>4, <1>5, <1>6, <1>7, <1>8, <1>9 DEF Next, CollectorStep

-----------------------------------------------------------------------------
(* Nothing of a group moved, as far as the counters are concerned. *)
LEMMA CountsKept ==
    ASSUME NEW p \in Pollers, Counted(p),
           poller'[p].submit = poller[p].submit, poller'[p].working = poller[p].working,
           \A s \in Slots : thread'[<<p, s>>] = thread[<<p, s>>]
    PROVE  Counted(p)'
<1>1. Deciding(p)' = Deciding(p) /\ AtWork(p)' = AtWork(p)
  BY DEF Deciding, AtWork
<1> QED
  BY <1>1 DEF Counted, Total

DecidingPCs == {"lock", "park", "load"}
AtWorkPCs == {"poll", "touch"}

(* One thread of the group moved: the counters follow it. *)
LEMMA CountsFollow ==
    ASSUME NEW p \in Pollers, NEW s \in Slots, Counted(p),
           poller[p].submit \in Nat, poller[p].working \in Nat,
           \A r \in Slots : r # s => thread'[<<p, r>>] = thread[<<p, r>>],
           LET from == thread[<<p, s>>].pc
               to == thread'[<<p, s>>].pc
           IN  \/ /\ from \notin DecidingPCs \cup AtWorkPCs /\ to \in DecidingPCs
                  /\ poller'[p].submit = poller[p].submit + 1
                  /\ poller'[p].working = poller[p].working
                  /\ Total(poller[p]) < MaxWorking
               \/ /\ from \in DecidingPCs <=> to \in DecidingPCs
                  /\ to \in AtWorkPCs => from \in AtWorkPCs
                  /\ poller'[p].submit = poller[p].submit
                  /\ poller'[p].working = poller[p].working
               \/ /\ from \in DecidingPCs /\ to \notin DecidingPCs \cup AtWorkPCs
                  /\ poller'[p].submit \in {poller[p].submit, poller[p].submit - 1}
                  /\ poller'[p].working = poller[p].working
               \/ /\ from \in DecidingPCs /\ to \in AtWorkPCs
                  /\ poller'[p].submit = poller[p].submit - 1
                  /\ poller'[p].working = poller[p].working + 1
    PROVE  Counted(p)'
<1> DEFINE D == Deciding(p)
           W == AtWork(p)
           from == thread[<<p, s>>].pc
           to == thread'[<<p, s>>].pc
<1>1. /\ \A r \in Slots : r # s => /\ r \in Deciding(p)' <=> r \in D
                                   /\ r \in AtWork(p)' <=> r \in W
      /\ D \subseteq Slots /\ W \subseteq Slots
      /\ Deciding(p)' \subseteq Slots /\ AtWork(p)' \subseteq Slots
      /\ s \in D <=> from \in DecidingPCs
      /\ s \in Deciding(p)' <=> to \in DecidingPCs
      /\ s \in W <=> from \in AtWorkPCs
      /\ s \in AtWork(p)' <=> to \in AtWorkPCs
  BY DEF Deciding, AtWork, DecidingPCs, AtWorkPCs
<1>2. /\ IsFiniteSet(D) /\ IsFiniteSet(W)
      /\ Cardinality(D) \in Nat /\ Cardinality(W) \in Nat
      /\ Cardinality(D) <= poller[p].submit /\ Cardinality(W) <= poller[p].working
      /\ poller[p].submit + poller[p].working <= MaxWorking
  BY FS_CardinalityType DEF Counted, Total
<1>3. /\ IsFiniteSet(D \cup {s}) /\ IsFiniteSet(D \ {s})
      /\ IsFiniteSet(W \cup {s}) /\ IsFiniteSet(W \ {s})
      /\ Cardinality(D \cup {s}) = IF s \in D THEN Cardinality(D) ELSE Cardinality(D) + 1
      /\ Cardinality(D \ {s}) = IF s \in D THEN Cardinality(D) - 1 ELSE Cardinality(D)
      /\ Cardinality(W \cup {s}) = IF s \in W THEN Cardinality(W) ELSE Cardinality(W) + 1
      /\ Cardinality(W \ {s}) = IF s \in W THEN Cardinality(W) - 1 ELSE Cardinality(W)
  BY <1>2, FS_AddElement, FS_RemoveElement
<1>4. /\ to \in DecidingPCs => Deciding(p)' = D \cup {s}
      /\ to \notin DecidingPCs => Deciding(p)' = D \ {s}
      /\ to \in AtWorkPCs => AtWork(p)' = W \cup {s}
      /\ to \notin AtWorkPCs => AtWork(p)' = W \ {s}
  BY <1>1
<1>5. DecidingPCs \cap AtWorkPCs = {}
  BY DEF DecidingPCs, AtWorkPCs
<1> DEFINE D1 == Deciding(p)'
           W1 == AtWork(p)'
           d == Cardinality(D)
           w == Cardinality(W)
           d1 == Cardinality(D1)
           w1 == Cardinality(W1)
<1>6. IsFiniteSet(D1) /\ IsFiniteSet(W1)
  BY <1>3, <1>4
<1>7. /\ d1 = IF to \in DecidingPCs THEN IF from \in DecidingPCs THEN d ELSE d + 1
                                    ELSE IF from \in DecidingPCs THEN d - 1 ELSE d
      /\ w1 = IF to \in AtWorkPCs THEN IF from \in AtWorkPCs THEN w ELSE w + 1
                                  ELSE IF from \in AtWorkPCs THEN w - 1 ELSE w
  <2>1. /\ to \in DecidingPCs => d1 = Cardinality(D \cup {s})
        /\ to \notin DecidingPCs => d1 = Cardinality(D \ {s})
        /\ to \in AtWorkPCs => w1 = Cardinality(W \cup {s})
        /\ to \notin AtWorkPCs => w1 = Cardinality(W \ {s})
    BY <1>4
  <2> HIDE DEF D, W, D1, W1, from, to
  <2> QED
    BY <1>1, <1>3, <2>1
<1>8. d1 <= poller'[p].submit /\ w1 <= poller'[p].working
      /\ poller'[p].submit + poller'[p].working <= MaxWorking
  <2>1. /\ d \in Nat /\ w \in Nat /\ d <= poller[p].submit /\ w <= poller[p].working
        /\ poller[p].submit + poller[p].working <= MaxWorking
    BY <1>2
  <2> HIDE DEF d, w, d1, w1
  <2> QED
    BY <1>5, <1>7, <2>1, WorkingAssumption DEF Total
<1> QED
  BY <1>6, <1>8 DEF Counted, Total

LEMMA NextAllCounted ==
    TypeOK /\ LocksHeld /\ ThreadsAdded /\ AllCounted /\ [Next]_vars => AllCounted'
<1> SUFFICES ASSUME TypeOK, LocksHeld, ThreadsAdded, AllCounted, [Next]_vars,
                    NEW p \in Pollers
             PROVE  Counted(p)'
  BY DEF AllCounted
<1>0. /\ poller \in [Pollers -> Groups] /\ thread \in [Threads -> ThreadRecords]
      /\ Counted(p) /\ \A s \in Slots : <<p, s>> \in Threads
      /\ poller[p].submit \in Nat /\ poller[p].working \in Nat
  BY DEF TypeOK, Groups, ThreadRecords, AllCounted, Threads
<1>1. CASE UNCHANGED <<thread, poller>>
  BY <1>0, <1>1, CountsKept
<1>2. ASSUME NEW q \in Pollers,
             Deliver(q) \/ Query(q) \/ Full(q) \/ NextPage(q) \/ InvokeLambda(q)
      PROVE  Counted(p)'
  <2>1. thread' = thread
    BY <1>2, ThreadsKept
  <2>2. poller'[p].submit = poller[p].submit /\ poller'[p].working = poller[p].working
    <3>1. CASE Query(q)
      BY <1>0, <3>1, QueryKeeps
    <3>2. CASE Full(q)
      BY <1>0, <3>2 DEF Full, Groups
    <3> QED
      BY <1>0, <1>2, <3>1, <3>2 DEF Deliver, NextPage, InvokeLambda, Groups
  <2> QED
    BY <1>0, <2>1, <2>2, CountsKept
<1>3. ASSUME NEW q \in Pollers, Add(q) PROVE Counted(p)'
  <2>1. PICK e \in poller[q].rows, s \in Slots :
          /\ thread[<<q, s>>].pc = "none"
          /\ thread' = [thread EXCEPT ![<<q, s>>] = [pc |-> "lock", event |-> e]]
          /\ poller' = [poller EXCEPT ![q].rows = @ \ {e}, ![q].any = TRUE, ![q].submit = @ + 1]
    BY <1>3 DEF Add
  <2>2. CASE q = p
    <3>1. /\ thread'[<<p, s>>].pc = "lock" /\ thread[<<p, s>>].pc = "none"
          /\ \A r \in Slots : r # s => thread'[<<p, r>>] = thread[<<p, r>>]
      BY <1>0, <2>1, <2>2
    <3>2. poller'[p].submit = poller[p].submit + 1 /\ poller'[p].working = poller[p].working
      BY <1>0, <2>1, <2>2 DEF Groups
    <3>3. Total(poller[p]) < MaxWorking
      BY <1>3, <2>2 DEF Add
    <3> QED
      BY <1>0, <3>1, <3>2, <3>3, CountsFollow DEF DecidingPCs, AtWorkPCs
  <2>3. CASE q # p
    BY <1>0, <2>1, <2>3, CountsKept
  <2> QED
    BY <2>2, <2>3
<1>4. ASSUME poller'[p] = Resting, \A s \in Slots : thread'[<<p, s>>].pc = "none"
      PROVE  Counted(p)'
  <2>1. Deciding(p)' = {} /\ AtWork(p)' = {}
    BY <1>4 DEF Deciding, AtWork
  <2> QED
    BY <1>4, <2>1, FS_EmptySet, WorkingAssumption DEF Counted, Total, Resting
<1>5. ASSUME NEW q \in Pollers, UnlockCollect(q) \/ Join(q) PROVE Counted(p)'
  <2>1. thread' = thread
    BY <1>5, ThreadsKept
  <2>2. CASE q # p
    <3>1. poller'[p] = poller[p]
      BY <1>0, <1>5, <2>2 DEF UnlockCollect, Join
    <3> QED
      BY <1>0, <2>1, <3>1, CountsKept
  <2>3. CASE q = p /\ UnlockCollect(p) /\ poller[p].any
    <3>1. poller'[p].submit = poller[p].submit /\ poller'[p].working = poller[p].working
      BY <1>0, <2>3 DEF UnlockCollect, Groups
    <3> QED
      BY <1>0, <2>1, <3>1, CountsKept
  <2>4. CASE q = p /\ (Join(p) \/ (UnlockCollect(p) /\ ~poller[p].any))
    <3>1. poller'[p] = Resting
      BY <1>0, <2>4 DEF UnlockCollect, Join
    <3>2. \A s \in Slots : thread'[<<p, s>>].pc = "none"
      BY <2>1, <2>4 DEF Join, ThreadsAdded
    <3> QED
      BY <1>4, <3>1, <3>2
  <2> QED
    BY <1>5, <2>2, <2>3, <2>4
<1>6. ASSUME NEW q \in Pollers, Crash(q) PROVE Counted(p)'
  <2>1. CASE q = p
    <3>1. poller'[p] = Resting /\ \A s \in Slots : thread'[<<p, s>>].pc = "none"
      BY <1>0, <1>6, <2>1 DEF Crash, NoThread
    <3> QED
      BY <1>4, <3>1
  <2>2. CASE q # p
    <3>1. poller'[p] = poller[p] /\ \A s \in Slots : thread'[<<p, s>>] = thread[<<p, s>>]
      BY <1>0, <1>6, <2>2 DEF Crash
    <3> QED
      BY <1>0, <3>1, CountsKept
  <2> QED
    BY <2>1, <2>2
<1>7. ASSUME NEW q \in Pollers, NEW s \in Slots, ThreadStep(<<q, s>>) PROVE Counted(p)'
  <2> DEFINE t == <<q, s>>
  <2>1. t \in Threads /\ t[1] = q
    BY DEF Threads
  <2>2. \A u \in Threads : u # t => thread'[u] = thread[u]
    BY <1>0, <1>7, <2>1, OthersKept
  <2>3. CASE q # p
    <3>1. poller'[p] = poller[p]
      BY <1>0, <1>7, <2>1, <2>3 DEF ThreadStep, TryLock, Park, Load, Poll, TouchEvent, Release,
                                    InvokeAgain, DecSubmit
    <3> QED
      BY <1>0, <2>2, <2>3, <3>1, CountsKept
  <2>4. CASE q = p
    <3> DEFINE from == thread[<<p, s>>].pc
               to == thread'[<<p, s>>].pc
               submit == poller'[p].submit
               working == poller'[p].working
    <3>1. /\ \A label : Goto(t, label) => to = label
          /\ End(t) => to = "none"
      BY <1>0, <2>1, <2>4, OwnMoves
    <3>2. /\ poller' = poller =>
               submit = poller[p].submit /\ working = poller[p].working
          /\ DecSubmit(t) => submit = poller[p].submit - 1 /\ working = poller[p].working
          /\ poller' = [poller EXCEPT ![t[1]].submit = @ - 1, ![t[1]].working = @ + 1] =>
               submit = poller[p].submit - 1 /\ working = poller[p].working + 1
          /\ poller' = [poller EXCEPT ![t[1]].again = TRUE] =>
               submit = poller[p].submit /\ working = poller[p].working
      BY <1>0, <2>1, <2>4 DEF DecSubmit, Groups
    <3>3. \/ /\ from \in DecidingPCs <=> to \in DecidingPCs
             /\ to \in AtWorkPCs => from \in AtWorkPCs
             /\ submit = poller[p].submit /\ working = poller[p].working
          \/ /\ from \in DecidingPCs /\ to \notin DecidingPCs \cup AtWorkPCs
             /\ submit \in {poller[p].submit, poller[p].submit - 1}
             /\ working = poller[p].working
          \/ /\ from \in DecidingPCs /\ to \in AtWorkPCs
             /\ submit = poller[p].submit - 1 /\ working = poller[p].working + 1
      <4> HIDE DEF to, submit, working
      <4> USE DEF DecidingPCs, AtWorkPCs
      <4>1. CASE TryLock(t)
        BY <2>4, <3>1, <3>2, <4>1 DEF TryLock
      <4>2. CASE Park(t)
        BY <2>4, <3>1, <3>2, <4>2 DEF Park
      <4>3. CASE Load(t)
        BY <2>4, <3>1, <3>2, <4>3 DEF Load
      <4>4. CASE Poll(t) \/ TouchEvent(t)
        BY <2>4, <3>1, <3>2, <4>4 DEF Poll, TouchEvent
      <4>5. CASE Release(t) \/ InvokeAgain(t)
        BY <2>4, <3>1, <3>2, <4>5 DEF Release, InvokeAgain
      <4> QED
        BY <1>7, <4>1, <4>2, <4>3, <4>4, <4>5 DEF ThreadStep
    <3>4. \A r \in Slots : r # s => thread'[<<p, r>>] = thread[<<p, r>>]
      BY <1>0, <2>2, <2>4
    <3> QED
      BY <1>0, <3>3, <3>4, CountsFollow
  <2> QED
    BY <2>3, <2>4
<1>8. CASE ExpireCollect \/ (\E e \in Events : Connect(e) \/ Expire(e) \/ Ripen(e))
  BY <1>1, <1>8 DEF ExpireCollect, Connect, Expire, Ripen
<1>9. CASE UNCHANGED vars
  BY <1>1, <1>9 DEF vars
<1>10. ASSUME NEW t \in Threads, ThreadStep(t) PROVE Counted(p)'
  <2>1. PICK q \in Pollers, s \in Slots : t = <<q, s>>
    BY DEF Threads
  <2> QED
    BY <1>7, <1>10, <2>1
<1> QED
  BY <1>2, <1>3, <1>5, <1>6, <1>8, <1>9, <1>10 DEF Next, CollectorStep

-----------------------------------------------------------------------------
LEMMA NextIInv == IInv /\ [Next]_vars => IInv'
BY NextTypeOK, NextLocksHeld, NextWorkerOwnsEvent, NextThreadsAdded, NextAllCounted DEF IInv

(* The inductive invariant holds in every reachable state. *)
LEMMA SpecIInv == Spec => []IInv
BY InitIInv, NextIInv, PTL DEF Spec

(* "We do not want the same user to be polling more than once": whatever   *)
(* rows two collecting pollers pick up, __try_lock lets one of them poll.  *)
THEOREM OnePollPerUserHolds == Spec => []OnePollPerUser
<1>1. IInv => OnePollPerUser
  BY DEF IInv, LocksHeld, Holding, OnePollPerUser
<1> QED
  BY SpecIInv, <1>1, PTL

(* Between update_action_time(refresh_seconds) and update_action_time(0)   *)
(* no other thread, no activation and no clock gives the event a new key.  *)
THEOREM WorkerOwnsEventHolds == Spec => []WorkerOwnsEvent
<1>1. IInv => WorkerOwnsEvent
  BY DEF IInv
<1> QED
  BY SpecIInv, <1>1, PTL

(* On every path through __inner_worker the counters of the group cover    *)
(* its threads, and there are at most max_working_count of them.           *)
THEOREM CountsCoverHolds == Spec => []CountsCover
<1>1. IInv => CountsCover
  <2> SUFFICES ASSUME IInv, NEW p \in Pollers
               PROVE  /\ Cardinality(Deciding(p)) <= poller[p].submit
                      /\ Cardinality(AtWork(p)) <= poller[p].working
                      /\ Cardinality(Deciding(p) \cup AtWork(p)) <= MaxWorking
    BY DEF CountsCover, IInv
  <2> DEFINE D == Deciding(p)
             W == AtWork(p)
  <2>1. /\ IsFiniteSet(D) /\ IsFiniteSet(W)
        /\ Cardinality(D) <= poller[p].submit /\ Cardinality(W) <= poller[p].working
        /\ poller[p].submit + poller[p].working <= MaxWorking
        /\ poller[p].submit \in Nat /\ poller[p].working \in Nat
    BY DEF IInv, AllCounted, Counted, Total, TypeOK
  <2> HIDE DEF D, W
  <2>2. /\ Cardinality(D) \in Nat /\ Cardinality(W) \in Nat
        /\ Cardinality(D \cup W) = Cardinality(D) + Cardinality(W) - Cardinality(D \cap W)
        /\ Cardinality(D \cap W) \in Nat
    BY <2>1, FS_CardinalityType, FS_Union, FS_Intersection
  <2>3. Cardinality(D \cup W) <= MaxWorking
    BY <2>1, <2>2, WorkingAssumption
  <2> QED
    BY <2>1, <2>3 DEF D, W
<1> QED
  BY SpecIInv, <1>1, PTL

-----------------------------------------------------------------------------
(* A request that waits, or was taken, and that no call stands for yet. *)
Outstanding == (IF pc = "call" THEN 1 ELSE 0) + (IF anyWaiting THEN 1 ELSE 0)

ThrottlerInv == ThrottlerTypeOK /\ calls + Outstanding <= adds

LEMMA ThrottlerStarts == ThrottlerInit => ThrottlerInv
<1> SUFFICES ASSUME ThrottlerInit PROVE ThrottlerInv
  OBVIOUS
<1>1. adds = 0 /\ calls = 0 /\ pc = "none" /\ ~anyWaiting
  BY DEF ThrottlerInit
<1>2. {anyWaiting, shutdown, signalled, manualReset, started, elapsed} \subseteq BOOLEAN
  BY DEF ThrottlerInit
<1>3. elapsed => started
  BY DEF ThrottlerInit
<1> QED
  BY <1>1, <1>2, <1>3, AddsAssumption DEF ThrottlerInv, ThrottlerTypeOK, Outstanding

LEMMA ThrottlerKept == ThrottlerInv /\ [ThrottlerNext]_throttlerVars => ThrottlerInv'
<1> SUFFICES ASSUME ThrottlerInv, [ThrottlerNext]_throttlerVars PROVE ThrottlerInv'
  OBVIOUS
<1> DEFINE Flags == {anyWaiting, shutdown, signalled, manualReset, started, elapsed} \subseteq BOOLEAN
<1>1. Flags /\ (elapsed => started) /\ MaxAdds \in Nat /\ adds \in 0..MaxAdds /\ calls \in Nat
      /\ pc \in {"none", "wait", "check", "call", "exit", "done"} /\ calls + Outstanding <= adds
  BY AddsAssumption DEF ThrottlerInv, ThrottlerTypeOK
<1>2. Flags'
  <2> USE <1>1
  <2>1. CASE AddInvocation
    BY <2>1 DEF AddInvocation
  <2>2. CASE Close
    BY <2>2 DEF Close
  <2>3. CASE Wait
    BY <2>3 DEF Wait
  <2>4. CASE Check
    BY <2>4 DEF Check, Take, StartClock
  <2>5. CASE Call \/ ExitCheck \/ Elapse \/ UNCHANGED throttlerVars
    BY <2>5 DEF Call, ExitCheck, Elapse, throttlerVars
  <2> QED
    BY <2>1, <2>2, <2>3, <2>4, <2>5 DEF ThrottlerNext, Worker
<1>3. (elapsed => started)'
  <2>1. CASE AddInvocation \/ Close \/ Wait \/ Call \/ ExitCheck \/ Elapse \/ UNCHANGED throttlerVars
    BY <1>1, <2>1 DEF AddInvocation, Close, Wait, Call, ExitCheck, Elapse, throttlerVars
  <2>2. CASE Check
    BY <1>1, <2>2 DEF Check, Take, StartClock
  <2> QED
    BY <2>1, <2>2 DEF ThrottlerNext, Worker
<1> HIDE DEF Flags
<1>4. /\ (adds \in 0..MaxAdds /\ calls \in Nat /\ pc \in {"none", "wait", "check", "call", "exit", "done"})'
      /\ calls' + Outstanding' <= adds'
  <2> USE <1>1 DEF Outstanding
  <2>1. CASE AddInvocation
    <3>1. adds' = adds + 1 /\ adds < MaxAdds /\ calls' = calls /\ pc' = IF pc = "none" THEN "wait" ELSE pc
      BY <2>1 DEF AddInvocation
    <3> QED
      BY <3>1
  <2>2. CASE Wait
    <3>1. UNCHANGED <<adds, calls, anyWaiting>> /\ pc' = "check"
      BY <2>2 DEF Wait
    <3> QED
      BY <3>1
  <2>3. CASE Check
    <3>1. UNCHANGED <<adds, calls>> /\ pc = "check"
          /\ \/ anyWaiting /\ ~anyWaiting' /\ pc' = "call"
             \/ (anyWaiting' <=> anyWaiting) /\ pc' = "exit"
      BY <2>3 DEF Check, Take
    <3> QED
      BY <3>1
  <2>4. CASE Call
    <3>1. UNCHANGED <<adds, anyWaiting>> /\ calls' = calls + 1 /\ pc = "call" /\ pc' = "exit"
      BY <2>4 DEF Call
    <3> QED
      BY <3>1
  <2>5. CASE ExitCheck
    <3>1. UNCHANGED <<adds, calls, anyWaiting>> /\ pc' \in {"wait", "done"}
      BY <2>5 DEF ExitCheck
    <3> QED
      BY <3>1
  <2>6. CASE Close \/ Elapse \/ UNCHANGED throttlerVars
    <3>1. UNCHANGED <<adds, calls, anyWaiting, pc>>
      BY <2>6 DEF Close, Elapse, throttlerVars
    <3> QED
      BY <3>1
  <2> QED
    BY <2>1, <2>2, <2>3, <2>4, <2>5, <2>6 DEF ThrottlerNext, Worker
<1> QED
  BY <1>2, <1>3, <1>4 DEF ThrottlerInv, ThrottlerTypeOK, Flags

(* Whatever the worker thread, the callers of add_invocation and close do  *)
(* in between, the throttler calls for requests only and never twice for   *)
(* the same.                                                               *)
THEOREM OneCallPerRequestHolds == ThrottlerSpec => []OneCallPerRequest
<1>1. ThrottlerInv => OneCallPerRequest
  BY DEF ThrottlerInv, ThrottlerTypeOK, Outstanding, OneCallPerRequest
<1> QED
  BY ThrottlerStarts, ThrottlerKept, <1>1, PTL DEF ThrottlerSpec
=============================================================================
