-------------------------- MODULE PushNotifierProofs --------------------------
(***************************************************************************)
(* What the device gets, for any number of notifiers, notifications and    *)
(* faults: nothing is passed over, everything comes in order, and only     *)
(* faults repeat a push.                                                   *)
(***************************************************************************)
EXTENDS PushNotifier, WellFoundedInduction, TLAPS

(* The device has everything up to n. *)
Reached(n) == \A m \in 1..n : received[m] > 0

(* Every cursor, saved, outdated or in a notifier's hands, and every row   *)
(* marked as sent stands for notifications that were received.             *)
CursorsReached ==
    /\ Reached(context) /\ Reached(former)
    /\ \A n \in sent : received[n] > 0
    /\ \A w \in Workers : Reached(worker[w].last)

(* What a notifier works through: rows that are there, without a gap: a    *)
(* notification before one of the batch is in the batch or was received.   *)
BatchesOK ==
    \A w \in Workers :
        /\ worker[w].batch \subseteq 1..count
        /\ \A n \in worker[w].batch : \A m \in 1..n : m \in worker[w].batch \/ received[m] > 0
        /\ worker[w].pc = "mark" => worker[w].batch # {} /\ received[First(worker[w].batch)] > 0

InSection(w) == worker[w].pc \in {"query", "send", "mark", "release"}

(* The lock keeps the others out. *)
Exclusive == \A w \in Workers : InSection(w) => lock = w

(* While the session lives, its context is there. *)
ContextThere == alive => context # Gone /\ \A w \in Workers : worker[w].pc # "drop"

(* While the session lives, the batch leaves out what was sent, and a push *)
(* beyond the faults is marked as sent, or about to be.                    *)
Pushed(n) == \E w \in Workers : worker[w].pc = "mark" /\ First(worker[w].batch) = n

PushesPaidFor ==
    /\ \A w \in Workers : worker[w].pc \in {"send", "mark"} => worker[w].batch \cap sent = {}
    /\ \A n \in Notes : received[n] <= faults + (IF n \in sent \/ Pushed(n) THEN 1 ELSE 0)

IInv ==
    /\ TypeOK
    /\ CursorsReached
    /\ BatchesOK
    /\ Exclusive
    /\ ContextThere
    /\ alive => PushesPaidFor

-----------------------------------------------------------------------------
(* A set of numbers that is not empty has a smallest one, and Min is it.   *)
LEMMA SmallestNumber ==
    ASSUME NEW S \in SUBSET Nat, S # {}
    PROVE  Min(S) \in S /\ \A y \in S : Min(S) <= y
<1> DEFINE R == OpToRel(<, Nat)
<1>1. IsWellFoundedOn(R, Nat)
  BY NatLessThanWellFounded
<1>2. \A x, y \in Nat : <<y, x>> \in R <=> y < x
  BY DEF OpToRel
<1> HIDE DEF R
<1>3. PICK x \in S : \A y \in S : ~(<<y, x>> \in R)
  BY <1>1, WFMin
<1>4. ASSUME NEW y \in S PROVE x <= y
  <2>1. x \in Nat /\ y \in Nat
    OBVIOUS
  <2>2. ~(y < x)
    BY <1>2, <1>3, <2>1, Zenon
  <2> QED
    BY <2>1, <2>2
<1> QED
  BY <1>4 DEF Min

(* The record a notifier works on is the first of its batch. *)
LEMMA FirstOfBatch ==
    ASSUME TypeOK, NEW w \in Workers, worker[w].batch # {}
    PROVE  /\ First(worker[w].batch) \in worker[w].batch
           /\ \A n \in worker[w].batch : First(worker[w].batch) <= n
           /\ First(worker[w].batch) \in Notes
<1>1. worker[w].batch \subseteq Notes
  BY DEF TypeOK, Locals
<1>2. worker[w].batch \in SUBSET Nat
  BY <1>1 DEF Notes
<1> QED
  BY <1>1, <1>2, SmallestNumber DEF First

(* The initial state satisfies the inductive invariant. *)
LEMMA InitIInv == Init => IInv
<1> SUFFICES ASSUME Init PROVE IInv
  OBVIOUS
<1> USE BoundsAssumption, LockAssumption
<1>1. Idle \in Locals
  BY DEF Idle, Locals, PCs
<1>2. worker \in [Workers -> Locals] /\ \A w \in Workers : worker[w] = Idle
  BY <1>1 DEF Init
<1>3. TypeOK
  <2>1. received \in [Notes -> Nat]
    BY DEF Init
  <2>2. count \in 0..MaxNotes /\ faults \in 0..MaxFaults /\ invocations \in 0..MaxQueue
    BY DEF Init
  <2>3. announced \in 0..count /\ sent \subseteq 1..count /\ context \in 0..count
    BY DEF Init
  <2>4. former \in {Gone} \cup 0..count
    BY <2>3 DEF Init
  <2> QED
    BY <1>2, <2>1, <2>2, <2>3, <2>4 DEF Init, TypeOK
<1>4. CursorsReached
  BY <1>2 DEF Init, CursorsReached, Reached, Idle, Gone
<1>5. BatchesOK /\ Exclusive /\ ContextThere
  BY <1>2 DEF Init, BatchesOK, Exclusive, InSection, ContextThere, Idle, Gone
<1>6. PushesPaidFor
  BY <1>2 DEF Init, PushesPaidFor, Pushed, Idle
<1> QED
  BY <1>3, <1>4, <1>5, <1>6 DEF IInv

(* A notifier's step changes no other notifier. *)
LEMMA OthersKept ==
    ASSUME TypeOK, NEW w \in Workers, WorkerStep(w) \/ Crash(w)
    PROVE  \A v \in Workers : v # w => worker'[v] = worker[v]
  BY DEF TypeOK, WorkerStep, Start, Load, Drop, TryLock, Schedule, Query, Send, Mark, Release,
         Crash, Goto, Return

(* The steps that involve no notifier. *)
LEMMA WorldSteps ==
    ASSUME TypeOK, Submit \/ Announce \/ Environment \/ UNCHANGED vars
    PROVE  /\ UNCHANGED <<worker, received, sent>>
           /\ count \in Nat /\ count' \in Nat /\ count <= count'
           /\ faults \in Nat /\ faults' \in Nat /\ faults <= faults'
           /\ lock' = lock \/ lock = Dead
           /\ context' \in {context, Gone} /\ former' \in {context, former}
           /\ alive' => alive /\ context' = context
<1>1. count \in Nat /\ faults \in Nat
  BY BoundsAssumption DEF TypeOK
<1>2. count' \in {count, count + 1} /\ faults' \in {faults, faults + 1}
  BY DEF Submit, Announce, Fault, Environment, Expire, Fire, DeleteSchedule, Settle, SessionEnds,
         vars
<1> QED
  BY <1>1, <1>2
  DEF Submit, Announce, Fault, Environment, Expire, Fire, DeleteSchedule, Settle, SessionEnds,
      vars, session

(* Pushes are only added, and only for the first record of a batch. *)
LEMMA PushesAdded ==
    ASSUME TypeOK, BatchesOK, [Next]_vars
    PROVE  /\ received' \in [Notes -> Nat]
           /\ \A n \in Notes : received[n] <= received'[n]
           /\ received' # received =>
                 \E w \in Workers :
                    /\ Send(w) /\ worker[w].batch # {}
                    /\ received' = [received EXCEPT ![First(worker[w].batch)] = @ + 1]
<1>1. \/ received' = received
      \/ \E w \in Workers :
            /\ Send(w) /\ worker[w].batch # {}
            /\ received' = [received EXCEPT ![First(worker[w].batch)] = @ + 1]
  BY DEF Next, Submit, Announce, Environment, Expire, Fire, DeleteSchedule, Settle, SessionEnds,
         vars, WorkerStep, Start, Load, Drop, TryLock, Schedule, Query, Send, Mark, Release, Crash
<1>2. CASE received' = received
  BY <1>2 DEF TypeOK
<1>3. ASSUME NEW w \in Workers, worker[w].batch # {},
             received' = [received EXCEPT ![First(worker[w].batch)] = @ + 1]
      PROVE  /\ received' \in [Notes -> Nat]
             /\ \A n \in Notes : received[n] <= received'[n]
  BY <1>3, FirstOfBatch DEF TypeOK
<1> QED
  BY <1>1, <1>2, <1>3

(* Every step keeps the types. *)
LEMMA NextTypeOK == TypeOK /\ BatchesOK /\ [Next]_vars => TypeOK'
<1> SUFFICES ASSUME TypeOK, BatchesOK, [Next]_vars PROVE TypeOK'
  OBVIOUS
<1> USE BoundsAssumption
<1>0. /\ received' \in [Notes -> Nat]
      /\ \A w \in Workers : worker[w] \in Locals
      /\ Idle \in Locals
      /\ count \in Nat
  BY PushesAdded DEF TypeOK, Idle, Locals, PCs
<1>1. CASE Submit \/ Announce \/ UNCHANGED vars
  <2>1. CASE Submit
    <3>1. 0..count \subseteq 0..(count + 1) /\ count + 1 \in 0..MaxNotes
      BY <2>1 DEF Submit, TypeOK
    <3> QED
      BY <2>1, <3>1 DEF Submit, session, TypeOK
  <2>2. CASE Announce
    <3>1. announced' \in 0..count /\ invocations' \in 0..MaxQueue /\ faults' \in 0..MaxFaults
      BY <2>2 DEF Announce, Fault, TypeOK
    <3> QED
      BY <2>2, <3>1 DEF Announce, session, TypeOK
  <2>3. CASE UNCHANGED vars
    BY <2>3 DEF vars, session, TypeOK
  <2> QED
    BY <1>1, <2>1, <2>2, <2>3
<1>2. CASE Environment
  <2>1. CASE Expire \/ DeleteSchedule \/ Settle
    BY <2>1 DEF Expire, DeleteSchedule, Settle, session, TypeOK
  <2>2. CASE Fire
    BY <2>2 DEF Fire, session, TypeOK
  <2>3. CASE SessionEnds
    BY <2>3 DEF SessionEnds, TypeOK
  <2> QED
    BY <1>2, <2>1, <2>2, <2>3 DEF Environment
<1>3. ASSUME NEW w \in Workers, WorkerStep(w) \/ Crash(w) PROVE TypeOK'
  <2>a. ASSUME NEW p \in PCs, Goto(w, p) PROVE worker' \in [Workers -> Locals]
    BY <2>a DEF Goto, TypeOK, Locals
  <2>b. Return(w) => worker' \in [Workers -> Locals]
    BY <1>0 DEF Return, TypeOK
  <2>1. CASE Start(w)
    BY <1>0, <2>a, <2>1 DEF Start, TypeOK, PCs, session
  <2>2. CASE Load(w)
    <3>1. ASSUME NEW c \in {context, former}, c # Gone
          PROVE  [pc |-> "lock", last |-> c, batch |-> {}] \in Locals
      BY <3>1 DEF TypeOK, Locals, PCs
    <3>2. worker' \in [Workers -> Locals] /\ missed' \in BOOLEAN
      BY <2>2, <2>a, <2>b, <3>1 DEF Load, TypeOK, PCs
    <3> QED
      BY <1>0, <2>2, <3>2 DEF Load, TypeOK, session
  <2>3. CASE Drop(w)
    BY <1>0, <2>3, <2>b DEF Drop, TypeOK
  <2>4. CASE TryLock(w)
    BY <1>0, <2>4, <2>a DEF TryLock, TypeOK, PCs, session
  <2>5. CASE Schedule(w)
    BY <1>0, <2>5, <2>b DEF Schedule, TypeOK, session
  <2>6. CASE Query(w)
    <3>1. Unsent(worker[w].last) \subseteq Notes
      BY DEF Unsent, Notes, TypeOK
    <3>2. worker' \in [Workers -> Locals]
      BY <1>0, <2>6, <3>1 DEF Query, TypeOK, Locals, PCs
    <3> QED
      BY <1>0, <2>6, <3>2 DEF Query, TypeOK, session
  <2>7. CASE Send(w)
    <3>1. worker' \in [Workers -> Locals] /\ faults' \in 0..MaxFaults
      BY <2>7, <2>a DEF Send, Fault, TypeOK, PCs
    <3> QED
      BY <1>0, <2>7, <3>1 DEF Send, TypeOK, session
  <2>8. CASE Mark(w)
    <3> DEFINE n == First(worker[w].batch)
    <3>1. n \in worker[w].batch /\ n \in 1..count /\ n \in Notes
      BY <2>8, FirstOfBatch DEF Mark, BatchesOK
    <3> HIDE DEF n
    <3>2. [pc |-> "send", last |-> n, batch |-> worker[w].batch \ {n}] \in Locals
      BY <1>0, <3>1 DEF Locals, PCs, Notes
    <3>3. worker' \in [Workers -> Locals]
      BY <2>8, <2>a, <3>2 DEF Mark, TypeOK, PCs, n
    <3>4. /\ sent' \subseteq 1..count /\ context' \in {Gone} \cup 0..count
          /\ former' \in {Gone} \cup 0..count /\ faults' \in 0..MaxFaults
      <4>1. CASE UNCHANGED <<sent, context, former>>
        BY <2>8, <4>1 DEF Mark, Fault, TypeOK
      <4>2. CASE sent' = sent \cup {n} /\ context' = n /\ former' = context
        BY <1>0, <2>8, <3>1, <4>2 DEF Mark, Fault, TypeOK
      <4> QED
        BY <2>8, <4>1, <4>2 DEF Mark, Cursor, n
    <3> QED
      BY <1>0, <2>8, <3>3, <3>4 DEF Mark, TypeOK
  <2>9. CASE Release(w)
    BY <1>0, <2>9, <2>b DEF Release, TypeOK, session
  <2>10. CASE Crash(w)
    BY <1>0, <2>10, <2>b DEF Crash, Fault, TypeOK, session
  <2> QED
    BY <1>3, <2>1, <2>2, <2>3, <2>4, <2>5, <2>6, <2>7, <2>8, <2>9, <2>10 DEF WorkerStep
<1> QED
  BY <1>1, <1>2, <1>3 DEF Next

-----------------------------------------------------------------------------
(* No cursor comes to stand beyond a notification that was not received. *)
LEMMA NextCursorsReached ==
    TypeOK /\ CursorsReached /\ BatchesOK /\ [Next]_vars => CursorsReached'
<1> SUFFICES ASSUME TypeOK, CursorsReached, BatchesOK, [Next]_vars PROVE CursorsReached'
  OBVIOUS
<1>0. /\ \A n \in Notes : received[n] \in Nat /\ received'[n] \in Nat
      /\ \A n \in Notes : received[n] <= received'[n]
  BY PushesAdded DEF TypeOK
<1>1. \A n \in Notes : received[n] > 0 => received'[n] > 0
  BY <1>0
<1>2. ASSUME NEW k \in {Gone} \cup 0..MaxNotes, Reached(k)
      PROVE  \A m \in 1..k : received'[m] > 0
  BY <1>1, <1>2, BoundsAssumption DEF Reached, Notes, Gone
<1>3. /\ context \in {Gone} \cup 0..MaxNotes /\ former \in {Gone} \cup 0..MaxNotes
      /\ \A w \in Workers : worker[w].last \in {Gone} \cup 0..MaxNotes
      /\ sent \subseteq Notes /\ 0 \in 0..MaxNotes
  BY BoundsAssumption DEF TypeOK, Locals, Notes
<1>4. \A n \in sent : received'[n] > 0
  BY <1>1, <1>3 DEF CursorsReached
<1>5. ASSUME context' \in {context, Gone}, former' \in {context, former}, sent' = sent,
             \A w \in Workers : worker'[w].last \in {worker[w].last, context, former, 0}
                                /\ worker'[w].last # Gone
      PROVE  CursorsReached'
  <2>1. Reached(context)'
    BY <1>2, <1>3, <1>5 DEF Reached, CursorsReached, Gone
  <2>2. Reached(former)'
    BY <1>2, <1>3, <1>5 DEF Reached, CursorsReached
  <2>3. ASSUME NEW w \in Workers PROVE Reached(worker[w].last)'
    <3>1. \A m \in 1..0 : received'[m] > 0
      OBVIOUS
    <3> QED
      BY <1>2, <1>3, <1>5, <3>1 DEF Reached, CursorsReached
  <2> QED
    BY <1>4, <1>5, <2>1, <2>2, <2>3 DEF CursorsReached
<1>6. CASE Submit \/ Announce \/ Environment \/ UNCHANGED vars
  BY <1>3, <1>5, <1>6, WorldSteps DEF TypeOK, Locals, Gone
<1>7. ASSUME NEW w \in Workers, WorkerStep(w) \/ Crash(w) PROVE CursorsReached'
  <2>0. /\ \A v \in Workers : v # w => worker'[v] = worker[v]
        /\ \A v \in Workers : worker[v].last # Gone
    BY <1>7, OthersKept DEF TypeOK, Locals, Gone
  <2>1. ASSUME UNCHANGED <<sent, context, former>>,
               worker'[w].last \in {worker[w].last, context, former, 0}, worker'[w].last # Gone
        PROVE  CursorsReached'
    BY <1>5, <2>0, <2>1
  <2> USE DEF TypeOK, Locals
  <2>2. CASE Start(w) \/ TryLock(w) \/ Query(w) \/ Send(w)
    <3>1. UNCHANGED <<sent, context, former>> /\ worker'[w].last = worker[w].last
      BY <2>2 DEF Start, TryLock, Query, Send, Goto, session
    <3> QED
      BY <2>0, <2>1, <3>1
  <2>3. CASE Schedule(w) \/ Release(w) \/ Crash(w)
    <3>1. UNCHANGED <<sent, context, former>> /\ worker'[w].last = 0
      BY <2>3 DEF Schedule, Release, Crash, Return, Idle, session
    <3> QED
      BY <2>1, <3>1 DEF Gone
  <2>4. CASE Load(w)
    <3>1. UNCHANGED <<sent, context, former>>
      BY <2>4 DEF Load, session
    <3>2. PICK c \in {context, former} :
             \/ Return(w) \/ Goto(w, "drop")
             \/ c # Gone /\ worker' = [worker EXCEPT ![w] = [pc |-> "lock", last |-> c, batch |-> {}]]
      BY <2>4 DEF Load
    <3>3. worker'[w].last \in {worker[w].last, context, former, 0} /\ worker'[w].last # Gone
      BY <2>0, <3>2 DEF Return, Goto, Idle, Gone
    <3> QED
      BY <2>1, <3>1, <3>3
  <2>5. CASE Drop(w)
    <3>1. sent' = sent /\ context' = Gone /\ former' = context /\ worker'[w].last = 0
      BY <2>5 DEF Drop, Return, Idle
    <3> QED
      BY <1>5, <2>0, <3>1 DEF Gone
  <2>6. CASE Mark(w)
    <3> DEFINE n == First(worker[w].batch)
    <3>1. /\ worker[w].batch # {} /\ received[n] > 0 /\ n \in worker[w].batch /\ n \in 1..count
          /\ \A m \in 1..n : m \in worker[w].batch \/ received[m] > 0
      BY <2>6, FirstOfBatch DEF Mark, BatchesOK
    <3>2. \A m \in 1..n : received[m] > 0
      <4>1. \A m \in worker[w].batch : n <= m
        BY <3>1, FirstOfBatch
      <4> QED
        BY <3>1, <4>1
    <3>3. received' = received
      BY <2>6 DEF Mark
    <3> HIDE DEF n
    <3>4. CASE worker'[w].last = worker[w].last /\ UNCHANGED <<sent, context, former>>
      BY <2>0, <2>1, <3>4
    <3>5. CASE worker'[w].last = n
      <4>1. \/ UNCHANGED <<sent, context, former>>
            \/ sent' = sent \cup {n} /\ context' = n /\ former' = context
        BY <2>6 DEF Mark, Cursor, n
      <4>2. \A v \in Workers : Reached(worker[v].last)'
        BY <2>0, <3>2, <3>3, <3>5 DEF CursorsReached, Reached
      <4> QED
        BY <3>1, <3>2, <3>3, <4>1, <4>2 DEF CursorsReached, Reached
    <3> QED
      BY <2>6, <3>4, <3>5 DEF Mark, Goto, n
  <2> QED
    BY <1>7, <2>2, <2>3, <2>4, <2>5, <2>6 DEF WorkerStep
<1> QED
  BY <1>6, <1>7 DEF Next

(* A batch never has a gap that was not received. *)
LEMMA NextBatchesOK ==
    TypeOK /\ CursorsReached /\ BatchesOK /\ [Next]_vars => BatchesOK'
<1> SUFFICES ASSUME TypeOK, CursorsReached, BatchesOK, [Next]_vars PROVE BatchesOK'
  OBVIOUS
<1> DEFINE Batch(v) ==
              /\ worker[v].batch \subseteq 1..count
              /\ \A n \in worker[v].batch : \A m \in 1..n : m \in worker[v].batch \/ received[m] > 0
              /\ worker[v].pc = "mark" => worker[v].batch # {} /\ received[First(worker[v].batch)] > 0
<1>0. /\ \A v \in Workers : Batch(v) /\ worker[v] \in Locals
      /\ count \in Nat /\ 1..count \subseteq Notes /\ count <= MaxNotes
  BY BoundsAssumption DEF BatchesOK, TypeOK, Notes
<1>1. \A n \in Notes : received[n] > 0 => received'[n] > 0
  BY PushesAdded DEF TypeOK
<1>a. count' \in Nat /\ count <= count'
  <2>1. count' = count \/ Submit
    BY DEF Next, vars, Announce, Environment, Expire, Fire, DeleteSchedule, Settle, SessionEnds,
           WorkerStep, Start, Load, Drop, TryLock, Schedule, Query, Send, Mark, Release, Crash
  <2> QED
    BY <1>0, <2>1 DEF Submit
<1>2. ASSUME NEW v \in Workers, NEW B \in SUBSET worker[v].batch,
             \A m \in worker[v].batch \ B : received[m] > 0
      PROVE  /\ B \subseteq 1..count'
             /\ \A n \in B : \A m \in 1..n : m \in B \/ received'[m] > 0
  <2>1. B \subseteq 1..count /\ \A n \in B : \A m \in 1..n : m \in B \/ received[m] > 0
    BY <1>0, <1>2
  <2>2. \A n \in 1..count : 1..n \subseteq Notes /\ n \in 1..count'
    BY <1>0, <1>a
  <2> QED
    BY <1>1, <2>1, <2>2
<1>3. ASSUME NEW v \in Workers, worker'[v].batch \in {worker[v].batch, {}},
             (worker'[v].pc = "mark" => worker[v].pc = "mark" /\ worker'[v].batch = worker[v].batch)
      PROVE  Batch(v)'
  <2>1. CASE worker'[v].batch = {}
    BY <1>0, <1>3, <2>1
  <2>2. CASE worker'[v].batch = worker[v].batch
    <3>1. worker[v].pc = "mark" => received'[First(worker[v].batch)] > 0
      BY <1>0, <1>1, FirstOfBatch
    <3>2. worker[v].batch \in SUBSET worker[v].batch /\ worker[v].batch \ worker[v].batch = {}
      OBVIOUS
    <3> QED
      BY <1>0, <1>2, <1>3, <2>2, <3>1, <3>2
  <2> QED
    BY <1>3, <2>1, <2>2
<1>4. ASSUME \A v \in Workers : Batch(v)' PROVE BatchesOK'
  BY <1>4 DEF BatchesOK
<1>5. CASE Submit \/ Announce \/ Environment \/ UNCHANGED vars
  BY <1>3, <1>4, <1>5, WorldSteps
<1>6. ASSUME NEW w \in Workers, WorkerStep(w) \/ Crash(w) PROVE BatchesOK'
  <2>0. worker[w] \in Locals /\ Batch(w)
    BY <1>0
  <2>1. \A v \in Workers : v # w => Batch(v)'
    BY <1>3, <1>6, OthersKept
  <2> HIDE DEF Batch
  <2>2. ASSUME Batch(w)' PROVE BatchesOK'
    BY <1>4, <2>1, <2>2
  <2> USE DEF TypeOK, Locals
  <2>3. CASE Start(w) \/ Load(w) \/ Drop(w) \/ TryLock(w) \/ Schedule(w) \/ Release(w) \/ Crash(w)
    <3>1. worker'[w].batch \in {worker[w].batch, {}} /\ worker'[w].pc # "mark"
      <4>1. CASE Load(w)
        BY <4>1 DEF Load, Goto, Return, Idle
      <4>2. CASE ~Load(w)
        BY <2>3, <4>2 DEF Start, Drop, TryLock, Schedule, Release, Crash, Goto, Return, Idle
      <4> QED
        BY <4>1, <4>2
    <3> QED
      BY <1>3, <2>2, <3>1
  <2>4. CASE Query(w)
    <3>1. /\ worker'[w].pc = "send" /\ worker'[w].batch = Unsent(worker[w].last)
          /\ count' = count /\ received' = received
      BY <2>4 DEF Query
    <3>2. \A n \in Unsent(worker[w].last) : \A m \in 1..n :
              m \in Unsent(worker[w].last) \/ received[m] > 0
      <4> SUFFICES ASSUME NEW n \in Unsent(worker[w].last), NEW m \in 1..n,
                          m \notin Unsent(worker[w].last)
                   PROVE  received[m] > 0
        OBVIOUS
      <4>1. n \in 1..count /\ m \in 1..count /\ worker[w].last \in Nat
        BY <1>0 DEF Unsent
      <4>2. m <= worker[w].last \/ m \in sent
        BY <4>1 DEF Unsent
      <4> QED
        BY <4>1, <4>2 DEF CursorsReached, Reached
    <3>3. Unsent(worker[w].last) \subseteq 1..count
      BY DEF Unsent
    <3> QED
      BY <2>2, <3>1, <3>2, <3>3 DEF Batch
  <2>5. CASE Send(w)
    <3>1. worker'[w].batch = worker[w].batch
      BY <2>5 DEF Send, Goto
    <3>2. CASE worker'[w].pc # "mark"
      BY <1>3, <2>2, <3>1, <3>2
    <3>3. CASE worker'[w].pc = "mark"
      <4>1. worker[w].batch # {} /\ received' = [received EXCEPT ![First(worker[w].batch)] = @ + 1]
        BY <2>5, <3>3 DEF Send, Goto
      <4>2. received'[First(worker[w].batch)] > 0
        BY <4>1, FirstOfBatch
      <4> QED
        BY <1>2, <2>2, <3>1, <4>1, <4>2 DEF Batch
    <3> QED
      BY <3>2, <3>3
  <2>6. CASE Mark(w)
    <3> DEFINE n == First(worker[w].batch)
    <3>1. received[n] > 0
      BY <2>0, <2>6 DEF Mark, Batch
    <3>2. worker'[w].pc # "mark" /\ worker'[w].batch \in {worker[w].batch, worker[w].batch \ {n}}
      BY <2>6 DEF Mark, Goto
    <3> HIDE DEF n
    <3>3. CASE worker'[w].batch = worker[w].batch
      BY <1>3, <2>2, <3>2, <3>3
    <3>4. CASE worker'[w].batch = worker[w].batch \ {n}
      BY <1>2, <2>2, <3>1, <3>2, <3>4 DEF Batch
    <3> QED
      BY <3>2, <3>3, <3>4
  <2> QED
    BY <1>6, <2>3, <2>4, <2>5, <2>6 DEF WorkerStep
<1> QED
  BY <1>5, <1>6 DEF Next

-----------------------------------------------------------------------------
(* The lock keeps the others out. *)
LEMMA NextExclusive == TypeOK /\ Exclusive /\ [Next]_vars => Exclusive'
<1> SUFFICES ASSUME TypeOK, Exclusive, [Next]_vars PROVE Exclusive'
  OBVIOUS
<1> USE LockAssumption
<1>1. CASE Submit \/ Announce \/ Environment \/ UNCHANGED vars
  <2>1. worker' = worker /\ (lock' = lock \/ lock = Dead)
    BY <1>1, WorldSteps
  <2> QED
    BY <2>1 DEF Exclusive, InSection
<1>2. ASSUME NEW w \in Workers, WorkerStep(w) \/ Crash(w) PROVE Exclusive'
  <2> USE DEF TypeOK, Locals
  <2>1. /\ lock' = lock \/ lock = Free \/ InSection(w) \/ lock = w
        /\ InSection(w)' => lock' = w
    <3>1. CASE Load(w)
      BY <3>1 DEF Load, Return, Goto, Idle, InSection
    <3>2. CASE Start(w) \/ Drop(w) \/ TryLock(w) \/ Schedule(w)
      BY <3>2 DEF Start, Drop, TryLock, Schedule, Return, Goto, Idle, InSection
    <3>3. CASE Query(w) \/ Send(w) \/ Mark(w)
      <4>1. InSection(w) /\ lock' = lock
        BY <3>3 DEF Query, Send, Mark, InSection
      <4> QED
        BY <4>1 DEF Exclusive
    <3>4. CASE Release(w) \/ Crash(w)
      BY <3>4 DEF Release, Crash, Return, Idle, InSection, Exclusive
    <3> QED
      BY <1>2, <3>1, <3>2, <3>3, <3>4 DEF WorkerStep
  <2>2. ASSUME NEW v \in Workers, v # w, InSection(v)' PROVE lock' = v
    <3>1. InSection(v)
      BY <1>2, <2>2, OthersKept DEF InSection
    <3>2. lock = v /\ lock' = lock
      BY <2>1, <2>2, <3>1 DEF Exclusive
    <3> QED
      BY <3>2
  <2> QED
    BY <2>1, <2>2 DEF Exclusive
<1> QED
  BY <1>1, <1>2 DEF Next

(* The context of a live session is not deleted. *)
LEMMA NextContextThere ==
    TypeOK /\ BatchesOK /\ ContextThere /\ [Next]_vars => ContextThere' /\ (alive' => alive)
<1> SUFFICES ASSUME TypeOK, BatchesOK, ContextThere, [Next]_vars PROVE ContextThere' /\ (alive' => alive)
  OBVIOUS
<1>1. CASE Submit \/ Announce \/ Environment \/ UNCHANGED vars
  <2>1. worker' = worker /\ (alive' => alive /\ context' = context)
    BY <1>1, WorldSteps
  <2> QED
    BY <2>1 DEF ContextThere
<1>2. ASSUME NEW w \in Workers, WorkerStep(w) \/ Crash(w) PROVE ContextThere' /\ (alive' => alive)
  <2> USE DEF TypeOK, Locals
  <2>1. alive' = alive
    BY <1>2 DEF WorkerStep, Start, Load, Drop, TryLock, Schedule, Query, Send, Mark, Release,
                Crash, session
  <2> SUFFICES ASSUME alive PROVE context' # Gone /\ \A v \in Workers : worker'[v].pc # "drop"
    BY <2>1 DEF ContextThere
  <2>2. worker'[w].pc # "drop"
    <3>1. CASE Load(w)
      BY <3>1 DEF Load, Return, Goto, Idle
    <3>2. CASE Start(w) \/ TryLock(w) \/ Query(w) \/ Send(w)
      BY <3>2 DEF Start, TryLock, Query, Send, Goto
    <3>3. CASE Mark(w)
      BY <3>3 DEF Mark, Goto
    <3>4. CASE Drop(w) \/ Schedule(w) \/ Release(w) \/ Crash(w)
      <4>1. worker' = [worker EXCEPT ![w] = Idle]
        BY <3>4 DEF Drop, Schedule, Release, Crash, Return
      <4> QED
        BY <4>1 DEF Idle
    <3> QED
      BY <1>2, <3>1, <3>2, <3>3, <3>4 DEF WorkerStep
  <2>3. context' # Gone
    <3>1. CASE Mark(w)
      <4>1. First(worker[w].batch) \in Notes
        BY <3>1, FirstOfBatch DEF Mark, BatchesOK
      <4> QED
        BY <3>1, <4>1 DEF Mark, Cursor, Notes, Gone, ContextThere
    <3>2. CASE ~Mark(w)
      BY <1>2, <3>2 DEF WorkerStep, Start, Load, Drop, TryLock, Schedule, Query, Send, Release,
                        Crash, session, ContextThere
    <3> QED
      BY <3>1, <3>2
  <2> QED
    BY <1>2, <2>2, <2>3, OthersKept DEF ContextThere
<1> QED
  BY <1>1, <1>2 DEF Next

(* A push beyond the first is paid for by a fault. *)
LEMMA NextPushesPaidFor ==
    ASSUME TypeOK, BatchesOK, Exclusive, ContextThere, PushesPaidFor, alive, [Next]_vars
    PROVE  PushesPaidFor'
<1> DEFINE Extra(n) == IF n \in sent \/ Pushed(n) THEN 1 ELSE 0
           Clean(v) == worker[v].pc \in {"send", "mark"} => worker[v].batch \cap sent = {}
<1>0. /\ \A v \in Workers : worker[v] \in Locals /\ Clean(v)
      /\ \A n \in Notes : received[n] \in Nat /\ received[n] <= faults + Extra(n)
      /\ \A n \in Notes : Extra(n) \in {0, 1} /\ Extra(n)' \in {0, 1}
      /\ faults \in Nat
  BY BoundsAssumption DEF PushesPaidFor, TypeOK
<1>1. ASSUME \A v \in Workers : Clean(v)', \A n \in Notes : received'[n] <= faults' + Extra(n)'
      PROVE  PushesPaidFor'
  BY <1>1 DEF PushesPaidFor
<1>2. CASE Submit \/ Announce \/ Environment \/ UNCHANGED vars
  <2>1. UNCHANGED <<worker, received, sent>> /\ faults' \in Nat /\ faults <= faults'
    BY <1>2, WorldSteps
  <2>2. \A n \in Notes : Extra(n)' = Extra(n)
    BY <2>1 DEF Pushed
  <2> HIDE DEF Extra
  <2>3. \A n \in Notes : received'[n] <= faults' + Extra(n)'
    BY <1>0, <2>1, <2>2
  <2>4. \A v \in Workers : Clean(v)'
    BY <1>0, <2>1
  <2> QED
    BY <1>1, <2>3, <2>4
<1>3. ASSUME NEW w \in Workers, WorkerStep(w) \/ Crash(w) PROVE PushesPaidFor'
  <2>0. worker[w] \in Locals /\ Clean(w)
    BY <1>0
  <2>1. \A v \in Workers : v # w => worker'[v] = worker[v]
    BY <1>3, OthersKept
  <2>2. ASSUME sent' = sent, Clean(w)' PROVE \A v \in Workers : Clean(v)'
    BY <1>0, <2>1, <2>2
  <2>3. ASSUME received' = received, faults' = faults + 1
        PROVE  \A n \in Notes : received'[n] <= faults' + Extra(n)'
    <3> HIDE DEF Extra
    <3> QED
      BY <1>0, <2>3
  <2>4. ASSUME InSection(w), NEW v \in Workers, v # w PROVE worker[v].pc \notin {"send", "mark"}
    BY <2>4 DEF Exclusive, InSection
  <2> USE DEF TypeOK, Locals
  <2>5. CASE Start(w) \/ Load(w) \/ Drop(w) \/ TryLock(w) \/ Schedule(w) \/ Query(w) \/ Release(w)
    <3>1. /\ UNCHANGED <<received, sent, faults>> /\ worker[w].pc # "mark" /\ worker'[w].pc # "mark"
          /\ worker'[w].pc = "send" => worker'[w].batch = Unsent(worker[w].last)
      <4>1. CASE Load(w)
        BY <4>1 DEF Load, Return, Goto, Idle
      <4>2. CASE Query(w)
        BY <4>2 DEF Query
      <4>3. CASE Start(w) \/ TryLock(w)
        BY <4>3 DEF Start, TryLock, Goto
      <4>4. CASE Drop(w) \/ Schedule(w) \/ Release(w)
        <5>1. worker' = [worker EXCEPT ![w] = Idle]
          BY <4>4 DEF Drop, Schedule, Release, Return
        <5>2. UNCHANGED <<received, sent, faults>> /\ worker[w].pc # "mark"
          BY <4>4 DEF Drop, Schedule, Release
        <5> QED
          BY <5>1, <5>2 DEF Idle
      <4> QED
        BY <2>5, <4>1, <4>2, <4>3, <4>4
    <3>2. \A n \in Notes : Extra(n)' = Extra(n)
      <4>1. \A n \in Notes : Pushed(n)' <=> Pushed(n)
        BY <2>1, <3>1 DEF Pushed
      <4> QED
        BY <3>1, <4>1
    <3>3. Clean(w)'
      BY <3>1 DEF Unsent
    <3> HIDE DEF Extra
    <3> QED
      BY <1>0, <1>1, <2>2, <3>1, <3>2, <3>3
  <2>6. CASE Crash(w)
    <3>1. /\ received' = received /\ faults' = faults + 1 /\ sent' = sent
          /\ worker'[w].pc = "idle"
      BY <2>6 DEF Crash, Fault, Return, Idle
    <3> QED
      BY <1>1, <2>2, <2>3, <3>1
  <2>7. CASE Send(w)
    <3>0. PICK n \in Notes : n = First(worker[w].batch)
      BY <2>7, FirstOfBatch DEF Send, BatchesOK
    <3>1. worker[w].batch # {} /\ worker[w].pc = "send" /\ worker'[w].batch = worker[w].batch
          /\ sent' = sent
      BY <2>7 DEF Send, Goto
    <3>2. n \in worker[w].batch /\ n \in Notes /\ n \notin sent
      BY <2>0, <3>0, <3>1, FirstOfBatch
    <3>3. \A k \in Notes : ~Pushed(k)
      BY <2>4, <3>1 DEF InSection, Pushed
    <3>4. Clean(w)'
      BY <2>0, <3>1
    <3>5. CASE received' = received /\ faults' = faults + 1
      BY <1>1, <2>2, <2>3, <3>1, <3>4, <3>5
    <3>6. CASE /\ worker'[w].pc = "mark" /\ faults' = faults
               /\ received' = [received EXCEPT ![n] = @ + 1]
      <4>1. Extra(n)' = 1 /\ Extra(n) = 0
        BY <3>0, <3>1, <3>2, <3>3, <3>6 DEF Pushed
      <4>2. \A k \in Notes : k # n => Extra(k) <= Extra(k)'
        BY <3>1, <3>3
      <4> HIDE DEF Extra
      <4>3. received'[n] <= faults' + Extra(n)'
        BY <1>0, <3>2, <3>6, <4>1
      <4>4. \A k \in Notes : k # n => received'[k] <= faults' + Extra(k)'
        BY <1>0, <3>6, <4>2
      <4>5. \A k \in Notes : received'[k] <= faults' + Extra(k)'
        BY <4>3, <4>4
      <4> QED
        BY <1>1, <2>2, <3>1, <3>4, <4>5
    <3> QED
      BY <2>7, <3>0, <3>5, <3>6 DEF Send, Fault, Goto
  <2>8. CASE Mark(w)
    <3> DEFINE n == First(worker[w].batch)
    <3>1. worker[w].pc = "mark" /\ received' = received /\ n \in Notes
      BY <2>8, FirstOfBatch DEF Mark, BatchesOK
    <3>2. CASE faults' = faults + 1 /\ sent' = sent /\ worker'[w].pc = "release"
      BY <1>1, <2>2, <2>3, <3>1, <3>2
    <3>3. CASE /\ worker'[w].pc = "send" /\ worker'[w].batch = worker[w].batch \ {n}
               /\ sent' = sent \cup {n} /\ faults' = faults
      <4>1. \A k \in Notes : Pushed(k) => k = n
        BY <2>4, <3>1 DEF InSection, Pushed
      <4>2. \A k \in Notes : Extra(k) <= Extra(k)'
        BY <3>3, <4>1
      <4>3. \A v \in Workers : v # w => worker'[v].pc \notin {"send", "mark"}
        BY <2>1, <2>4, <3>1 DEF InSection
      <4>4. \A v \in Workers : Clean(v)'
        BY <2>0, <3>1, <3>3, <4>3
      <4> HIDE DEF n, Extra
      <4>5. \A k \in Notes : received'[k] <= faults' + Extra(k)'
        BY <1>0, <3>1, <3>3, <4>2
      <4> QED
        BY <1>1, <4>4, <4>5
    <3> QED
      BY <2>8, <3>2, <3>3 DEF Mark, Fault, Goto, ContextThere
  <2> QED
    BY <1>3, <2>5, <2>6, <2>7, <2>8 DEF WorkerStep
<1> QED
  BY <1>2, <1>3 DEF Next

-----------------------------------------------------------------------------
(* Theorems *)

(* The parts together are inductive ... *)
LEMMA NextIInv == IInv /\ [Next]_vars => IInv'
  BY NextTypeOK, NextCursorsReached, NextBatchesOK, NextExclusive, NextContextThere,
     NextPushesPaidFor DEF IInv

(* ... and therefore hold in every behaviour. *)
LEMMA SpecIInv == Spec => []IInv
  BY InitIInv, NextIInv, PTL DEF Spec

(* The cursor in the context never passes a notification that the device   *)
(* did not get, however many notifiers start from outdated copies of it.   *)
THEOREM NothingSkippedHolds == Spec => []NothingSkipped
<1>1. IInv => NothingSkipped
  BY DEF IInv, NothingSkipped, CursorsReached, Reached
<1> QED
  BY SpecIInv, <1>1, PTL

(* While the session lives, every repeated push is paid for by a crash or  *)
(* a failed call.                                                          *)
THEOREM NoFreeDuplicatesHolds == Spec => []NoFreeDuplicates
<1>1. IInv => NoFreeDuplicates
  <2> SUFFICES ASSUME IInv, alive, NEW n \in Notes PROVE received[n] <= 1 + faults
    BY DEF NoFreeDuplicates
  <2>1. received[n] \in Nat /\ faults \in Nat
    BY BoundsAssumption DEF IInv, TypeOK
  <2>2. received[n] <= faults + (IF n \in sent \/ Pushed(n) THEN 1 ELSE 0)
    BY DEF IInv, PushesPaidFor
  <2> QED
    BY <2>1, <2>2
<1> QED
  BY SpecIInv, <1>1, PTL

(* The device gets the notifications in the order of their numbers: a push *)
(* follows the pushes of all earlier numbers.                              *)
THEOREM DeliveredInOrderHolds == Spec => DeliveredInOrder
<1> DEFINE Ordered == \A n \in Notes : received'[n] > received[n] =>
                          \A m \in 1..(n - 1) : received[m] > 0
<1>1. IInv /\ [Next]_vars => Ordered
  <2> SUFFICES ASSUME IInv, [Next]_vars, NEW n \in Notes, received'[n] > received[n],
                      NEW m \in 1..(n - 1)
               PROVE  received[m] > 0
    OBVIOUS
  <2>1. TypeOK /\ BatchesOK /\ received[n] \in Nat
    BY DEF IInv, TypeOK
  <2>2. PICK w \in Workers :
           /\ worker[w].batch # {}
           /\ received' = [received EXCEPT ![First(worker[w].batch)] = @ + 1]
    BY <2>1, PushesAdded
  <2>3. n = First(worker[w].batch)
    BY <2>1, <2>2 DEF TypeOK
  <2>4. n \in worker[w].batch /\ m \notin worker[w].batch
    BY <2>1, <2>2, <2>3, FirstOfBatch DEF Notes
  <2>5. m \in 1..n
    BY DEF Notes
  <2> QED
    BY <2>1, <2>4, <2>5 DEF BatchesOK
<1> QED
  BY SpecIInv, <1>1, PTL DEF Spec, DeliveredInOrder
=============================================================================
