------------------------- MODULE EventSequenceProofs -------------------------
(***************************************************************************)
(* The lock in timeoutAt, the numbers it protects and the order in which   *)
(* they become visible, for any number of writers and any lock time.       *)
(***************************************************************************)
EXTENDS EventSequence, TLAPS

(* Whoever is about to patch saw a row that nobody's lock protected, and   *)
(* what was past when it looked is past now.                               *)
SeenIsPast ==
    \A w \in Writers : pc[w] = "patch" => seen[w].timeoutAt <= Seconds(time)

(* The row hands out numbers above every number still on its way to an     *)
(* event, and above every event.                                           *)
RowAhead ==
    /\ \A w \in Writers : pc[w] = "run" => \E r \in row : number[w] < r.nextValue
    /\ \A n \in events : \E r \in row : n < r.nextValue

(* The owner's number is above every event: while its lock lasts, nobody   *)
(* else adds one.                                                          *)
OwnerAhead ==
    \A w \in Writers : Owner(w) /\ pc[w] = "run" => \A n \in events : n < number[w]

IInv ==
    /\ TypeOK
    /\ SeenIsPast
    /\ OneOwner
    /\ ~reused => RowAhead /\ NumbersDistinct
    /\ ~reused /\ ~overran => OwnerAhead

-----------------------------------------------------------------------------
(* What the two clock conversions return: they are natural numbers, and    *)
(* the seconds of a clock never run backwards.                             *)
LEMMA ClockArithmetic ==
    ASSUME NEW t \in Nat
    PROVE  /\ Seconds(t) \in Nat
           /\ Seconds(t) <= Seconds(t + 1)
           /\ SecondsInFuture(t, LockSeconds) \in Nat
  BY LockAssumption DEF Seconds, SecondsInFuture

(* The initial state satisfies the inductive invariant. *)
LEMMA InitIInv == Init => IInv
<1> SUFFICES ASSUME Init PROVE IInv
  OBVIOUS
<1>1. TypeOK
  <2>1. NoCopy \in Rows
    BY DEF NoCopy, Row, Rows
  <2>2. seen \in [Writers -> Rows] /\ pc \in [Writers -> PCs]
    BY <2>1 DEF Init, PCs
  <2>3. time \in 0..MaxTime /\ tries \in [Writers -> 0..Tries]
    BY TriesAssumption, BoundAssumption DEF Init
  <2> QED
    BY <2>2, <2>3 DEF Init, TypeOK
<1>2. SeenIsPast /\ OneOwner /\ RowAhead /\ NumbersDistinct /\ OwnerAhead
  BY DEF Init, SeenIsPast, OneOwner, Owner, RowAhead, NumbersDistinct, OwnerAhead
<1> QED
  BY <1>1, <1>2 DEF IInv

(* The two ends of an attempt that failed keep the types of a writer's     *)
(* locals.                                                                 *)
LEMMA ConflictTypeOK ==
    ASSUME TypeOK, NEW w \in Writers, Conflict(w) \/ Leave(w)
    PROVE  /\ pc' \in [Writers -> PCs] /\ seen' \in [Writers -> Rows]
           /\ lock' \in [Writers -> Nat] /\ number' \in [Writers -> Nat]
           /\ tries' \in [Writers -> 0..Tries]
<1>1. NoCopy \in Rows /\ 0 \in 0..Tries
  BY TriesAssumption DEF NoCopy, Row, Rows
<1>2. CASE Leave(w)
  BY <1>1, <1>2 DEF Leave, TypeOK, PCs
<1>3. CASE Conflict(w) /\ tries[w] < Tries
  BY <1>1, <1>3, TriesAssumption DEF Conflict, TypeOK, PCs
<1> QED
  BY <1>2, <1>3 DEF Conflict

(* Every step of the writers and of the clock keeps the types. *)
LEMMA NextTypeOK == TypeOK /\ [Next]_vars => TypeOK'
<1> SUFFICES ASSUME TypeOK, [Next]_vars PROVE TypeOK'
  OBVIOUS
<1> USE TriesAssumption, BoundAssumption
<1>0. time \in Nat /\ SecondsInFuture(time, LockSeconds) \in Nat
  BY ClockArithmetic DEF TypeOK
<1>1. CASE Tick
  BY <1>1 DEF Tick, TypeOK
<1>2. CASE UNCHANGED vars
  BY <1>2 DEF vars, TypeOK
<1>3. ASSUME NEW w \in Writers, WriterStep(w) PROVE TypeOK'
  <2>1. CASE Execute(w)
    BY <2>1 DEF Execute, TypeOK, PCs
  <2>2. CASE Find(w)
    <3>1. CASE Conflict(w)
      BY <2>2, <3>1, ConflictTypeOK DEF Find, TypeOK
    <3>2. CASE ~Conflict(w)
      BY <1>0, <2>2, <3>2 DEF Find, TypeOK, PCs
    <3> QED
      BY <3>1, <3>2
  <2>3. CASE Create(w)
    <3>1. CASE row = {}
      <4>1. Row(2, lock[w]) \in Rows
        BY DEF TypeOK, Row, Rows
      <4> QED
        BY <2>3, <3>1, <4>1 DEF Create, TypeOK, PCs
    <3>2. CASE row # {}
      BY <2>3, <3>2, ConflictTypeOK DEF Create, TypeOK
    <3> QED
      BY <3>1, <3>2
  <2>4. CASE Patch(w)
    <3>1. Advanced(w) \in Rows /\ seen[w].nextValue \in Nat
      BY DEF TypeOK, Advanced, Row, Rows
    <3>2. CASE row' = {Advanced(w)}
      BY <2>4, <3>1, <3>2, ConflictTypeOK DEF Patch, TypeOK, PCs
    <3>3. CASE Conflict(w) /\ UNCHANGED <<row, reused>>
      BY <2>4, <3>3, ConflictTypeOK DEF Patch, TypeOK
    <3> QED
      BY <2>4, <3>2, <3>3 DEF Patch
  <2>5. CASE Commit(w)
    BY <2>5 DEF Commit, TypeOK, PCs
  <2>6. CASE Reject(w)
    BY <2>6 DEF Reject, TypeOK, PCs
  <2>7. CASE Unlock(w)
    <3>1. \A r \in row : Unlocked(w, r) \in Rows
      BY DEF TypeOK, Unlocked, Rows
    <3> QED
      BY <2>7, <3>1, ConflictTypeOK DEF Unlock, TypeOK
  <2>8. CASE Crash(w)
    BY <2>8, ConflictTypeOK DEF Crash, TypeOK
  <2> QED
    BY <1>3, <2>1, <2>2, <2>3, <2>4, <2>5, <2>6, <2>7, <2>8 DEF WriterStep
<1> QED
  BY <1>1, <1>2, <1>3 DEF Next
-----------------------------------------------------------------------------
(* A step of another writer leaves a writer's locals alone. *)
LEMMA LocalsOfOthers ==
    ASSUME TypeOK, NEW w \in Writers, WriterStep(w)
    PROVE  /\ time' = time
           /\ \A v \in Writers \ {w} : /\ pc'[v] = pc[v] /\ seen'[v] = seen[v]
                                       /\ lock'[v] = lock[v] /\ number'[v] = number[v]
  BY DEF TypeOK, WriterStep, Execute, Find, Create, Patch, Commit, Reject, Unlock, Crash,
         Conflict, Leave

(* A writer gets to patch only from a row that is not locked. *)
LEMMA NextSeenIsPast == TypeOK /\ SeenIsPast /\ [Next]_vars => SeenIsPast'
<1> SUFFICES ASSUME TypeOK, SeenIsPast, [Next]_vars, NEW v \in Writers, (pc[v] = "patch")'
             PROVE  seen'[v].timeoutAt <= Seconds(time)'
  BY DEF SeenIsPast
<1>0. time \in Nat /\ Seconds(time) \in Nat /\ Seconds(time) <= Seconds(time + 1)
      /\ seen[v].timeoutAt \in Nat
  BY BoundAssumption, ClockArithmetic DEF TypeOK, Rows
<1>1. CASE Tick
  <2>1. pc[v] = "patch" /\ seen'[v] = seen[v] /\ Seconds(time)' = Seconds(time + 1)
    BY <1>1 DEF Tick
  <2>2. Seconds(time + 1) \in Nat
    BY <1>0, ClockArithmetic
  <2> QED
    BY <1>0, <2>1, <2>2 DEF SeenIsPast
<1>2. CASE UNCHANGED vars
  BY <1>2 DEF vars, SeenIsPast
<1>3. ASSUME NEW w \in Writers, WriterStep(w)
      PROVE  seen'[v].timeoutAt <= Seconds(time)'
  <2>1. Seconds(time)' = Seconds(time)
    BY <1>3, LocalsOfOthers
  <2>2. CASE v # w
    BY <1>3, <2>1, <2>2, LocalsOfOthers DEF SeenIsPast
  <2>3. CASE v = w
    <3>1. Find(w)
      BY <1>3, <2>3 DEF TypeOK, PCs, WriterStep, Execute, Create, Patch, Commit, Reject,
                        Unlock, Crash, Conflict, Leave
    <3>2. PICK r \in row : ~Locked(r) /\ seen'[v] = r
      BY <2>3, <3>1 DEF TypeOK, PCs, Find, Conflict, Leave
    <3> QED
      BY <1>0, <2>1, <3>2 DEF Locked, TypeOK, Rows
  <2> QED
    BY <2>2, <2>3
<1> QED
  BY <1>1, <1>2, <1>3 DEF Next

(* Who owns the row after a step: only a writer that just took it, or one   *)
(* that owned it before.                                                   *)
LEMMA OwnerBefore ==
    ASSUME TypeOK, NEW w \in Writers, WriterStep(w), NEW v \in Writers, Owner(v)'
    PROVE  /\ lock'[v] = lock[v] /\ Seconds(time) < lock[v]
           /\ \/ Owner(v)
              \/ v = w /\ (Create(w) \/ Patch(w)) /\ row' = {Row(number'[w] + 1, lock[w])}
<1>1. CASE v # w
  BY <1>1, LocalsOfOthers DEF Owner
<1>2. CASE v = w
  <2>1. pc'[w] \in {"run", "unlock"} /\ time' = time
    BY <1>2, LocalsOfOthers DEF Owner
  <2>2. Create(w) \/ Patch(w) \/ Commit(w) \/ Reject(w)
    BY <2>1 DEF TypeOK, PCs, WriterStep, Execute, Find, Unlock, Crash, Conflict, Leave
  <2>3. CASE Create(w)
    <3>1. row' = {Row(2, lock[w])} /\ number'[w] = 1 /\ lock' = lock
      BY <2>1, <2>3 DEF TypeOK, PCs, Create, Conflict, Leave
    <3> QED
      BY <1>2, <2>3, <3>1, <2>1 DEF Owner
  <2>4. CASE Patch(w)
    <3>1. row' = {Advanced(w)} /\ number'[w] = seen[w].nextValue /\ lock' = lock
      BY <2>1, <2>4 DEF TypeOK, PCs, Patch, Conflict, Leave
    <3> QED
      BY <1>2, <2>4, <3>1, <2>1 DEF Owner, Advanced
  <2>5. CASE Commit(w) \/ Reject(w)
    BY <1>2, <2>1, <2>5 DEF Commit, Reject, Owner
  <2> QED
    BY <2>2, <2>3, <2>4, <2>5
<1> QED
  BY <1>1, <1>2

(* Nobody takes the row from an owner. *)
LEMMA NoTakeOver ==
    ASSUME TypeOK, SeenIsPast, OneOwner,
           NEW w \in Writers, NEW v \in Writers, v # w, Owner(v),
           Create(w) \/ Patch(w), pc'[w] = "run"
    PROVE  FALSE
<1>1. PICK r \in row : r.timeoutAt = lock[v]
  BY DEF OneOwner
<1>2. CASE Create(w)
  BY <1>1, <1>2 DEF TypeOK, PCs, Create, Conflict, Leave
<1>3. CASE Patch(w)
  <2>1. PICK q \in row : q.timeoutAt = seen[w].timeoutAt
    BY <1>3 DEF TypeOK, PCs, Patch, Conflict, Leave
  <2>2. q = r
    BY <1>1, <2>1 DEF TypeOK
  <2>3. seen[w].timeoutAt <= Seconds(time)
    BY <1>3 DEF Patch, SeenIsPast
  <2>4. Seconds(time) \in Nat /\ lock[v] \in Nat /\ Seconds(time) < lock[v]
    BY ClockArithmetic DEF TypeOK, Owner
  <2> QED
    BY <1>1, <2>1, <2>2, <2>3, <2>4
<1> QED
  BY <1>2, <1>3

(* The lock admits one writer at a time. *)
LEMMA NextOneOwner == TypeOK /\ SeenIsPast /\ OneOwner /\ [Next]_vars => OneOwner'
<1> SUFFICES ASSUME TypeOK, SeenIsPast, OneOwner, [Next]_vars, NEW v \in Writers, Owner(v)'
             PROVE  /\ \A u \in Writers : Owner(u)' => u = v
                    /\ \E r \in row' : r.timeoutAt = lock'[v]
  BY DEF OneOwner
<1>1. CASE Tick
  <2>1. \A u \in Writers : Owner(u)' => Owner(u)
    <3> SUFFICES ASSUME NEW u \in Writers, Owner(u)' PROVE Owner(u)
      OBVIOUS
    <3>1. Seconds(time) \in Nat /\ Seconds(time + 1) \in Nat /\ Seconds(time) <= Seconds(time + 1)
      BY BoundAssumption, ClockArithmetic DEF TypeOK
    <3>2. Seconds(time)' = Seconds(time + 1) /\ lock[u] \in Nat
      BY <1>1 DEF Tick, TypeOK
    <3> QED
      BY <1>1, <3>1, <3>2 DEF Tick, Owner
  <2> QED
    BY <1>1, <2>1 DEF Tick, OneOwner
<1>2. CASE UNCHANGED vars
  BY <1>2 DEF vars, OneOwner, Owner
<1>3. ASSUME NEW w \in Writers, WriterStep(w)
      PROVE  /\ \A u \in Writers : Owner(u)' => u = v
             /\ \E r \in row' : r.timeoutAt = lock'[v]
  <2> DEFINE Took == (Create(w) \/ Patch(w)) /\ row' = {Row(number'[w] + 1, lock[w])}
  <2>1. \A u \in Writers : Owner(u)' => (Owner(u) \/ (u = w /\ Took /\ Owner(w)'))
    BY <1>3, OwnerBefore
  <2>2. CASE ~(Took /\ Owner(w)')
    <3>1. \A u \in Writers : Owner(u)' => Owner(u)
      BY <2>1, <2>2
    <3>2. PICK r \in row : r.timeoutAt = lock[v]
      BY <3>1 DEF OneOwner
    <3>3. CASE Unlock(w)
      <4>1. v # w /\ lock[v] # lock[w]
        BY <3>1, <3>3 DEF TypeOK, Unlock, Leave, OneOwner, Owner
      <4>2. Unlocked(w, r) = r /\ lock'[v] = lock[v]
        BY <3>2, <4>1, <1>3, LocalsOfOthers DEF Unlocked
      <4> QED
        BY <3>1, <3>2, <3>3, <4>2 DEF Unlock, OneOwner
    <3>4. CASE ~Unlock(w)
      <4>1. row' = row \/ ((Create(w) \/ Patch(w)) /\ row' # row /\ pc'[w] = "run")
        BY <1>3, <3>4 DEF TypeOK, WriterStep, Execute, Find, Create, Patch, Commit, Reject,
                          Crash
      <4>2. CASE row' = row
        BY <1>3, <3>1, <3>2, <4>2, OwnerBefore DEF OneOwner
      <4>3. CASE (Create(w) \/ Patch(w)) /\ row' # row /\ pc'[w] = "run"
        <5>1. v = w
          BY <3>1, <4>3, NoTakeOver
        <5>2. pc[w] \in {"create", "patch"} /\ Owner(w)
          BY <3>1, <4>3, <5>1 DEF Create, Patch
        <5> QED
          BY <5>2 DEF Owner
      <4> QED
        BY <4>1, <4>2, <4>3
    <3> QED
      BY <3>3, <3>4
  <2>3. CASE Took /\ Owner(w)'
    <3>1. pc'[w] = "run"
      BY <2>3 DEF TypeOK, PCs, Create, Patch, Conflict, Leave, Owner
    <3>2. \A u \in Writers : Owner(u) => u = w
      BY <2>3, <3>1, NoTakeOver
    <3>3. v = w /\ \A u \in Writers : Owner(u)' => u = w
      BY <2>1, <3>2
    <3>4. lock'[w] = lock[w]
      BY <1>3, <2>3, OwnerBefore
    <3> QED
      BY <2>3, <3>3, <3>4 DEF Row
  <2> QED
    BY <2>2, <2>3
<1> QED
  BY <1>1, <1>2, <1>3 DEF Next

-----------------------------------------------------------------------------
(* A writer takes the row at the number it finds there, and leaves the     *)
(* number above it.                                                        *)
Takes(w) ==
    /\ Create(w) \/ Patch(w)
    /\ pc'[w] = "run"
    /\ row' = {Row(number'[w] + 1, lock[w])}
    /\ \A r \in row : r.nextValue = number'[w]
    /\ Create(w) => row = {}
    /\ UNCHANGED events

(* Every other step leaves the numbers as they are; at most it makes an    *)
(* event of a number that was on its way.                                  *)
Keeps(w) ==
    /\ \A v \in Writers : pc'[v] = "run" => pc[v] = "run" /\ number'[v] = number[v]
    /\ \A r \in row : \E q \in row' : q.nextValue = r.nextValue
    /\ events' = events \/ Commit(w)

(* These are the only two kinds of step, unless a take-over goes ahead on  *)
(* an outdated nextValue.                                                  *)
LEMMA TakesOrKeeps ==
    ASSUME TypeOK, ~reused', NEW w \in Writers, WriterStep(w)
    PROVE  (Takes(w) \/ Keeps(w)) /\ ~reused
<1>1. CASE Create(w) /\ pc'[w] = "run"
  <2>1. row = {} /\ row' = {Row(2, lock[w])} /\ number'[w] = 1
    BY <1>1 DEF TypeOK, PCs, Create, Conflict, Leave
  <2> QED
    BY <1>1, <2>1 DEF Takes, Create
<1>2. CASE Patch(w) /\ pc'[w] = "run"
  <2>1. /\ row' = {Advanced(w)} /\ number'[w] = seen[w].nextValue
        /\ \E r \in row : r.nextValue = seen[w].nextValue
        /\ ~reused
    BY <1>2 DEF TypeOK, PCs, Patch, Conflict, Leave
  <2>2. \A r \in row : r.nextValue = number'[w]
    BY <2>1 DEF TypeOK
  <2>3. ~Create(w)
    BY <1>2 DEF Create, Patch
  <2> QED
    BY <1>2, <2>1, <2>2, <2>3 DEF Takes, Advanced, Patch
<1>3. CASE ~((Create(w) \/ Patch(w)) /\ pc'[w] = "run")
  <2>1. \A v \in Writers : pc'[v] = "run" => pc[v] = "run" /\ number'[v] = number[v]
    <3>1. pc'[w] # "run"
      BY <1>3 DEF TypeOK, PCs, WriterStep, Execute, Find, Commit, Reject, Unlock, Crash,
                  Conflict, Leave
    <3> QED
      BY <3>1, LocalsOfOthers
  <2>2. \A r \in row : \E q \in row' : q.nextValue = r.nextValue
    <3>1. CASE Unlock(w)
      <4>1. \A r \in row : Unlocked(w, r).nextValue = r.nextValue
        BY DEF TypeOK, Rows, Unlocked
      <4> QED
        BY <3>1, <4>1 DEF Unlock
    <3>2. CASE ~Unlock(w)
      <4>1. row' = row
        BY <1>3, <3>2 DEF TypeOK, WriterStep, Execute, Find, Create, Patch, Commit, Reject, Crash
      <4> QED
        BY <4>1
    <3> QED
      BY <3>1, <3>2
  <2>3. (events' = events \/ Commit(w)) /\ ~reused
    BY <1>3 DEF TypeOK, WriterStep, Execute, Find, Create, Patch, Reject, Unlock, Crash, Commit
  <2> QED
    BY <2>1, <2>2, <2>3 DEF Keeps
<1> QED
  BY <1>1, <1>2, <1>3

(* Numbers on their way and numbers of events stay below the row's, and    *)
(* apart from each other.                                                  *)
LEMMA NextNumbers ==
    TypeOK /\ (~reused => RowAhead /\ NumbersDistinct) /\ [Next]_vars
        => (~reused => RowAhead /\ NumbersDistinct)'
<1> SUFFICES ASSUME TypeOK, ~reused => RowAhead /\ NumbersDistinct, [Next]_vars, ~reused'
             PROVE  RowAhead' /\ NumbersDistinct'
  OBVIOUS
<1>1. CASE Tick \/ UNCHANGED vars
  BY <1>1 DEF Tick, vars, RowAhead, NumbersDistinct
<1>2. ASSUME NEW w \in Writers, WriterStep(w) PROVE RowAhead' /\ NumbersDistinct'
  <2>0. RowAhead /\ NumbersDistinct /\ ~reused /\ (Takes(w) \/ Keeps(w))
    BY <1>2, TakesOrKeeps
  <2>a. /\ \A v \in Writers : number[v] \in Nat
        /\ \A n \in events : n \in Nat
        /\ \A r \in row : r.nextValue \in Nat
    BY DEF TypeOK, Rows
  <2>1. CASE Takes(w)
    <3>0. number'[w] \in Nat
      BY <1>2, NextTypeOK DEF TypeOK, Next
    <3>1. \A v \in Writers : v # w /\ pc'[v] = "run"
                => pc[v] = "run" /\ number'[v] = number[v] /\ number[v] < number'[w]
      BY <1>2, <2>0, <2>1, LocalsOfOthers DEF Takes, RowAhead
    <3>2. \A n \in events' : n < number'[w]
      BY <2>0, <2>1 DEF Takes, RowAhead
    <3>3. \E r \in row' : r.nextValue = number'[w] + 1
      BY <2>1 DEF Takes, Row
    <3>4. RowAhead'
      <4>1. ASSUME NEW v \in Writers, pc'[v] = "run"
            PROVE  \E r \in row' : number'[v] < r.nextValue
        BY <2>a, <3>0, <3>1, <3>3, <4>1
      <4>2. ASSUME NEW n \in events' PROVE \E r \in row' : n < r.nextValue
        <5>1. n \in Nat
          BY <2>1, <2>a DEF Takes
        <5> QED
          BY <3>0, <3>2, <3>3, <5>1
      <4> QED
        BY <4>1, <4>2 DEF RowAhead
    <3>5. NumbersDistinct'
      <4>1. ASSUME NEW u \in Writers, NEW v \in Writers, pc'[u] = "run", pc'[v] = "run",
                   number'[u] = number'[v]
            PROVE  u = v
        <5>1. CASE u # w /\ v # w
          BY <2>0, <3>1, <4>1, <5>1 DEF NumbersDistinct
        <5>2. CASE u = w \/ v = w
          BY <2>a, <3>0, <3>1, <4>1, <5>2
        <5> QED
          BY <5>1, <5>2
      <4> QED
        BY <4>1 DEF NumbersDistinct
    <3> QED
      BY <3>4, <3>5
  <2>2. CASE Keeps(w)
    <3>1. \A v \in Writers : pc'[v] = "run"
                => \E q \in row' : number'[v] < q.nextValue
      BY <2>0, <2>2 DEF Keeps, RowAhead
    <3>2. \A n \in events' : \E q \in row' : n < q.nextValue
      <4>1. CASE events' = events
        BY <2>0, <2>2, <4>1 DEF Keeps, RowAhead
      <4>2. CASE Commit(w)
        <5>1. \A n \in events' : \E r \in row : n < r.nextValue
          BY <2>0, <4>2 DEF Commit, RowAhead
        <5> QED
          BY <2>2, <5>1 DEF Keeps
      <4> QED
        BY <2>2, <4>1, <4>2 DEF Keeps
    <3>3. NumbersDistinct'
      BY <2>0, <2>2 DEF Keeps, NumbersDistinct
    <3> QED
      BY <3>1, <3>2, <3>3 DEF RowAhead
  <2> QED
    BY <2>0, <2>1, <2>2
<1> QED
  BY <1>1, <1>2 DEF Next

(* A transaction written in time is its owner's, and so leaves every other *)
(* owner's number above the events.                                        *)
LEMMA CommitIsOwners ==
    ASSUME TypeOK, NEW w \in Writers, Commit(w), ~overran'
    PROVE  Owner(w) /\ pc[w] = "run" /\ events' = events \cup {number[w]} /\ ~overran
<1>1. Seconds(time) \in Nat /\ lock[w] \in Nat
  BY ClockArithmetic DEF TypeOK
<1>2. ~overran /\ ~(Seconds(time) >= lock[w])
  BY DEF Commit
<1> QED
  BY <1>1, <1>2 DEF Commit, Owner

(* Under both provisos the owner's number stays above the events. *)
LEMMA NextOwnerAhead == IInv /\ [Next]_vars => (~reused /\ ~overran => OwnerAhead)'
<1> SUFFICES ASSUME IInv, [Next]_vars, ~reused', ~overran',
                    NEW v \in Writers, Owner(v)', pc'[v] = "run",
                    NEW n \in events'
             PROVE  n < number'[v]
  BY DEF OwnerAhead
<1>0. TypeOK /\ OneOwner
  BY DEF IInv
<1>1. CASE Tick
  <2>1. Owner(v)
    <3>1. /\ Seconds(time) \in Nat /\ Seconds(time + 1) \in Nat /\ lock[v] \in Nat
          /\ Seconds(time) <= Seconds(time + 1)
      BY <1>0, BoundAssumption, ClockArithmetic DEF TypeOK
    <3> QED
      BY <1>1, <3>1 DEF Tick, Owner
  <2> QED
    BY <1>1, <2>1 DEF Tick, IInv, OwnerAhead
<1>2. CASE UNCHANGED vars
  BY <1>2 DEF vars, IInv, OwnerAhead, Owner
<1>3. ASSUME NEW w \in Writers, WriterStep(w) PROVE n < number'[v]
  <2>0. ~reused /\ ~overran /\ (Takes(w) \/ Keeps(w))
    BY <1>0, <1>3, TakesOrKeeps
    DEF TypeOK, WriterStep, Execute, Find, Create, Patch, Commit, Reject, Unlock, Crash
  <2>1. RowAhead /\ OwnerAhead
    BY <2>0 DEF IInv
  <2>2. CASE Takes(w) /\ v = w
    BY <2>1, <2>2 DEF Takes, RowAhead
  <2>3. CASE Takes(w) /\ v # w
    BY <1>0, <1>3, <2>1, <2>3, LocalsOfOthers DEF Takes, OwnerAhead, Owner
  <2>4. CASE Keeps(w)
    <3>1. pc[v] = "run" /\ number'[v] = number[v]
      BY <2>4 DEF Keeps
    <3>2. Owner(v)
      BY <1>0, <1>3, <3>1, OwnerBefore DEF Owner, Create, Patch
    <3>3. CASE Commit(w)
      <4>1. Owner(w) /\ events' = events \cup {number[w]} /\ pc'[w] = "unlock"
        BY <1>0, <3>3, CommitIsOwners DEF Commit, TypeOK
      <4> QED
        BY <1>0, <3>2, <4>1 DEF OneOwner
    <3> QED
      BY <2>1, <2>4, <3>1, <3>2, <3>3 DEF Keeps, OwnerAhead
  <2> QED
    BY <2>0, <2>2, <2>3, <2>4
<1> QED
  BY <1>1, <1>2, <1>3 DEF Next

-----------------------------------------------------------------------------
(* Theorems *)

(* The parts together are inductive, and hold in every reachable state. *)
LEMMA NextIInv == IInv /\ [Next]_vars => IInv'
  BY NextTypeOK, NextSeenIsPast, NextOneOwner, NextNumbers, NextOwnerAhead DEF IInv

(* ... and therefore hold in every behaviour. *)
LEMMA SpecIInv == Spec => []IInv
  BY InitIInv, NextIInv, PTL DEF Spec

(* The types, for every number of writers. *)
THEOREM SequenceTypes == Spec => []TypeOK
<1>1. IInv => TypeOK
  BY DEF IInv
<1> QED
  BY SpecIInv, <1>1, PTL

(* The row admits one writer at a time, and whoever finishes in time finds *)
(* its own mark in the row when the finally clause of execute gives it     *)
(* back, for every number of writers and every max_lock_seconds.           *)
THEOREM OneOwnerHolds == Spec => []OneOwner
<1>1. IInv => OneOwner
  BY DEF IInv
<1> QED
  BY SpecIInv, <1>1, PTL

(* No number is handed to two transactions, unless a take-over went ahead  *)
(* on an outdated nextValue, which the condition of the patch lets pass.   *)
THEOREM NumbersDistinctHolds == Spec => []NumbersDistinct
<1>1. IInv => NumbersDistinct
  BY DEF IInv, NumbersDistinct
<1> QED
  BY SpecIInv, <1>1, PTL

(* Events appear in the order of their numbers, unless a transaction       *)
(* overran its lock or a take-over was based on an outdated nextValue.     *)
THEOREM InOrderHolds == Spec => InOrder
<1> DEFINE Ordered == events' # events /\ ~reused /\ ~overran'
                         => \A n \in events, m \in events' \ events : n < m
<1>1. IInv /\ [Next]_vars => Ordered
  <2> SUFFICES ASSUME IInv, [Next]_vars, events' # events, ~reused, ~overran',
                      NEW n \in events, NEW m \in events' \ events
               PROVE  n < m
    OBVIOUS
  <2>1. PICK w \in Writers : Commit(w)
    BY DEF Next, vars, Tick, WriterStep, Execute, Find, Create, Patch, Reject, Unlock, Crash
  <2>2. Owner(w) /\ pc[w] = "run" /\ m = number[w] /\ ~overran
    BY <2>1, CommitIsOwners DEF IInv
  <2> QED
    BY <2>2 DEF IInv, OwnerAhead
<1> QED
  BY SpecIInv, <1>1, PTL DEF Spec, InOrder
=============================================================================
