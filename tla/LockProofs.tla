----------------------------- MODULE LockProofs -----------------------------
(***************************************************************************)
(* The locks between processes and within one.  For ResourceLock:          *)
(* LeaseExclusive, LiveLeaseHasRow and the refinement of Lease for any     *)
(* number of clients, any lease, clocks at most a second apart.  For Beans:*)
(* MadeOnceFromWhole, FailuresPaidFor and CallsEnd for any number of       *)
(* threads, calls and loaders that fail.                                   *)
(***************************************************************************)
EXTENDS ResourceLock, Beans, FiniteSetTheorems, SequenceTheorems, WellFoundedInduction, TLAPS

(* v is so far in the past that a client may already have taken over a row *)
(* that carries it; no client's clock then lies before v any more.         *)
Expired(v) == 2 * (v + 1) <= time + MaxSkew

Acquiring(c) == pc[c] \in {"create", "find", "recreate", "patch"}

(* What try_acquire knows of the times it has read. *)
LocalsOK ==
    \A c \in Clients :
        /\ Acquiring(c) => /\ 2 * local[c].now <= Clock(c)
                           /\ local[c].now < local[c].target
        /\ pc[c] = "patch" => local[c].seen < local[c].now

(* A client that has not released the lock finds its own time in the row,  *)
(* unless that time is past.                                               *)
HolderRow ==
    \A c \in Clients : Holding(c) => row = timeoutAt[c] \/ Expired(timeoutAt[c])

(* Two holders share an expiry time only when it is past. *)
HoldersDiffer ==
    \A c, d \in Clients :
        (Holding(c) /\ Holding(d) /\ c # d /\ timeoutAt[c] = timeoutAt[d])
            => Expired(timeoutAt[c])

IInv ==
    /\ TypeOK
    /\ LocalsOK
    /\ ~recreated => HolderRow /\ HoldersDiffer

-----------------------------------------------------------------------------
(* What the two clock conversions return: they are natural numbers, and    *)
(* the expiry time computed for a lease lies after the current second.     *)
LEMMA ClockArithmetic ==
    ASSUME NEW t \in Nat
    PROVE  /\ Seconds(t) \in Nat
           /\ SecondsInFuture(t, LeaseSeconds) \in Nat
           /\ 2 * Seconds(t) <= t
           /\ t < 2 * Seconds(t) + 2
           /\ Seconds(t) < SecondsInFuture(t, LeaseSeconds)
  BY LeaseAssumption DEF Seconds, SecondsInFuture

(* A client whose clock has not reached v contradicts Expired(v). *)
LEMMA ExpiredIsPast ==
    ASSUME TypeOK, NEW c \in Clients, NEW v \in Nat, Expired(v)
    PROVE  ~(Seconds(Clock(c)) < v)
<1>1. time \in Nat /\ offset[c] \in Nat /\ MaxSkew \in 0..2
  BY SkewAssumption, TimeAssumption DEF TypeOK
<1>2. Clock(c) \in Nat /\ Clock(c) >= time
  BY <1>1 DEF Clock
<1>3. Clock(c) < 2 * Seconds(Clock(c)) + 2 /\ Seconds(Clock(c)) \in Nat
  BY <1>2, ClockArithmetic
<1> QED
  BY <1>1, <1>2, <1>3 DEF Expired

(* The initial state satisfies the inductive invariant. *)
LEMMA InitIInv == Init => IInv
<1> SUFFICES ASSUME Init PROVE IInv
  OBVIOUS
<1>1. TypeOK
  <2>1. NoLocals \in Locals
    BY TriesAssumption DEF NoLocals, Locals
  <2>2. time \in 0..MaxTime /\ row \in Nat \cup {Absent} /\ timeoutAt \in [Clients -> Nat]
    BY TimeAssumption DEF Init
  <2>3. pc \in [Clients -> PCs] /\ local \in [Clients -> Locals]
    BY <2>1 DEF Init, PCs
  <2> QED
    BY <2>2, <2>3 DEF Init, TypeOK
<1>2. LocalsOK /\ HolderRow /\ HoldersDiffer
  BY DEF Init, LocalsOK, HolderRow, HoldersDiffer, Acquiring, Holding
<1> QED
  BY <1>1, <1>2 DEF IInv

(* Every step of the lock keeps the types. *)
LEMMA NextTypeOK == TypeOK /\ [Next]_vars => TypeOK'
<1> SUFFICES ASSUME TypeOK, [Next]_vars PROVE TypeOK'
  OBVIOUS
<1> USE TimeAssumption, TriesAssumption, SkewAssumption
<1>0. \A c \in Clients : Clock(c) \in Nat /\ local[c] \in Locals /\ timeoutAt[c] \in Nat
  BY DEF TypeOK, Clock
<1>1. CASE Tick
  BY <1>1 DEF Tick, TypeOK
<1>2. CASE UNCHANGED vars
  BY <1>2 DEF vars, TypeOK
<1>3. ASSUME NEW c \in Clients, ClientStep(c) PROVE TypeOK'
  <2> DEFINE t == SecondsInFuture(Clock(c), LeaseSeconds)
  <2>0. Seconds(Clock(c)) \in Nat /\ t \in Nat
    BY <1>0, ClockArithmetic
  <2>a. ASSUME NEW n \in 1..Tries, Enter(c, n)
        PROVE  pc' \in [Clients -> PCs] /\ local' \in [Clients -> Locals]
    BY <2>0, <2>a DEF Enter, TypeOK, PCs, Locals
  <2>b. ASSUME Obtain(c)
        PROVE  /\ pc' \in [Clients -> PCs] /\ local' \in [Clients -> Locals]
               /\ row' \in Nat /\ timeoutAt' \in [Clients -> Nat]
    BY <1>0, <2>b DEF Obtain, TypeOK, PCs, Locals, NoLocals
  <2>c. ASSUME GiveUp(c)
        PROVE  pc' \in [Clients -> PCs] /\ local' \in [Clients -> Locals]
    BY <2>c DEF GiveUp, TypeOK, PCs, Locals, NoLocals
  <2>1. CASE TryAcquire(c)
    BY <2>1, <2>a DEF TryAcquire, TypeOK
  <2>2. CASE Create(c)
    BY <2>2, <2>b DEF Create, TypeOK, PCs
  <2>3. CASE Find(c)
    <3>1. CASE row = Absent
      BY <2>3, <3>1 DEF Find, RunOut, TypeOK, PCs
    <3>2. CASE row # Absent /\ ~RunOut(c)
      BY <1>0, <2>3, <2>c, <3>2 DEF Find, TypeOK, Locals
    <3>3. CASE row # Absent /\ RunOut(c)
      BY <1>0, <2>3, <3>3 DEF Find, TypeOK, PCs, Locals
    <3> QED
      BY <2>3, <3>1, <3>2, <3>3 DEF Find
  <2>4. CASE Recreate(c)
    BY <2>4, <2>b, <2>c DEF Recreate, TypeOK
  <2>5. CASE Patch(c)
    <3>1. CASE row = local[c].seen
      BY <2>5, <3>1, <2>b DEF Patch, Retry, TypeOK
    <3>2. CASE row # local[c].seen /\ local[c].tries < Tries
      <4>1. local[c].tries + 1 \in 1..Tries
        BY <1>0, <3>2 DEF Locals
      <4> QED
        BY <2>5, <3>2, <2>a, <4>1 DEF Patch, Retry, TypeOK
    <3>3. CASE row # local[c].seen /\ local[c].tries = Tries
      BY <2>5, <3>3, <2>c DEF Patch, Retry, TypeOK
    <3> QED
      BY <2>5, <3>1, <3>2, <3>3 DEF Patch, Retry
  <2>6. CASE Refresh(c)
    <3> HIDE DEF t
    <3>1. CASE row = timeoutAt[c]
      BY <2>0, <2>6, <3>1 DEF Refresh, Ours, TypeOK, t
    <3>2. CASE row # timeoutAt[c]
      <4>1. [local[c] EXCEPT !.target = t] \in Locals
        BY <1>0, <2>0 DEF Locals
      <4>2. local' = [local EXCEPT ![c] = [local[c] EXCEPT !.target = t]]
        BY <2>6, <3>2 DEF Refresh, Ours, t
      <4> QED
        BY <2>6, <3>2, <4>1, <4>2 DEF Refresh, Ours, TypeOK, PCs
    <3> QED
      BY <3>1, <3>2
  <2>7. CASE RefreshCreate(c)
    <3>1. local[c].target \in Nat /\ local' \in [Clients -> Locals]
      BY <1>0, <2>7 DEF RefreshCreate, TypeOK, Locals, NoLocals
    <3>2. row' \in Nat \cup {Absent} /\ timeoutAt' \in [Clients -> Nat] /\ pc' \in [Clients -> PCs]
      BY <1>0, <2>7, <3>1 DEF RefreshCreate, TypeOK, PCs
    <3> QED
      BY <2>7, <3>1, <3>2 DEF RefreshCreate, TypeOK
  <2>8. CASE Release(c)
    BY <2>8 DEF Release, Ours, TypeOK, PCs
  <2>9. CASE Crash(c)
    BY <2>9 DEF Crash, TypeOK, PCs, Locals, NoLocals
  <2> QED
    BY <1>3, <2>1, <2>2, <2>3, <2>4, <2>5, <2>6, <2>7, <2>8, <2>9
    DEF ClientStep, Attempt
<1> QED
  BY <1>1, <1>2, <1>3 DEF Next

-----------------------------------------------------------------------------
(* Time only moves forward. *)
LEMMA TimeAdvances ==
    TypeOK /\ [Next]_vars => time \in Nat /\ time' \in Nat /\ time <= time'
<1> SUFFICES ASSUME TypeOK, [Next]_vars
             PROVE  time \in Nat /\ time' \in Nat /\ time <= time'
  OBVIOUS
<1>1. time' = time \/ time' = time + 1
  BY DEF Next, vars, Tick, ClientStep, TryAcquire, Attempt, Create, Find, RunOut, Recreate,
         Patch, Retry, Refresh, Ours, RefreshCreate, Release, Crash
<1>2. time \in Nat
  BY TimeAssumption DEF TypeOK
<1> QED
  BY <1>1, <1>2

(* So what is past stays past. *)
LEMMA LaterIsPast ==
    ASSUME NEW s \in Nat, NEW t \in Nat, NEW k \in Nat, NEW v \in Nat,
           2 * (v + 1) <= s + k, s <= t
    PROVE  2 * (v + 1) <= t + k
  OBVIOUS

LEMMA ExpiredStays ==
    ASSUME time \in Nat, time' \in Nat, time <= time', NEW v \in Nat, Expired(v)
    PROVE  Expired(v)'
<1>1. MaxSkew \in Nat
  BY SkewAssumption
<1> QED
  BY <1>1, LaterIsPast DEF Expired

(* Every step keeps what try_acquire knows of the times it has read. *)
LEMMA NextLocalsOK == TypeOK /\ LocalsOK /\ [Next]_vars => LocalsOK'
<1> SUFFICES ASSUME TypeOK, LocalsOK, [Next]_vars, NEW d \in Clients
             PROVE  /\ Acquiring(d)' => /\ 2 * local'[d].now <= Clock(d)'
                                        /\ local'[d].now < local'[d].target
                    /\ (pc[d] = "patch")' => local'[d].seen < local'[d].now
  BY DEF LocalsOK
<1>0. /\ Clock(d) \in Nat /\ local[d] \in Locals
      /\ Acquiring(d) => /\ 2 * local[d].now <= Clock(d)
                         /\ local[d].now < local[d].target
      /\ pc[d] = "patch" => local[d].seen < local[d].now
  BY TimeAssumption, SkewAssumption DEF TypeOK, LocalsOK, Clock
<1>1. CASE Tick
  BY <1>0, <1>1, TimeAssumption, SkewAssumption
  DEF Tick, Acquiring, Clock, Locals, TypeOK
<1>2. CASE UNCHANGED vars
  BY <1>0, <1>2 DEF vars, Acquiring, Clock
<1>3. ASSUME NEW c \in Clients, ClientStep(c)
      PROVE  /\ Acquiring(d)' => /\ 2 * local'[d].now <= Clock(d)'
                                 /\ local'[d].now < local'[d].target
             /\ (pc[d] = "patch")' => local'[d].seen < local'[d].now
  <2>0. Clock(d)' = Clock(d)
    BY <1>3 DEF ClientStep, TryAcquire, Attempt, Create, Find, RunOut, Recreate,
                Patch, Retry, Refresh, Ours, RefreshCreate, Release, Crash, Clock
  <2>1. CASE d # c
    <3>1. pc'[d] = pc[d] /\ local'[d] = local[d]
      BY <1>3, <2>1 DEF ClientStep, TryAcquire, Attempt, Create, Find, RunOut, Recreate, Patch, Retry,
           Refresh, Ours, RefreshCreate, Release, Crash, Enter, Obtain, GiveUp, TypeOK
    <3> QED
      BY <1>0, <2>0, <3>1 DEF Acquiring
  <2>2. CASE d = c
    <3>a. ASSUME NEW n, Enter(c, n)
          PROVE  /\ 2 * local'[c].now <= Clock(c)
                 /\ local'[c].now < local'[c].target
                 /\ pc'[c] = "create"
      BY <1>0, <2>2, <3>a, ClockArithmetic DEF Enter, TypeOK
    <3>b. ASSUME Obtain(c) \/ GiveUp(c)
          PROVE  pc'[c] \in {"held", "wait", "idle"}
      BY <3>b DEF Obtain, GiveUp, TypeOK
    <3>1. CASE TryAcquire(c)
      BY <2>0, <2>2, <3>1, <3>a DEF TryAcquire, Acquiring
    <3>2. CASE Create(c)
      <4>1. pc'[c] = "held" \/ (pc[c] = "create" /\ pc'[c] = "find" /\ local' = local)
        BY <3>2 DEF Create, Obtain, TypeOK
      <4> QED
        BY <1>0, <2>0, <2>2, <4>1 DEF Acquiring
    <3>3. CASE Find(c)
      <4>1. CASE pc'[c] \in {"wait", "idle"}
        BY <2>2, <4>1 DEF Acquiring
      <4>2. CASE pc'[c] = "recreate" /\ local' = local
        BY <1>0, <2>0, <2>2, <3>3, <4>2 DEF Find, RunOut, Acquiring
      <4>3. CASE RunOut(c) /\ local' = [local EXCEPT ![c].seen = row]
        <5>1. /\ local'[c].seen = row /\ local'[c].now = local[c].now
              /\ local'[c].target = local[c].target
          BY <4>3 DEF TypeOK, Locals
        <5> QED
          BY <1>0, <2>0, <2>2, <3>3, <4>3, <5>1 DEF Find, RunOut, Acquiring
      <4> QED
        BY <3>3, <4>1, <4>2, <4>3 DEF Find, GiveUp, TypeOK
    <3>4. CASE Recreate(c)
      BY <2>2, <3>4, <3>b DEF Recreate, Acquiring
    <3>5. CASE Patch(c)
      BY <2>0, <2>2, <3>5, <3>a, <3>b DEF Patch, Retry, Acquiring
    <3>6. CASE Refresh(c) \/ RefreshCreate(c) \/ Release(c) \/ Crash(c)
      BY <2>2, <3>6 DEF Refresh, Ours, RefreshCreate, Release, Crash, Acquiring, TypeOK
    <3> QED
      BY <1>3, <3>1, <3>2, <3>3, <3>4, <3>5, <3>6 DEF ClientStep, Attempt
  <2> QED
    BY <2>1, <2>2
<1> QED
  BY <1>1, <1>2, <1>3 DEF Next

-----------------------------------------------------------------------------
(* A step that leaves the row alone and makes nobody a holder. *)
LEMMA QuietStep ==
    ASSUME TypeOK, [Next]_vars, HolderRow, HoldersDiffer, row' = row,
           \A d \in Clients : Holding(d)' => Holding(d) /\ timeoutAt'[d] = timeoutAt[d]
    PROVE  HolderRow' /\ HoldersDiffer'
<1>1. ASSUME NEW v \in Nat, Expired(v) PROVE Expired(v)'
  BY <1>1, TimeAdvances, ExpiredStays
<1>2. \A d \in Clients : timeoutAt[d] \in Nat
  BY DEF TypeOK
<1>3. HolderRow'
  <2> SUFFICES ASSUME NEW d \in Clients, Holding(d)'
               PROVE  row' = timeoutAt'[d] \/ Expired(timeoutAt[d])'
    BY DEF HolderRow
  <2>1. Holding(d) /\ timeoutAt'[d] = timeoutAt[d]
    OBVIOUS
  <2>2. CASE row = timeoutAt[d]
    BY <2>1, <2>2
  <2>3. CASE Expired(timeoutAt[d])
    BY <1>1, <1>2, <2>1, <2>3 DEF Expired
  <2> QED
    BY <2>1, <2>2, <2>3 DEF HolderRow
<1>4. HoldersDiffer'
  <2> SUFFICES ASSUME NEW d \in Clients, NEW e \in Clients, d # e,
                      Holding(d)', Holding(e)', timeoutAt'[d] = timeoutAt'[e]
               PROVE  Expired(timeoutAt[d])'
    BY DEF HoldersDiffer
  <2>1. /\ Holding(d) /\ timeoutAt'[d] = timeoutAt[d]
        /\ Holding(e) /\ timeoutAt'[e] = timeoutAt[e]
    OBVIOUS
  <2>2. Expired(timeoutAt[d])
    BY <2>1 DEF HoldersDiffer
  <2> QED
    BY <1>1, <1>2, <2>1, <2>2 DEF Expired
<1> QED
  BY <1>3, <1>4

(* A step of c that writes or deletes the row when every other holder's    *)
(* lease is past.                                                          *)
LEMMA OwnerStep ==
    ASSUME TypeOK, [Next]_vars, NEW c \in Clients,
           \A d \in Clients : d # c /\ Holding(d) => Expired(timeoutAt[d]),
           \A d \in Clients : d # c /\ Holding(d)' => Holding(d) /\ timeoutAt'[d] = timeoutAt[d],
           Holding(c)' => row' = timeoutAt'[c]
    PROVE  HolderRow' /\ HoldersDiffer'
<1>1. ASSUME NEW d \in Clients, d # c, Holding(d)'
      PROVE  Expired(timeoutAt[d])'
  <2>1. timeoutAt[d] \in Nat /\ Expired(timeoutAt[d]) /\ timeoutAt'[d] = timeoutAt[d]
    BY <1>1 DEF TypeOK
  <2>2. \A v \in Nat : Expired(v) => Expired(v)'
    BY TimeAdvances, ExpiredStays
  <2> QED
    BY <2>1, <2>2 DEF Expired
<1>2. HolderRow'
  BY <1>1 DEF HolderRow
<1>3. HoldersDiffer'
  <2> SUFFICES ASSUME NEW d \in Clients, NEW e \in Clients, d # e,
                      Holding(d)', Holding(e)', timeoutAt'[d] = timeoutAt'[e]
               PROVE  Expired(timeoutAt[d])'
    BY DEF HoldersDiffer
  <2>1. CASE d # c
    BY <1>1, <2>1
  <2>2. CASE e # c
    <3>1. Expired(timeoutAt[e])'
      BY <1>1, <2>2
    <3> QED
      BY <3>1 DEF Expired
  <2> QED
    BY <2>1, <2>2
<1> QED
  BY <1>2, <1>3

(* Obtaining the lock finds no row, or one whose time is behind the        *)
(* client's clock by the grace period: any other holder's lease is past.   *)
LEMMA ObtainFindsExpired ==
    ASSUME TypeOK, LocalsOK, HolderRow, NEW c \in Clients, NEW d \in Clients, Holding(d),
           row = Absent \/ (pc[c] = "patch" /\ row = local[c].seen)
    PROVE  Expired(timeoutAt[d])
<1>1. timeoutAt[d] \in Nat
  BY DEF TypeOK
<1>2. CASE row = timeoutAt[d]
  <2>1. pc[c] = "patch" /\ timeoutAt[d] = local[c].seen
    BY <1>1, <1>2 DEF Absent
  <2>2. /\ local[c].seen < local[c].now
        /\ 2 * local[c].now <= Clock(c)
    BY <2>1 DEF LocalsOK, Acquiring
  <2>3. \A v, n, t, k, o \in Nat :
            v < n /\ 2 * n <= t + o /\ o <= k => 2 * (v + 1) <= t + k
    OBVIOUS
  <2>4. /\ time \in Nat /\ MaxSkew \in Nat /\ offset[c] \in Nat /\ offset[c] <= MaxSkew
        /\ local[c].now \in Nat
    BY TimeAssumption, SkewAssumption DEF TypeOK, Locals
  <2> QED
    BY <1>1, <2>1, <2>2, <2>3, <2>4 DEF Clock, Expired
<1> QED
  BY <1>2 DEF HolderRow

(* The inductive step. *)
LEMMA NextIInv == IInv /\ [Next]_vars => IInv'
<1> SUFFICES ASSUME IInv, [Next]_vars PROVE IInv'
  OBVIOUS
<1>0. TypeOK /\ LocalsOK
  BY DEF IInv
<1>1. TypeOK' /\ LocalsOK'
  BY <1>0, NextTypeOK, NextLocalsOK
<1> SUFFICES ASSUME ~recreated' PROVE HolderRow' /\ HoldersDiffer'
  BY <1>1 DEF IInv
<1>2. CASE Tick \/ UNCHANGED vars
  <2>1. row' = row /\ pc' = pc /\ timeoutAt' = timeoutAt /\ recreated' = recreated
    BY <1>2 DEF Tick, vars
  <2>2. HolderRow /\ HoldersDiffer
    BY <2>1 DEF IInv
  <2> QED
    BY <1>0, <2>1, <2>2, QuietStep DEF Holding
<1>3. ASSUME NEW c \in Clients, ClientStep(c) PROVE HolderRow' /\ HoldersDiffer'
  <2>0. HolderRow /\ HoldersDiffer
    <3>1. ~recreated
      BY <1>3 DEF ClientStep, TryAcquire, Attempt, Create, Find, RunOut, Recreate, Patch, Retry,
                  Refresh, Ours, RefreshCreate, Release, Crash
    <3> QED
      BY <3>1 DEF IInv
  <2>a. ASSUME NEW d \in Clients, d # c, Holding(d)'
        PROVE  Holding(d) /\ timeoutAt'[d] = timeoutAt[d]
    BY <1>0, <1>3, <2>a DEF ClientStep, TryAcquire, Attempt, Create, Find, RunOut, Recreate, Patch, Retry,
         Refresh, Ours, RefreshCreate, Release, Crash, Enter, Obtain, GiveUp, TypeOK, Holding
  (* The rows the step may write. *)
  <2>b. CASE Obtain(c) /\ (row = Absent \/ (pc[c] = "patch" /\ row = local[c].seen))
    <3>1. Holding(c)' => row' = timeoutAt'[c]
      BY <1>0, <2>b DEF Obtain, TypeOK
    <3>2. \A d \in Clients : d # c /\ Holding(d) => Expired(timeoutAt[d])
      BY <1>0, <2>0, <2>b, ObtainFindsExpired
    <3> QED
      BY <1>0, <2>a, <3>1, <3>2, OwnerStep
  <2>c. CASE row = timeoutAt[c] /\ (Release(c) \/ Refresh(c))
    <3>1. Holding(c)
      BY <2>c DEF Release, Refresh, Ours, Holding
    <3>2. Holding(c)' => row' = timeoutAt'[c]
      BY <1>0, <2>c DEF Release, Refresh, Ours, TypeOK, Holding
    <3>3. ASSUME NEW d \in Clients, d # c, Holding(d) PROVE Expired(timeoutAt[d])
      BY <2>0, <2>c, <3>1, <3>3 DEF HolderRow, HoldersDiffer
    <3> QED
      BY <1>0, <2>a, <3>2, <3>3, OwnerStep
  (* Every other step is quiet. *)
  <2>d. CASE row' = row /\ (Holding(c)' => Holding(c) /\ timeoutAt'[c] = timeoutAt[c])
    BY <1>0, <2>0, <2>a, <2>d, QuietStep
  <2>1. CASE TryAcquire(c) \/ Find(c)
    BY <1>0, <2>1, <2>d DEF TryAcquire, Find, RunOut, Enter, GiveUp, Holding, TypeOK
  <2>2. CASE Create(c) \/ Recreate(c) \/ Patch(c)
    BY <1>0, <2>2, <2>b, <2>d DEF Create, Recreate, Patch, Retry, Enter, GiveUp, Holding, TypeOK
  <2>3. CASE Refresh(c) \/ Release(c)
    BY <1>0, <2>3, <2>c, <2>d DEF Refresh, Ours, Release, Holding, TypeOK
  <2>4. CASE RefreshCreate(c) \/ Crash(c)
    BY <1>0, <2>4, <2>d DEF RefreshCreate, Crash, Holding, TypeOK
  <2> QED
    BY <1>3, <2>1, <2>2, <2>3, <2>4 DEF ClientStep, Attempt
<1> QED
  BY <1>2, <1>3 DEF Next

(* The inductive invariant gives both properties: an unexpired lease is    *)
(* not past, so its time is in the row, and no other holder shares it.     *)
LEMMA IInvImplies == IInv => LeaseExclusive /\ LiveLeaseHasRow
<1> SUFFICES ASSUME IInv, ~recreated
             PROVE  /\ \A c, d \in Clients : Live(c) /\ Live(d) => c = d
                    /\ \A c \in Clients : Live(c) => row = timeoutAt[c]
  BY DEF LeaseExclusive, LiveLeaseHasRow, IInv
<1>0. TypeOK /\ HolderRow /\ HoldersDiffer
  BY DEF IInv
<1>1. ASSUME NEW c \in Clients, Live(c)
      PROVE  ~Expired(timeoutAt[c]) /\ row = timeoutAt[c]
  <2>1. timeoutAt[c] \in Nat /\ Holding(c) /\ Seconds(Clock(c)) < timeoutAt[c]
    BY <1>0, <1>1 DEF TypeOK, Live
  <2>2. ~Expired(timeoutAt[c])
    BY <1>0, <2>1, ExpiredIsPast
  <2> QED
    BY <1>0, <2>1, <2>2 DEF HolderRow
<1>2. ASSUME NEW c \in Clients, NEW d \in Clients, Live(c), Live(d) PROVE c = d
  BY <1>0, <1>1, <1>2 DEF HoldersDiffer, Live
<1> QED
  BY <1>1, <1>2

-----------------------------------------------------------------------------
(* The inductive invariant holds in every reachable state. *)
LEMMA SpecIInv == Spec => []IInv
  BY InitIInv, NextIInv, PTL DEF Spec

(* The state of the lock and of its clients is well typed. *)
THEOREM TypeCorrect == Spec => []TypeOK
<1>1. IInv => TypeOK
  BY DEF IInv
<1> QED
  BY <1>1, SpecIInv, PTL

(* One unexpired lease at a time: for any number of clients, any lease,    *)
(* any interleaving of their requests, crashes, late refreshes and         *)
(* releases, and clocks up to a second apart, try_acquire, refresh and     *)
(* release never let two clients hold unexpired leases, unless __refresher *)
(* re-created a lost row.                                                  *)
THEOREM MutualExclusion == Spec => []LeaseExclusive
  BY SpecIInv, IInvImplies, PTL

(* The row of an unexpired lease is never taken, overwritten or deleted by *)
(* another client, under the same proviso.                                 *)
THEOREM LeaseKept == Spec => []LiveLeaseHasRow
  BY SpecIInv, IInvImplies, PTL

-----------------------------------------------------------------------------
(* The lock implements the lease. *)
Ends(c) == SecondsInFuture(Clock(c), LeaseSeconds)

(* No lease, and none about to be written, reaches further than one that   *)
(* would begin now.                                                        *)
InTime ==
    \A c \in Clients :
        /\ Holding(c) => timeoutAt[c] <= Ends(c)
        /\ Acquiring(c) \/ pc[c] = "refreshCreate" => local[c].target <= Ends(c)
        /\ pc[c] = "refreshCreate" => timeoutAt[c] <= local[c].target

LEMMA EndsArithmetic ==
    ASSUME NEW s \in Nat, NEW t \in Nat, s <= t
    PROVE  SecondsInFuture(s, LeaseSeconds) <= SecondsInFuture(t, LeaseSeconds)
  BY LeaseAssumption DEF SecondsInFuture

LEMMA EndsFacts ==
    ASSUME TypeOK, NEW c \in Clients
    PROVE  /\ Ends(c) \in Nat /\ Clock(c) \in Nat /\ timeoutAt[c] \in Nat /\ local[c].target \in Nat
           /\ Ends(c) <= SecondsInFuture(time + MaxSkew, LeaseSeconds)
<1>1. time \in Nat /\ offset[c] \in Nat /\ MaxSkew \in Nat /\ offset[c] <= MaxSkew
  BY TimeAssumption, SkewAssumption DEF TypeOK
<1>2. Clock(c) \in Nat /\ time + MaxSkew \in Nat /\ Clock(c) <= time + MaxSkew
  BY <1>1 DEF Clock
<1> QED
  BY <1>2, ClockArithmetic, EndsArithmetic DEF Ends, TypeOK, Locals

(* What a step of one client leaves of the others. *)
LEMMA OthersStay ==
    ASSUME TypeOK, NEW c \in Clients, ClientStep(c), NEW d \in Clients, d # c
    PROVE  pc'[d] = pc[d] /\ local'[d] = local[d] /\ timeoutAt'[d] = timeoutAt[d]
  BY DEF ClientStep, TryAcquire, Attempt, Create, Find, RunOut, Recreate, Patch, Retry,
         Refresh, Ours, RefreshCreate, Release, Crash, Enter, Obtain, GiveUp, TypeOK

LEMMA ClocksStay ==
    ASSUME NEW c \in Clients, ClientStep(c)
    PROVE  time' = time /\ offset' = offset
  BY DEF ClientStep, TryAcquire, Attempt, Create, Find, RunOut, Recreate, Patch, Retry,
         Refresh, Ours, RefreshCreate, Release, Crash

LEMMA NextInTime == TypeOK /\ InTime /\ [Next]_vars => InTime'
<1> SUFFICES ASSUME TypeOK, InTime, [Next]_vars, NEW d \in Clients
             PROVE  /\ Holding(d)' => timeoutAt'[d] <= Ends(d)'
                    /\ Acquiring(d)' \/ pc'[d] = "refreshCreate" => local'[d].target <= Ends(d)'
                    /\ pc'[d] = "refreshCreate" => timeoutAt'[d] <= local'[d].target
  BY DEF InTime
<1>0. /\ Ends(d) \in Nat /\ Clock(d) \in Nat /\ timeoutAt[d] \in Nat /\ local[d].target \in Nat
      /\ Holding(d) => timeoutAt[d] <= Ends(d)
      /\ Acquiring(d) \/ pc[d] = "refreshCreate" => local[d].target <= Ends(d)
      /\ pc[d] = "refreshCreate" => timeoutAt[d] <= local[d].target
  BY EndsFacts DEF InTime
<1>1. CASE Tick
  <2>1. Clock(d)' = Clock(d) + 1 /\ pc' = pc /\ local' = local /\ timeoutAt' = timeoutAt
    <3>1. time \in Nat /\ offset[d] \in Nat
      BY TimeAssumption, SkewAssumption DEF TypeOK
    <3> QED
      BY <1>1, <3>1 DEF Tick, Clock
  <2>2. Ends(d) <= Ends(d)' /\ Ends(d)' \in Nat
    <3>1. Clock(d)' \in Nat /\ Clock(d) <= Clock(d)'
      BY <1>0, <2>1
    <3> QED
      BY <1>0, <3>1, EndsArithmetic, ClockArithmetic DEF Ends
  <2> QED
    BY <1>0, <2>1, <2>2 DEF Holding, Acquiring
<1>2. CASE UNCHANGED vars
  BY <1>0, <1>2 DEF vars, Holding, Acquiring, Ends, Clock
<1>3. ASSUME NEW c \in Clients, ClientStep(c)
      PROVE  /\ Holding(d)' => timeoutAt'[d] <= Ends(d)'
             /\ Acquiring(d)' \/ pc'[d] = "refreshCreate" => local'[d].target <= Ends(d)'
             /\ pc'[d] = "refreshCreate" => timeoutAt'[d] <= local'[d].target
  <2>0. Ends(d)' = Ends(d)
    BY <1>3, ClocksStay DEF Ends, Clock
  <2>1. CASE d # c
    <3>1. pc'[d] = pc[d] /\ local'[d] = local[d] /\ timeoutAt'[d] = timeoutAt[d]
      BY <1>3, <2>1, OthersStay
    <3> QED
      BY <1>0, <2>0, <3>1 DEF Holding, Acquiring
  <2>2. CASE d = c
    <3>a. ASSUME NEW n, Enter(c, n)
          PROVE  pc'[c] = "create" /\ local'[c].target = Ends(c)
      BY <3>a DEF Enter, Ends, TypeOK
    <3>b. ASSUME Obtain(c)
          PROVE  pc'[c] = "held" /\ timeoutAt'[c] = local[c].target
      BY <3>b DEF Obtain, TypeOK
    <3>c. ASSUME GiveUp(c)
          PROVE  pc'[c] \in {"wait", "idle"}
      BY <3>c DEF GiveUp, TypeOK
    <3>1. CASE TryAcquire(c)
      BY <1>0, <2>0, <2>2, <3>1, <3>a DEF TryAcquire, Acquiring, Holding
    <3>2. CASE Create(c)
      <4>1. Obtain(c) \/ (pc'[c] = "find" /\ local' = local)
        BY <3>2 DEF Create, TypeOK
      <4>2. Acquiring(c)
        BY <3>2 DEF Create, Acquiring
      <4> QED
        BY <1>0, <2>0, <2>2, <3>b, <4>1, <4>2 DEF Acquiring, Holding
    <3>3. CASE Find(c)
      <4>1. \/ GiveUp(c)
            \/ pc'[c] \in {"recreate", "patch"} /\ local'[c].target = local[c].target
        BY <3>3 DEF Find, TypeOK, Locals
      <4>2. Acquiring(c)
        BY <3>3 DEF Find, Acquiring
      <4> QED
        BY <1>0, <2>0, <2>2, <3>c, <4>1, <4>2 DEF Acquiring, Holding
    <3>4. CASE Recreate(c) \/ Patch(c)
      <4>1. Obtain(c) \/ GiveUp(c) \/ \E n : Enter(c, n)
        BY <3>4 DEF Recreate, Patch, Retry
      <4>2. Acquiring(c)
        BY <3>4 DEF Recreate, Patch, Acquiring
      <4> QED
        BY <1>0, <2>0, <2>2, <3>a, <3>b, <3>c, <4>1, <4>2 DEF Acquiring, Holding
    <3>5. CASE Refresh(c)
      <4>1. \/ pc'[c] = "held" /\ timeoutAt'[c] = Ends(c)
            \/ pc'[c] = "refreshCreate" /\ timeoutAt'[c] = timeoutAt[c] /\ local'[c].target = Ends(c)
        BY <3>5 DEF Refresh, Ours, Ends, TypeOK, Locals
      <4>2. Holding(c)
        BY <3>5 DEF Refresh, Holding
      <4> QED
        BY <1>0, <2>0, <2>2, <4>1, <4>2 DEF Acquiring, Holding
    <3>6. CASE RefreshCreate(c)
      <4>1. \/ pc'[c] = "held" /\ timeoutAt'[c] = local[c].target
            \/ pc'[c] = "lost" /\ timeoutAt'[c] = timeoutAt[c]
        BY <3>6 DEF RefreshCreate, TypeOK
      <4>2. Holding(c) /\ pc[c] = "refreshCreate"
        BY <3>6 DEF RefreshCreate, Holding
      <4> QED
        BY <1>0, <2>0, <2>2, <4>1, <4>2 DEF Acquiring, Holding
    <3>7. CASE Release(c) \/ Crash(c)
      BY <2>2, <3>7 DEF Release, Crash, Acquiring, Holding, TypeOK
    <3> QED
      BY <1>3, <3>1, <3>2, <3>3, <3>4, <3>5, <3>6, <3>7 DEF ClientStep, Attempt
  <2> QED
    BY <2>1, <2>2
<1> QED
  BY <1>1, <1>2, <1>3 DEF Next

LEMMA SpecInTime == Spec => []InTime
<1>1. Init => InTime
  BY DEF Init, InTime, Holding, Acquiring
<1>2. IInv => TypeOK
  BY DEF IInv
<1> QED
  BY <1>1, <1>2, SpecIInv, NextInTime, PTL DEF Spec

(* A step of c changes no lease but its own. *)
LEMMA UntilStep ==
    ASSUME TypeOK, NEW c \in Clients, ClientStep(c)
    PROVE  Until' = [Until EXCEPT ![c] = IF Holding(c)' THEN timeoutAt'[c] ELSE -1]
<1>1. \A d \in Clients \ {c} : pc'[d] = pc[d] /\ timeoutAt'[d] = timeoutAt[d]
  BY OthersStay
<1> QED
  BY <1>1 DEF Until, Holding

(* A lease that a client may have taken over is over on every clock. *)
LEMMA OverAll ==
    ASSUME TypeOK, NEW c \in Clients,
           \A d \in Clients : d # c /\ Holding(d) => Expired(timeoutAt[d])
    PROVE  \A d \in Clients \ {c} : Until[d] <= Seconds(time)
<1> SUFFICES ASSUME NEW d \in Clients \ {c} PROVE Until[d] <= Seconds(time)
  OBVIOUS
<1>1. time \in Nat /\ MaxSkew \in 0..2 /\ timeoutAt[d] \in Nat
  BY TimeAssumption, SkewAssumption DEF TypeOK
<1>2. Seconds(time) \in Nat /\ time < 2 * Seconds(time) + 2
  BY <1>1, ClockArithmetic
<1>3. CASE Holding(d)
  <2>1. 2 * (timeoutAt[d] + 1) <= time + MaxSkew /\ Until[d] = timeoutAt[d]
    BY <1>3 DEF Expired, Until
  <2> QED
    BY <1>1, <1>2, <2>1
<1>4. CASE ~Holding(d)
  <2>1. Until[d] = -1
    BY <1>4 DEF Until
  <2> QED
    BY <1>2, <2>1
<1> QED
  BY <1>3, <1>4

(* What it takes to be a step of the lease. *)
LEMMA GrantStep ==
    ASSUME NEW c \in Clients, NEW new \in 0..Promise!Furthest,
           Until' = [Until EXCEPT ![c] = new], time' = time, recreated' = recreated,
           Until[c] = -1, recreated \/ \A d \in Clients \ {c} : Until[d] <= Seconds(time)
    PROVE  Promise!Next
<1>1. \E t \in 0..Promise!Furthest : Until' = [Until EXCEPT ![c] = t]
  OBVIOUS
<1>2. recreated \/ Promise!Free(c)
  BY DEF Promise!Free, Promise!Over, Promise!Seconds, Seconds
<1>3. Promise!Grant(c)
  BY <1>1, <1>2 DEF Promise!Grant, Promise!NoLease
<1> QED
  BY <1>3 DEF Promise!Next

LEMMA ExtendStep ==
    ASSUME NEW c \in Clients, NEW new \in Until[c]..Promise!Furthest,
           Until' = [Until EXCEPT ![c] = new], time' = time, Until[c] # -1,
           \/ recreated' = TRUE
           \/ recreated' = recreated /\ (recreated \/ \A d \in Clients \ {c} : Until[d] <= Seconds(time))
    PROVE  Promise!Next
<1>1. \E t \in Until[c]..Promise!Furthest : Until' = [Until EXCEPT ![c] = t]
  OBVIOUS
<1>2. CASE recreated' = TRUE
  <2>1. Promise!MakeAgain(c)
    BY <1>1, <1>2 DEF Promise!MakeAgain, Promise!NoLease
  <2> QED
    BY <2>1 DEF Promise!Next
<1>3. CASE recreated' = recreated /\ (recreated \/ \A d \in Clients \ {c} : Until[d] <= Seconds(time))
  <2>1. recreated \/ Promise!Free(c)
    BY <1>3 DEF Promise!Free, Promise!Over, Promise!Seconds, Seconds
  <2>2. Promise!Extend(c)
    BY <1>1, <1>3, <2>1 DEF Promise!Extend, Promise!NoLease
  <2> QED
    BY <2>2 DEF Promise!Next
<1> QED
  BY <1>2, <1>3

(* Every step of the lock is a step of the lease, or none. *)
LEMMA StepIsLeaseStep == IInv /\ InTime /\ [Next]_vars => [Promise!Next]_(Promise!vars)
<1> SUFFICES ASSUME IInv, InTime, [Next]_vars PROVE [Promise!Next]_(Promise!vars)
  OBVIOUS
<1>0. /\ TypeOK /\ LocalsOK /\ (~recreated => HolderRow /\ HoldersDiffer)
  BY DEF IInv
<1>1. /\ (time' = time + 1 /\ Until' = Until /\ recreated' = recreated) => Promise!Next
      /\ (time' = time /\ Until' = Until /\ recreated' = recreated) => UNCHANGED Promise!vars
  BY DEF Promise!Next, Promise!Tick, Promise!vars
<1>2. CASE Tick
  <2>1. time' = time + 1 /\ Until' = Until /\ recreated' = recreated
    BY <1>2 DEF Tick, Until, Holding
  <2> QED
    BY <1>1, <2>1
<1>3. CASE UNCHANGED vars
  <2>1. time' = time /\ Until' = Until /\ recreated' = recreated
    BY <1>3 DEF vars, Until, Holding
  <2> QED
    BY <1>1, <2>1
<1>4. ASSUME NEW c \in Clients, ClientStep(c) PROVE [Promise!Next]_(Promise!vars)
  <2> DEFINE new == IF Holding(c)' THEN timeoutAt'[c] ELSE -1
             furthest == SecondsInFuture(time + MaxSkew, LeaseSeconds)
             alone == recreated \/ \A d \in Clients \ {c} : Until[d] <= Seconds(time)
  <2>1. Until' = [Until EXCEPT ![c] = new] /\ time' = time /\ Until[c] = IF Holding(c) THEN timeoutAt[c] ELSE -1
    BY <1>0, <1>4, UntilStep, ClocksStay DEF Until
  <2>2. /\ Ends(c) \in Nat /\ timeoutAt[c] \in Nat /\ local[c].target \in Nat /\ Ends(c) <= furthest
        /\ Holding(c) => timeoutAt[c] <= Ends(c)
        /\ Acquiring(c) \/ pc[c] = "refreshCreate" => local[c].target <= Ends(c)
        /\ pc[c] = "refreshCreate" => timeoutAt[c] <= local[c].target
    BY <1>0, EndsFacts DEF InTime
  <2>3. furthest \in Nat
    <3>1. time \in Nat /\ MaxSkew \in Nat
      BY TimeAssumption, SkewAssumption, <1>0 DEF TypeOK
    <3>2. time + MaxSkew \in Nat
      BY <3>1
    <3> QED
      BY <3>2, ClockArithmetic
  <2> HIDE DEF new, furthest
  (* The steps a lease can take. *)
  <2>9. furthest = Promise!Furthest
    BY DEF Promise!Furthest, furthest, Promise!SecondsInFuture, SecondsInFuture
  <2>4. ASSUME ~Holding(c), alone, new \in 0..furthest, recreated' = recreated PROVE Promise!Next
    BY <2>1, <2>4, <2>9, GrantStep
  <2>5. ASSUME Holding(c), alone, new \in timeoutAt[c]..furthest, recreated' = recreated PROVE Promise!Next
    <3>1. timeoutAt[c] # -1
      BY <2>2
    <3> QED
      BY <2>1, <2>5, <2>9, <3>1, ExtendStep
  <2>6. ASSUME Holding(c), new \in timeoutAt[c]..furthest, recreated' = TRUE PROVE Promise!Next
    <3>1. timeoutAt[c] # -1
      BY <2>2
    <3> QED
      BY <2>1, <2>6, <2>9, <3>1, ExtendStep
  <2>7. ASSUME new = -1, recreated' = recreated PROVE Promise!Next
    <3>1. Promise!End(c)
      BY <2>1, <2>7 DEF Promise!End, Promise!NoLease
    <3> QED
      BY <3>1 DEF Promise!Next
  <2>8. ASSUME new = Until[c], recreated' = recreated PROVE UNCHANGED Promise!vars
    <3>1. Until' = Until
      BY <2>1, <2>8 DEF Until
    <3> QED
      BY <1>1, <2>1, <2>8, <3>1
  (* What the code does with it. *)
  <2>a. CASE Obtain(c) /\ (row = Absent \/ (pc[c] = "patch" /\ row = local[c].seen)) /\ Acquiring(c) /\ recreated' = recreated
    <3>1. ~Holding(c) /\ Holding(c)' /\ timeoutAt'[c] = local[c].target
      BY <1>0, <2>a DEF Obtain, TypeOK, Holding, Acquiring
    <3>2. new = local[c].target
      BY <3>1 DEF new
    <3>3. new \in 0..furthest
      BY <2>2, <2>3, <2>a, <3>2
    <3>4. alone
      <4> SUFFICES ASSUME ~recreated PROVE \A d \in Clients \ {c} : Until[d] <= Seconds(time)
        OBVIOUS
      <4>1. \A d \in Clients : d # c /\ Holding(d) => Expired(timeoutAt[d])
        BY <1>0, <2>a, ObtainFindsExpired
      <4> QED
        BY <1>0, <4>1, OverAll
    <3> QED
      BY <2>4, <2>a, <3>1, <3>3, <3>4
  <2>b. CASE TryAcquire(c) \/ Find(c)
    <3>1. ~Holding(c) /\ ~Holding(c)' /\ recreated' = recreated
      BY <1>0, <2>b DEF TryAcquire, Find, RunOut, Enter, GiveUp, Holding, TypeOK
    <3> QED
      BY <2>7, <3>1 DEF new
  <2>c. CASE Create(c) \/ Recreate(c) \/ Patch(c)
    <3>1. recreated' = recreated /\ Acquiring(c) /\ ~Holding(c)
      BY <2>c DEF Create, Recreate, Patch, Acquiring, Holding
    <3>2. \/ Obtain(c) /\ (row = Absent \/ (pc[c] = "patch" /\ row = local[c].seen))
          \/ ~Holding(c)'
      BY <1>0, <2>c DEF Create, Recreate, Patch, Retry, Enter, GiveUp, Holding, TypeOK
    <3> QED
      BY <2>7, <2>a, <3>1, <3>2 DEF new
  <2>d. CASE Refresh(c)
    <3>1. Holding(c) /\ Holding(c)' /\ recreated' = recreated
      BY <1>0, <2>d DEF Refresh, Ours, Holding, TypeOK
    <3>2. CASE row = timeoutAt[c]
      <4>1. timeoutAt'[c] = Ends(c)
        BY <1>0, <2>d, <3>2 DEF Refresh, Ours, Ends, TypeOK
      <4>2. new \in timeoutAt[c]..furthest
        BY <2>2, <2>3, <3>1, <4>1 DEF new
      <4>3. alone
        <5> SUFFICES ASSUME ~recreated PROVE \A d \in Clients \ {c} : Until[d] <= Seconds(time)
          OBVIOUS
        <5>1. \A d \in Clients : d # c /\ Holding(d) => Expired(timeoutAt[d])
          BY <1>0, <3>1, <3>2 DEF HolderRow, HoldersDiffer
        <5> QED
          BY <1>0, <5>1, OverAll
      <4> QED
        BY <2>5, <3>1, <4>2, <4>3
    <3>3. CASE row # timeoutAt[c]
      <4>1. timeoutAt' = timeoutAt
        BY <2>d, <3>3 DEF Refresh, Ours
      <4> QED
        BY <2>1, <2>8, <3>1, <4>1 DEF new
    <3> QED
      BY <3>2, <3>3
  <2>e. CASE RefreshCreate(c)
    <3>1. Holding(c) /\ Holding(c)' /\ pc[c] = "refreshCreate"
      BY <1>0, <2>e DEF RefreshCreate, Holding, TypeOK
    <3>2. CASE recreated' = TRUE /\ timeoutAt'[c] = local[c].target
      <4>1. new \in timeoutAt[c]..furthest
        BY <2>2, <2>3, <3>1, <3>2 DEF new
      <4> QED
        BY <2>6, <3>1, <3>2, <4>1
    <3>3. CASE recreated' = recreated /\ timeoutAt' = timeoutAt
      BY <2>1, <2>8, <3>1, <3>3 DEF new
    <3> QED
      BY <1>0, <2>e, <3>2, <3>3 DEF RefreshCreate, TypeOK
  <2>f. CASE Release(c) \/ Crash(c)
    <3>1. ~Holding(c)' /\ recreated' = recreated
      BY <1>0, <2>f DEF Release, Crash, Holding, TypeOK
    <3> QED
      BY <2>7, <3>1 DEF new
  <2> QED
    BY <1>4, <2>b, <2>c, <2>d, <2>e, <2>f DEF ClientStep, Attempt
<1> QED
  BY <1>2, <1>3, <1>4 DEF Next

(* The lock implements Lease: for any number of clients and any clocks up  *)
(* to a second apart, it is granted and refreshed only when every other    *)
(* lease is over on every clock (unless __refresher re-created a row), no  *)
(* lease is longer than it may be, and a refresh shortens none.            *)
THEOREM LeasePromisedHolds == Spec => LeasePromised
<1>1. Init => Promise!Init
  BY DEF Init, Promise!Init, Promise!NoLease, Holding, Until
<1> QED
  BY SpecIInv, SpecInTime, StepIsLeaseStep, <1>1, PTL DEF Spec, LeasePromised, Promise!Spec

-----------------------------------------------------------------------------
(* The bean container: the invariant behind its three properties. *)

(* The points of get_instance at which a thread has the bean's lock. *)
Owning == {"init", "clear", "unlock", "fail"}
Points == {"check", "mutex", "lock"} \cup Owning

Sizes ==
    /\ profile \in Profiles /\ queueUrl \in Urls(profile)
    /\ built \subseteq Nodes /\ mutex \subseteq Nodes /\ held \subseteq Nodes \X Threads
    /\ stack \in [Threads -> Seq(Frames)] /\ calls \in [Threads -> 0..MaxCalls]
    /\ failed \subseteq Threads \X Nodes /\ faults \in 0..MaxFaults

(* A frame that is not the innermost waits for the next of its needs; a    *)
(* need lies deeper than what needs it.                                    *)
Nested ==
    \A t \in Threads : \A i \in 1..(Len(stack[t]) - 1) :
        LET f == stack[t][i] IN
        f.pc = "init" /\ f.next \in DOMAIN Needs(f.node) /\ stack[t][i + 1].node = Needs(f.node)[f.next]

Descends ==
    \A t \in Threads : \A i, k \in DOMAIN stack[t] :
        i < k => Depth[stack[t][k].node] < Depth[stack[t][i].node]

(* Who has a lock is building under it, and one thread has it. *)
Builds(t, n) == \E i \in DOMAIN stack[t] : stack[t][i].node = n /\ stack[t][i].pc \in Owning

Locked ==
    \A n \in Nodes, t \in Threads :
        /\ <<n, t>> \in held <=> Builds(t, n)
        /\ \A u \in Threads : <<n, t>> \in held /\ <<n, u>> \in held => t = u

(* What a frame's point says of its node, with its needs, the nodes built  *)
(* and those with a mutex; a loader's arguments so far have values.        *)
FrameOK(f, needs, b, m) ==
    /\ f.pc \in {"check", "mutex", "lock"} => f.next = 1
    /\ f.pc = "init" => f.node \notin b
    /\ f.pc \in {"clear", "unlock"} => f.node \in b
    /\ f.pc = "lock" => f.node \in m \cup b
    /\ \A k \in DOMAIN needs : k < f.next => needs[k] \in b

FramesOK == \A t \in Threads : \A i \in DOMAIN stack[t] :
                FrameOK(stack[t][i], Needs(stack[t][i].node), built, mutex)

Valued ==
    /\ DOMAIN Suppliers \subseteq mutex \cup built
    /\ \A n \in built : \A k \in DOMAIN Needs(n) : Needs(n)[k] \in built
    /\ remade = {} /\ handed = {}

(* A call reaches what it may ask for only. *)
Reaching ==
    \A t \in Threads : stack[t] # <<>> =>
        /\ stack[t][1].node \in Calls[profile]
        /\ \A i \in DOMAIN stack[t] : stack[t][i].node \in Reach(profile, queueUrl)[stack[t][1].node]

(* A call fails for a loader that failed, and one call for each. *)
IsFailing(t) == stack[t] # <<>> /\ Top(t).pc = "fail" /\ ~Gap(stack[t][1].node)
Failing == {t \in Threads : IsFailing(t)}
RealFailed == {f \in failed : ~Gap(f[2])}
Paid ==
    /\ IsFiniteSet(RealFailed) /\ IsFiniteSet(Failing)
    /\ Cardinality(RealFailed) + Cardinality(Failing) <= faults

BeansInv == Sizes /\ Nested /\ Descends /\ Reaching /\ Locked /\ FramesOK /\ Valued /\ Paid

-----------------------------------------------------------------------------
(* What the wiring says of the nodes in the profile that is active. *)
LEMMA WiringFacts ==
    ASSUME profile \in Profiles, queueUrl \in Urls(profile), NEW n \in Nodes
    PROVE  /\ Depth[n] \in Nat /\ Needs(n) \in Seq(Nodes)
           /\ \A k \in DOMAIN Needs(n) : Needs(n)[k] \in Nodes /\ Depth[Needs(n)[k]] < Depth[n]
           /\ n \in Reach(profile, queueUrl)[n]
           /\ \A m \in Reach(profile, queueUrl)[n] :
                 \A k \in DOMAIN Needs(m) : Needs(m)[k] \in Reach(profile, queueUrl)[n]
<1>1. /\ NeedsIn(profile, queueUrl, n) \in Seq(Nodes) /\ Depth[n] \in Nat
      /\ \A d \in ToSet(NeedsIn(profile, queueUrl, n)) : Depth[d] < Depth[n]
      /\ n \in Reach(profile, queueUrl)[n]
      /\ \A m \in Reach(profile, queueUrl)[n] :
             ToSet(NeedsIn(profile, queueUrl, m)) \subseteq Reach(profile, queueUrl)[n]
  BY WiringAssumption
<1>2. \A m : \A k \in DOMAIN Needs(m) : Needs(m)[k] \in ToSet(NeedsIn(profile, queueUrl, m))
  BY DEF Needs, ToSet
<1>3. \A k \in DOMAIN Needs(n) : Needs(n)[k] \in Nodes
  BY <1>1 DEF Needs
<1> QED
  BY <1>1, <1>2, <1>3 DEF Needs

LEMMA CallFacts ==
    ASSUME profile \in Profiles, queueUrl \in Urls(profile), NEW call \in Calls[profile]
    PROVE  call \in Nodes /\ (Gap(call) \/ \A n \in Reach(profile, queueUrl)[call] : ~Disabled(n))
BY WiringAssumption DEF Gap, Disabled

LEMMA TopFacts ==
    ASSUME NEW t \in Threads, stack \in [Threads -> Seq(Frames)], stack[t] # <<>>
    PROVE  /\ Len(stack[t]) \in Nat \ {0} /\ DOMAIN stack[t] = 1..Len(stack[t])
           /\ Len(stack[t]) \in DOMAIN stack[t] /\ Top(t) = stack[t][Len(stack[t])] /\ Top(t) \in Frames
BY DEF Top, Last

(* How the stack of t changes. *)
Same(t, n) == /\ stack' \in [Threads -> Seq(Frames)]
              /\ \A u \in Threads \ {t} : stack'[u] = stack[u]
              /\ \A i \in 1..n : stack'[t][i] = stack[t][i]

LEMMA GotoStack ==
    ASSUME NEW t \in Threads, stack \in [Threads -> Seq(Frames)], stack[t] # <<>>,
           NEW p \in Points, Goto(t, p)
    PROVE  LET top == stack'[t][Len(stack[t])]
           IN  /\ Same(t, Len(stack[t]) - 1) /\ Len(stack'[t]) = Len(stack[t])
               /\ top \in Frames /\ top.node = Top(t).node /\ top.next = Top(t).next /\ top.pc = p
<1> DEFINE s == stack[t]
           n == Len(stack[t])
           new == [stack[t][Len(stack[t])] EXCEPT !.pc = p]
<1>1. /\ n \in Nat \ {0} /\ DOMAIN s = 1..n /\ n \in DOMAIN s /\ Top(t) = s[n] /\ s[n] \in Frames
      /\ s \in Seq(Frames)
  BY TopFacts
<1>2. new \in Frames /\ new.node = s[n].node /\ new.next = s[n].next /\ new.pc = p
  BY <1>1 DEF Frames, Points, Owning
<1>3. stack' = [stack EXCEPT ![t] = [s EXCEPT ![n] = new]]
  BY DEF Goto
<1> HIDE DEF n, new
<1>4. [s EXCEPT ![n] = new] \in Seq(Frames) /\ Len([s EXCEPT ![n] = new]) = Len(s)
  BY <1>1, <1>2
<1>5. /\ stack'[t] = [s EXCEPT ![n] = new] /\ stack' \in [Threads -> Seq(Frames)]
      /\ \A u \in Threads \ {t} : stack'[u] = stack[u]
  BY <1>3, <1>4
<1>6. \A i \in 1..(n - 1) : stack'[t][i] = s[i]
  BY <1>1, <1>5
<1>7. stack'[t][n] = new
  BY <1>1, <1>5
<1> QED
  BY <1>1, <1>2, <1>4, <1>5, <1>6, <1>7 DEF Same, n

LEMMA PushStack ==
    ASSUME NEW t \in Threads, stack \in [Threads -> Seq(Frames)], NEW d \in Nodes,
           stack' = [stack EXCEPT ![t] = Append(stack[t], Entered(d))]
    PROVE  LET top == stack'[t][Len(stack[t]) + 1]
           IN  /\ Same(t, Len(stack[t])) /\ Len(stack'[t]) = Len(stack[t]) + 1
               /\ top \in Frames /\ top.node = d /\ top.next = 1 /\ top.pc = "check"
<1> DEFINE new == Entered(d)
<1>1. new \in Frames /\ new.node = d /\ new.next = 1 /\ new.pc = "check"
  BY DEF Frames, Entered
<1> HIDE DEF new
<1>2. stack' = [stack EXCEPT ![t] = Append(stack[t], new)]
  BY DEF new
<1>3. stack[t] \in Seq(Frames)
  OBVIOUS
<1>4. Append(stack[t], new) \in Seq(Frames)
  BY <1>1, <1>3
<1> QED
  BY <1>1, <1>2, <1>3, <1>4 DEF Same

LEMMA FrontFacts ==
    ASSUME NEW s \in Seq(Frames), s # <<>>
    PROVE  LET n == Len(s)
               rest == Front(s)
           IN  /\ n \in Nat \ {0} /\ rest \in Seq(Frames) /\ Len(rest) = n - 1 /\ (rest = <<>> <=> n = 1)
               /\ \A i \in 1..(n - 1) : rest[i] = s[i]
               /\ n > 1 => rest[Len(rest)] = s[n - 1] /\ s[n - 1] \in Frames
<1> DEFINE rest == Front(s)
<1>1. Len(s) \in Nat \ {0}
  OBVIOUS
<1>2. rest \in Seq(Frames) /\ Len(rest) = Len(s) - 1 /\ \A i \in 1..(Len(s) - 1) : rest[i] = s[i]
  <2> DEFINE m == Len(s) - 1
  <2>1. m \in Nat /\ \A i \in 1..m : s[i] \in Frames
    BY <1>1
  <2>2. rest = SubSeq(s, 1, m)
    BY DEF Front
  <2> HIDE DEF m, rest
  <2>3. /\ SubSeq(s, 1, m) \in Seq(Frames)
        /\ Len(SubSeq(s, 1, m)) = IF 1 <= m THEN m - 1 + 1 ELSE 0
        /\ \A i \in 1..(m - 1 + 1) : SubSeq(s, 1, m)[i] = s[1 + i - 1]
    BY <2>1, SubSeqProperties
  <2>4. /\ Len(rest) = m
        /\ \A i \in 1..m : rest[i] = s[i]
    BY <2>1, <2>2, <2>3
  <2> QED
    BY <2>2, <2>3, <2>4 DEF m
<1> HIDE DEF rest
<1>3. rest = <<>> <=> Len(rest) = 0
  BY <1>2
<1>4. Len(s) > 1 => rest[Len(rest)] = s[Len(s) - 1] /\ s[Len(s) - 1] \in Frames
  BY <1>1, <1>2
<1> QED
  BY <1>1, <1>2, <1>3, <1>4 DEF rest

(* The innermost frame is gone, and f stands for the one below. *)
Popped(t, f) ==
    LET n == Len(stack[t]) IN
    /\ Same(t, n - 2) /\ Len(stack'[t]) = n - 1
    /\ n > 1 => stack'[t][n - 1] = f

LEMMA PopStack ==
    ASSUME NEW t \in Threads, stack \in [Threads -> Seq(Frames)], stack[t] # <<>>, NEW f,
           Len(stack[t]) > 1 => f \in Frames,
           stack' = [stack EXCEPT ![t] = IF Front(stack[t]) = <<>> THEN Front(stack[t])
                                         ELSE [Front(stack[t]) EXCEPT ![Len(Front(stack[t]))] = f]]
    PROVE  Popped(t, f)
<1> DEFINE s == stack[t]
           n == Len(stack[t])
           rest == Front(stack[t])
           new == IF rest = <<>> THEN rest ELSE [rest EXCEPT ![Len(rest)] = f]
<1>1. n \in Nat \ {0} /\ DOMAIN s = 1..n /\ s \in Seq(Frames)
  BY TopFacts
<1>2. rest \in Seq(Frames) /\ Len(rest) = n - 1 /\ \A i \in 1..(n - 1) : rest[i] = s[i]
  BY <1>1, FrontFacts
<1> HIDE DEF rest
<1>3. /\ new \in Seq(Frames) /\ Len(new) = n - 1 /\ \A i \in 1..(n - 2) : new[i] = s[i]
      /\ n > 1 => new[n - 1] = f
  <2>1. CASE n = 1
    <3>1. rest = <<>>
      BY <1>2, <2>1
    <3> QED
      BY <1>2, <2>1, <3>1
  <2>2. CASE n > 1
    <3>1. rest # <<>> /\ Len(rest) = n - 1 /\ f \in Frames
      BY <1>1, <1>2, <2>2
    <3> HIDE DEF n, s
    <3>2. new = [rest EXCEPT ![n - 1] = f]
      BY <3>1
    <3>3. n \in Nat /\ n > 1
      BY <1>1, <2>2
    <3> HIDE DEF new
    <3> QED
      BY <1>2, <3>1, <3>2, <3>3
  <2>3. n = 1 \/ n > 1
    BY <1>1
  <2> HIDE DEF n, s, new
  <2> QED
    BY <2>1, <2>2, <2>3
<1> HIDE DEF new
<1>4. stack' = [stack EXCEPT ![t] = new]
  BY DEF new, rest
<1> QED
  BY <1>3, <1>4 DEF Popped, Same

LEMMA ReturnStack ==
    ASSUME NEW t \in Threads, stack \in [Threads -> Seq(Frames)], stack[t] # <<>>, Returns(t)
    PROVE  LET below == stack[t][Len(stack[t]) - 1]
           IN  Popped(t, [below EXCEPT !.next = @ + 1])
<1> DEFINE below == stack[t][Len(stack[t]) - 1]
           rest == Front(stack[t])
           f == [below EXCEPT !.next = @ + 1]
<1>1. /\ Len(rest) = Len(stack[t]) - 1 /\ (rest = <<>> <=> Len(stack[t]) = 1)
      /\ Len(stack[t]) > 1 => rest[Len(rest)] = below /\ below \in Frames
  <2>1. stack[t] \in Seq(Frames)
    OBVIOUS
  <2> QED
    BY <2>1, FrontFacts
<1>2. Len(stack[t]) \in Nat \ {0}
  BY TopFacts
<1>3. stack' = [stack EXCEPT ![t] = IF rest = <<>> THEN rest
                                    ELSE [rest EXCEPT ![Len(rest)] = [rest[Len(rest)] EXCEPT !.next = @ + 1]]]
  BY DEF Returns
<1> HIDE DEF rest, below
<1>4. Len(stack[t]) > 1 => f \in Frames
  <2>1. ASSUME below \in Frames PROVE below.next + 1 \in Nat \ {0}
    BY <2>1 DEF Frames
  <2> QED
    BY <1>1, <2>1 DEF Frames
<1>5. stack' = [stack EXCEPT ![t] = IF rest = <<>> THEN rest ELSE [rest EXCEPT ![Len(rest)] = f]]
  <2>1. CASE rest = <<>>
    BY <1>3, <2>1
  <2>2. CASE rest # <<>>
    <3>1. rest[Len(rest)] = below
      BY <1>1, <1>2, <2>2
    <3> QED
      BY <1>3, <2>2, <3>1
  <2> QED
    BY <2>1, <2>2
<1> HIDE DEF f
<1>6. Popped(t, f)
  BY <1>4, <1>5, PopStack DEF rest
<1> QED
  BY <1>6 DEF f, below

LEMMA RaiseStack ==
    ASSUME NEW t \in Threads, stack \in [Threads -> Seq(Frames)], stack[t] # <<>>, Raises(t)
    PROVE  LET below == stack[t][Len(stack[t]) - 1]
           IN  Popped(t, [below EXCEPT !.pc = "fail"])
<1> DEFINE below == stack[t][Len(stack[t]) - 1]
           rest == Front(stack[t])
           f == [below EXCEPT !.pc = "fail"]
<1>1. /\ Len(rest) = Len(stack[t]) - 1 /\ (rest = <<>> <=> Len(stack[t]) = 1)
      /\ Len(stack[t]) > 1 => rest[Len(rest)] = below /\ below \in Frames
  <2>1. stack[t] \in Seq(Frames)
    OBVIOUS
  <2> QED
    BY <2>1, FrontFacts
<1>2. Len(stack[t]) \in Nat \ {0}
  BY TopFacts
<1>3. stack' = [stack EXCEPT ![t] = IF rest = <<>> THEN rest
                                    ELSE [rest EXCEPT ![Len(rest)] = [rest[Len(rest)] EXCEPT !.pc = "fail"]]]
  BY DEF Raises
<1> HIDE DEF rest, below
<1>4. Len(stack[t]) > 1 => f \in Frames
  BY <1>1 DEF Frames
<1>5. stack' = [stack EXCEPT ![t] = IF rest = <<>> THEN rest ELSE [rest EXCEPT ![Len(rest)] = f]]
  <2>1. CASE rest = <<>>
    BY <1>3, <2>1
  <2>2. CASE rest # <<>>
    <3>1. rest[Len(rest)] = below
      BY <1>1, <1>2, <2>2
    <3> QED
      BY <1>3, <2>2, <3>1
  <2> QED
    BY <2>1, <2>2
<1> HIDE DEF f
<1>6. Popped(t, f)
  BY <1>4, <1>5, PopStack DEF rest
<1> QED
  BY <1>6 DEF f, below

-----------------------------------------------------------------------------
(* The shape of the stacks: kept where frames go on or are left, and where *)
(* a loader asks for the next of its needs.                                *)
Struct == /\ profile \in Profiles /\ queueUrl \in Urls(profile)
          /\ stack \in [Threads -> Seq(Frames)] /\ Nested /\ Descends /\ Reaching

Shrinks(u) ==
    /\ Len(stack'[u]) <= Len(stack[u])
    /\ \A i \in 1..Len(stack'[u]) : stack'[u][i].node = stack[u][i].node
    /\ \A i \in 1..(Len(stack'[u]) - 1) : stack'[u][i] = stack[u][i]

LEMMA StructKept ==
    ASSUME Struct, UNCHANGED <<profile, queueUrl>>, stack' \in [Threads -> Seq(Frames)],
           \A u \in Threads : Shrinks(u)
    PROVE  Struct'
<1>1. ASSUME NEW u \in Threads
      PROVE  /\ Len(stack'[u]) \in Nat /\ Len(stack[u]) \in Nat
             /\ DOMAIN stack'[u] = 1..Len(stack'[u]) /\ DOMAIN stack[u] = 1..Len(stack[u])
             /\ DOMAIN stack'[u] \subseteq DOMAIN stack[u]
             /\ stack'[u] = <<>> <=> Len(stack'[u]) = 0
             /\ stack[u] = <<>> <=> Len(stack[u]) = 0
  BY DEF Struct, Shrinks
<1>2. Nested'
  <2> SUFFICES ASSUME NEW u \in Threads, NEW i \in 1..(Len(stack'[u]) - 1)
               PROVE  LET f == stack'[u][i] IN
                      f.pc = "init" /\ f.next \in DOMAIN Needs(f.node)
                      /\ stack'[u][i + 1].node = Needs(f.node)[f.next]
    BY DEF Nested, Needs
  <2>1. stack'[u][i] = stack[u][i] /\ stack'[u][i + 1].node = stack[u][i + 1].node
    BY <1>1 DEF Shrinks
  <2>2. i \in 1..(Len(stack[u]) - 1)
    BY <1>1 DEF Shrinks
  <2> QED
    BY <2>1, <2>2 DEF Struct, Nested
<1>3. Descends'
  <2> SUFFICES ASSUME NEW u \in Threads, NEW i \in DOMAIN stack'[u], NEW k \in DOMAIN stack'[u], i < k
               PROVE  Depth[stack'[u][k].node] < Depth[stack'[u][i].node]
    BY DEF Descends
  <2>1. stack'[u][i].node = stack[u][i].node /\ stack'[u][k].node = stack[u][k].node
        /\ i \in DOMAIN stack[u] /\ k \in DOMAIN stack[u]
    BY <1>1 DEF Shrinks
  <2> QED
    BY <2>1 DEF Struct, Descends
<1>4. Reaching'
  <2> SUFFICES ASSUME NEW u \in Threads, stack'[u] # <<>>
               PROVE  /\ stack'[u][1].node \in Calls[profile]
                      /\ \A i \in DOMAIN stack'[u] :
                             stack'[u][i].node \in Reach(profile, queueUrl)[stack'[u][1].node]
    BY DEF Reaching
  <2>1. stack[u] # <<>> /\ 1 \in DOMAIN stack'[u]
    BY <1>1 DEF Shrinks
  <2>2. \A i \in DOMAIN stack'[u] : stack'[u][i].node = stack[u][i].node /\ i \in DOMAIN stack[u]
    BY <1>1 DEF Shrinks
  <2> QED
    BY <2>1, <2>2 DEF Struct, Reaching
<1> QED
  BY <1>2, <1>3, <1>4 DEF Struct

LEMMA GotoShrinks ==
    ASSUME NEW t \in Threads, stack \in [Threads -> Seq(Frames)], stack[t] # <<>>,
           NEW p \in Points, Goto(t, p)
    PROVE  stack' \in [Threads -> Seq(Frames)] /\ \A u \in Threads : Shrinks(u)
<1>1. /\ Same(t, Len(stack[t]) - 1) /\ Len(stack'[t]) = Len(stack[t])
      /\ stack'[t][Len(stack[t])].node = Top(t).node
  BY GotoStack
<1>2. Len(stack[t]) \in Nat \ {0} /\ Top(t) = stack[t][Len(stack[t])]
  BY TopFacts
<1>3. Shrinks(t)
  BY <1>1, <1>2 DEF Shrinks, Same
<1>4. \A u \in Threads \ {t} : Shrinks(u)
  BY <1>1 DEF Shrinks, Same
<1> QED
  BY <1>1, <1>3, <1>4 DEF Same

LEMMA PopShrinks ==
    ASSUME NEW t \in Threads, stack \in [Threads -> Seq(Frames)], stack[t] # <<>>, NEW f, Popped(t, f),
           Len(stack[t]) > 1 => f.node = stack[t][Len(stack[t]) - 1].node
    PROVE  stack' \in [Threads -> Seq(Frames)] /\ \A u \in Threads : Shrinks(u)
<1>1. Len(stack[t]) \in Nat \ {0}
  BY TopFacts
<1>2. Shrinks(t)
  BY <1>1 DEF Shrinks, Same, Popped
<1>3. \A u \in Threads \ {t} : Shrinks(u)
  BY DEF Shrinks, Same, Popped
<1> QED
  BY <1>2, <1>3 DEF Same, Popped

LEMMA StructPush ==
    ASSUME Struct, UNCHANGED <<profile, queueUrl>>,
           NEW t \in Threads, NEW d \in Nodes,
           stack' = [stack EXCEPT ![t] = Append(stack[t], Entered(d))],
           stack[t] = <<>> => d \in Calls[profile],
           stack[t] # <<>> => /\ Top(t).pc = "init" /\ Top(t).next \in DOMAIN Needs(Top(t).node)
                              /\ d = Needs(Top(t).node)[Top(t).next]
    PROVE  Struct'
<1> DEFINE n == Len(stack[t])
<1>1. /\ Same(t, n) /\ Len(stack'[t]) = n + 1 /\ stack'[t][n + 1].node = d
  BY PushStack DEF Struct
<1>2. ASSUME NEW u \in Threads
      PROVE  /\ Len(stack'[u]) \in Nat /\ Len(stack[u]) \in Nat
             /\ DOMAIN stack'[u] = 1..Len(stack'[u]) /\ DOMAIN stack[u] = 1..Len(stack[u])
             /\ stack'[u] = <<>> <=> Len(stack'[u]) = 0
             /\ stack[u] = <<>> <=> Len(stack[u]) = 0
             /\ \A i \in DOMAIN stack[u] : stack[u][i].node \in Nodes
  <2>1. stack[u] \in Seq(Frames) /\ stack'[u] \in Seq(Frames)
    BY <1>1 DEF Struct, Same
  <2>2. \A f \in Frames : f.node \in Nodes
    BY DEF Frames
  <2> QED
    BY <2>1, <2>2
<1>3. ASSUME NEW u \in Threads, u # t PROVE stack'[u] = stack[u]
  BY <1>1, <1>3 DEF Same
<1>4. n \in Nat /\ \A i \in 1..n : stack'[t][i] = stack[t][i]
  BY <1>1, <1>2 DEF Same
<1>5. stack[t] # <<>> => Top(t) = stack[t][n] /\ n \in 1..n /\ Top(t).node \in Nodes
  BY <1>2 DEF Top, Last
<1>6. Nested'
  <2> SUFFICES ASSUME NEW u \in Threads, NEW i \in 1..(Len(stack'[u]) - 1)
               PROVE  LET f == stack'[u][i] IN
                      f.pc = "init" /\ f.next \in DOMAIN Needs(f.node)
                      /\ stack'[u][i + 1].node = Needs(f.node)[f.next]
    BY DEF Nested, Needs
  <2>1. CASE u # t
    BY <1>3, <2>1 DEF Struct, Nested
  <2>2. CASE u = t /\ i < n
    <3>1. stack'[t][i] = stack[t][i] /\ stack'[t][i + 1] = stack[t][i + 1] /\ i \in 1..(n - 1)
      BY <1>4, <2>2
    <3> QED
      BY <2>2, <3>1 DEF Struct, Nested
  <2>3. CASE u = t /\ i = n
    <3>1. stack[t] # <<>> /\ stack'[t][i] = Top(t) /\ stack'[t][i + 1].node = d
      BY <1>1, <1>2, <1>4, <1>5, <2>3
    <3> QED
      BY <2>3, <3>1
  <2> QED
    BY <1>1, <1>4, <2>1, <2>2, <2>3
<1>7. stack[t] # <<>> => Depth[d] < Depth[Top(t).node]
  BY <1>5, WiringFacts DEF Struct
<1>8. \A m \in Nodes : Depth[m] \in Nat /\ m \in Reach(profile, queueUrl)[m]
  BY WiringFacts DEF Struct
<1>9. Descends'
  <2> SUFFICES ASSUME NEW u \in Threads, NEW i \in DOMAIN stack'[u], NEW k \in DOMAIN stack'[u], i < k
               PROVE  Depth[stack'[u][k].node] < Depth[stack'[u][i].node]
    BY DEF Descends
  <2>1. CASE u # t
    BY <1>3, <2>1 DEF Struct, Descends
  <2>2. CASE u = t /\ k <= n
    <3>1. i \in DOMAIN stack[t] /\ k \in DOMAIN stack[t] /\ stack'[t][i] = stack[t][i] /\ stack'[t][k] = stack[t][k]
      BY <1>2, <1>4, <2>2
    <3> QED
      BY <2>2, <3>1 DEF Struct, Descends
  <2>3. CASE u = t /\ k = n + 1
    <3>1. i \in 1..n /\ stack[t] # <<>> /\ stack'[t][i] = stack[t][i] /\ n \in DOMAIN stack[t]
      BY <1>2, <1>4, <2>3
    <3>2. i = n \/ Depth[Top(t).node] < Depth[stack[t][i].node]
      BY <1>2, <1>5, <3>1 DEF Struct, Descends
    <3>3. Depth[Top(t).node] \in Nat /\ Depth[stack[t][i].node] \in Nat /\ Depth[d] \in Nat
      BY <1>2, <1>5, <1>8, <3>1
    <3> QED
      BY <1>1, <1>5, <1>7, <2>3, <3>1, <3>2, <3>3
  <2> QED
    BY <1>1, <1>2, <1>4, <2>1, <2>2, <2>3
<1>10. Reaching'
  <2> SUFFICES ASSUME NEW u \in Threads, stack'[u] # <<>>
               PROVE  /\ stack'[u][1].node \in Calls[profile]
                      /\ \A i \in DOMAIN stack'[u] :
                             stack'[u][i].node \in Reach(profile, queueUrl)[stack'[u][1].node]
    BY DEF Reaching
  <2>1. CASE u # t
    BY <1>3, <2>1 DEF Struct, Reaching
  <2>2. CASE u = t /\ stack[t] = <<>>
    <3>1. n = 0 /\ stack'[t][1].node = d /\ DOMAIN stack'[t] = 1..1
      BY <1>1, <1>2, <2>2
    <3> QED
      BY <1>8, <2>2, <3>1
  <2>3. CASE u = t /\ stack[t] # <<>>
    <3>1. stack'[t][1] = stack[t][1]
      BY <1>4, <1>5, <2>3
    <3>2. d \in Reach(profile, queueUrl)[stack[t][1].node]
      <4>1. stack[t][1].node \in Nodes /\ Top(t).node \in Reach(profile, queueUrl)[stack[t][1].node]
        BY <1>2, <1>5, <2>3 DEF Struct, Reaching
      <4> QED
        BY <2>3, <4>1, WiringFacts DEF Struct
    <3>3. \A i \in DOMAIN stack'[t] : (i \in DOMAIN stack[t] /\ stack'[t][i] = stack[t][i]) \/ i = n + 1
      BY <1>1, <1>2, <1>4
    <3> QED
      BY <1>1, <2>3, <3>1, <3>2, <3>3 DEF Struct, Reaching
  <2> QED
    BY <2>1, <2>2, <2>3
<1> QED
  BY <1>1, <1>6, <1>9, <1>10 DEF Struct, Same

-----------------------------------------------------------------------------
(* Who builds what. *)
Below(t, n) ==
    \E i \in 1..(Len(stack[t]) - 1) : stack[t][i].node = n /\ stack[t][i].pc \in Owning

LEMMA BuildsTop ==
    ASSUME Struct, NEW t \in Threads, stack[t] # <<>>, NEW n
    PROVE  /\ Builds(t, n) <=> (Below(t, n) \/ (Top(t).pc \in Owning /\ n = Top(t).node))
           /\ ~Below(t, Top(t).node)
<1>1. /\ Len(stack[t]) \in Nat \ {0} /\ DOMAIN stack[t] = 1..Len(stack[t])
      /\ Len(stack[t]) \in DOMAIN stack[t] /\ Top(t) = stack[t][Len(stack[t])]
  BY TopFacts DEF Struct
<1>2. \A i \in DOMAIN stack[t] : i \in 1..(Len(stack[t]) - 1) \/ i = Len(stack[t])
  BY <1>1
<1>3. \A i \in 1..(Len(stack[t]) - 1) : i \in DOMAIN stack[t] /\ i < Len(stack[t])
  BY <1>1
<1>4. Builds(t, n) <=> (Below(t, n) \/ (Top(t).pc \in Owning /\ n = Top(t).node))
  BY <1>1, <1>2, <1>3 DEF Builds, Below
<1>5. ASSUME NEW i \in 1..(Len(stack[t]) - 1), stack[t][i].node = Top(t).node PROVE FALSE
  <2>1. Depth[Top(t).node] < Depth[stack[t][i].node] /\ Depth[Top(t).node] = Depth[stack[t][i].node]
    BY <1>1, <1>3, <1>5 DEF Struct, Descends
  <2>2. Top(t).node \in Nodes
    BY TopFacts DEF Struct, Frames
  <2>3. Depth[Top(t).node] \in Nat
    BY <2>2, WiringFacts DEF Struct
  <2> QED
    BY <2>1, <2>3
<1> QED
  BY <1>4, <1>5 DEF Below

LEMMA GotoBuilds ==
    ASSUME Struct, NEW t \in Threads, stack[t] # <<>>, NEW p \in Points, Goto(t, p), NEW n
    PROVE  /\ Builds(t, n)' <=> (Below(t, n) \/ (p \in Owning /\ n = Top(t).node))
           /\ \A u \in Threads \ {t} : Builds(u, n)' <=> Builds(u, n)
<1>1. /\ Same(t, Len(stack[t]) - 1) /\ Len(stack'[t]) = Len(stack[t])
      /\ stack'[t][Len(stack[t])].node = Top(t).node /\ stack'[t][Len(stack[t])].pc = p
  BY GotoStack DEF Struct
<1>2. Len(stack[t]) \in Nat \ {0} /\ DOMAIN stack'[t] = 1..Len(stack[t])
  BY <1>1, TopFacts DEF Struct, Same
<1>3. \A i : i \in DOMAIN stack'[t] <=> (i \in 1..(Len(stack[t]) - 1) \/ i = Len(stack[t]))
  BY <1>2
<1> QED
  BY <1>1, <1>3 DEF Builds, Below, Same

LEMMA PopBuilds ==
    ASSUME Struct, NEW t \in Threads, stack[t] # <<>>, NEW f, Popped(t, f), NEW n,
           Len(stack[t]) > 1 => f.node = stack[t][Len(stack[t]) - 1].node /\ f.pc \in Owning
    PROVE  /\ Builds(t, n)' <=> Below(t, n)
           /\ \A u \in Threads \ {t} : Builds(u, n)' <=> Builds(u, n)
<1>1. Len(stack[t]) \in Nat \ {0} /\ DOMAIN stack'[t] = 1..(Len(stack[t]) - 1)
  BY TopFacts DEF Struct, Popped, Same
<1>2. \A i \in 1..(Len(stack[t]) - 1) : i \in 1..(Len(stack[t]) - 2) \/ (i = Len(stack[t]) - 1 /\ Len(stack[t]) > 1)
  BY <1>1
<1>3. \A i \in 1..(Len(stack[t]) - 2) : stack'[t][i] = stack[t][i]
  BY DEF Popped, Same
<1>4. Len(stack[t]) > 1 => /\ stack'[t][Len(stack[t]) - 1] = f
                           /\ stack[t][Len(stack[t]) - 1].pc \in Owning
  BY <1>1 DEF Popped, Struct, Nested, Owning
<1> QED
  BY <1>1, <1>2, <1>3, <1>4 DEF Builds, Below, Popped, Same

LEMMA PushBuilds ==
    ASSUME Struct, NEW t \in Threads, NEW d \in Nodes, NEW n, NEW u \in Threads,
           stack' = [stack EXCEPT ![t] = Append(stack[t], Entered(d))]
    PROVE  Builds(u, n)' <=> Builds(u, n)
<1>1. /\ Same(t, Len(stack[t])) /\ Len(stack'[t]) = Len(stack[t]) + 1
      /\ stack'[t][Len(stack[t]) + 1].pc = "check"
  BY PushStack DEF Struct
<1>2. /\ Len(stack[t]) \in Nat /\ DOMAIN stack[t] = 1..Len(stack[t])
      /\ DOMAIN stack'[t] = 1..(Len(stack[t]) + 1)
  BY <1>1 DEF Struct, Same
<1>3. \A i : i \in DOMAIN stack'[t] <=> (i \in DOMAIN stack[t] \/ i = Len(stack[t]) + 1)
  BY <1>2
<1> QED
  BY <1>1, <1>2, <1>3 DEF Builds, Same, Owning

-----------------------------------------------------------------------------
(* Frames and what is built. *)
LEMMA FrameLater ==
    ASSUME NEW f, NEW needs, NEW b, NEW m, NEW b2, NEW m2, FrameOK(f, needs, b, m),
           b \subseteq b2, m \cup b \subseteq m2 \cup b2, f.pc = "init" => f.node \notin b2
    PROVE  FrameOK(f, needs, b2, m2)
BY DEF FrameOK

LEMMA FramesKept ==
    ASSUME Struct, FramesOK, UNCHANGED <<profile, queueUrl>>, NEW t \in Threads,
           NEW n \in 0..Len(stack[t]), Same(t, n), Len(stack'[t]) \in {n, n + 1},
           built \subseteq built', mutex \cup built \subseteq mutex' \cup built',
           \A u \in Threads : \A i \in DOMAIN stack[u] :
               (u # t \/ i <= n) /\ stack[u][i].pc = "init" => stack[u][i].node \notin built',
           Len(stack'[t]) = n + 1 =>
               FrameOK(stack'[t][n + 1], Needs(stack'[t][n + 1].node), built', mutex')
    PROVE  FramesOK'
<1> SUFFICES ASSUME NEW u \in Threads, NEW i \in DOMAIN stack'[u]
             PROVE  FrameOK(stack'[u][i], Needs(stack'[u][i].node), built', mutex')
  BY DEF FramesOK, Needs
<1>1. Len(stack[t]) \in Nat /\ DOMAIN stack[t] = 1..Len(stack[t]) /\ DOMAIN stack'[t] = 1..Len(stack'[t])
  BY DEF Struct, Same
<1>2. ASSUME i \in DOMAIN stack[u], stack'[u][i] = stack[u][i], u # t \/ i <= n
      PROVE  FrameOK(stack'[u][i], Needs(stack'[u][i].node), built', mutex')
  BY <1>2, FrameLater DEF FramesOK
<1>3. CASE u # t
  BY <1>2, <1>3 DEF Same
<1>4. CASE u = t /\ i <= n
  <2>1. i \in 1..n /\ i \in DOMAIN stack[t]
    BY <1>1, <1>4
  <2>2. stack'[t][i] = stack[t][i]
    BY <2>1 DEF Same
  <2> QED
    BY <1>2, <1>4, <2>1, <2>2
<1>5. CASE u = t /\ i = n + 1
  BY <1>1, <1>5
<1> QED
  BY <1>1, <1>3, <1>4, <1>5

-----------------------------------------------------------------------------
(* Which calls are failing, and the faults that pay for them. *)
Others(t) == \A u \in Threads \ {t} : stack'[u] = stack[u]

LEMMA OneMore ==
    ASSUME NEW S, NEW x, IsFiniteSet(S)
    PROVE  /\ IsFiniteSet(S \cup {x}) /\ Cardinality(S) \in Nat /\ Cardinality(S \cup {x}) \in Nat
           /\ Cardinality(S \cup {x}) <= Cardinality(S) + 1
<1>1. /\ IsFiniteSet(S \cup {x})
      /\ Cardinality(S \cup {x}) = IF x \in S THEN Cardinality(S) ELSE Cardinality(S) + 1
  BY FS_AddElement
<1>2. Cardinality(S) \in Nat
  BY FS_CardinalityType
<1> QED
  BY <1>1, <1>2, FS_CardinalityType

LEMMA PaidLess ==
    ASSUME Paid, faults \in Nat, UNCHANGED <<profile, faults>>, NEW t \in Threads, Others(t),
           RealFailed' = RealFailed, IsFailing(t)' => IsFailing(t)
    PROVE  Paid'
<1>1. Failing' \subseteq Failing
  BY DEF Failing, IsFailing, Others, Top, Gap
<1>2. IsFiniteSet(Failing') /\ Cardinality(Failing') <= Cardinality(Failing)
  BY <1>1, FS_Subset DEF Paid
<1> DEFINE r == RealFailed
           x == Failing
           y == Failing'
<1>3. IsFiniteSet(r) /\ IsFiniteSet(x) /\ IsFiniteSet(y)
  BY <1>2 DEF Paid
<1>4. Cardinality(r) \in Nat /\ Cardinality(x) \in Nat /\ Cardinality(y) \in Nat
  BY <1>3, FS_CardinalityType
<1> QED
  BY <1>2, <1>3, <1>4 DEF Paid

LEMMA PaidFault ==
    ASSUME Paid, faults \in Nat, faults' = faults + 1, UNCHANGED <<profile, failed>>,
           NEW t \in Threads, Others(t)
    PROVE  Paid'
<1>1. Failing' \subseteq Failing \cup {t}
  BY DEF Failing, IsFailing, Others, Top, Gap
<1>2. IsFiniteSet(Failing \cup {t}) /\ Cardinality(Failing \cup {t}) <= Cardinality(Failing) + 1
  BY OneMore DEF Paid
<1>3. IsFiniteSet(Failing') /\ Cardinality(Failing') <= Cardinality(Failing \cup {t})
  BY <1>1, <1>2, FS_Subset
<1>4. RealFailed' = RealFailed
  BY DEF RealFailed, Gap
<1> DEFINE r == RealFailed
           x == Failing
           y == Failing'
           z == Failing \cup {t}
<1>5. Cardinality(r) \in Nat /\ Cardinality(x) \in Nat /\ Cardinality(y) \in Nat /\ Cardinality(z) \in Nat
  BY <1>2, <1>3, FS_CardinalityType DEF Paid
<1> QED
  BY <1>2, <1>3, <1>4, <1>5 DEF Paid

LEMMA PaidFailed ==
    ASSUME Paid, faults \in Nat, UNCHANGED <<profile, faults>>, NEW t \in Threads, Others(t), NEW n,
           failed' = failed \cup {<<t, n>>}, IsFailing(t) <=> ~Gap(n), ~IsFailing(t)'
    PROVE  Paid'
<1>1. CASE Gap(n)
  <2>1. RealFailed' = RealFailed
    BY <1>1 DEF RealFailed, Gap
  <2> QED
    BY <2>1, PaidLess
<1>2. CASE ~Gap(n)
  <2>1. Failing' \subseteq Failing \ {t} /\ t \in Failing
    BY <1>2 DEF Failing, IsFailing, Others, Top, Gap
  <2>2. RealFailed' = RealFailed \cup {<<t, n>>}
    BY <1>2 DEF RealFailed, Gap
  <2> DEFINE r == RealFailed
             x == Failing
             y == Failing'
             z == Failing \ {t}
             q == RealFailed \cup {<<t, n>>}
  <2>3. IsFiniteSet(z) /\ Cardinality(z) = Cardinality(x) - 1
    BY <2>1, FS_RemoveElement DEF Paid
  <2>4. IsFiniteSet(y) /\ Cardinality(y) <= Cardinality(z)
    BY <2>1, <2>3, FS_Subset
  <2>5. IsFiniteSet(r) /\ Cardinality(r) \in Nat /\ Cardinality(x) \in Nat /\ Cardinality(y) \in Nat
    BY <2>4, FS_CardinalityType DEF Paid
  <2>6. IsFiniteSet(q) /\ Cardinality(q) <= Cardinality(r) + 1
    BY <2>5, OneMore
  <2>7. Cardinality(q) \in Nat
    BY <2>6, FS_CardinalityType
  <2> QED
    BY <2>2, <2>3, <2>4, <2>5, <2>6, <2>7 DEF Paid
<1> QED
  BY <1>1, <1>2

-----------------------------------------------------------------------------
(* The three ways a stack changes, and what each keeps. *)
LEMMA InvStruct == BeansInv => Struct
BY DEF BeansInv, Sizes, Struct

LEMMA LockedKept ==
    ASSUME Locked, UNCHANGED held, \A n \in Nodes, u \in Threads : Builds(u, n)' <=> Builds(u, n)
    PROVE  Locked'
BY DEF Locked

LEMMA GotoKeeps ==
    ASSUME BeansInv, UNCHANGED <<profile, queueUrl>>, NEW t \in Threads, stack[t] # <<>>,
           NEW p \in Points, Goto(t, p), built \subseteq built', mutex \cup built \subseteq mutex' \cup built',
           built' \subseteq built \cup {Top(t).node}, built' = built \/ Top(t).pc \in Owning,
           \A f \in Frames : f.node = Top(t).node /\ f.next = Top(t).next /\ f.pc = p =>
               FrameOK(f, Needs(Top(t).node), built', mutex')
    PROVE  /\ Struct' /\ FramesOK' /\ Others(t) /\ stack' \in [Threads -> Seq(Frames)]
           /\ IsFailing(t)' <=> p = "fail" /\ ~Gap(stack[t][1].node)
<1>1. Struct
  BY InvStruct
<1>2. /\ Same(t, Len(stack[t]) - 1) /\ Len(stack'[t]) = Len(stack[t])
      /\ LET top == stack'[t][Len(stack[t])] IN
         top \in Frames /\ top.node = Top(t).node /\ top.next = Top(t).next /\ top.pc = p
  BY <1>1, GotoStack DEF Struct
<1>3. stack' \in [Threads -> Seq(Frames)] /\ \A u \in Threads : Shrinks(u)
  BY <1>1, GotoShrinks DEF Struct
<1>4. Struct'
  BY <1>1, <1>3, StructKept
<1>5. Len(stack[t]) \in Nat \ {0} /\ Top(t) = stack[t][Len(stack[t])] /\ Top(t) \in Frames
  BY <1>1, TopFacts DEF Struct
<1>6. ASSUME NEW u \in Threads, NEW i \in DOMAIN stack[u], u # t \/ i <= Len(stack[t]) - 1,
             stack[u][i].pc = "init"
      PROVE  stack[u][i].node \notin built'
  <2>1. stack[u][i].node \notin built
    BY <1>6 DEF BeansInv, FramesOK, FrameOK
  <2>2. CASE built' = built
    BY <2>1, <2>2
  <2>3. CASE Top(t).pc \in Owning /\ stack[u][i].node = Top(t).node
    <3>1. Builds(u, Top(t).node) /\ Builds(t, Top(t).node)
      BY <1>1, <1>6, <2>3, BuildsTop DEF Builds, Owning
    <3>2. Top(t).node \in Nodes
      BY <1>5 DEF Frames
    <3>3. u = t
      BY <3>1, <3>2 DEF BeansInv, Locked
    <3>4. i \in 1..(Len(stack[t]) - 1)
      BY <1>5, <1>6, <3>3
    <3>5. Below(t, Top(t).node)
      BY <1>6, <2>3, <3>3, <3>4 DEF Below, Owning
    <3> QED
      BY <1>1, <3>5, BuildsTop
  <2> QED
    BY <2>1, <2>2, <2>3
<1>7. FramesOK'
  <2> DEFINE n == Len(stack[t]) - 1
  <2>1. n \in 0..Len(stack[t]) /\ Len(stack'[t]) = n + 1
    BY <1>2, <1>5
  <2>2. Needs(stack'[t][n + 1].node) = Needs(Top(t).node) /\ stack'[t][n + 1] \in Frames
        /\ stack'[t][n + 1].node = Top(t).node /\ stack'[t][n + 1].next = Top(t).next
        /\ stack'[t][n + 1].pc = p
    BY <1>2, <1>5
  <2>3. FrameOK(stack'[t][n + 1], Needs(stack'[t][n + 1].node), built', mutex')
    BY <2>2
  <2>4. Same(t, n) /\ FramesOK
    BY <1>2 DEF BeansInv
  <2> HIDE DEF n
  <2>5. \A u \in Threads : \A i \in DOMAIN stack[u] :
            (u # t \/ i <= n) /\ stack[u][i].pc = "init" => stack[u][i].node \notin built'
    BY <1>6 DEF n
  <2> QED
    BY <1>1, <2>1, <2>3, <2>4, <2>5, FramesKept
<1>8. Others(t)
  BY <1>2 DEF Others, Same
<1>9. /\ Top(t)'.pc = p /\ stack'[t] # <<>> /\ stack'[t][1].node = stack[t][1].node
  <2>1. stack'[t] # <<>> /\ Top(t)' = stack'[t][Len(stack[t])]
    BY <1>2, <1>3, <1>5 DEF Top, Last
  <2>2. Shrinks(t) /\ 1 \in 1..Len(stack'[t])
    BY <1>2, <1>3, <1>5
  <2> QED
    BY <1>2, <2>1, <2>2 DEF Shrinks
<1> QED
  BY <1>3, <1>4, <1>7, <1>8, <1>9 DEF IsFailing, Gap

LEMMA PopKeeps ==
    ASSUME BeansInv, UNCHANGED <<profile, queueUrl, built, mutex>>, NEW t \in Threads, stack[t] # <<>>,
           NEW f, Popped(t, f),
           Len(stack[t]) > 1 =>
               LET below == stack[t][Len(stack[t]) - 1] IN
               /\ f.node = below.node /\ f.pc \in {"init", "fail"}
               /\ f.next = below.next \/ (f.next = below.next + 1 /\ Top(t).node \in built)
    PROVE  /\ Struct' /\ FramesOK' /\ Others(t) /\ stack' \in [Threads -> Seq(Frames)]
           /\ IsFailing(t)' <=> Len(stack[t]) > 1 /\ f.pc = "fail" /\ ~Gap(stack[t][1].node)
           /\ \A n : Builds(t, n)' <=> Below(t, n)
           /\ \A n, u : u \in Threads \ {t} => (Builds(u, n)' <=> Builds(u, n))
<1> DEFINE n == Len(stack[t])
           below == stack[t][n - 1]
<1>1. Struct
  BY InvStruct
<1>2. n \in Nat \ {0} /\ DOMAIN stack[t] = 1..n /\ Top(t) = stack[t][n]
  BY <1>1, TopFacts DEF Struct
<1>13. n = 1 \/ n > 1
  <2>1. n \in Nat \ {0}
    BY <1>2
  <2> HIDE DEF n, below
  <2> QED
    BY <2>1
<1>3. n > 1 => f.node = below.node
  OBVIOUS
<1>4. stack' \in [Threads -> Seq(Frames)] /\ \A u \in Threads : Shrinks(u)
  BY <1>1, <1>3, PopShrinks DEF Struct
<1>5. Struct'
  BY <1>1, <1>4, StructKept
<1>6. n > 1 => /\ n - 1 \in 1..(n - 1) /\ n - 1 \in DOMAIN stack[t]
               /\ below.pc = "init" /\ below.next \in DOMAIN Needs(below.node)
               /\ Top(t).node = Needs(below.node)[below.next]
               /\ below.next \in Nat /\ below.node \in Nodes /\ DOMAIN Needs(below.node) \subseteq Nat
  <2> SUFFICES ASSUME n > 1
               PROVE  /\ n - 1 \in 1..(n - 1) /\ n - 1 \in DOMAIN stack[t]
                      /\ below.pc = "init" /\ below.next \in DOMAIN Needs(below.node)
                      /\ Top(t).node = Needs(below.node)[below.next]
                      /\ below.next \in Nat /\ below.node \in Nodes /\ DOMAIN Needs(below.node) \subseteq Nat
    OBVIOUS
  <2>1. n - 1 \in 1..(n - 1) /\ n - 1 \in DOMAIN stack[t] /\ (n - 1) + 1 = n
    BY <1>2
  <2>2. below.pc = "init" /\ below.next \in DOMAIN Needs(below.node)
        /\ Top(t).node = Needs(below.node)[below.next]
    BY <1>1, <1>2, <2>1 DEF Struct, Nested
  <2>3. stack[t] \in Seq(Frames)
    BY <1>1 DEF Struct
  <2>4. below \in Frames
    BY <2>1, <2>3
  <2>5. below.next \in Nat /\ below.node \in Nodes
    BY <2>4 DEF Frames
  <2>6. DOMAIN Needs(below.node) \subseteq Nat
    BY <1>1, <2>5, WiringFacts DEF Struct
  <2> QED
    BY <2>1, <2>2, <2>5, <2>6
<1>7. n > 1 => FrameOK(f, Needs(f.node), built', mutex')
  <2> SUFFICES ASSUME n > 1 PROVE FrameOK(f, Needs(f.node), built', mutex')
    OBVIOUS
  <2>1. FrameOK(below, Needs(below.node), built, mutex)
    BY <1>6 DEF BeansInv, FramesOK
  <2>2. f.node = below.node /\ f.pc \in {"init", "fail"}
        /\ (f.next = below.next \/ (f.next = below.next + 1 /\ Top(t).node \in built))
    OBVIOUS
  <2>3. \A k \in DOMAIN Needs(below.node) : k < below.next => Needs(below.node)[k] \in built
    BY <2>1 DEF FrameOK
  <2>4. below.node \notin built
    BY <1>6, <2>1 DEF FrameOK
  <2>5. \A k \in DOMAIN Needs(below.node) : k < f.next => Needs(below.node)[k] \in built
    BY <1>6, <2>2, <2>3
  <2> QED
    BY <2>2, <2>4, <2>5 DEF FrameOK
<1>8. FramesOK'
  <2>1. CASE n = 1
    <3>1. Same(t, 0) /\ Len(stack'[t]) = 0 /\ 0 \in 0..Len(stack[t])
      BY <1>2, <2>1 DEF Popped, Same
    <3>2. FramesOK /\ \A u \in Threads : \A i \in DOMAIN stack[u] :
              stack[u][i].pc = "init" => stack[u][i].node \notin built'
      BY DEF BeansInv, FramesOK, FrameOK
    <3> DEFINE m == 0
    <3> HIDE DEF n, m
    <3>3. m \in 0..Len(stack[t]) /\ Same(t, m) /\ Len(stack'[t]) = m /\ Len(stack'[t]) # m + 1
      BY <3>1 DEF m
    <3> QED
      BY <1>1, <3>2, <3>3, FramesKept
  <2>2. CASE n > 1
    <3>1. n - 2 \in 0..Len(stack[t]) /\ Same(t, n - 2) /\ Len(stack'[t]) = (n - 2) + 1
          /\ stack'[t][(n - 2) + 1] = f
      <4>1. (n - 2) + 1 = n - 1 /\ n - 2 \in 0..n
        BY <1>2, <2>2
      <4> QED
        BY <2>2, <4>1 DEF Popped
    <3>2. FramesOK /\ \A u \in Threads : \A i \in DOMAIN stack[u] :
              stack[u][i].pc = "init" => stack[u][i].node \notin built'
      BY DEF BeansInv, FramesOK, FrameOK
    <3>3. FrameOK(stack'[t][(n - 2) + 1], Needs(stack'[t][(n - 2) + 1].node), built', mutex')
      BY <1>7, <2>2, <3>1
    <3> DEFINE m == n - 2
    <3> HIDE DEF n, m
    <3>4. m \in 0..Len(stack[t]) /\ Same(t, m) /\ Len(stack'[t]) = m + 1
          /\ FrameOK(stack'[t][m + 1], Needs(stack'[t][m + 1].node), built', mutex')
      BY <3>1, <3>3 DEF m
    <3> QED
      BY <1>1, <3>2, <3>4, FramesKept
  <2> HIDE DEF n
  <2> QED
    BY <1>13, <2>1, <2>2
<1>9. Others(t)
  BY DEF Others, Popped, Same
<1>10. IsFailing(t)' <=> n > 1 /\ f.pc = "fail" /\ ~Gap(stack[t][1].node)
  <2>1. CASE n = 1
    <3>1. stack'[t] = <<>>
      BY <1>4, <2>1 DEF Popped
    <3> QED
      BY <2>1, <3>1 DEF IsFailing
  <2>2. CASE n > 1
    <3>1. stack'[t] # <<>> /\ Top(t)' = f
      BY <1>2, <1>4, <2>2 DEF Popped, Top, Last
    <3>2. stack'[t][1].node = stack[t][1].node
      <4>1. Shrinks(t) /\ 1 \in 1..Len(stack'[t])
        BY <1>2, <1>4, <2>2 DEF Popped
      <4> QED
        BY <4>1 DEF Shrinks
    <3>3. IsFailing(t)' <=> stack'[t] # <<>> /\ Top(t)'.pc = "fail" /\ ~Gap(stack'[t][1].node)
      BY DEF IsFailing, Gap
    <3> QED
      BY <2>2, <3>1, <3>2, <3>3
  <2> HIDE DEF n
  <2> QED
    BY <1>13, <2>1, <2>2
<1>11. n > 1 => f.node = below.node /\ f.pc \in Owning
  BY DEF Owning
<1>12. ASSUME NEW m
       PROVE  /\ Builds(t, m)' <=> Below(t, m)
              /\ \A u \in Threads \ {t} : Builds(u, m)' <=> Builds(u, m)
  BY <1>1, <1>11, PopBuilds
<1> HIDE DEF n
<1> QED
  BY <1>4, <1>5, <1>8, <1>9, <1>10, <1>12 DEF n

LEMMA PushKeeps ==
    ASSUME BeansInv, UNCHANGED <<profile, queueUrl, built, mutex>>, NEW t \in Threads, NEW d \in Nodes,
           stack' = [stack EXCEPT ![t] = Append(stack[t], Entered(d))],
           stack[t] = <<>> => d \in Calls[profile],
           stack[t] # <<>> => /\ Top(t).pc = "init" /\ Top(t).next \in DOMAIN Needs(Top(t).node)
                              /\ d = Needs(Top(t).node)[Top(t).next]
    PROVE  /\ Struct' /\ FramesOK' /\ Others(t) /\ stack' \in [Threads -> Seq(Frames)]
           /\ ~IsFailing(t)'
           /\ \A n, u : u \in Threads => (Builds(u, n)' <=> Builds(u, n))
<1> DEFINE n == Len(stack[t])
<1>1. Struct
  BY InvStruct
<1>2. Struct'
  BY <1>1, StructPush
<1>3. /\ Same(t, n) /\ Len(stack'[t]) = n + 1 /\ stack'[t][n + 1] \in Frames
      /\ stack'[t][n + 1].node = d /\ stack'[t][n + 1].next = 1 /\ stack'[t][n + 1].pc = "check"
  BY <1>1, PushStack DEF Struct
<1>4. n \in Nat
  BY <1>1 DEF Struct
<1>5. DOMAIN Needs(d) \subseteq Nat \ {0}
  BY <1>1, WiringFacts DEF Struct
<1>6. FrameOK(stack'[t][n + 1], Needs(stack'[t][n + 1].node), built', mutex')
  <2>1. \A k \in DOMAIN Needs(d) : ~(k < 1)
    BY <1>5
  <2> QED
    BY <1>3, <2>1 DEF FrameOK
<1>7. FramesOK /\ \A u \in Threads : \A i \in DOMAIN stack[u] :
          stack[u][i].pc = "init" => stack[u][i].node \notin built'
  BY DEF BeansInv, FramesOK, FrameOK
<1>8. FramesOK'
  <2>1. n \in 0..Len(stack[t])
    BY <1>4
  <2> HIDE DEF n
  <2> QED
    BY <1>1, <1>3, <1>6, <1>7, <2>1, FramesKept
<1>9. Top(t)' = stack'[t][n + 1]
  BY <1>3 DEF Top, Last
<1>10. \A m, u : u \in Threads => (Builds(u, m)' <=> Builds(u, m))
  BY <1>1, PushBuilds
<1> QED
  BY <1>2, <1>3, <1>8, <1>9, <1>10 DEF IsFailing, Others, Same

-----------------------------------------------------------------------------
(* One lemma for each action. *)
LEMMA AtFacts ==
    ASSUME BeansInv, NEW t \in Threads, NEW p, At(t, p)
    PROVE  /\ Struct /\ stack[t] # <<>> /\ Top(t).pc = p /\ Top(t) \in Frames
           /\ Top(t).node \in Nodes /\ Top(t).next \in Nat \ {0}
           /\ FrameOK(Top(t), Needs(Top(t).node), built, mutex)
           /\ Len(stack[t]) \in Nat \ {0} /\ Top(t) = stack[t][Len(stack[t])]
           /\ Top(t).node \in Reach(profile, queueUrl)[stack[t][1].node]
           /\ stack[t][1].node \in Calls[profile]
<1>1. Struct /\ stack[t] # <<>> /\ Top(t).pc = p
  BY InvStruct DEF At
<1>2. /\ Len(stack[t]) \in Nat \ {0} /\ Len(stack[t]) \in DOMAIN stack[t]
      /\ Top(t) = stack[t][Len(stack[t])] /\ Top(t) \in Frames
  BY <1>1, TopFacts DEF Struct
<1>3. Top(t).node \in Nodes /\ Top(t).next \in Nat \ {0}
  BY <1>2 DEF Frames
<1>4. FrameOK(Top(t), Needs(Top(t).node), built, mutex)
  BY <1>2 DEF BeansInv, FramesOK
<1>5. /\ Top(t).node \in Reach(profile, queueUrl)[stack[t][1].node]
      /\ stack[t][1].node \in Calls[profile]
  BY <1>1, <1>2 DEF Struct, Reaching
<1> QED
  BY <1>1, <1>2, <1>3, <1>4, <1>5

LEMMA CallKeeps == ASSUME BeansInv, NEW t \in Threads, Call(t) PROVE BeansInv'
<1>1. PICK n \in Calls[profile] : stack' = [stack EXCEPT ![t] = <<Entered(n)>>]
  BY DEF Call
<1>2. stack[t] = <<>> /\ UNCHANGED <<profile, queueUrl, built, mutex, held, remade, handed, failed, faults>>
  BY DEF Call
<1>3. n \in Nodes
  BY CallFacts DEF BeansInv, Sizes
<1>4. <<Entered(n)>> = Append(stack[t], Entered(n))
  BY <1>2
<1>5. stack' = [stack EXCEPT ![t] = Append(stack[t], Entered(n))]
  BY <1>1, <1>4
<1>6. /\ Struct' /\ FramesOK' /\ Others(t) /\ stack' \in [Threads -> Seq(Frames)]
      /\ ~IsFailing(t)'
      /\ \A m, u : u \in Threads => (Builds(u, m)' <=> Builds(u, m))
  BY <1>2, <1>3, <1>5, PushKeeps
<1>7. calls' \in [Threads -> 0..MaxCalls]
  <2>1. calls[t] \in Nat /\ calls[t] < MaxCalls /\ calls \in [Threads -> 0..MaxCalls]
        /\ calls' = [calls EXCEPT ![t] = calls[t] + 1]
    BY DEF BeansInv, Sizes, Call
  <2>2. calls[t] + 1 \in 0..MaxCalls
    BY <2>1, BeanBoundsAssumption
  <2> QED
    BY <2>1, <2>2
<1>8. Sizes'
  BY <1>2, <1>6, <1>7 DEF BeansInv, Sizes, Urls
<1>9. Locked'
  BY <1>2, <1>6, LockedKept DEF BeansInv
<1>10. Valued'
  BY <1>2 DEF BeansInv, Valued, Needs
<1>11. Paid'
  <2>1. RealFailed' = RealFailed
    BY <1>2 DEF RealFailed, Gap
  <2>2. Paid /\ faults \in Nat
    BY DEF BeansInv, Sizes
  <2> QED
    BY <1>2, <1>6, <2>1, <2>2, PaidLess
<1> QED
  BY <1>6, <1>8, <1>9, <1>10, <1>11 DEF BeansInv, Struct

LEMMA AskKeeps == ASSUME BeansInv, NEW t \in Threads, Ask(t) PROVE BeansInv'
<1> DEFINE n == Top(t).node
           d == Needs(n)[Top(t).next]
<1>1. /\ At(t, "init") /\ Top(t).next <= Len(Needs(n))
      /\ UNCHANGED <<profile, queueUrl, built, mutex, held, calls, remade, handed, failed, faults>>
  BY DEF Ask
<1>2. /\ Struct /\ stack[t] # <<>> /\ Top(t).pc = "init" /\ n \in Nodes /\ Top(t).next \in Nat \ {0}
  BY <1>1, AtFacts
<1>3. Needs(n) \in Seq(Nodes)
  BY <1>2, WiringFacts DEF Struct
<1>4. Top(t).next \in DOMAIN Needs(n) /\ d \in Nodes
  BY <1>1, <1>2, <1>3
<1>5. stack' = [stack EXCEPT ![t] = Append(stack[t], Entered(d))]
  BY DEF Ask
<1> HIDE DEF d
<1>6. d = Needs(Top(t).node)[Top(t).next]
  BY DEF d
<1>7. /\ Struct' /\ FramesOK' /\ Others(t) /\ stack' \in [Threads -> Seq(Frames)]
      /\ ~IsFailing(t)'
      /\ \A m, u : u \in Threads => (Builds(u, m)' <=> Builds(u, m))
  BY <1>1, <1>2, <1>4, <1>5, <1>6, PushKeeps
<1>8. Sizes'
  BY <1>1, <1>7 DEF BeansInv, Sizes, Urls
<1>9. Locked'
  BY <1>1, <1>7, LockedKept DEF BeansInv
<1>10. Valued'
  BY <1>1 DEF BeansInv, Valued, Needs
<1>11. Paid'
  <2>1. RealFailed' = RealFailed
    BY <1>1 DEF RealFailed, Gap
  <2>2. Paid /\ faults \in Nat
    BY DEF BeansInv, Sizes
  <2> QED
    BY <1>1, <1>7, <2>1, <2>2, PaidLess
<1> QED
  BY <1>7, <1>8, <1>9, <1>10, <1>11 DEF BeansInv, Struct

(* A node that has a value is returned to who asked for it. *)
LEMMA ReturnKeeps ==
    ASSUME BeansInv, UNCHANGED <<profile, queueUrl, built, mutex>>, NEW t \in Threads, stack[t] # <<>>,
           Returns(t), Top(t).node \in built
    PROVE  /\ Struct' /\ FramesOK' /\ Others(t) /\ stack' \in [Threads -> Seq(Frames)]
           /\ ~IsFailing(t)' /\ UNCHANGED <<handed, failed>>
           /\ \A n : Builds(t, n)' <=> Below(t, n)
           /\ \A n, u : u \in Threads \ {t} => (Builds(u, n)' <=> Builds(u, n))
<1> DEFINE n == Len(stack[t])
           below == stack[t][n - 1]
           f == [below EXCEPT !.next = @ + 1]
<1>1. Struct /\ n \in Nat \ {0}
  BY InvStruct, TopFacts DEF Struct
<1>2. Popped(t, f)
  BY <1>1, ReturnStack DEF Struct
<1>3. n > 1 => /\ f.node = below.node /\ f.pc = "init" /\ f.next = below.next + 1
  <2> SUFFICES ASSUME n > 1 PROVE f.node = below.node /\ f.pc = "init" /\ f.next = below.next + 1
    OBVIOUS
  <2>1. n - 1 \in 1..(n - 1) /\ n - 1 \in DOMAIN stack[t]
    BY <1>1 DEF Struct
  <2>2. below.pc = "init"
    BY <1>1, <2>1 DEF Struct, Nested
  <2>3. below \in Frames
    BY <1>1, <2>1 DEF Struct
  <2> HIDE DEF below
  <2> QED
    BY <2>2, <2>3 DEF Frames
<1>4. UNCHANGED <<handed, failed>>
  BY DEF Returns
<1> HIDE DEF f
<1>5. n > 1 => /\ f.node = below.node /\ f.pc \in {"init", "fail"}
               /\ f.next = below.next \/ (f.next = below.next + 1 /\ Top(t).node \in built)
  BY <1>3
<1>6. /\ Struct' /\ FramesOK' /\ Others(t) /\ stack' \in [Threads -> Seq(Frames)]
      /\ IsFailing(t)' <=> n > 1 /\ f.pc = "fail" /\ ~Gap(stack[t][1].node)
      /\ \A m : Builds(t, m)' <=> Below(t, m)
      /\ \A m, u : u \in Threads \ {t} => (Builds(u, m)' <=> Builds(u, m))
  BY <1>2, <1>5, PopKeeps
<1> HIDE DEF n, below
<1> QED
  BY <1>3, <1>4, <1>6

LEMMA CheckKeeps == ASSUME BeansInv, NEW t \in Threads, Check(t) PROVE BeansInv'
<1> DEFINE n == Top(t).node
<1>1. At(t, "check") /\ UNCHANGED <<profile, queueUrl, built, mutex, held, calls, remade, faults>>
  BY DEF Check
<1>2. /\ Struct /\ stack[t] # <<>> /\ Top(t).pc = "check" /\ n \in Nodes /\ Top(t).next \in Nat \ {0}
      /\ FrameOK(Top(t), Needs(n), built, mutex)
  BY <1>1, AtFacts
<1>3. /\ Struct' /\ FramesOK' /\ Others(t) /\ stack' \in [Threads -> Seq(Frames)]
      /\ ~IsFailing(t)' /\ UNCHANGED <<handed, failed>>
      /\ \A m, u : u \in Threads => (Builds(u, m)' <=> Builds(u, m))
  <2>1. \A m : Builds(t, m) <=> Below(t, m)
    BY <1>2, BuildsTop DEF Owning
  <2>2. CASE n \in built
    <3>1. Returns(t)
      BY <2>2 DEF Check
    <3>2. /\ Struct' /\ FramesOK' /\ Others(t) /\ stack' \in [Threads -> Seq(Frames)]
          /\ ~IsFailing(t)' /\ UNCHANGED <<handed, failed>>
          /\ \A m : Builds(t, m)' <=> Below(t, m)
          /\ \A m, u : u \in Threads \ {t} => (Builds(u, m)' <=> Builds(u, m))
      BY <1>1, <1>2, <2>2, <3>1, ReturnKeeps
    <3> QED
      BY <2>1, <3>2
  <2>3. CASE n \notin built
    <3>1. Goto(t, "mutex") /\ UNCHANGED <<handed, failed>> /\ "mutex" \in Points
      BY <2>3 DEF Check, Points
    <3>2. \A f \in Frames : f.node = n /\ f.next = Top(t).next /\ f.pc = "mutex" =>
              FrameOK(f, Needs(n), built', mutex')
      BY <1>1, <1>2 DEF FrameOK
    <3>3. /\ Struct' /\ FramesOK' /\ Others(t) /\ stack' \in [Threads -> Seq(Frames)]
          /\ IsFailing(t)' <=> "mutex" = "fail" /\ ~Gap(stack[t][1].node)
      BY <1>1, <1>2, <3>1, <3>2, GotoKeeps
    <3>4. \A m : /\ Builds(t, m)' <=> (Below(t, m) \/ ("mutex" \in Owning /\ m = Top(t).node))
                 /\ \A u \in Threads \ {t} : Builds(u, m)' <=> Builds(u, m)
      BY <1>2, <3>1, GotoBuilds
    <3> QED
      BY <2>1, <3>1, <3>3, <3>4 DEF Owning
  <2> QED
    BY <2>2, <2>3
<1>4. Sizes'
  BY <1>1, <1>3 DEF BeansInv, Sizes, Urls
<1>5. Locked'
  BY <1>1, <1>3, LockedKept DEF BeansInv
<1>6. Valued'
  BY <1>1, <1>3 DEF BeansInv, Valued, Needs
<1>7. Paid'
  <2>1. RealFailed' = RealFailed
    BY <1>1, <1>3 DEF RealFailed, Gap
  <2>2. Paid /\ faults \in Nat
    BY DEF BeansInv, Sizes
  <2> QED
    BY <1>1, <1>3, <2>1, <2>2, PaidLess
<1> QED
  BY <1>3, <1>4, <1>5, <1>6, <1>7 DEF BeansInv, Struct

LEMMA ReadMutexKeeps == ASSUME BeansInv, NEW t \in Threads, ReadMutex(t) PROVE BeansInv'
<1> DEFINE n == Top(t).node
<1>1. At(t, "mutex") /\ UNCHANGED <<profile, queueUrl, built, held, calls, remade, faults>>
  BY DEF ReadMutex
<1>2. /\ Struct /\ stack[t] # <<>> /\ Top(t).pc = "mutex" /\ n \in Nodes /\ Top(t).next \in Nat \ {0}
      /\ FrameOK(Top(t), Needs(n), built, mutex)
  BY <1>1, AtFacts
<1>3. /\ Struct' /\ FramesOK' /\ Others(t) /\ stack' \in [Threads -> Seq(Frames)]
      /\ ~IsFailing(t)' /\ UNCHANGED <<handed, failed>> /\ mutex \subseteq mutex' /\ mutex' \subseteq Nodes
      /\ \A m, u : u \in Threads => (Builds(u, m)' <=> Builds(u, m))
  <2>1. \A m : Builds(t, m) <=> Below(t, m)
    BY <1>2, BuildsTop DEF Owning
  <2>2. CASE ~(n \in mutex \/ (n \in Beans /\ n \notin built))
    <3>1. Returns(t) /\ UNCHANGED mutex
      BY <2>2 DEF ReadMutex
    <3>2. n \in built
      BY <1>2, <2>2 DEF Nodes, BeansInv, Valued
    <3>3. /\ Struct' /\ FramesOK' /\ Others(t) /\ stack' \in [Threads -> Seq(Frames)]
          /\ ~IsFailing(t)' /\ UNCHANGED <<handed, failed>>
          /\ \A m : Builds(t, m)' <=> Below(t, m)
          /\ \A m, u : u \in Threads \ {t} => (Builds(u, m)' <=> Builds(u, m))
      BY <1>1, <1>2, <3>1, <3>2, ReturnKeeps
    <3> QED
      BY <2>1, <3>1, <3>3 DEF BeansInv, Sizes
  <2>3. CASE n \in mutex \/ (n \in Beans /\ n \notin built)
    <3>1. Goto(t, "lock") /\ mutex' = mutex \cup {n} /\ UNCHANGED <<handed, failed>> /\ "lock" \in Points
      BY <2>3 DEF ReadMutex, Points
    <3>2. \A f \in Frames : f.node = n /\ f.next = Top(t).next /\ f.pc = "lock" =>
              FrameOK(f, Needs(n), built', mutex')
      BY <1>1, <1>2, <3>1 DEF FrameOK
    <3>3. /\ Struct' /\ FramesOK' /\ Others(t) /\ stack' \in [Threads -> Seq(Frames)]
          /\ IsFailing(t)' <=> "lock" = "fail" /\ ~Gap(stack[t][1].node)
      BY <1>1, <1>2, <3>1, <3>2, GotoKeeps
    <3>4. \A m : /\ Builds(t, m)' <=> (Below(t, m) \/ ("lock" \in Owning /\ m = Top(t).node))
                 /\ \A u \in Threads \ {t} : Builds(u, m)' <=> Builds(u, m)
      BY <1>2, <3>1, GotoBuilds
    <3> QED
      BY <1>2, <2>1, <3>1, <3>3, <3>4 DEF Owning, BeansInv, Sizes
  <2> QED
    BY <2>2, <2>3
<1>4. Sizes'
  BY <1>1, <1>3 DEF BeansInv, Sizes, Urls
<1>5. Locked'
  BY <1>1, <1>3, LockedKept DEF BeansInv
<1>6. Valued'
  BY <1>1, <1>3 DEF BeansInv, Valued, Needs
<1>7. Paid'
  <2>1. RealFailed' = RealFailed
    BY <1>1, <1>3 DEF RealFailed, Gap
  <2>2. Paid /\ faults \in Nat
    BY DEF BeansInv, Sizes
  <2> QED
    BY <1>1, <1>3, <2>1, <2>2, PaidLess
<1> QED
  BY <1>3, <1>4, <1>5, <1>6, <1>7 DEF BeansInv, Struct

LEMMA LockKeeps == ASSUME BeansInv, NEW t \in Threads, Lock(t) PROVE BeansInv'
<1> DEFINE n == Top(t).node
<1>1. At(t, "lock") /\ UNCHANGED <<profile, queueUrl, built, mutex, calls, remade, faults>>
  BY DEF Lock
<1>2. /\ Struct /\ stack[t] # <<>> /\ Top(t).pc = "lock" /\ n \in Nodes /\ Top(t).next \in Nat \ {0}
      /\ FrameOK(Top(t), Needs(n), built, mutex)
      /\ n \in Reach(profile, queueUrl)[stack[t][1].node] /\ stack[t][1].node \in Calls[profile]
  BY <1>1, AtFacts
<1>3. \A m : (Builds(t, m) <=> Below(t, m)) /\ ~Below(t, n)
  BY <1>2, BuildsTop DEF Owning
<1>4. Holders(n) # {t}
  BY <1>2, <1>3 DEF Holders, BeansInv, Locked
<1>5. /\ Holders(n) = {} /\ held' = held \cup {<<n, t>>}
      /\ Goto(t, UnderLock(n)) /\ UNCHANGED <<handed, failed>>
  BY <1>4 DEF Lock
<1> DEFINE p == UnderLock(n)
<1>6. /\ p \in Owning /\ p \in Points
      /\ p = "unlock" => n \in built
      /\ p = "init" => n \notin built
      /\ p # "clear"
      /\ p = "fail" => Disabled(n)
  <2>1. n \in mutex \cup built
    BY <1>2 DEF FrameOK
  <2> QED
    BY <2>1 DEF UnderLock, Owning, Points
<1>7. Goto(t, p)
  BY <1>5
<1> HIDE DEF p
<1>8. \A f \in Frames : f.node = n /\ f.next = Top(t).next /\ f.pc = p => FrameOK(f, Needs(n), built', mutex')
  BY <1>1, <1>2, <1>6 DEF FrameOK, Owning
<1>9. /\ Struct' /\ FramesOK' /\ Others(t) /\ stack' \in [Threads -> Seq(Frames)]
      /\ IsFailing(t)' <=> p = "fail" /\ ~Gap(stack[t][1].node)
  BY <1>1, <1>2, <1>6, <1>7, <1>8, GotoKeeps
<1>10. ~IsFailing(t)'
  <2>1. Gap(stack[t][1].node) \/ ~Disabled(n)
    BY <1>2, CallFacts DEF Struct
  <2> QED
    BY <1>6, <1>9, <2>1
<1>11. \A m : /\ Builds(t, m)' <=> (Below(t, m) \/ m = n)
              /\ \A u \in Threads \ {t} : Builds(u, m)' <=> Builds(u, m)
  BY <1>2, <1>6, <1>7, GotoBuilds
<1>12. Locked'
  <2>1. ASSUME NEW m \in Nodes, NEW u \in Threads
        PROVE  <<m, u>> \in held' <=> Builds(u, m)'
    BY <1>3, <1>5, <1>11 DEF BeansInv, Locked
  <2>2. ASSUME NEW m \in Nodes, NEW u \in Threads, NEW v \in Threads, <<m, u>> \in held', <<m, v>> \in held'
        PROVE  u = v
    BY <1>5, <2>2 DEF BeansInv, Locked, Holders
  <2> QED
    BY <2>1, <2>2 DEF Locked
<1>13. Sizes'
  <2>1. held' \subseteq Nodes \X Threads
    BY <1>2, <1>5 DEF BeansInv, Sizes
  <2> QED
    BY <1>1, <1>5, <1>9, <2>1 DEF BeansInv, Sizes, Urls
<1>14. Valued'
  BY <1>1, <1>5 DEF BeansInv, Valued, Needs
<1>15. Paid'
  <2>1. RealFailed' = RealFailed
    BY <1>1, <1>5 DEF RealFailed, Gap
  <2>2. Paid /\ faults \in Nat
    BY DEF BeansInv, Sizes
  <2> QED
    BY <1>1, <1>9, <1>10, <2>1, <2>2, PaidLess
<1> QED
  BY <1>9, <1>12, <1>13, <1>14, <1>15 DEF BeansInv, Struct

LEMMA ConstructKeeps == ASSUME BeansInv, NEW t \in Threads, Construct(t) PROVE BeansInv'
<1> DEFINE n == Top(t).node
<1>1. /\ At(t, "init") /\ Ready(t)
      /\ UNCHANGED <<profile, queueUrl, mutex, held, calls, handed, failed>>
  BY DEF Construct
<1>2. /\ Struct /\ stack[t] # <<>> /\ Top(t).pc = "init" /\ n \in Nodes /\ Top(t).next \in Nat \ {0}
      /\ FrameOK(Top(t), Needs(n), built, mutex)
  BY <1>1, AtFacts
<1>3. n \notin built /\ \A k \in DOMAIN Needs(n) : Needs(n)[k] \in built
  <2>1. Needs(n) \in Seq(Nodes)
    BY <1>2, WiringFacts DEF Struct
  <2>2. \A k \in DOMAIN Needs(n) : k < Top(t).next
    BY <1>1, <1>2, <2>1 DEF Ready
  <2> QED
    BY <1>2, <2>2 DEF FrameOK
<1>4. \A m : Builds(t, m) <=> (Below(t, m) \/ m = n)
  BY <1>2, BuildsTop DEF Owning
<1>5. /\ Paid /\ faults \in 0..MaxFaults /\ Locked /\ Valued /\ Sizes
  BY DEF BeansInv, Sizes
<1>6. CASE /\ built' = built \cup {n} /\ remade' = remade \cup ({n} \cap built)
           /\ Goto(t, "clear") /\ UNCHANGED faults
  <2>1. "clear" \in Points /\ "clear" \in Owning /\ Top(t).pc \in Owning
    BY <1>2 DEF Points, Owning
  <2>2. \A f \in Frames : f.node = n /\ f.next = Top(t).next /\ f.pc = "clear" =>
            FrameOK(f, Needs(n), built', mutex')
    BY <1>2, <1>3, <1>6 DEF FrameOK
  <2>3. built \subseteq built' /\ mutex \cup built \subseteq mutex' \cup built' /\ built' \subseteq built \cup {Top(t).node}
    BY <1>1, <1>6
  <2>4. /\ Struct' /\ FramesOK' /\ Others(t) /\ stack' \in [Threads -> Seq(Frames)]
        /\ IsFailing(t)' <=> "clear" = "fail" /\ ~Gap(stack[t][1].node)
    BY <1>1, <1>2, <1>6, <2>1, <2>2, <2>3, GotoKeeps
  <2>5. \A m, u : u \in Threads => (Builds(u, m)' <=> Builds(u, m))
    <3>1. \A m : /\ Builds(t, m)' <=> (Below(t, m) \/ ("clear" \in Owning /\ m = Top(t).node))
                 /\ \A u \in Threads \ {t} : Builds(u, m)' <=> Builds(u, m)
      BY <1>2, <1>6, <2>1, GotoBuilds
    <3> QED
      BY <1>4, <2>1, <3>1
  <2>6. Sizes'
    BY <1>1, <1>2, <1>5, <1>6, <2>4 DEF Sizes, Urls
  <2>7. Locked'
    BY <1>1, <1>5, <2>5, LockedKept
  <2>8. Valued'
    <3>1. \A m : Needs(m)' = Needs(m)
      BY <1>1 DEF Needs
    <3>2. remade' = {}
      BY <1>3, <1>5, <1>6 DEF Valued
    <3> QED
      BY <1>1, <1>3, <1>5, <1>6, <3>1, <3>2 DEF Valued
  <2>9. Paid'
    <3>1. RealFailed' = RealFailed
      BY <1>1 DEF RealFailed, Gap
    <3>2. ~IsFailing(t)' /\ faults \in Nat
      BY <1>5, <2>4
    <3> QED
      BY <1>1, <1>5, <1>6, <2>4, <3>1, <3>2, PaidLess
  <2> QED
    BY <2>4, <2>6, <2>7, <2>8, <2>9 DEF BeansInv, Struct
<1>7. CASE /\ faults < MaxFaults /\ faults' = faults + 1
           /\ Goto(t, "fail") /\ UNCHANGED <<built, remade>>
  <2>1. "fail" \in Points /\ "fail" \in Owning
    BY DEF Points, Owning
  <2>2. \A f \in Frames : f.node = n /\ f.next = Top(t).next /\ f.pc = "fail" =>
            FrameOK(f, Needs(n), built', mutex')
    BY <1>1, <1>2, <1>7 DEF FrameOK
  <2>3. /\ Struct' /\ FramesOK' /\ Others(t) /\ stack' \in [Threads -> Seq(Frames)]
    BY <1>1, <1>2, <1>7, <2>1, <2>2, GotoKeeps
  <2>4. \A m, u : u \in Threads => (Builds(u, m)' <=> Builds(u, m))
    <3>1. \A m : /\ Builds(t, m)' <=> (Below(t, m) \/ ("fail" \in Owning /\ m = Top(t).node))
                 /\ \A u \in Threads \ {t} : Builds(u, m)' <=> Builds(u, m)
      BY <1>2, <1>7, <2>1, GotoBuilds
    <3> QED
      BY <1>4, <2>1, <3>1
  <2>5. faults' \in 0..MaxFaults
    BY <1>5, <1>7, BeanBoundsAssumption
  <2>6. Sizes'
    BY <1>1, <1>5, <1>7, <2>3, <2>5 DEF Sizes, Urls
  <2>7. Locked'
    BY <1>1, <1>5, <2>4, LockedKept
  <2>8. Valued'
    BY <1>1, <1>5, <1>7 DEF Valued, Needs
  <2>9. Paid'
    BY <1>1, <1>5, <1>7, <2>3, PaidFault
  <2> QED
    BY <2>3, <2>6, <2>7, <2>8, <2>9 DEF BeansInv, Struct
<1> QED
  BY <1>6, <1>7 DEF Construct

LEMMA ClearKeeps == ASSUME BeansInv, NEW t \in Threads, Clear(t) PROVE BeansInv'
<1> DEFINE n == Top(t).node
<1>1. /\ At(t, "clear") /\ Goto(t, "unlock") /\ "unlock" \in Points /\ "unlock" \in Owning
      /\ UNCHANGED <<profile, queueUrl, built, held, calls, remade, handed, failed, faults>>
      /\ mutex' \subseteq mutex /\ mutex \subseteq mutex' \cup {n}
  BY DEF Clear, Points, Owning
<1>2. /\ Struct /\ stack[t] # <<>> /\ Top(t).pc = "clear" /\ n \in Nodes /\ Top(t).next \in Nat \ {0}
      /\ FrameOK(Top(t), Needs(n), built, mutex)
  BY <1>1, AtFacts
<1>3. n \in built
  BY <1>2 DEF FrameOK
<1>4. /\ Struct' /\ FramesOK' /\ Others(t) /\ stack' \in [Threads -> Seq(Frames)]
      /\ IsFailing(t)' <=> "unlock" = "fail" /\ ~Gap(stack[t][1].node)
  <2>1. \A f \in Frames : f.node = n /\ f.next = Top(t).next /\ f.pc = "unlock" =>
            FrameOK(f, Needs(n), built', mutex')
    BY <1>1, <1>2, <1>3 DEF FrameOK
  <2>2. mutex \cup built \subseteq mutex' \cup built'
    BY <1>1, <1>3
  <2> QED
    BY <1>1, <1>2, <2>1, <2>2, GotoKeeps
<1>5. \A m, u : u \in Threads => (Builds(u, m)' <=> Builds(u, m))
  <2>1. \A m : Builds(t, m) <=> (Below(t, m) \/ m = n)
    BY <1>2, BuildsTop DEF Owning
  <2>2. \A m : /\ Builds(t, m)' <=> (Below(t, m) \/ ("unlock" \in Owning /\ m = Top(t).node))
               /\ \A u \in Threads \ {t} : Builds(u, m)' <=> Builds(u, m)
    BY <1>1, <1>2, GotoBuilds
  <2> QED
    BY <1>1, <2>1, <2>2
<1>6. Sizes'
  BY <1>1, <1>4 DEF BeansInv, Sizes, Urls
<1>7. Locked'
  BY <1>1, <1>5, LockedKept DEF BeansInv
<1>8. Valued'
  <2>1. \A m : Needs(m)' = Needs(m)
    BY <1>1 DEF Needs
  <2>2. DOMAIN Suppliers \subseteq mutex' \cup built'
    BY <1>1, <1>3 DEF BeansInv, Valued
  <2> QED
    BY <1>1, <2>1, <2>2 DEF BeansInv, Valued
<1>9. Paid'
  <2>1. RealFailed' = RealFailed
    BY <1>1 DEF RealFailed, Gap
  <2>2. Paid /\ faults \in Nat /\ ~IsFailing(t)'
    BY <1>4 DEF BeansInv, Sizes
  <2> QED
    BY <1>1, <1>4, <2>1, <2>2, PaidLess
<1> QED
  BY <1>4, <1>6, <1>7, <1>8, <1>9 DEF BeansInv, Struct

(* The lock of the innermost node is released with its frame. *)
LEMMA LockedReleased ==
    ASSUME BeansInv, NEW t \in Threads, stack[t] # <<>>, Top(t).pc \in Owning,
           held' = held \ {<<Top(t).node, t>>},
           \A m : Builds(t, m)' <=> Below(t, m),
           \A m, u : u \in Threads \ {t} => (Builds(u, m)' <=> Builds(u, m))
    PROVE  Locked' /\ held' \subseteq Nodes \X Threads
<1>1. \A m : (Builds(t, m) <=> (Below(t, m) \/ m = Top(t).node)) /\ ~Below(t, Top(t).node)
  BY InvStruct, BuildsTop
<1>2. ASSUME NEW m \in Nodes, NEW u \in Threads
      PROVE  <<m, u>> \in held' <=> Builds(u, m)'
  BY <1>1 DEF BeansInv, Locked
<1>3. ASSUME NEW m \in Nodes, NEW u \in Threads, NEW v \in Threads, <<m, u>> \in held', <<m, v>> \in held'
      PROVE  u = v
  BY <1>3 DEF BeansInv, Locked
<1> QED
  BY <1>2, <1>3 DEF BeansInv, Sizes, Locked

LEMMA UnlockKeeps == ASSUME BeansInv, NEW t \in Threads, Unlock(t) PROVE BeansInv'
<1> DEFINE n == Top(t).node
<1>1. /\ At(t, "unlock") /\ held' = held \ {<<n, t>>} /\ Returns(t)
      /\ UNCHANGED <<profile, queueUrl, built, mutex, calls, remade, faults>>
  BY DEF Unlock
<1>2. /\ Struct /\ stack[t] # <<>> /\ Top(t).pc = "unlock" /\ n \in Nodes
      /\ FrameOK(Top(t), Needs(n), built, mutex)
  BY <1>1, AtFacts
<1>3. n \in built /\ Top(t).pc \in Owning
  BY <1>2 DEF FrameOK, Owning
<1>4. /\ Struct' /\ FramesOK' /\ Others(t) /\ stack' \in [Threads -> Seq(Frames)]
      /\ ~IsFailing(t)' /\ UNCHANGED <<handed, failed>>
      /\ \A m : Builds(t, m)' <=> Below(t, m)
      /\ \A m, u : u \in Threads \ {t} => (Builds(u, m)' <=> Builds(u, m))
  BY <1>1, <1>2, <1>3, ReturnKeeps
<1>5. Locked' /\ held' \subseteq Nodes \X Threads
  BY <1>1, <1>2, <1>3, <1>4, LockedReleased
<1>6. Sizes'
  BY <1>1, <1>4, <1>5 DEF BeansInv, Sizes, Urls
<1>7. Valued'
  BY <1>1, <1>4 DEF BeansInv, Valued, Needs
<1>8. Paid'
  <2>1. RealFailed' = RealFailed
    BY <1>1, <1>4 DEF RealFailed, Gap
  <2>2. Paid /\ faults \in Nat
    BY DEF BeansInv, Sizes
  <2> QED
    BY <1>1, <1>4, <2>1, <2>2, PaidLess
<1> QED
  BY <1>4, <1>5, <1>6, <1>7, <1>8 DEF BeansInv, Struct

LEMMA FailKeeps == ASSUME BeansInv, NEW t \in Threads, Fail(t) PROVE BeansInv'
<1> DEFINE n == Top(t).node
           len == Len(stack[t])
           below == stack[t][len - 1]
           f == [below EXCEPT !.pc = "fail"]
<1>1. /\ At(t, "fail") /\ held' = held \ {<<n, t>>} /\ Raises(t)
      /\ UNCHANGED <<profile, queueUrl, built, mutex, calls, remade, faults>>
  BY DEF Fail, Released
<1>2. /\ Struct /\ stack[t] # <<>> /\ Top(t).pc = "fail" /\ n \in Nodes
      /\ len \in Nat \ {0} /\ Top(t) = stack[t][len]
  BY <1>1, AtFacts
<1>3. Popped(t, f)
  BY <1>1, <1>2, RaiseStack DEF Struct
<1>4. len > 1 => /\ f.node = below.node /\ f.pc = "fail" /\ f.next = below.next
  <2> SUFFICES ASSUME len > 1 PROVE f.node = below.node /\ f.pc = "fail" /\ f.next = below.next
    OBVIOUS
  <2>1. len - 1 \in DOMAIN stack[t]
    BY <1>2 DEF Struct
  <2>2. below \in Frames
    BY <1>2, <2>1 DEF Struct
  <2> HIDE DEF below
  <2> QED
    BY <2>2 DEF Frames
<1>5. Top(t).pc \in Owning
  BY <1>2 DEF Owning
<1> HIDE DEF f
<1>6. /\ Struct' /\ FramesOK' /\ Others(t) /\ stack' \in [Threads -> Seq(Frames)]
      /\ IsFailing(t)' <=> len > 1 /\ f.pc = "fail" /\ ~Gap(stack[t][1].node)
      /\ \A m : Builds(t, m)' <=> Below(t, m)
      /\ \A m, u : u \in Threads \ {t} => (Builds(u, m)' <=> Builds(u, m))
  <2>1. len > 1 => /\ f.node = below.node /\ f.pc \in {"init", "fail"}
                   /\ f.next = below.next \/ (f.next = below.next + 1 /\ Top(t).node \in built)
    BY <1>4
  <2> QED
    BY <1>1, <1>2, <1>3, <2>1, PopKeeps
<1>7. Locked' /\ held' \subseteq Nodes \X Threads
  BY <1>1, <1>2, <1>5, <1>6, LockedReleased
<1>8. IsFailing(t) <=> ~Gap(stack[t][1].node)
  BY <1>2 DEF IsFailing
<1>9. /\ Front(stack[t]) = <<>> <=> len = 1
      /\ failed' = IF Front(stack[t]) = <<>> THEN failed \cup {<<t, n>>} ELSE failed
      /\ UNCHANGED handed
  <2>1. stack[t] \in Seq(Frames)
    BY <1>2 DEF Struct
  <2>2. Front(stack[t]) = <<>> <=> len = 1
    BY <1>2, <2>1, FrontFacts
  <2> QED
    BY <1>1, <2>2 DEF Raises
<1>10. failed' \subseteq Threads \X Nodes
  BY <1>2, <1>9 DEF BeansInv, Sizes
<1>11. Sizes'
  BY <1>1, <1>6, <1>7, <1>10 DEF BeansInv, Sizes, Urls
<1>12. Valued'
  BY <1>1, <1>9 DEF BeansInv, Valued, Needs
<1>13. Paid /\ faults \in Nat
  BY DEF BeansInv, Sizes
<1>14. Paid'
  <2>1. CASE len = 1
    <3>1. failed' = failed \cup {<<t, n>>} /\ n = stack[t][1].node /\ ~IsFailing(t)'
      BY <1>2, <1>6, <1>9, <2>1
    <3> QED
      BY <1>1, <1>6, <1>8, <1>13, <3>1, PaidFailed
  <2>2. CASE len # 1
    <3>1. RealFailed' = RealFailed /\ (IsFailing(t)' => IsFailing(t))
      BY <1>1, <1>6, <1>8, <1>9, <2>2 DEF RealFailed, Gap
    <3> QED
      BY <1>1, <1>6, <1>13, <3>1, PaidLess
  <2> QED
    BY <2>1, <2>2
<1> QED
  BY <1>6, <1>7, <1>11, <1>12, <1>14 DEF BeansInv, Struct

-----------------------------------------------------------------------------
LEMMA BeansInitInv == BeansInit => BeansInv
<1> SUFFICES ASSUME BeansInit PROVE BeansInv
  OBVIOUS
<1>1. \A t \in Threads : stack[t] = <<>> /\ Len(stack[t]) = 0 /\ DOMAIN stack[t] = {}
  BY DEF BeansInit
<1>2. stack \in [Threads -> Seq(Frames)] /\ calls \in [Threads -> 0..MaxCalls] /\ 0 \in 0..MaxFaults
  BY BeanBoundsAssumption DEF BeansInit
<1>3. Sizes
  BY <1>2 DEF BeansInit, Sizes, Nodes, Urls
<1>4. Nested /\ Descends /\ Reaching /\ FramesOK /\ Locked
  BY <1>1 DEF BeansInit, Nested, Descends, Reaching, FramesOK, Locked, Builds
<1>5. Valued
  BY DEF BeansInit, Valued
<1>6. Paid
  <2>1. Failing = {} /\ RealFailed = {}
    BY <1>1 DEF BeansInit, Failing, IsFailing, RealFailed
  <2>2. IsFiniteSet({}) /\ Cardinality({}) = 0
    BY FS_EmptySet
  <2>3. faults = 0
    BY DEF BeansInit
  <2> QED
    BY <2>1, <2>2, <2>3 DEF Paid
<1> QED
  BY <1>3, <1>4, <1>5, <1>6 DEF BeansInv

LEMMA BeansUnchanged == BeansInv /\ UNCHANGED beansVars => BeansInv'
<1> SUFFICES ASSUME BeansInv, UNCHANGED beansVars PROVE BeansInv'
  OBVIOUS
<1> USE DEF beansVars
<1>1. \A m : Needs(m)' = Needs(m) /\ (Gap(m)' <=> Gap(m))
  BY DEF Needs, Gap
<1>2. Sizes' /\ Valued' /\ Nested' /\ Descends' /\ Reaching'
  BY <1>1 DEF BeansInv, Sizes, Valued, Nested, Descends, Reaching, Urls
<1>3. Locked' /\ FramesOK'
  BY <1>1 DEF BeansInv, Locked, Builds, FramesOK
<1>4. Paid'
  <2>1. Failing' = Failing /\ RealFailed' = RealFailed
    BY <1>1 DEF Failing, IsFailing, RealFailed, Top
  <2> QED
    BY <2>1 DEF BeansInv, Paid
<1> QED
  BY <1>2, <1>3, <1>4 DEF BeansInv

LEMMA BeansSpecInv == BeansSpec => []BeansInv
<1>1. BeansInv /\ [BeansNext]_beansVars => BeansInv'
  <2> SUFFICES ASSUME BeansInv, [BeansNext]_beansVars PROVE BeansInv'
    OBVIOUS
  <2>1. ASSUME NEW t \in Threads, Call(t) \/ Step(t) PROVE BeansInv'
    BY <2>1, CallKeeps, CheckKeeps, ReadMutexKeeps, LockKeeps, AskKeeps, ConstructKeeps,
       ClearKeeps, UnlockKeeps, FailKeeps DEF Step
  <2>2. CASE UNCHANGED beansVars
    BY <2>2, BeansUnchanged
  <2> QED
    BY <2>1, <2>2 DEF BeansNext
<1> QED
  BY <1>1, BeansInitInv, PTL DEF BeansSpec

(* However many threads ask for beans for the first time at once, a value  *)
(* is made once and from what has values, and nobody is handed a node      *)
(* before it has one (get_instance, __execute_with_lock, get).             *)
THEOREM MadeOnceFromWholeHolds == BeansSpec => []MadeOnceFromWhole
<1>1. BeansInv => MadeOnceFromWhole
  <2> SUFFICES ASSUME BeansInv PROVE MadeOnceFromWhole
    OBVIOUS
  <2>1. \A t \in Threads : \A i \in DOMAIN stack[t] : stack[t][i] \in Frames
    BY DEF BeansInv, Sizes
  <2>2. BeansTypeOK
    <3>1. queueUrl \in BOOLEAN
      BY DEF BeansInv, Sizes, Urls
    <3> QED
      BY <2>1, <3>1 DEF BeansInv, Sizes, Valued, BeansTypeOK
  <2>3. ASSUME NEW n \in built PROVE ToSet(Needs(n)) \subseteq built
    BY DEF BeansInv, Valued, ToSet
  <2> QED
    BY <2>2, <2>3 DEF BeansInv, Valued, MadeOnceFromWhole
<1> QED
  BY <1>1, BeansSpecInv, PTL

(* Of the calls outside the gap at most one raises for each loader that    *)
(* failed (BeanInitializationException goes to the thread that ran it).    *)
THEOREM FailuresPaidForHolds == BeansSpec => []FailuresPaidFor
<1>1. BeansInv => FailuresPaidFor
  <2> SUFFICES ASSUME BeansInv PROVE FailuresPaidFor
    OBVIOUS
  <2> DEFINE r == RealFailed
             x == Failing
  <2>1. Cardinality(r) \in Nat /\ Cardinality(x) \in Nat /\ faults \in Nat
        /\ Cardinality(r) + Cardinality(x) <= faults
    BY FS_CardinalityType DEF BeansInv, Paid, Sizes
  <2> HIDE DEF r, x
  <2>2. Cardinality(r) <= faults
    BY <2>1
  <2> QED
    BY <2>2 DEF r, RealFailed, FailuresPaidFor
<1> QED
  BY <1>1, BeansSpecInv, PTL

LEMMA Least ==
    ASSUME NEW S, S \subseteq Nat, S # {}
    PROVE  \E x \in S : \A y \in S : x <= y
<1>1. IsWellFoundedOn(OpToRel(<, Nat), Nat)
  BY NatLessThanWellFounded
<1> DEFINE R == OpToRel(<, Nat)
<1> HIDE DEF R
<1>2. IsWellFoundedOn(R, Nat)
  BY <1>1 DEF R
<1>3. PICK x \in S : \A y \in S : ~(<<y, x>> \in R)
  BY <1>2, WFMin
<1>4. \A y \in Nat, z \in Nat : y < z => <<y, z>> \in R
  BY DEF R, OpToRel
<1>5. ASSUME NEW y \in S PROVE x <= y
  <2>1. x \in Nat /\ y \in Nat /\ ~(<<y, x>> \in R)
    BY <1>3
  <2>2. ~(y < x)
    BY <1>4, <2>1
  <2> QED
    BY <2>1, <2>2
<1> QED
  BY <1>5

(* Who waits for a lock waits for a thread that is building that bean, and *)
(* some call goes on: of those that wait, the one that waits for the       *)
(* deepest bean waits for a thread that does not.                          *)
THEOREM CallsEndHolds == BeansSpec => []CallsEnd
<1>1. BeansInv => CallsEnd
  <2> SUFFICES ASSUME BeansInv, NEW t \in Threads, Waits(t)
               PROVE  /\ \A u \in Holders(Top(t).node) : \E i \in DOMAIN stack[u] : stack[u][i].node = Top(t).node
                      /\ \E u \in Threads : stack[u] # <<>> /\ ~Waits(u)
    BY DEF CallsEnd
  <2>1. ASSUME NEW v \in Threads, Waits(v)
        PROVE  /\ Struct /\ stack[v] # <<>> /\ Top(v).pc = "lock" /\ Top(v).node \in Nodes
               /\ Depth[Top(v).node] \in Nat
    <3>1. Struct /\ stack[v] # <<>> /\ Top(v).pc = "lock" /\ Top(v).node \in Nodes
      BY <2>1, AtFacts DEF Waits
    <3> QED
      BY <3>1, WiringFacts DEF Struct
  <2>2. \A u \in Holders(Top(t).node) : Builds(u, Top(t).node)
    BY <2>1 DEF Holders, BeansInv, Locked
  <2>3. \A u \in Holders(Top(t).node) : \E i \in DOMAIN stack[u] : stack[u][i].node = Top(t).node
    BY <2>2 DEF Builds
  <2>4. ASSUME \A u \in Threads : stack[u] # <<>> => Waits(u) PROVE FALSE
    <3> DEFINE Depths == {Depth[Top(u).node] : u \in {u \in Threads : Waits(u)}}
    <3>1. Depths \subseteq Nat /\ Depths # {}
      BY <2>1
    <3> HIDE DEF Depths
    <3>2. PICK d \in Depths : \A e \in Depths : d <= e
      BY <3>1, Least
    <3>3. PICK v \in Threads : Waits(v) /\ d = Depth[Top(v).node]
      BY DEF Depths
    <3>4. PICK u \in Holders(Top(v).node) : u # v
      BY <3>3 DEF Waits
    <3>5. u \in Threads /\ Builds(u, Top(v).node)
      BY <2>1, <3>3, <3>4 DEF Holders, BeansInv, Locked
    <3>6. stack[u] # <<>>
      <4>1. \E i \in DOMAIN stack[u] : TRUE
        BY <3>5 DEF Builds
      <4>2. stack[u] \in Seq(Frames)
        BY <3>5 DEF BeansInv, Sizes
      <4> QED
        BY <4>1, <4>2
    <3>7. Waits(u) /\ Struct /\ Top(u).pc = "lock" /\ Depth[Top(u).node] \in Nat
      BY <2>1, <2>4, <3>5, <3>6
    <3>8. Below(u, Top(v).node)
      BY <3>5, <3>6, <3>7, BuildsTop DEF Owning
    <3>9. Depth[Top(u).node] < Depth[Top(v).node]
      <4>1. PICK i \in 1..(Len(stack[u]) - 1) : stack[u][i].node = Top(v).node
        BY <3>8 DEF Below
      <4>2. /\ Len(stack[u]) \in Nat \ {0} /\ DOMAIN stack[u] = 1..Len(stack[u])
            /\ Top(u) = stack[u][Len(stack[u])]
        BY <3>5, <3>6, <3>7, TopFacts DEF Struct
      <4>3. i \in DOMAIN stack[u] /\ Len(stack[u]) \in DOMAIN stack[u] /\ i < Len(stack[u])
        BY <4>2
      <4> QED
        BY <3>5, <3>7, <4>1, <4>2, <4>3 DEF Struct, Descends
    <3>10. Depth[Top(u).node] \in Depths
      BY <3>5, <3>7 DEF Depths
    <3>11. d <= Depth[Top(u).node] /\ d \in Nat
      BY <3>1, <3>2, <3>10
    <3> QED
      BY <3>3, <3>7, <3>9, <3>11
  <2> QED
    BY <2>3, <2>4
<1> QED
  BY <1>1, BeansSpecInv, PTL
=============================================================================
