---------------------------- MODULE ResourceLock ----------------------------
(***************************************************************************)
(* The lease that every exclusive activity of the shim service takes: one  *)
(* row {resourceName, expireAt} of the ResourceLock table, contended for   *)
(* by Lambda invocations (repos/aws/aws_resource_lock.py), and the thread  *)
(* that keeps a lease alive (_AutoRefreshLockImpl, repos/resource_lock.py).*)
(*                                                                         *)
(* One resource name is modelled; names do not interact.  Every DynamoDB   *)
(* request is one step, so the requests of two clients interleave freely.  *)
(* Time advances in half seconds (ShimTime).  Each client reads its own    *)
(* clock, which runs ahead of the reference time by a constant offset of   *)
(* at most MaxSkew half seconds.                                           *)
(***************************************************************************)
EXTENDS ShimTime

CONSTANTS
    Clients,        \* Lambda invocations that use the lock
    Refreshers,     \* those that hold it through an AutoRefreshLock
    Blocking,       \* those that call acquire (retry until obtained)
    LeaseSeconds,   \* expire_seconds / refresh_seconds of this lock name
    Tries,          \* the bound of the retry decorator on try_acquire
    MaxSkew,        \* largest difference of two clients' clocks, half seconds
    MaxTime         \* bound on the reference time, half seconds

ASSUME ClientsAssumption == Refreshers \subseteq Clients /\ Blocking \subseteq Clients
(* The assertion at the top of try_acquire. *)
ASSUME LeaseAssumption == LeaseSeconds \in 1..879
ASSUME TriesAssumption == Tries \in Nat \ {0}
(* One second: what the grace period of try_acquire makes up for. *)
ASSUME SkewAssumption == MaxSkew \in 0..2
ASSUME TimeAssumption == MaxTime \in Nat

VARIABLES
    time,       \* reference time, in half seconds
    offset,     \* how far each client's clock is ahead
    row,        \* expireAt of the row, or Absent
    pc,         \* where each client is
    local,      \* each client's local variables in try_acquire and __refresher
    timeoutAt,  \* _LockImpl.timeout_at
    recreated   \* history: __refresher has re-created a lost row

vars == <<time, offset, row, pc, local, timeoutAt, recreated>>

Absent == -1

PCs == {"idle", "create", "find", "recreate", "patch", "wait",
        "held", "refreshCreate", "lost"}

(* now, target_time and current.timeout_at of try_acquire, and the number  *)
(* of attempts its retry decorator has made; cleared when they go out of   *)
(* scope.                                                                  *)
Locals == [now : Nat, target : Nat, seen : Nat, tries : 0..Tries]
NoLocals == [now |-> 0, target |-> 0, seen |-> 0, tries |-> 0]

Clock(c) == time + offset[c]

(* The client is between obtaining the lock and releasing it. *)
Holding(c) == pc[c] \in {"held", "refreshCreate", "lost"}

(* The client holds a lease that has not run out on its own clock. *)
Live(c) == Holding(c) /\ Seconds(Clock(c)) < timeoutAt[c]

TypeOK ==
    /\ time \in 0..MaxTime
    /\ offset \in [Clients -> 0..MaxSkew]
    /\ row \in Nat \cup {Absent}
    /\ pc \in [Clients -> PCs]
    /\ local \in [Clients -> Locals]
    /\ timeoutAt \in [Clients -> Nat]
    /\ recreated \in BOOLEAN

Init ==
    /\ time = 0
    /\ offset \in [Clients -> 0..MaxSkew]
    /\ row = Absent
    /\ pc = [c \in Clients |-> "idle"]
    /\ local = [c \in Clients |-> NoLocals]
    /\ timeoutAt = [c \in Clients |-> 0]
    /\ recreated = FALSE

-----------------------------------------------------------------------------
(* try_acquire *)

(* The head of try_acquire, on its n-th attempt: both clock reads, then on *)
(* to the first create.                                                    *)
Enter(c, n) ==
    /\ pc' = [pc EXCEPT ![c] = "create"]
    /\ local' = [local EXCEPT ![c] =
                    [now |-> Seconds(Clock(c)),
                     target |-> SecondsInFuture(Clock(c), LeaseSeconds),
                     seen |-> 0,
                     tries |-> n]]

(* try_acquire returns a _LockImpl carrying target_time, which it has just *)
(* written to the row.                                                     *)
Obtain(c) ==
    /\ row' = local[c].target
    /\ pc' = [pc EXCEPT ![c] = "held"]
    /\ timeoutAt' = [timeoutAt EXCEPT ![c] = local[c].target]
    /\ local' = [local EXCEPT ![c] = NoLocals]

(* try_acquire returns None or lets OptimisticLockException out: acquire   *)
(* sleeps and calls it again, any other caller gives up.                   *)
GiveUp(c) ==
    /\ pc' = [pc EXCEPT ![c] = IF c \in Blocking THEN "wait" ELSE "idle"]
    /\ local' = [local EXCEPT ![c] = NoLocals]

(* A client calls try_acquire, or acquire calls it again. *)
TryAcquire(c) ==
    /\ pc[c] \in {"idle", "wait"}
    /\ Enter(c, 1)
    /\ UNCHANGED <<time, offset, row, timeoutAt, recreated>>

(* The first conditional put. *)
Create(c) ==
    /\ pc[c] = "create"
    /\ \/ row = Absent /\ Obtain(c)
       \/ /\ row # Absent
          /\ pc' = [pc EXCEPT ![c] = "find"]
          /\ UNCHANGED <<row, local, timeoutAt>>
    /\ UNCHANGED <<time, offset, recreated>>

(* Faults for RunOut: the grace period dropped; no row ever expires. *)
RunOutWithoutGrace(c) == row <= local[c].now
NeverRunsOut(c) == FALSE

(* Whether try_acquire may take over the row it finds: it gives up on      *)
(* "current.timeout_at >= now", a grace period of one second.              *)
RunOut(c) == row < local[c].now

(* The consistent read. *)
Find(c) ==
    /\ pc[c] = "find"
    /\ \/ /\ row = Absent
          /\ pc' = [pc EXCEPT ![c] = "recreate"]
          /\ UNCHANGED local
       \/ row # Absent /\ ~RunOut(c) /\ GiveUp(c)
       \/ /\ row # Absent /\ RunOut(c)
          /\ pc' = [pc EXCEPT ![c] = "patch"]
          /\ local' = [local EXCEPT ![c].seen = row]
    /\ UNCHANGED <<time, offset, row, timeoutAt, recreated>>

(* "Try the create again": the row was gone when find read it. *)
Recreate(c) ==
    /\ pc[c] = "recreate"
    /\ \/ row = Absent /\ Obtain(c)
       \/ row # Absent /\ GiveUp(c) /\ UNCHANGED <<row, timeoutAt>>
    /\ UNCHANGED <<time, offset, recreated>>

(* A fault for Retry: the bound of the decorator dropped. *)
RetryForever(c) == Enter(c, local[c].tries + 1)

(* The retry decorator, on OptimisticLockException. *)
Retry(c) ==
    \/ local[c].tries < Tries /\ Enter(c, local[c].tries + 1)
    \/ local[c].tries = Tries /\ GiveUp(c)

(* patch_with_condition on the expireAt that was read. *)
Patch(c) ==
    /\ pc[c] = "patch"
    /\ \/ row = local[c].seen /\ Obtain(c)
       \/ row # local[c].seen /\ Retry(c) /\ UNCHANGED <<row, timeoutAt>>
    /\ UNCHANGED <<time, offset, recreated>>

-----------------------------------------------------------------------------
(* The lock object *)

(* A fault for Ours: only the existence of the row is checked. *)
Anyones(c) == row # Absent

(* The condition of __refresher's patch and of __releaser's delete. *)
Ours(c) == row = timeoutAt[c]

(* __refresher, called by the worker thread under the mutex of             *)
(* _AutoRefreshLockImpl: patch conditioned on our own expireAt.            *)
Refresh(c) ==
    LET t == SecondsInFuture(Clock(c), LeaseSeconds) IN
    /\ c \in Refreshers
    /\ pc[c] = "held"
    /\ \/ /\ Ours(c)
          /\ row' = t
          /\ timeoutAt' = [timeoutAt EXCEPT ![c] = t]
          /\ UNCHANGED <<pc, local>>
       \/ /\ ~Ours(c)
          /\ pc' = [pc EXCEPT ![c] = "refreshCreate"]
          /\ local' = [local EXCEPT ![c].target = t]
          /\ UNCHANGED <<row, timeoutAt>>
    /\ UNCHANGED <<time, offset, recreated>>

(* The rest of __refresher after a failed patch: create(dto), where dto    *)
(* still carries the old timeout_at, while the lock object takes the new   *)
(* one.  When the create fails too the worker sets failed and ends; the    *)
(* holder goes on.                                                         *)
RefreshCreate(c) ==
    /\ pc[c] = "refreshCreate"
    /\ local' = [local EXCEPT ![c] = NoLocals]
    /\ \/ /\ row = Absent
          /\ row' = timeoutAt[c]
          /\ timeoutAt' = [timeoutAt EXCEPT ![c] = local[c].target]
          /\ recreated' = TRUE
          /\ pc' = [pc EXCEPT ![c] = "held"]
       \/ /\ row # Absent
          /\ pc' = [pc EXCEPT ![c] = "lost"]
          /\ UNCHANGED <<row, timeoutAt, recreated>>
    /\ UNCHANGED <<time, offset>>

(* __releaser: delete conditioned on our own expireAt; either way the      *)
(* client is done with the lock.  The mutex keeps it out of a refresh.     *)
Release(c) ==
    /\ pc[c] \in {"held", "lost"}
    /\ row' = IF Ours(c) THEN Absent ELSE row
    /\ pc' = [pc EXCEPT ![c] = "idle"]
    /\ timeoutAt' = [timeoutAt EXCEPT ![c] = 0]
    /\ UNCHANGED <<time, offset, local, recreated>>

-----------------------------------------------------------------------------
(* The Lambda invocation dies; its row, if any, stays. *)
Crash(c) ==
    /\ pc[c] # "idle"
    /\ pc' = [pc EXCEPT ![c] = "idle"]
    /\ local' = [local EXCEPT ![c] = NoLocals]
    /\ timeoutAt' = [timeoutAt EXCEPT ![c] = 0]
    /\ UNCHANGED <<time, offset, row, recreated>>

Tick ==
    /\ time < MaxTime
    /\ time' = time + 1
    /\ UNCHANGED <<offset, row, pc, local, timeoutAt, recreated>>

(* What a client's thread does once it has been started. *)
Attempt(c) == Create(c) \/ Find(c) \/ Recreate(c) \/ Patch(c)

ClientStep(c) == TryAcquire(c) \/ Attempt(c) \/ Refresh(c)
                 \/ RefreshCreate(c) \/ Release(c) \/ Crash(c)

Next == Tick \/ \E c \in Clients : ClientStep(c)

Spec == Init /\ [][Next]_vars

(* A running thread keeps running and time passes; a caller that waits in  *)
(* acquire tries again.  Nothing obliges a client to start, to release, to *)
(* refresh or to stay alive.                                               *)
Fairness ==
    /\ WF_vars(Tick)
    /\ \A c \in Clients :
          /\ WF_vars(Attempt(c))
          /\ WF_vars(pc[c] = "wait" /\ TryAcquire(c))

FairSpec == Spec /\ Fairness

-----------------------------------------------------------------------------
(* Properties *)

(* try_acquire gives the lock to one client at a time: as long as no       *)
(* refresh had to re-create a lost row, no two clients hold leases that    *)
(* are unexpired on their own clocks, even when the clocks differ by up to *)
(* a second (the grace period of ">=" in try_acquire), and no client tries *)
(* more often than the retry decorator lets it (TypeOK).                   *)
LeaseExclusive ==
    /\ TypeOK
    /\ ~recreated => \A c, d \in Clients : Live(c) /\ Live(d) => c = d

(* Nobody else's create, take-over, refresh or release removes or changes  *)
(* the row of an unexpired lease, so the holder's conditional refresh and  *)
(* release will find it: again unless a refresh re-created a row.          *)
LiveLeaseHasRow ==
    ~recreated => \A c \in Clients : Live(c) => row = timeoutAt[c]

(* The lock as its users see it: who holds it (Holding), and until when.   *)
Until == [c \in Clients |-> IF Holding(c) THEN timeoutAt[c] ELSE -1]

Promise == INSTANCE Lease WITH until <- Until

(* try_acquire, __refresher and __releaser implement the abstract lease:   *)
(* one is granted, or extended, when every other holder's lease is over on *)
(* every clock, whether or not that holder knows; a lease reaches no       *)
(* further than its length; and a refresh does not shorten it.  Refused    *)
(* attempts, retries and failed refreshes change nothing of that.          *)
LeasePromised == Promise!Spec

(* The row belongs to no running client: its holder died, or released with *)
(* a timeout that no longer matched.                                       *)
Abandoned == row # Absent /\ \A c \in Clients : ~(Holding(c) /\ timeoutAt[c] = row)

Waiting(c) == c \in Blocking /\ pc[c] \in {"create", "find", "recreate", "patch", "wait"}

(* A row left behind by a dead client does not block the resource for      *)
(* ever: a caller that stays in acquire sees it taken over, by itself or   *)
(* by another, once it has expired (rows that would expire beyond the      *)
(* modelled time excepted).                                                *)
AbandonedLockRecovered ==
    \A c \in Clients :
        (Abandoned /\ row < Seconds(MaxTime) /\ Waiting(c)) ~> (~Abandoned \/ ~Waiting(c))
=============================================================================
