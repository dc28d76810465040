---------------------------- MODULE EventSequence ----------------------------
(***************************************************************************)
(* The per-tenant numbering of events: AwsSequenceRepo.execute and         *)
(* execute_with_event (repos/aws/aws_sequence.py).  One row                *)
(* {nextValue, timeoutAt} hands out numbers and is locked, through         *)
(* timeoutAt, while the caller's transaction, which also puts the event,   *)
(* is written.  Lambda invocations of one tenant contend for it; every     *)
(* DynamoDB request is one step.                                           *)
(***************************************************************************)
EXTENDS ShimTime

CONSTANTS
    Writers,        \* Lambda invocations that record events
    LockSeconds,    \* max_lock_seconds
    Tries,          \* the bound of the retry decorator
    MaxTime,        \* bound on time, half seconds
    MaxNumber       \* bound on the numbers handed out

ASSUME LockAssumption == LockSeconds \in Nat \ {0}
ASSUME TriesAssumption == Tries \in Nat \ {0}
ASSUME BoundAssumption == MaxTime \in Nat /\ MaxNumber \in Nat

VARIABLES
    time,
    row,        \* the Sequence row: a set with at most one record
    events,     \* numbers of the committed events
    pc,
    seen,       \* each writer's copy of the row (current)
    lock,       \* next_timeout, the writer's mark in the row
    number,     \* the number it was given
    tries,
    reused,     \* history: a take-over went ahead on an outdated nextValue
    overran     \* history: a transaction was written after its lock ran out

vars == <<time, row, events, pc, seen, lock, number, tries, reused, overran>>

PCs == {"idle", "find", "create", "patch", "run", "unlock"}

Row(n, t) == [nextValue |-> n, timeoutAt |-> t]
Rows == [nextValue : Nat, timeoutAt : Nat]
NoCopy == Row(0, 0)

TypeOK ==
    /\ time \in 0..MaxTime
    /\ row \in SUBSET Rows /\ \A q, r \in row : q = r
    /\ events \in SUBSET Nat
    /\ pc \in [Writers -> PCs]
    /\ seen \in [Writers -> Rows]
    /\ lock \in [Writers -> Nat]
    /\ number \in [Writers -> Nat]
    /\ tries \in [Writers -> 0..Tries]
    /\ reused \in BOOLEAN /\ overran \in BOOLEAN

Init ==
    /\ time = 0
    /\ row = {}
    /\ events = {}
    /\ pc = [w \in Writers |-> "idle"]
    /\ seen = [w \in Writers |-> NoCopy]
    /\ lock = [w \in Writers |-> 0]
    /\ number = [w \in Writers |-> 0]
    /\ tries = [w \in Writers |-> 0]
    /\ reused = FALSE
    /\ overran = FALSE

(* The writer's locals go out of scope. *)
Leave(w) ==
    /\ pc' = [pc EXCEPT ![w] = "idle"]
    /\ seen' = [seen EXCEPT ![w] = NoCopy]
    /\ lock' = [lock EXCEPT ![w] = 0]
    /\ number' = [number EXCEPT ![w] = 0]
    /\ tries' = [tries EXCEPT ![w] = 0]

-----------------------------------------------------------------------------
(* __get_current_sequence *)

(* A fault for Conflict: the bound of the decorator dropped. *)
ConflictForever(w) ==
    /\ pc' = [pc EXCEPT ![w] = "find"]
    /\ tries' = [tries EXCEPT ![w] = @ + 1]
    /\ UNCHANGED <<seen, lock, number>>

(* OptimisticLockException inside the retry decorator: find again, or, on  *)
(* the last try, out to the caller.                                        *)
Conflict(w) ==
    \/ /\ tries[w] < Tries
       /\ pc' = [pc EXCEPT ![w] = "find"]
       /\ tries' = [tries EXCEPT ![w] = @ + 1]
       /\ seen' = [seen EXCEPT ![w] = NoCopy]
       /\ lock' = [lock EXCEPT ![w] = 0]
       /\ UNCHANGED number
    \/ tries[w] = Tries /\ Leave(w)

(* execute calls __get_current_sequence. *)
Execute(w) ==
    /\ pc[w] = "idle"
    /\ pc' = [pc EXCEPT ![w] = "find"]
    /\ tries' = [tries EXCEPT ![w] = 1]
    /\ UNCHANGED <<time, row, events, seen, lock, number, reused, overran>>

(* Faults for Locked: the lock runs out a second early; it is ignored. *)
LockedShort(r) == r.timeoutAt > 0 /\ Seconds(time) + 1 < r.timeoutAt
LockedNever(r) == FALSE

Locked(r) == r.timeoutAt > 0 /\ Seconds(time) < r.timeoutAt

(* The consistent read, and the clock reads that follow it. *)
Find(w) ==
    /\ pc[w] = "find"
    /\ \/ /\ row = {}
          /\ pc' = [pc EXCEPT ![w] = "create"]
          /\ lock' = [lock EXCEPT ![w] = SecondsInFuture(time, LockSeconds)]
          /\ UNCHANGED <<seen, number, tries>>
       \/ \E r \in row :
             \/ Locked(r) /\ Conflict(w)
             \/ /\ ~Locked(r)
                /\ r.nextValue < MaxNumber
                /\ pc' = [pc EXCEPT ![w] = "patch"]
                /\ seen' = [seen EXCEPT ![w] = r]
                /\ lock' = [lock EXCEPT ![w] = SecondsInFuture(time, LockSeconds)]
                /\ UNCHANGED <<number, tries>>
    /\ UNCHANGED <<time, row, events, reused, overran>>

(* The first user of the sequence creates the row, already locked, and     *)
(* takes number 1.                                                         *)
Create(w) ==
    /\ pc[w] = "create"
    /\ \/ /\ row = {}
          /\ row' = {Row(2, lock[w])}
          /\ pc' = [pc EXCEPT ![w] = "run"]
          /\ number' = [number EXCEPT ![w] = 1]
          /\ UNCHANGED <<seen, lock, tries>>
       \/ row # {} /\ Conflict(w) /\ UNCHANGED row
    /\ UNCHANGED <<time, events, reused, overran>>

(* A fault for Advanced: nextValue is left as it was. *)
NotAdvanced(w) == Row(seen[w].nextValue, lock[w])

(* What the patch makes of the row: nextValue is written from the copy. *)
Advanced(w) == Row(seen[w].nextValue + 1, lock[w])

(* patch_with_condition: the condition is on timeoutAt alone. *)
Patch(w) ==
    /\ pc[w] = "patch"
    /\ \/ /\ \E r \in row :
                /\ r.timeoutAt = seen[w].timeoutAt
                /\ reused' = (reused \/ r.nextValue # seen[w].nextValue)
          /\ row' = {Advanced(w)}
          /\ pc' = [pc EXCEPT ![w] = "run"]
          /\ number' = [number EXCEPT ![w] = seen[w].nextValue]
          /\ UNCHANGED <<seen, lock, tries>>
       \/ /\ \A r \in row : r.timeoutAt # seen[w].timeoutAt
          /\ Conflict(w)
          /\ UNCHANGED <<row, reused>>
    /\ UNCHANGED <<time, events, overran>>

-----------------------------------------------------------------------------
(* The rest of execute *)

(* transact_write of execute_with_event: the event is put only if its      *)
(* number is free.                                                         *)
Commit(w) ==
    /\ pc[w] = "run"
    /\ number[w] \notin events
    /\ events' = events \cup {number[w]}
    /\ overran' = (overran \/ Seconds(time) >= lock[w])
    /\ pc' = [pc EXCEPT ![w] = "unlock"]
    /\ UNCHANGED <<time, row, seen, lock, number, tries, reused>>

(* The transaction is cancelled, by the event's number being taken or by   *)
(* any other of its conditions; the number is spent.                       *)
Reject(w) ==
    /\ pc[w] = "run"
    /\ pc' = [pc EXCEPT ![w] = "unlock"]
    /\ UNCHANGED <<time, row, events, seen, lock, number, tries, reused, overran>>

Unlocked(w, r) == IF r.timeoutAt = lock[w] THEN [r EXCEPT !.timeoutAt = 0] ELSE r

(* The finally clause: timeoutAt back to 0 if it is still ours; otherwise  *)
(* OptimisticLockException replaces the result of the call.                *)
Unlock(w) ==
    /\ pc[w] = "unlock"
    /\ row' = {Unlocked(w, r) : r \in row}
    /\ Leave(w)
    /\ UNCHANGED <<time, events, reused, overran>>

-----------------------------------------------------------------------------
(* The Lambda invocation dies; the row stays as it is. *)
Crash(w) ==
    /\ pc[w] # "idle"
    /\ Leave(w)
    /\ UNCHANGED <<time, row, events, reused, overran>>

Tick ==
    /\ time < MaxTime
    /\ time' = time + 1
    /\ UNCHANGED <<row, events, pc, seen, lock, number, tries, reused, overran>>

WriterStep(w) == Execute(w) \/ Find(w) \/ Create(w) \/ Patch(w)
                 \/ Commit(w) \/ Reject(w) \/ Unlock(w) \/ Crash(w)

Next == Tick \/ \E w \in Writers : WriterStep(w)

Spec == Init /\ [][Next]_vars

-----------------------------------------------------------------------------
(* Properties *)

(* Between taking the row and giving it back, with time left on the lock. *)
Owner(w) == pc[w] \in {"run", "unlock"} /\ Seconds(time) < lock[w]

(* The lock in timeoutAt admits one writer at a time, and a writer that    *)
(* finishes before its lock runs out can give it back: the finally clause  *)
(* of execute does not raise over a committed transaction.                 *)
OneOwner ==
    \A w \in Writers : Owner(w) =>
        /\ \A v \in Writers : Owner(v) => v = w
        /\ \E r \in row : r.timeoutAt = lock[w]

(* Events become visible in the order of their numbers, which readers that *)
(* continue after the last number they saw (query_events,                  *)
(* query_notifications) rely on, unless a transaction overran its lock or  *)
(* a take-over was based on an outdated nextValue.                         *)
InOrder ==
    [][events' # events /\ ~reused /\ ~overran'
        => \A n \in events, m \in events' \ events : n < m]_vars

(* A number is handed out to one transaction at most, under the same       *)
(* proviso: two writers never try to put the same event.                   *)
NumbersDistinct ==
    ~reused => \A v, w \in Writers :
        pc[v] = "run" /\ pc[w] = "run" /\ number[v] = number[w] => v = w
=============================================================================
