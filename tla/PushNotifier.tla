---------------------------- MODULE PushNotifier ----------------------------
(***************************************************************************)
(* Delivery of one session's push notifications: submit and set_sent       *)
(* (repos/aws/aws_session_push_notifications.py), the notifier Lambda      *)
(* (push_notification/processor.py), and the schedule by which a notifier  *)
(* that finds the session locked asks to be called later                   *)
(* (__attempt_session_lock, repos/resource_lock.py; AwsScheduler).         *)
(*                                                                         *)
(* The "push-notifier" lock is taken as what ResourceLock shows it to be:  *)
(* at most one holder, freed some time after its holder dies.  Numbers are *)
(* taken in the order in which the notifications become visible, which is  *)
(* InOrder of EventSequence.  Every remote call is one step.               *)
(***************************************************************************)
EXTENDS Integers, FiniteSetsExt

CONSTANTS
    Workers,        \* concurrent notifier invocations
    MaxNotes,       \* bound on the notifications submitted
    MaxFaults,      \* bound on crashes and failed calls
    MaxQueue,       \* bound on the invocations waiting to be delivered
    Free, Dead      \* the lock: nobody's, or left by a holder that died

ASSUME BoundsAssumption == MaxNotes \in Nat /\ MaxFaults \in Nat /\ MaxQueue \in Nat
ASSUME LockAssumption == Free \notin Workers /\ Dead \notin Workers /\ Free # Dead

VARIABLES
    count,          \* notifications submitted: seqNos 1..count
    announced,      \* those for which submit has come to its Lambda call
    sent,           \* seqNos whose row has sent = True
    received,       \* how often the device got each
    alive,          \* the Session row is there and not FAILED
    context,        \* last_seq_no in the PUSH_NOTIFIER context, or Gone
    former,         \* what an eventually consistent read of it may return
    lock,
    schedule,       \* "fired": the target was invoked, the schedule remains
    invocations,    \* notifier invocations to be delivered
    worker,
    faults,         \* history: crashes and failed calls
    missed          \* history: an invocation ended without leaving a successor

session == <<alive, context, former>>
vars == <<count, announced, sent, received, session, lock, schedule, invocations,
          worker, faults, missed>>

Notes == 1..MaxNotes
Gone == -1

Idle == [pc |-> "idle", last |-> 0, batch |-> {}]
PCs == {"idle", "load", "drop", "lock", "schedule", "query", "send", "mark", "release"}
Locals == [pc : PCs, last : 0..MaxNotes, batch : SUBSET Notes]

TypeOK ==
    /\ count \in 0..MaxNotes /\ announced \in 0..count
    /\ sent \subseteq 1..count
    /\ received \in [Notes -> Nat]
    /\ alive \in BOOLEAN
    /\ context \in {Gone} \cup 0..count /\ former \in {Gone} \cup 0..count
    /\ lock \in Workers \cup {Free, Dead}
    /\ schedule \in {"none", "armed", "fired"}
    /\ invocations \in 0..MaxQueue
    /\ worker \in [Workers -> Locals]
    /\ faults \in 0..MaxFaults /\ missed \in BOOLEAN

(* The session has just become active; its context is there, though an     *)
(* eventually consistent read may not see it yet.                          *)
Init ==
    /\ count = 0 /\ announced = 0 /\ sent = {}
    /\ received = [n \in Notes |-> 0]
    /\ alive = TRUE /\ context = 0 /\ former \in {Gone, 0}
    /\ lock = Free /\ schedule = "none" /\ invocations = 0
    /\ worker = [w \in Workers |-> Idle]
    /\ faults = 0 /\ missed = FALSE

Fault == faults < MaxFaults /\ faults' = faults + 1

-----------------------------------------------------------------------------
(* submit *)

(* The transaction that puts event and notification. *)
Submit ==
    /\ count < MaxNotes
    /\ count' = count + 1
    /\ UNCHANGED <<announced, sent, received, session, lock, schedule, invocations,
                   worker, faults, missed>>

(* invoke_notification_poller, which may fail. *)
Announce ==
    /\ announced < count
    /\ announced' = announced + 1
    /\ \/ invocations < MaxQueue /\ invocations' = invocations + 1 /\ UNCHANGED faults
       \/ Fault /\ UNCHANGED invocations
    /\ UNCHANGED <<count, sent, received, session, lock, schedule, worker, missed>>

-----------------------------------------------------------------------------
(* PushNotificationProcessor *)

Goto(w, label) == worker' = [worker EXCEPT ![w].pc = label]
Return(w) == worker' = [worker EXCEPT ![w] = Idle]

(* An asynchronous invocation is delivered at least once. *)
Start(w) ==
    /\ worker[w].pc = "idle" /\ invocations > 0
    /\ invocations' \in {invocations, invocations - 1}
    /\ Goto(w, "load")
    /\ UNCHANGED <<count, announced, sent, received, session, lock, schedule, faults, missed>>

(* find_session_context_with_fcm_token: the Session row is read            *)
(* consistently, the context is not; the lock is not held yet.             *)
Load(w) ==
    /\ worker[w].pc = "load"
    /\ \E c \in {context, former} :
          \/ c = Gone /\ Return(w) /\ missed' = (missed \/ context # Gone)
          \/ c # Gone /\ ~alive /\ Goto(w, "drop") /\ UNCHANGED missed
          \/ /\ c # Gone /\ alive
             /\ worker' = [worker EXCEPT ![w] = [pc |-> "lock", last |-> c, batch |-> {}]]
             /\ UNCHANGED missed
    /\ UNCHANGED <<count, announced, sent, received, session, lock, schedule,
                   invocations, faults>>

(* No FCM token: delete_session_context. *)
Drop(w) ==
    /\ worker[w].pc = "drop"
    /\ context' = Gone /\ former' = context
    /\ Return(w)
    /\ UNCHANGED <<count, announced, sent, received, alive, lock, schedule, invocations,
                   faults, missed>>

(* A fault for TryLock: nothing is scheduled when the session is locked. *)
TryLockOnce(w) ==
    /\ worker[w].pc = "lock"
    /\ \/ lock = Free /\ lock' = w /\ Goto(w, "query")
       \/ lock # Free /\ Return(w) /\ UNCHANGED lock
    /\ UNCHANGED <<count, announced, sent, received, session, schedule, invocations,
                   faults, missed>>

TryLock(w) ==
    /\ worker[w].pc = "lock"
    /\ \/ lock = Free /\ lock' = w /\ Goto(w, "query")
       \/ lock # Free /\ Goto(w, "schedule") /\ UNCHANGED lock
    /\ UNCHANGED <<count, announced, sent, received, session, schedule, invocations,
                   faults, missed>>

(* __schedule_lambda: a schedule of this name that exists already, due or  *)
(* done, is left alone; then SessionLockedException ends the invocation.   *)
Schedule(w) ==
    /\ worker[w].pc = "schedule"
    /\ schedule' = IF schedule = "none" THEN "armed" ELSE schedule
    /\ missed' = (missed \/ schedule = "fired")
    /\ Return(w)
    /\ UNCHANGED <<count, announced, sent, received, session, lock, invocations, faults>>

(* A fault for Unsent: the filter on "sent" dropped. *)
AllAfter(last) == {n \in 1..count : n > last}

(* query_notifications: after last, without the rows that have been sent. *)
Unsent(last) == {n \in 1..count : n > last /\ n \notin sent}

(* The query is consistent, but last was read in Load. *)
Query(w) ==
    /\ worker[w].pc = "query"
    /\ worker' = [worker EXCEPT ![w].pc = "send", ![w].batch = Unsent(worker[w].last)]
    /\ UNCHANGED <<count, announced, sent, received, session, lock, schedule, invocations,
                   faults, missed>>

(* A fault for First: the newest record first. *)
Newest(batch) == Max(batch)

(* The order in which the query returns records: the range key is seqNo. *)
First(batch) == Min(batch)

(* A fault for Send: the loop goes on after a failed push. *)
SendAndSkip(w) ==
    /\ worker[w].pc = "send" /\ worker[w].batch # {}
    /\ \/ /\ received' = [received EXCEPT ![First(worker[w].batch)] = @ + 1]
          /\ Goto(w, "mark") /\ UNCHANGED faults
       \/ /\ Fault
          /\ worker' = [worker EXCEPT ![w].batch = @ \ {First(@)}]
          /\ UNCHANGED received
    /\ UNCHANGED <<count, announced, sent, session, lock, schedule, invocations, missed>>

(* __notify, up to the answer of the push service; an exception ends the   *)
(* loop over the records.                                                  *)
Send(w) ==
    /\ worker[w].pc = "send" /\ worker[w].batch # {}
    /\ \/ /\ received' = [received EXCEPT ![First(worker[w].batch)] = @ + 1]
          /\ Goto(w, "mark") /\ UNCHANGED faults
       \/ Fault /\ Goto(w, "release") /\ UNCHANGED received
    /\ UNCHANGED <<count, announced, sent, session, lock, schedule, invocations, missed>>

(* settings.last_seq_no = record.seq_no *)
Cursor(n) == n

(* set_sent: row and context together, if both exist.  A cancelled         *)
(* transaction goes unnoticed, an exception ends the loop.                 *)
Mark(w) ==
    LET n == First(worker[w].batch) IN
    /\ worker[w].pc = "mark"
    /\ \/ /\ worker' = [worker EXCEPT ![w] = [pc |-> "send", last |-> n, batch |-> @.batch \ {n}]]
          /\ \/ context # Gone /\ sent' = sent \cup {n} /\ context' = Cursor(n) /\ former' = context
             \/ context = Gone /\ UNCHANGED <<sent, context, former>>
          /\ UNCHANGED faults
       \/ Fault /\ Goto(w, "release") /\ UNCHANGED <<sent, context, former>>
    /\ UNCHANGED <<count, announced, received, alive, lock, schedule, invocations, missed>>

Release(w) ==
    /\ \/ worker[w].pc = "release"
       \/ worker[w].pc = "send" /\ worker[w].batch = {}
    /\ lock' = Free
    /\ Return(w)
    /\ UNCHANGED <<count, announced, sent, received, session, schedule, invocations,
                   faults, missed>>

Crash(w) ==
    /\ worker[w].pc # "idle" /\ Fault
    /\ lock' = IF lock = w THEN Dead ELSE lock
    /\ Return(w)
    /\ UNCHANGED <<count, announced, sent, received, session, schedule, invocations, missed>>

WorkerStep(w) ==
    \/ Start(w) \/ Load(w) \/ Drop(w) \/ TryLock(w) \/ Schedule(w) \/ Query(w)
    \/ Send(w) \/ Mark(w) \/ Release(w)

-----------------------------------------------------------------------------
(* The rest of the world *)

(* The lease of a dead holder runs out. *)
Expire ==
    /\ lock = Dead
    /\ lock' = Free
    /\ UNCHANGED <<count, announced, sent, received, session, schedule, invocations,
                   worker, faults, missed>>

(* EventBridge invokes the target and, later, deletes the schedule         *)
(* (ActionAfterCompletion = DELETE).                                       *)
Fire ==
    /\ schedule = "armed" /\ invocations < MaxQueue
    /\ schedule' = "fired" /\ invocations' = invocations + 1
    /\ UNCHANGED <<count, announced, sent, received, session, lock, worker, faults, missed>>

DeleteSchedule ==
    /\ schedule = "fired"
    /\ schedule' = "none"
    /\ UNCHANGED <<count, announced, sent, received, session, lock, invocations, worker,
                   faults, missed>>

(* Reads of the context catch up. *)
Settle ==
    /\ former # context
    /\ former' = context
    /\ UNCHANGED <<count, announced, sent, received, alive, context, lock, schedule,
                   invocations, worker, faults, missed>>

(* The session fails, losing its contexts in the same transaction, or its  *)
(* row goes and the table listener removes the contexts some time later.   *)
SessionEnds ==
    /\ alive \/ context # Gone
    /\ alive' = FALSE
    /\ \/ context' = Gone /\ former' = context
       \/ alive /\ UNCHANGED <<context, former>>
    /\ UNCHANGED <<count, announced, sent, received, lock, schedule, invocations, worker,
                   faults, missed>>

Environment == Expire \/ Fire \/ DeleteSchedule \/ Settle \/ SessionEnds

Next ==
    \/ Submit \/ Announce \/ Environment
    \/ \E w \in Workers : WorkerStep(w) \/ Crash(w)

Spec == Init /\ [][Next]_vars

(* Invocations and schedules are delivered, a running invocation goes on,  *)
(* and a dead holder's lease runs out.                                     *)
Fairness ==
    /\ WF_vars(Announce) /\ WF_vars(Fire) /\ WF_vars(DeleteSchedule) /\ WF_vars(Expire)
    /\ WF_vars(\E w \in Workers : Start(w) /\ invocations' < invocations)
    /\ \A w \in Workers : WF_vars(WorkerStep(w) /\ ~Start(w))

FairSpec == Spec /\ Fairness

-----------------------------------------------------------------------------
(* Properties *)

(* The cursor in the context never passes a notification that the device   *)
(* did not get: query_notifications will not look below it again, and      *)
(* notifiers start from a copy of it that was read before the lock.        *)
NothingSkipped == TypeOK /\ \A n \in 1..context : received[n] > 0

(* While the session lives, every repeated delivery is paid for by a crash *)
(* or a failed call between the push and set_sent: stale cursors and       *)
(* repeated invocations alone do not repeat a push.  (Once the session has *)
(* ended set_sent is cancelled, and a notifier that had loaded the context *)
(* before pushes again.)                                                   *)
NoFreeDuplicates == alive => \A n \in Notes : received[n] <= 1 + faults

(* The device gets the notifications in the order of their numbers, also   *)
(* when a push fails in the middle of a batch.                             *)
DeliveredInOrder ==
    [][\A n \in Notes : received'[n] > received[n] =>
          \A m \in 1..(n - 1) : received[m] > 0]_vars

(* A submitted notification reaches the device although its notifier found *)
(* the session locked, unless the session ends, a call fails, or an        *)
(* invocation was turned away for nothing (missed).                        *)
EventuallyReceived ==
    \A n \in Notes :
        (n <= count) ~> (received[n] > 0 \/ ~alive \/ faults > 0 \/ missed)
=============================================================================
