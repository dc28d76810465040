------------------------------- MODULE Polling -------------------------------
(***************************************************************************)
(* Who polls which session, and when: poller invocations                   *)
(* (poll/base_processor.py) collect due PendingEvent rows under the        *)
(* "collect" lock and start a thread for each (poll/polling_group.py); the *)
(* thread locks the event's user, moves the event into the future, polls,  *)
(* makes the event due again, releases and asks, through the throttler,    *)
(* for another invocation (poll/live_agent/processor.py).  Nothing else    *)
(* wakes a poller but the activation of a session.                         *)
(*                                                                         *)
(* The locks are taken as what ResourceLock shows them to be: the lock of  *)
(* a user outlasts its holder's invocation (both end after 60 seconds),    *)
(* the collect lock (12 seconds) need not.  A user has one event.  Every   *)
(* remote call and every block under the group's mutex is one step.        *)
(***************************************************************************)
EXTENDS Integers, FiniteSetsExt

CONSTANTS
    Pollers,        \* concurrent poller invocations
    Slots,          \* bound on the threads of a group alive at a time
    Events,         \* PendingEvent rows, one per user
    MaxWorking,     \* max_working_count
    MaxQueue,       \* bound on the invocations told apart in the queue
    MaxFaults,      \* bound on crashes and failed calls
    Free, Dead      \* a lock: nobody's, or left by an invocation that died

ASSUME WorkingAssumption == MaxWorking \in Nat \ {0}
ASSUME BoundsAssumption == MaxQueue \in Nat \ {0} /\ MaxFaults \in Nat
Threads == Pollers \X Slots

ASSUME LockAssumption ==
    Free # Dead /\ {Free, Dead} \cap (Pollers \cup Events \cup Threads) = {}

VARIABLES
    row,            \* "none", "due", or "parked" (activeAt in the future)
    lock,           \* of each event's user: the thread that holds it
    collectLock,
    queue,          \* poller invocations to be delivered
    poller,         \* each invocation: its collect loop and its group
    thread,         \* each thread of each group
    current,        \* threads whose copy of the event has the row's key
    passed,         \* <<p, e>>: p's query has gone past e's present key
    faults,         \* history: crashes and failed calls
    strayed,        \* history: events left parked by a poll that failed
    missed          \* history: a wake-up was lost (Deliver, Join, TryLock)

vars == <<row, lock, collectLock, queue, poller, thread, current, passed,
          faults, strayed, missed>>

NoThread == [pc |-> "none", event |-> Free]
Resting == [pc |-> "idle", rows |-> {}, more |-> FALSE, any |-> FALSE,
            submit |-> 0, working |-> 0, again |-> FALSE]

TypeOK ==
    /\ row \in [Events -> {"none", "due", "parked"}]
    /\ lock \in [Events -> Threads \cup {Free, Dead}]
    /\ collectLock \in Pollers \cup {Free, Dead}
    /\ queue \in 0..MaxQueue
    /\ poller \in [Pollers -> [pc : {"idle", "query", "add", "unlock", "join"},
                               rows : SUBSET Events, more : BOOLEAN, any : BOOLEAN,
                               submit : 0..MaxWorking, working : 0..MaxWorking,
                               again : BOOLEAN]]
    /\ thread \in [Threads -> [pc : {"none", "lock", "park", "load", "poll", "touch",
                                     "release", "again"},
                               event : Events \cup {Free}]]
    /\ current \subseteq Threads /\ passed \subseteq Pollers \X Events
    /\ faults \in 0..MaxFaults /\ strayed \subseteq Events /\ missed \in BOOLEAN

Init ==
    /\ row = [e \in Events |-> "none"]
    /\ lock = [e \in Events |-> Free] /\ collectLock = Free
    /\ queue = 0
    /\ poller = [p \in Pollers |-> Resting]
    /\ thread = [t \in Threads |-> NoThread]
    /\ current = {} /\ passed = {}
    /\ faults = 0 /\ strayed = {} /\ missed = FALSE

Fault == faults < MaxFaults /\ faults' = faults + 1

(* An asynchronous invocation.  Invocations carry no parameters; beyond    *)
(* MaxQueue they are not told apart.                                       *)
Invoked == IF queue < MaxQueue THEN queue + 1 ELSE queue

(* The row of e gets a new key, or goes: other copies of it are outdated,  *)
(* and a query that is under way may meet it again.                        *)
Rekey(e, value) ==
    /\ row' = [row EXCEPT ![e] = value]
    /\ current' = {t \in current : thread[t].event # e}
    /\ passed' = {x \in passed : x[2] # e}

(* A fault for UpdateActionTime: the thread's own copy keeps the old key. *)
UpdateButNotOwnCopy(t, value) == Rekey(thread[t].event, value)

(* The same by a thread that knows the new key. *)
UpdateActionTime(t, value) ==
    LET e == thread[t].event IN
    /\ row' = [row EXCEPT ![e] = value]
    /\ current' = {u \in current : thread[u].event # e} \cup {t}
    /\ passed' = {x \in passed : x[2] # e}

-----------------------------------------------------------------------------
(* A session becomes active: create_session_contexts puts its event, then  *)
(* __connect_to_sfdc invokes a poller.                                     *)
Connect(e) ==
    /\ row[e] = "none"
    /\ Rekey(e, "due")
    /\ strayed' = strayed \ {e}
    /\ \/ queue' = Invoked /\ UNCHANGED faults
       \/ Fault /\ UNCHANGED queue
    /\ UNCHANGED <<lock, collectLock, poller, thread, missed>>

-----------------------------------------------------------------------------
(* BasePollingProcessor.invoke and AbstractProcessorGroup.collect *)

(* The group has asked for another invocation or will. *)
Asking(p) ==
    \/ poller[p].again
    \/ \E s \in Slots : thread[<<p, s>>].pc \in {"load", "poll", "touch", "release", "again"}

(* The invocation has e, under its present key, in hand, or a query to     *)
(* come will return it.                                                    *)
TakesUp(p, e) ==
    \/ <<p, e>> \in passed /\ e \in poller[p].rows
    \/ \E s \in Slots : <<p, s>> \in current /\ thread[<<p, s>>].event = e
    \/ /\ <<p, e>> \notin passed
       /\ poller[p].pc = "query" \/ (poller[p].pc = "add" /\ poller[p].more)

(* An invocation is delivered, at least once.  While another one collects  *)
(* it returns at once: for nothing, if there is a due event which that one *)
(* does not take up and it will not ask for another invocation either.     *)
Deliver(p) ==
    /\ poller[p].pc = "idle" /\ queue > 0
    /\ queue' \in {queue, queue - 1}
    /\ \/ /\ collectLock = Free
          /\ collectLock' = p
          /\ poller' = [poller EXCEPT ![p].pc = "query"]
          /\ UNCHANGED missed
       \/ /\ collectLock # Free
          /\ missed' = (missed \/ \E q \in Pollers, e \in Events :
                                     /\ collectLock = q /\ row[e] = "due"
                                     /\ ~TakesUp(q, e) /\ ~Asking(q))
          /\ UNCHANGED <<collectLock, poller>>
    /\ UNCHANGED <<row, lock, thread, current, passed, faults, strayed>>

Remaining(p) == {e \in Events : row[e] = "due" /\ <<p, e>> \notin passed}

(* query_events: a full page has a next_token, whatever is left. *)
Query(p) ==
    /\ poller[p].pc = "query"
    /\ \E page \in SUBSET Remaining(p) :
          /\ \/ Cardinality(page) = MaxWorking
             \/ Cardinality(page) < MaxWorking /\ page = Remaining(p)
          /\ poller' = [poller EXCEPT ![p].pc = IF page = {} THEN "unlock" ELSE "add",
                                      ![p].rows = page,
                                      ![p].more = Cardinality(page) = MaxWorking]
          /\ passed' = passed \cup ({p} \X page)
    /\ UNCHANGED <<row, lock, collectLock, queue, thread, current, faults, strayed, missed>>

(* A fault for Total: threads that are still deciding do not count. *)
WorkingOnly(g) == g.working

Total(g) == g.working + g.submit

(* add, for one of the rows: a thread is started, counted by submit_count. *)
Add(p) ==
    LET g == poller[p] IN
    /\ g.pc = "add" /\ Total(g) < MaxWorking
    /\ \E e \in g.rows, s \in Slots :
          /\ thread[<<p, s>>].pc = "none"
          /\ thread' = [thread EXCEPT ![<<p, s>>] = [pc |-> "lock", event |-> e]]
          /\ poller' = [poller EXCEPT ![p].rows = @ \ {e}, ![p].any = TRUE,
                                      ![p].submit = @ + 1]
          /\ current' = IF <<p, e>> \in passed THEN current \cup {<<p, s>>} ELSE current
    /\ UNCHANGED <<row, lock, collectLock, queue, passed, faults, strayed, missed>>

(* add answers False: every worker is polling, or the wait for the threads *)
(* that are still deciding has timed out.  Or, after the last row of a     *)
(* page, is_full ends the loop.  More events are out there: invoke_again.  *)
Full(p) ==
    LET g == poller[p] IN
    /\ g.pc = "add"
    /\ \/ g.rows # {} /\ Total(g) >= MaxWorking
       \/ g.rows = {} /\ g.more /\ g.working = MaxWorking
    /\ poller' = [poller EXCEPT ![p].pc = "unlock", ![p].rows = {}, ![p].again = TRUE]
    /\ UNCHANGED <<row, lock, collectLock, queue, thread, current, passed, faults,
                   strayed, missed>>

(* The page is done: on to the next, or out of the loop. *)
NextPage(p) ==
    LET g == poller[p] IN
    /\ g.pc = "add" /\ g.rows = {}
    /\ \/ g.more /\ g.working < MaxWorking /\ poller' = [poller EXCEPT ![p].pc = "query"]
       \/ ~g.more /\ poller' = [poller EXCEPT ![p].pc = "unlock"]
    /\ UNCHANGED <<row, lock, collectLock, queue, thread, current, passed, faults,
                   strayed, missed>>

(* The invocation is over, and its copies are gone. *)
Forget(p) == passed' = {x \in passed : x[1] # p}

(* The collect lock is released, if it is still ours; a group without      *)
(* threads is done.                                                        *)
UnlockCollect(p) ==
    /\ poller[p].pc = "unlock"
    /\ collectLock' = IF collectLock = p THEN Free ELSE collectLock
    /\ \/ poller[p].any /\ poller' = [poller EXCEPT ![p].pc = "join"] /\ UNCHANGED passed
       \/ ~poller[p].any /\ poller' = [poller EXCEPT ![p] = Resting] /\ Forget(p)
    /\ UNCHANGED <<row, lock, queue, thread, current, faults, strayed, missed>>

(* The throttler's worker makes the call that is waiting. *)
InvokeLambda(p) ==
    /\ poller[p].again
    /\ poller' = [poller EXCEPT ![p].again = FALSE]
    /\ queue' = Invoked
    /\ UNCHANGED <<row, lock, collectLock, thread, current, passed, faults, strayed, missed>>

(* All threads have been joined; close has the throttler make the call     *)
(* that is waiting, or drops it (ExitCheck of Throttler).                  *)
Join(p) ==
    /\ poller[p].pc = "join"
    /\ \A s \in Slots : thread[<<p, s>>].pc = "none"
    /\ \/ queue' = (IF poller[p].again THEN Invoked ELSE queue) /\ UNCHANGED missed
       \/ poller[p].again /\ missed' = TRUE /\ UNCHANGED queue
    /\ poller' = [poller EXCEPT ![p] = Resting]
    /\ Forget(p)
    /\ UNCHANGED <<row, lock, collectLock, thread, current, faults, strayed>>

CollectorStep(p) ==
    Query(p) \/ Add(p) \/ Full(p) \/ NextPage(p) \/ UnlockCollect(p) \/ Join(p)

-----------------------------------------------------------------------------
(* __inner_worker *)

Goto(t, label) == thread' = [thread EXCEPT ![t].pc = label]
End(t) == thread' = [thread EXCEPT ![t] = NoThread]

(* dec_submit_count *)
DecSubmit(t) == poller' = [poller EXCEPT ![t[1]].submit = @ - 1]

(* A fault for TryLock: the answer of try_acquire is not looked at. *)
TryLockAnyway(t) ==
    /\ thread[t].pc = "lock"
    /\ lock' = [lock EXCEPT ![thread[t].event] = t]
    /\ Goto(t, "park")
    /\ UNCHANGED <<row, collectLock, queue, poller, current, passed, faults, strayed, missed>>

(* __try_lock, up to the lock.  The thread that has it asks for another    *)
(* invocation when it lets go, unless it is about to find its own copy of  *)
(* the event outdated: then nobody takes the event up.                     *)
TryLock(t) ==
    LET e == thread[t].event IN
    /\ thread[t].pc = "lock"
    /\ \/ /\ lock[e] = Free
          /\ lock' = [lock EXCEPT ![e] = t]
          /\ Goto(t, "park")
          /\ UNCHANGED <<poller, current, missed>>
       \/ /\ lock[e] # Free
          /\ End(t) /\ DecSubmit(t) /\ current' = current \ {t}
          /\ missed' = (missed \/ \E u \in Threads \ current :
                                     lock[e] = u /\ thread[u].pc = "park" /\ t \in current)
          /\ UNCHANGED lock
    /\ UNCHANGED <<row, collectLock, queue, passed, faults, strayed>>

(* ... and update_action_time(refresh_seconds), which fails when the row   *)
(* has changed since it was queried.                                       *)
Park(t) ==
    LET e == thread[t].event IN
    /\ thread[t].pc = "park"
    /\ \/ /\ t \in current
          /\ UpdateActionTime(t, "parked")
          /\ Goto(t, "load")
          /\ UNCHANGED <<lock, poller>>
       \/ /\ t \notin current
          /\ lock' = [lock EXCEPT ![e] = Free]
          /\ End(t) /\ DecSubmit(t)
          /\ UNCHANGED <<row, current, passed>>
    /\ UNCHANGED <<collectLock, queue, faults, strayed, missed>>

(* should_poll: the session is there; it is gone, and its event with it;   *)
(* or it is not active, and the exception leaves submit_count as it is.    *)
Load(t) ==
    LET e == thread[t].event IN
    /\ thread[t].pc = "load"
    /\ \/ /\ poller' = [poller EXCEPT ![t[1]].submit = @ - 1, ![t[1]].working = @ + 1]
          /\ Goto(t, "poll")
          /\ UNCHANGED <<row, current, passed, strayed>>
       \/ /\ Rekey(e, "none")
          /\ DecSubmit(t)
          /\ Goto(t, "release")
          /\ UNCHANGED strayed
       \/ /\ strayed' = strayed \cup {e}
          /\ Goto(t, "release")
          /\ UNCHANGED <<row, current, passed, poller>>
    /\ UNCHANGED <<lock, collectLock, queue, faults, missed>>

(* poll: messages or none; polling shut down, and the event deleted; or an *)
(* exception.                                                              *)
Poll(t) ==
    LET e == thread[t].event IN
    /\ thread[t].pc = "poll"
    /\ \/ Goto(t, "touch") /\ UNCHANGED <<row, current, passed, strayed>>
       \/ Rekey(e, "none") /\ Goto(t, "release") /\ UNCHANGED strayed
       \/ /\ strayed' = strayed \cup {e}
          /\ Goto(t, "release")
          /\ UNCHANGED <<row, current, passed>>
    /\ UNCHANGED <<lock, collectLock, queue, poller, faults, missed>>

(* update_action_time(0): due again, while the lock is still held. *)
TouchEvent(t) ==
    /\ thread[t].pc = "touch"
    /\ \/ /\ t \in current
          /\ UpdateActionTime(t, "due")
          /\ strayed' = strayed \ {thread[t].event}
       \/ t \notin current /\ UNCHANGED <<row, current, passed, strayed>>
    /\ Goto(t, "release")
    /\ UNCHANGED <<lock, collectLock, queue, poller, faults, missed>>

(* LockAndEvent.release, then after_release. *)
Release(t) ==
    /\ thread[t].pc = "release"
    /\ lock' = [lock EXCEPT ![thread[t].event] = Free]
    /\ Goto(t, "again")
    /\ UNCHANGED <<row, collectLock, queue, poller, current, passed, faults, strayed, missed>>

(* A fault for InvokeAgain: after_release is not set. *)
NotAgain(t) ==
    /\ thread[t].pc = "again"
    /\ current' = current \ {t}
    /\ End(t)
    /\ UNCHANGED <<row, lock, collectLock, queue, poller, passed, faults, strayed, missed>>

InvokeAgain(t) ==
    /\ thread[t].pc = "again"
    /\ poller' = [poller EXCEPT ![t[1]].again = TRUE]
    /\ current' = current \ {t}
    /\ End(t)
    /\ UNCHANGED <<row, lock, collectLock, queue, passed, faults, strayed, missed>>

ThreadStep(t) ==
    TryLock(t) \/ Park(t) \/ Load(t) \/ Poll(t) \/ TouchEvent(t) \/ Release(t) \/ InvokeAgain(t)

-----------------------------------------------------------------------------
(* The rest of the world *)

(* The invocation dies with its threads; it may be delivered once more. *)
Crash(p) ==
    /\ poller[p].pc # "idle" /\ Fault
    /\ queue' \in {queue, Invoked}
    /\ collectLock' = IF collectLock = p THEN Dead ELSE collectLock
    /\ lock' = [e \in Events |-> IF lock[e] \in {p} \X Slots THEN Dead ELSE lock[e]]
    /\ poller' = [poller EXCEPT ![p] = Resting]
    /\ thread' = [t \in Threads |-> IF t[1] = p THEN NoThread ELSE thread[t]]
    /\ current' = {t \in current : t[1] # p}
    /\ Forget(p)
    /\ UNCHANGED <<row, strayed, missed>>

(* The collect lease runs out, over a dead holder or over one that is      *)
(* still collecting.                                                       *)
ExpireCollect ==
    /\ collectLock # Free
    /\ collectLock' = Free
    /\ UNCHANGED <<row, lock, queue, poller, thread, current, passed, faults, strayed, missed>>

Expire(e) ==
    /\ lock[e] = Dead
    /\ lock' = [lock EXCEPT ![e] = Free]
    /\ UNCHANGED <<row, collectLock, queue, poller, thread, current, passed, faults,
                   strayed, missed>>

(* The activeAt of an event that nobody is polling comes. *)
Ripen(e) ==
    /\ row[e] = "parked" /\ lock[e] \in {Free, Dead}
    /\ row' = [row EXCEPT ![e] = "due"]
    /\ UNCHANGED <<lock, collectLock, queue, poller, thread, current, passed, faults,
                   strayed, missed>>

Next ==
    \/ \E e \in Events : Connect(e) \/ Expire(e) \/ Ripen(e)
    \/ \E p \in Pollers : Deliver(p) \/ CollectorStep(p) \/ InvokeLambda(p) \/ Crash(p)
    \/ \E t \in Threads : ThreadStep(t)
    \/ ExpireCollect

Spec == Init /\ [][Next]_vars

(* Invocations are delivered, running invocations and their threads go on, *)
(* and a collect lock is not held for ever.                                *)
Fairness ==
    /\ WF_vars(\E p \in Pollers : Deliver(p) /\ queue' < queue)
    /\ \A p \in Pollers : WF_vars(CollectorStep(p)) /\ WF_vars(InvokeLambda(p))
    /\ \A t \in Threads : WF_vars(ThreadStep(t))

FairSpec == Spec /\ Fairness

-----------------------------------------------------------------------------
(* Properties *)

Deciding(p) == {s \in Slots : thread[<<p, s>>].pc \in {"lock", "park", "load"}}
AtWork(p) == {s \in Slots : thread[<<p, s>>].pc \in {"poll", "touch"}}

(* "We do not want the same user to be polling more than once"             *)
(* (__try_lock): not even when the collect lock ran out and two pollers    *)
(* collected the same event, or one of them acts on an old copy of it.     *)
OnePollPerUser ==
    \A t, u \in Threads :
        /\ thread[t].pc \in {"load", "poll", "touch"}
        /\ thread[u].pc \in {"load", "poll", "touch"}
        /\ thread[t].event = thread[u].event
        => t = u

(* The counters of the group stay within the limit (TypeOK) and never fall *)
(* behind its threads, on any path                                         *)
(* through __inner_worker, so that no more than max_working_count threads  *)
(* are deciding or polling at a time.                                      *)
CountsCover ==
    TypeOK /\ \A p \in Pollers :
        /\ Cardinality(Deciding(p)) <= poller[p].submit
        /\ Cardinality(AtWork(p)) <= poller[p].working
        /\ Cardinality(Deciding(p) \cup AtWork(p)) <= MaxWorking

(* From parking it to making it due again, a worker has the only current   *)
(* copy of the event: update_action_time(0), whose answer the worker does  *)
(* not look at, succeeds, and the event is not polled from another copy.   *)
WorkerOwnsEvent ==
    \A t \in Threads : thread[t].pc \in {"load", "poll", "touch"} =>
        /\ t \in current /\ lock[thread[t].event] = t
        /\ row[thread[t].event] = "parked"

(* A due event is taken up, unless a call failed, the event was left by a  *)
(* poll that failed, or a wake-up was lost in one of the three ways noted  *)
(* in missed: there is no fourth.                                          *)
DueIsPolled ==
    \A e \in Events :
        (row[e] = "due") ~> (row[e] # "due" \/ e \in strayed \/ faults > 0 \/ missed)
=============================================================================
