------------------------------- MODULE PubSub -------------------------------
(***************************************************************************)
(* Platform events of one tenant (poll/platform_event): the table listener *)
(* puts a PendingTenantEvent when a session of the x1440 platform appears; *)
(* threads of pollers collect it, lock the tenant, and follow the topic    *)
(* from the replay id saved in the TenantContext, or from its end when     *)
(* there is none; each event is submitted as a push notification and the   *)
(* replay id is saved when the stream is closed.                           *)
(*                                                                         *)
(* Collecting is as in Polling: here a thread meets the event whenever it  *)
(* is due.  The stream outlasts the tenant's lock, whose lease and the     *)
(* stream's timer have the same length but begin one after the other, so   *)
(* that a second thread may follow the topic in the meantime.  Salesforce  *)
(* keeps the events of the topic; replay ids are their numbers.            *)
(***************************************************************************)
EXTENDS Integers, FiniteSets

CONSTANTS
    Workers,        \* threads of pollers
    MaxPublished,   \* bound on events of the topic
    MaxInserts,     \* bound on sessions created
    MaxLapses,      \* bound on leases that end before the stream
    MaxFaults,      \* bound on crashes and failed calls
    Free, Dead, None

ASSUME PubSubAssumption ==
    /\ MaxPublished \in Nat /\ MaxInserts \in Nat /\ MaxLapses \in Nat /\ MaxFaults \in Nat
    /\ Free # Dead /\ {Free, Dead} \cap Workers = {} /\ None \notin Nat

(* worker[w].renewed, history: the listener has written the row since w    *)
(* read it.                                                                *)
VARIABLES
    published,      \* events on the topic
    sessions,       \* the tenant's x1440 sessions: "none", "pending" or "active"
    inserts,        \* INSERT records the listener has not done with
    listener,       \* what it has read: nothing (Free), no row (None), or a stateCounter
    row,            \* the PendingTenantEvent: [due, counter], or None
    current,        \* workers whose copy of the row has its activeAt
    context,        \* the TenantContext: [counter, replay], or None
    lock,           \* "pubsub-<tenant>"
    worker,         \* each thread
    begun,          \* history: sessions created
    handled,        \* history: events dispatched
    skipped,        \* history: events that a stream left behind that began at the end
    repeated,       \* history: events dispatched again
    lateSkip,       \* history: events left behind when a replay id had been saved
    lapses, faults

vars == <<published, sessions, inserts, listener, row, current, context, lock, worker, begun,
          handled, skipped, repeated, lateSkip, lapses, faults>>

Rest == [pc |-> "idle", counter |-> 0, context |-> None, replay |-> None, pos |-> 0, renewed |-> FALSE]
Row == [due : BOOLEAN, counter : 0..1]
Context == [counter : Nat, replay : 0..MaxPublished]

ASSUME NoneAssumption == None \notin Row \cup Context

TypeOK ==
    /\ published \in 0..MaxPublished /\ sessions \in {"none", "pending", "active"}
    /\ inserts \in 0..MaxInserts /\ listener \in {Free, None, 0, 1}
    /\ row \in Row \cup {None} /\ current \subseteq Workers
    /\ context = None \/ context \in Context
    /\ lock \in Workers \cup {Free, Dead}
    /\ \A w \in Workers :
           /\ worker[w].pc \in {"idle", "lock", "park", "check", "delete", "context", "subscribe", "stream",
                                "dispatch", "next", "close", "create", "touch", "release"}
           /\ worker[w].renewed \in BOOLEAN /\ worker[w].counter \in 0..1 /\ worker[w].pos \in 0..MaxPublished
           /\ worker[w].context = None \/ worker[w].context \in Context
           /\ worker[w].replay \in 0..MaxPublished \cup {None}
    /\ UNION {handled, skipped, repeated, lateSkip} \subseteq 1..MaxPublished
    /\ lapses \in 0..MaxLapses /\ faults \in 0..MaxFaults

Init ==
    /\ published = 0 /\ sessions = "none" /\ inserts = 0 /\ listener = Free /\ begun = 0
    /\ row = None /\ current = {} /\ context = None /\ lock = Free
    /\ worker = [w \in Workers |-> Rest]
    /\ handled = {} /\ skipped = {} /\ repeated = {} /\ lateSkip = {} /\ lapses = 0 /\ faults = 0

World == <<published, sessions, inserts, listener, begun>>
Kept == <<handled, skipped, repeated, lateSkip>>
Bounds == <<lapses, faults>>

Fault == faults < MaxFaults /\ faults' = faults + 1

-----------------------------------------------------------------------------
(* Salesforce, and the tenant's sessions *)

Publish ==
    /\ published < MaxPublished /\ published' = published + 1
    /\ UNCHANGED <<sessions, inserts, listener, row, current, context, lock, worker, begun, Kept, Bounds>>

(* A session is created, PENDING; the table's stream has an INSERT record. *)
CreateSession ==
    /\ begun < MaxInserts /\ begun' = begun + 1
    /\ sessions' = IF sessions = "active" THEN sessions ELSE "pending"
    /\ inserts' = inserts + 1
    /\ UNCHANGED <<published, listener, row, current, context, lock, worker, Kept, Bounds>>

ActivateSession ==
    /\ sessions = "pending" /\ sessions' = "active"
    /\ UNCHANGED <<published, inserts, listener, row, current, context, lock, worker, begun, Kept, Bounds>>

EndSessions ==
    /\ sessions # "none" /\ sessions' = "none"
    /\ UNCHANGED <<published, inserts, listener, row, current, context, lock, worker, begun, Kept, Bounds>>

-----------------------------------------------------------------------------
(* TableListenerProcessor.invoke, PendingEventHandler.process and          *)
(* update_or_create, retried on OptimisticLockException, and by the stream *)
(* after that.                                                             *)
ListenerRead ==
    /\ inserts > 0 /\ listener = Free
    /\ listener' = IF row = None THEN None ELSE row.counter
    /\ UNCHANGED <<published, sessions, inserts, row, current, context, lock, worker, begun, Kept, Bounds>>

Renewed ==
    /\ inserts' = inserts - 1
    /\ worker' = [w \in Workers |-> IF worker[w].pc = "idle" THEN worker[w] ELSE [worker[w] EXCEPT !.renewed = TRUE]]

(* create, or patch_with_condition: the counter becomes that of the new    *)
(* entry plus one, which is 1 every time.                                  *)
ListenerWrite ==
    /\ listener # Free /\ listener' = Free
    /\ \/ /\ listener = None /\ row = None
          /\ row' = [due |-> TRUE, counter |-> 0] /\ current' = {}
          /\ Renewed
       \/ /\ listener # None /\ row # None
          /\ row.counter = listener
          /\ row' = [row EXCEPT !.counter = 1]
          /\ Renewed /\ UNCHANGED current
       \/ /\ listener # (IF row = None THEN None ELSE row.counter)
          /\ UNCHANGED <<row, current, inserts, worker>>
    /\ UNCHANGED <<published, sessions, context, lock, begun, Kept, Bounds>>

-----------------------------------------------------------------------------
(* AbstractProcessorGroup.__inner_worker *)

Is(w, pc) == worker[w].pc = pc
Goto(w, pc) == worker' = [worker EXCEPT ![w].pc = pc]

(* query_events has returned the row, and a thread is started. *)
Collect(w) ==
    /\ Is(w, "idle") /\ row # None
    /\ row.due
    /\ worker' = [worker EXCEPT ![w] = [Rest EXCEPT !.pc = "lock", !.counter = row.counter]]
    /\ current' = current \cup {w}
    /\ UNCHANGED <<World, row, context, lock, Kept, Bounds>>

TryLock(w) ==
    /\ Is(w, "lock")
    /\ \/ lock = Free /\ lock' = w /\ Goto(w, "park")
       \/ lock # Free /\ Goto(w, "idle") /\ UNCHANGED lock
    /\ UNCHANGED <<World, row, current, context, Kept, Bounds>>

(* update_action_time(refresh_seconds), conditional on activeAt *)
Park(w) ==
    /\ Is(w, "park")
    /\ \/ /\ row # None /\ w \in current
          /\ row' = [row EXCEPT !.due = FALSE] /\ current' = {w}
          /\ Goto(w, "check") /\ UNCHANGED lock
       \/ /\ row = None \/ w \notin current
          /\ lock' = (IF lock = w THEN Free ELSE lock)
          /\ Goto(w, "idle") /\ UNCHANGED <<row, current>>
    /\ UNCHANGED <<World, context, Kept, Bounds>>

(* should_poll: has_sessions_with_platform_channel_type counts sessions    *)
(* that are ACTIVE.                                                        *)
CheckSessions(w) ==
    /\ Is(w, "check")
    /\ Goto(w, IF sessions = "active" THEN "context" ELSE "delete")
    /\ UNCHANGED <<World, row, current, context, lock, Kept, Bounds>>

(* A fault for DeleteEvent: the row is deleted whatever its counter. *)
DeleteUnchecked(w) ==
    /\ Is(w, "delete")
    /\ row' = None /\ current' = {}
    /\ Goto(w, "release")
    /\ UNCHANGED <<World, context, lock, Kept, Bounds>>

(* delete_event: refused, with an exception, when the counter has changed. *)
DeleteEvent(w) ==
    /\ Is(w, "delete")
    /\ \/ /\ row # None
          /\ row.counter = worker[w].counter
          /\ row' = None /\ current' = {}
       \/ /\ row # None => row.counter # worker[w].counter
          /\ UNCHANGED <<row, current>>
    /\ Goto(w, "release")
    /\ UNCHANGED <<World, context, lock, Kept, Bounds>>

(* find_context, and ContextSettings.deserialize *)
LoadContext(w) ==
    /\ Is(w, "context")
    /\ worker' = [worker EXCEPT ![w].pc = "subscribe", ![w].context = context,
                                ![w].replay = IF context = None THEN None ELSE context.replay]
    /\ UNCHANGED <<World, row, current, context, lock, Kept, Bounds>>

(* A fault for StartOf: CUSTOM is not asked for. *)
StartLatest(replay) == published

(* __fetch: LATEST, the end of the topic, or CUSTOM *)
StartOf(replay) == IF replay = None THEN published ELSE replay

(* __iter__ and the first FetchRequest *)
Subscribe(w) ==
    LET start == StartOf(worker[w].replay)
        passed == IF worker[w].replay = None THEN 1..published ELSE {}
    IN
    /\ Is(w, "subscribe")
    /\ worker' = [worker EXCEPT ![w].pc = "stream", ![w].pos = start]
    /\ skipped' = skipped \cup passed
    /\ lateSkip' = IF context = None THEN lateSkip
                   ELSE lateSkip \cup ((context.replay + 1)..start \ handled)
    /\ UNCHANGED <<World, row, current, context, lock, handled, repeated, Bounds>>

(* A fault for Receive: the replay id is set before the event is dispatched. *)
ReceiveAndAdvance(w) ==
    /\ Is(w, "stream")
    /\ worker[w].pos < published
    /\ worker' = [worker EXCEPT ![w].pc = "dispatch", ![w].replay = worker[w].pos + 1]
    /\ UNCHANGED <<World, row, current, context, lock, Kept, Bounds>>

(* The next notification: an event, or none, with the latest replay id. *)
Receive(w) ==
    /\ Is(w, "stream")
    /\ \/ worker[w].pos < published /\ Goto(w, "dispatch")
       \/ worker[w].pos = published /\ worker' = [worker EXCEPT ![w].replay = worker[w].pos]
    /\ UNCHANGED <<World, row, current, context, lock, Kept, Bounds>>

(* __dispatch: submitted for the session that is found by its work or its  *)
(* user, or dropped because there is none; an exception ends the loop, and *)
(* with may have come after the notification was put.                      *)
Dispatch(w) ==
    LET e == worker[w].pos + 1 IN
    /\ Is(w, "dispatch")
    /\ \/ /\ Goto(w, "next") /\ UNCHANGED faults
          /\ handled' = handled \cup {e} /\ repeated' = repeated \cup ({e} \cap handled)
       \/ /\ Fault /\ Goto(w, "close")
          /\ \/ handled' = handled \cup {e} /\ repeated' = repeated \cup ({e} \cap handled)
             \/ UNCHANGED <<handled, repeated>>
    /\ UNCHANGED <<World, row, current, context, lock, skipped, lateSkip, lapses>>

(* A fault for SubmitNext: the replay id is not kept. *)
SubmitNextForgets(w) ==
    /\ Is(w, "next")
    /\ worker' = [worker EXCEPT ![w].pc = "stream", ![w].pos = @ + 1]
    /\ UNCHANGED <<World, row, current, context, lock, Kept, Bounds>>

(* The replay id is kept after the dispatch. *)
SubmitNext(w) ==
    /\ Is(w, "next")
    /\ worker' = [worker EXCEPT ![w].pc = "stream", ![w].pos = @ + 1, ![w].replay = worker[w].pos + 1]
    /\ UNCHANGED <<World, row, current, context, lock, Kept, Bounds>>

(* The fetch loop has run out of time and the subscription ends. *)
EndStream(w) ==
    /\ Is(w, "stream")
    /\ Goto(w, "close")
    /\ UNCHANGED <<World, row, current, context, lock, Kept, Bounds>>

CopyCounter(w) == IF worker[w].context = None THEN 0 ELSE worker[w].context.counter
CopyReplay(w) == IF worker[w].context = None THEN None ELSE worker[w].context.replay

(* A fault for SaveAllowed: the context is put without a condition. *)
SaveAlways(w) == context # None

(* patch_with_condition_bool on stateCounter *)
SaveAllowed(w) == context # None /\ context.counter = CopyCounter(w)

(* close: set_context_data when there is something new *)
Close(w) ==
    /\ Is(w, "close")
    /\ \/ worker[w].replay = CopyReplay(w) /\ Goto(w, "touch") /\ UNCHANGED context
       \/ /\ worker[w].replay # CopyReplay(w) /\ SaveAllowed(w)
          /\ context' = [counter |-> CopyCounter(w) + 1, replay |-> worker[w].replay]
          /\ Goto(w, "touch")
       \/ /\ worker[w].replay # CopyReplay(w) /\ ~SaveAllowed(w)
          /\ Goto(w, "create") /\ UNCHANGED context
    /\ UNCHANGED <<World, row, current, lock, Kept, Bounds>>

(* ... or create: when that fails too, OptimisticLockException, and the    *)
(* event stays where it was moved.                                         *)
CreateContext(w) ==
    /\ Is(w, "create")
    /\ \/ /\ context = None
          /\ context' = [counter |-> CopyCounter(w), replay |-> worker[w].replay]
          /\ Goto(w, "touch")
       \/ context # None /\ Goto(w, "release") /\ UNCHANGED context
    /\ UNCHANGED <<World, row, current, lock, Kept, Bounds>>

(* update_action_time(0); its answer is not looked at. *)
TouchEvent(w) ==
    /\ Is(w, "touch")
    /\ IF row # None /\ w \in current
       THEN row' = [row EXCEPT !.due = TRUE] /\ current' = {w}
       ELSE UNCHANGED <<row, current>>
    /\ Goto(w, "release")
    /\ UNCHANGED <<World, context, lock, Kept, Bounds>>

Release(w) ==
    /\ Is(w, "release")
    /\ lock' = IF lock = w THEN Free ELSE lock
    /\ current' = current \ {w}
    /\ worker' = [worker EXCEPT ![w] = Rest]
    /\ UNCHANGED <<World, row, context, Kept, Bounds>>

-----------------------------------------------------------------------------
(* The lease runs out before the stream does. *)
Lapse(w) ==
    /\ lock = w /\ lapses < MaxLapses /\ lapses' = lapses + 1
    /\ lock' = Free
    /\ UNCHANGED <<World, row, current, context, worker, Kept, faults>>

Crash(w) ==
    /\ ~Is(w, "idle") /\ Fault
    /\ lock' = IF lock = w THEN Dead ELSE lock
    /\ current' = current \ {w}
    /\ worker' = [worker EXCEPT ![w] = Rest]
    /\ UNCHANGED <<World, row, context, Kept, lapses>>

Expire ==
    /\ lock = Dead /\ lock' = Free
    /\ UNCHANGED <<World, row, current, context, worker, Kept, Bounds>>

(* The time the event was moved to has come: not before the lease is over. *)
Ripen ==
    /\ row # None /\ lock \in {Free, Dead}
    /\ ~row.due
    /\ row' = [row EXCEPT !.due = TRUE]
    /\ UNCHANGED <<World, current, context, lock, worker, Kept, Bounds>>

WorkerStep(w) ==
    \/ Collect(w) \/ TryLock(w) \/ Park(w) \/ CheckSessions(w) \/ DeleteEvent(w)
    \/ LoadContext(w) \/ Subscribe(w) \/ Receive(w) \/ Dispatch(w) \/ SubmitNext(w) \/ EndStream(w)
    \/ Close(w) \/ CreateContext(w) \/ TouchEvent(w) \/ Release(w)

Next ==
    \/ Publish \/ CreateSession \/ ActivateSession \/ EndSessions \/ ListenerRead \/ ListenerWrite
    \/ \E w \in Workers : WorkerStep(w) \/ Lapse(w) \/ Crash(w)
    \/ Expire \/ Ripen

Spec == Init /\ [][Next]_vars

-----------------------------------------------------------------------------
(* The promise of the replay id: whatever crashes, overlaps or fails, a    *)
(* stream resumes at a place before which everything was dispatched, the   *)
(* events aside that were there when a stream began without a replay id.   *)
Feed == INSTANCE AtLeastOnce WITH saved <- IF context = None THEN 0 ELSE context.replay

NothingLost == Feed!Spec

(* An event is dispatched twice only when a thread died, a call failed or  *)
(* a lease ran out under a stream.  Once a replay id is saved, a stream    *)
(* never begins behind undispatched events, unless it overlaps with        *)
(* another: then it may have read the context before the other put it.     *)
DeviationsPaidFor ==
    /\ TypeOK
    /\ repeated # {} => faults + lapses > 0
    /\ lateSkip # {} => lapses > 0

(* The saved replay id goes back only when two streams both began without  *)
(* one: the second create of the context has the counter of the first.     *)
ReplayForward ==
    [][(context # None /\ context'.replay < context.replay) => (context.counter = 0 /\ lapses > 0)]_vars

(* A thread that found no active session does not delete the event that    *)
(* the listener has renewed since for a new session, unless the counter    *)
(* was already 1 and so did not change, or the lease ran out and another   *)
(* thread deleted the row, so that the listener began again at 0.          *)
RenewedEventKept ==
    [][\A w \in Workers :
          (Is(w, "delete") /\ worker'[w].pc = "release" /\ row # None /\ row' = None)
              => (~worker[w].renewed \/ worker[w].counter = 1 \/ lapses > 0)]_vars
=============================================================================
