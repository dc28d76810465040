---------------------------- MODULE PubSubProofs ----------------------------
(***************************************************************************)
(* The promise of the replay id, what is owed to faults, and the fate of a *)
(* renewed event, for any number of threads, events, sessions and faults.  *)
(***************************************************************************)
EXTENDS PubSub, TLAPS

PCs == {"idle", "lock", "park", "check", "delete", "context", "subscribe", "stream",
        "dispatch", "next", "close", "create", "touch", "release"}

WorkerRecords ==
    [pc : PCs, counter : 0..1, context : Context \cup {None},
     replay : (0..MaxPublished) \cup {None}, pos : 0..MaxPublished, renewed : BOOLEAN]

(* The types of TypeOK with the threads as a function, and bounds that they *)
(* rest on: the listener works on a record of the stream.                  *)
Types ==
    /\ published \in 0..MaxPublished /\ sessions \in {"none", "pending", "active"}
    /\ inserts \in 0..MaxInserts /\ begun \in 0..MaxInserts /\ inserts <= begun
    /\ listener \in {Free, None, 0, 1} /\ (listener # Free => inserts > 0)
    /\ row \in Row \cup {None} /\ current \subseteq Workers
    /\ context \in Context \cup {None}
    /\ lock \in Workers \cup {Free, Dead}
    /\ worker \in [Workers -> WorkerRecords]
    /\ handled \subseteq 1..published /\ skipped \subseteq 1..published
    /\ repeated \subseteq 1..published /\ lateSkip \subseteq 1..published
    /\ lapses \in 0..MaxLapses /\ faults \in 0..MaxFaults

(* Nothing up to event n has been lost. *)
Done(n) == n <= published /\ 1..n \subseteq handled \cup skipped

(* Every place a stream may be resumed from, saved or in a thread's hands, *)
(* has nothing lost before it.                                             *)
PlacesDone ==
    /\ context # None => Done(context.replay)
    /\ \A w \in Workers :
          /\ worker[w].replay # None => Done(worker[w].replay)
          /\ worker[w].pc \in {"stream", "dispatch", "next"} => Done(worker[w].pos)
          /\ worker[w].pc \in {"dispatch", "next"} => worker[w].pos < published
          /\ worker[w].pc = "next" => worker[w].pos + 1 \in handled
          /\ worker[w].pc = "create" => worker[w].replay # None

Following == {"stream", "dispatch", "next"}
Loaded == {"subscribe", "close", "create"} \cup Following

(* A thread's replay id never falls behind its copy of the context, and a  *)
(* copy with the counter of the context is the context.                    *)
CopiesOK ==
    \A w \in Workers :
        /\ worker[w].context # None =>
              /\ context # None /\ worker[w].replay # None
              /\ worker[w].context.replay <= worker[w].replay
              /\ worker[w].context.counter <= context.counter
              /\ worker[w].context.counter = context.counter => worker[w].context = context
        /\ worker[w].pc \in Following /\ worker[w].replay # None => worker[w].replay <= worker[w].pos

(* As long as no lease has run out: a thread past its try_acquire holds    *)
(* the tenant's lock, so that its copy of the context is the context, and  *)
(* its stream begins where the context says.                               *)
Exclusive ==
    \A w \in Workers :
        /\ worker[w].pc \notin {"idle", "lock"} => lock = w
        /\ worker[w].pc \in Loaded => worker[w].context = context
        /\ worker[w].pc = "subscribe" => worker[w].replay = CopyReplay(w)
        /\ worker[w].pc = "create" => context = None

(* ... and the row, as long as its copy is current, is there, and shows a  *)
(* renewal in its counter unless the counter was 1 before.                 *)
RenewalShows ==
    \A w \in Workers :
        /\ worker[w].pc \in {"check", "delete"} => w \in current
        /\ worker[w].pc \in {"lock", "park", "check", "delete"} /\ w \in current =>
              /\ row # None
              /\ worker[w].renewed => 1 \in {worker[w].counter, row.counter}

(* As long as nothing has failed either: what was dispatched lies before   *)
(* the place the stream has come to or, between streams, the saved one.    *)
NothingAhead ==
    /\ (context # None /\ \A w \in Workers : worker[w].pc \notin Loaded \ {"subscribe"})
           => handled \subseteq 1..context.replay
    /\ \A w \in Workers :
          /\ worker[w].pc \in {"stream", "dispatch"} => handled \subseteq 1..worker[w].pos
          /\ worker[w].pc = "next" => handled \subseteq 1..(worker[w].pos + 1)
          /\ worker[w].pc \in {"stream", "close", "create"} /\ worker[w].replay # None
                => handled \subseteq 1..worker[w].replay

IInv ==
    /\ Types
    /\ PlacesDone
    /\ CopiesOK
    /\ lateSkip # {} => lapses > 0
    /\ lapses = 0 => Exclusive /\ RenewalShows
    /\ lapses = 0 /\ faults = 0 => NothingAhead /\ repeated = {}

-----------------------------------------------------------------------------
(* The initial state satisfies the inductive invariant. *)
LEMMA InitIInv == Init => IInv
<1> SUFFICES ASSUME Init PROVE IInv
  OBVIOUS
<1>1. Rest \in WorkerRecords
  BY PubSubAssumption DEF Rest, WorkerRecords, PCs
<1>2. Types
  <2>1. worker \in [Workers -> WorkerRecords] /\ \A w \in Workers : worker[w] = Rest
    BY <1>1 DEF Init
  <2> QED
    BY <1>1, <2>1, PubSubAssumption DEF Init, Types, Rest
<1>3. PlacesDone /\ CopiesOK /\ Exclusive /\ RenewalShows /\ NothingAhead
  BY DEF Init, Rest, PlacesDone, CopiesOK, Exclusive, RenewalShows, NothingAhead, Loaded,
         Following
<1> QED
  BY <1>2, <1>3 DEF Init, IInv

(* A thread's step changes no other thread, and the listener only leaves a *)
(* mark on the threads.                                                    *)
LEMMA OthersKept ==
    ASSUME Types, NEW w \in Workers, WorkerStep(w) \/ Crash(w) \/ Lapse(w)
    PROVE  \A v \in Workers : v # w => worker'[v] = worker[v]
  BY DEF Types, WorkerStep, Collect, TryLock, Park, CheckSessions, DeleteEvent, LoadContext,
         Subscribe, Receive, Dispatch, SubmitNext, EndStream, Close, CreateContext, TouchEvent,
         Release, Crash, Lapse, Goto

LEMMA RenewedKeeps ==
    ASSUME Types, Renewed
    PROVE  /\ worker' \in [Workers -> WorkerRecords]
           /\ \A v \in Workers :
                 /\ worker'[v].pc = worker[v].pc /\ worker'[v].counter = worker[v].counter
                 /\ worker'[v].context = worker[v].context /\ worker'[v].pos = worker[v].pos
                 /\ worker'[v].replay = worker[v].replay
  BY DEF Types, Renewed, WorkerRecords

(* Every thread that is somewhere else than before is of the right type. *)
LEMMA GotoTypes ==
    ASSUME Types, NEW w \in Workers, NEW p \in PCs, Goto(w, p)
    PROVE  worker' \in [Workers -> WorkerRecords]
  BY DEF Types, Goto, WorkerRecords

(* The types are those of TypeOK. *)
LEMMA TypesGiveTypeOK == Types => TypeOK
<1> SUFFICES ASSUME Types PROVE TypeOK
  OBVIOUS
<1>1. UNION {handled, skipped, repeated, lateSkip} \subseteq 1..MaxPublished
  BY PubSubAssumption DEF Types
<1>2. \A w \in Workers : worker[w] \in WorkerRecords
  BY DEF Types
<1> QED
  BY <1>1, <1>2 DEF Types, TypeOK, WorkerRecords, PCs

(* The events of a stream are events of the topic. *)
LEMMA NextTypes == Types /\ PlacesDone /\ CopiesOK /\ [Next]_vars => Types'
<1> SUFFICES ASSUME Types, PlacesDone, CopiesOK, [Next]_vars PROVE Types'
  OBVIOUS
<1> USE PubSubAssumption
<1>0. \A w \in Workers : worker[w] \in WorkerRecords
  BY DEF Types
<1>1. CASE Publish
  BY <1>1 DEF Publish, Types, Kept, Bounds
<1>2. CASE CreateSession
  BY <1>2 DEF CreateSession, Types, Kept, Bounds
<1>3. CASE ActivateSession \/ EndSessions
  BY <1>3 DEF ActivateSession, EndSessions, Types, Kept, Bounds
<1>4. CASE ListenerRead
  BY <1>4 DEF ListenerRead, Types, Row, Kept, Bounds
<1>5. CASE ListenerWrite
  <2>1. CASE Renewed
    <3>1. worker' \in [Workers -> WorkerRecords] /\ inserts' = inserts - 1
      BY <2>1, RenewedKeeps DEF Renewed
    <3>2. row' \in Row \cup {None} /\ current' \subseteq Workers
      <4>1. row # None => [row EXCEPT !.counter = 1] \in Row
        BY DEF Types, Row
      <4>2. [due |-> TRUE, counter |-> 0] \in Row
        BY DEF Row
      <4> QED
        BY <1>5, <4>1, <4>2 DEF ListenerWrite, Types
    <3> QED
      BY <1>5, <3>1, <3>2 DEF ListenerWrite, Types, Kept, Bounds
  <2>2. CASE ~Renewed
    BY <1>5, <2>2 DEF ListenerWrite, Types, Kept, Bounds
  <2> QED
    BY <2>1, <2>2
<1>6. CASE Expire \/ Ripen
  BY <1>6 DEF Expire, Ripen, Types, Row, World, Kept, Bounds
<1>7. CASE UNCHANGED vars
  BY <1>7 DEF vars, Types, Kept, Bounds
<1>8. ASSUME NEW w \in Workers, WorkerStep(w) \/ Crash(w) \/ Lapse(w) PROVE Types'
  <2>0. Rest \in WorkerRecords
    BY DEF Rest, WorkerRecords, PCs
  <2>1. CASE Collect(w)
    <3>1. [Rest EXCEPT !.pc = "lock", !.counter = row.counter] \in WorkerRecords
      <4>1. row.counter \in 0..1
        BY <2>1 DEF Collect, Types, Row
      <4> QED
        BY <2>0, <4>1 DEF WorkerRecords, PCs
    <3> QED
      BY <2>1, <3>1 DEF Collect, Types, World, Kept, Bounds
  <2>2. CASE TryLock(w)
    BY <2>2, GotoTypes DEF TryLock, Types, PCs, World, Kept, Bounds
  <2>3. CASE Park(w)
    BY <2>3, GotoTypes DEF Park, Types, Row, PCs, World, Kept, Bounds
  <2>4. CASE CheckSessions(w)
    BY <2>4, GotoTypes DEF CheckSessions, Types, PCs, World, Kept, Bounds
  <2>5. CASE DeleteEvent(w)
    BY <2>5, GotoTypes DEF DeleteEvent, Types, PCs, World, Kept, Bounds
  <2>6. CASE LoadContext(w)
    <3>1. [worker[w] EXCEPT !.pc = "subscribe", !.context = context,
                            !.replay = IF context = None THEN None ELSE context.replay]
              \in WorkerRecords
      BY <1>0 DEF Types, Context, WorkerRecords, PCs
    <3>2. worker' \in [Workers -> WorkerRecords]
      BY <2>6, <3>1 DEF LoadContext, Types
    <3> QED
      BY <2>6, <3>2 DEF LoadContext, Types, World, Kept, Bounds
  <2>7. CASE Subscribe(w)
    <3>1. StartOf(worker[w].replay) \in 0..published
      BY <1>0 DEF StartOf, PlacesDone, Done, WorkerRecords, Types
    <3>2. worker' \in [Workers -> WorkerRecords]
      <4>1. [worker[w] EXCEPT !.pc = "stream", !.pos = StartOf(worker[w].replay)] \in WorkerRecords
        <5>1. StartOf(worker[w].replay) \in 0..MaxPublished
          BY <3>1 DEF Types
        <5> QED
          BY <1>0, <5>1 DEF WorkerRecords, PCs
      <4> QED
        BY <2>7, <4>1 DEF Subscribe, Types
    <3>3. skipped' \subseteq 1..published
      BY <2>7 DEF Subscribe, Types
    <3>4. lateSkip' \subseteq 1..published
      <4>1. context # None => context.replay \in Nat
        BY DEF Types, Context
      <4> QED
        BY <2>7, <3>1, <4>1 DEF Subscribe, Types
    <3> QED
      BY <2>7, <3>2, <3>3, <3>4 DEF Subscribe, Types, World, Bounds
  <2>8. CASE Receive(w)
    BY <1>0, <2>8 DEF Receive, Goto, Types, WorkerRecords, PCs, World, Kept, Bounds
  <2>9. CASE Dispatch(w)
    <3>1. worker[w].pos + 1 \in 1..published
      BY <1>0, <2>9 DEF Dispatch, Is, PlacesDone, WorkerRecords, Types
    <3>2. worker' \in [Workers -> WorkerRecords] /\ faults' \in 0..MaxFaults
      BY <2>9, GotoTypes DEF Dispatch, Fault, PCs, Types
    <3> QED
      BY <2>9, <3>1, <3>2 DEF Dispatch, Types, World
  <2>10. CASE SubmitNext(w)
    <3>1. worker[w].pos + 1 \in 0..MaxPublished
      BY <1>0, <2>10 DEF SubmitNext, Is, PlacesDone, WorkerRecords, Types
    <3> QED
      BY <1>0, <2>10, <3>1 DEF SubmitNext, Types, WorkerRecords, PCs, World, Kept, Bounds
  <2>11. CASE EndStream(w)
    BY <2>11, GotoTypes DEF EndStream, Types, PCs, World, Kept, Bounds
  <2>12. CASE Close(w) \/ CreateContext(w)
    <3>1. context' \in Context \cup {None}
      <4>1. CopyCounter(w) \in Nat
        BY <1>0 DEF CopyCounter, WorkerRecords, Context
      <4>2. context' # context => worker[w].replay \in 0..MaxPublished
        BY <1>0, <2>12 DEF Close, CreateContext, CopyReplay, Is, PlacesDone, CopiesOK, WorkerRecords
      <4> QED
        BY <2>12, <4>1, <4>2 DEF Close, CreateContext, Types, Context
    <3>2. worker' \in [Workers -> WorkerRecords]
      BY <2>12, GotoTypes DEF Close, CreateContext, PCs
    <3> QED
      BY <2>12, <3>1, <3>2 DEF Close, CreateContext, Types, World, Kept, Bounds
  <2>13. CASE TouchEvent(w)
    BY <2>13, GotoTypes DEF TouchEvent, Types, Row, PCs, World, Kept, Bounds
  <2>14. CASE Release(w)
    BY <2>0, <2>14 DEF Release, Types, World, Kept, Bounds
  <2>15. CASE Crash(w)
    BY <2>0, <2>15 DEF Crash, Fault, Types, World, Kept
  <2>16. CASE Lapse(w)
    BY <2>16 DEF Lapse, Types, World, Kept
  <2> QED
    BY <1>8, <2>1, <2>2, <2>3, <2>4, <2>5, <2>6, <2>7, <2>8, <2>9, <2>10, <2>11, <2>12, <2>13,
       <2>14, <2>15, <2>16 DEF WorkerStep
<1> QED
  BY <1>1, <1>2, <1>3, <1>4, <1>5, <1>6, <1>7, <1>8 DEF Next

-----------------------------------------------------------------------------
(* What was done stays done: the sets only grow. *)
LEMMA DoneStays ==
    ASSUME Types, NEW n \in 0..MaxPublished, Done(n),
           published' \in Nat, published <= published', handled \subseteq handled', skipped \subseteq skipped'
    PROVE  Done(n)'
  BY PubSubAssumption DEF Done, Types

LEMMA Grow ==
    ASSUME Types, [Next]_vars
    PROVE  /\ published' \in Nat /\ published <= published'
           /\ handled \subseteq handled' /\ skipped \subseteq skipped'
<1>1. published' = published \/ published' = published + 1
  BY DEF Next, vars, Publish, CreateSession, ActivateSession, EndSessions, ListenerRead,
         ListenerWrite, WorkerStep, Collect, TryLock, Park, CheckSessions, DeleteEvent,
         LoadContext, Subscribe, Receive, Dispatch, SubmitNext, EndStream, Close, CreateContext,
         TouchEvent, Release, Crash, Lapse, Expire, Ripen, World
<1>2. handled \subseteq handled' /\ skipped \subseteq skipped'
  BY DEF Next, vars, Publish, CreateSession, ActivateSession, EndSessions, ListenerRead,
         ListenerWrite, WorkerStep, Collect, TryLock, Park, CheckSessions, DeleteEvent,
         LoadContext, Subscribe, Receive, Dispatch, SubmitNext, EndStream, Close, CreateContext,
         TouchEvent, Release, Crash, Lapse, Expire, Ripen, Kept
<1>3. published \in Nat
  BY PubSubAssumption DEF Types
<1> QED
  BY <1>1, <1>2, <1>3

(* The steps that involve no thread leave the threads where they are. *)
LEMMA WorldSteps ==
    ASSUME Types,
           Publish \/ CreateSession \/ ActivateSession \/ EndSessions \/ ListenerRead
             \/ ListenerWrite \/ Expire \/ Ripen \/ UNCHANGED vars
    PROVE  /\ UNCHANGED <<context, handled, skipped, repeated, lateSkip, lapses, faults>>
           /\ \A v \in Workers :
                 /\ worker'[v].pc = worker[v].pc /\ worker'[v].counter = worker[v].counter
                 /\ worker'[v].context = worker[v].context /\ worker'[v].pos = worker[v].pos
                 /\ worker'[v].replay = worker[v].replay
<1>1. CASE Renewed /\ ListenerWrite
  BY <1>1, RenewedKeeps DEF ListenerWrite, Kept, Bounds
<1>2. CASE worker' = worker
  BY <1>2 DEF Publish, CreateSession, ActivateSession, EndSessions, ListenerRead, ListenerWrite,
              Expire, Ripen, vars, World, Kept, Bounds
<1> QED
  BY <1>1, <1>2 DEF Publish, CreateSession, ActivateSession, EndSessions, ListenerRead,
                    ListenerWrite, Expire, Ripen, vars

(* A thread advances only past what it has dispatched, and saves the place *)
(* it has come to.                                                         *)
LEMMA NextPlacesDone == Types /\ PlacesDone /\ CopiesOK /\ [Next]_vars => PlacesDone'
<1> SUFFICES ASSUME Types, PlacesDone, CopiesOK, [Next]_vars PROVE PlacesDone'
  OBVIOUS
<1> DEFINE Place(v) ==
              /\ worker[v].replay # None => Done(worker[v].replay)
              /\ worker[v].pc \in {"stream", "dispatch", "next"} => Done(worker[v].pos)
              /\ worker[v].pc \in {"dispatch", "next"} => worker[v].pos < published
              /\ worker[v].pc = "next" => worker[v].pos + 1 \in handled
              /\ worker[v].pc = "create" => worker[v].replay # None
<1>0. /\ \A v \in Workers : worker[v] \in WorkerRecords /\ Place(v)
      /\ context # None => context.replay \in 0..MaxPublished /\ Done(context.replay)
      /\ published \in Nat
  BY PubSubAssumption DEF Types, PlacesDone, Context
<1>1. /\ published' \in Nat /\ published <= published'
      /\ handled \subseteq handled' /\ skipped \subseteq skipped'
      /\ \A n \in 0..MaxPublished : Done(n) => Done(n)'
  BY Grow, DoneStays
<1>2. ASSUME NEW v \in Workers,
             worker'[v].pc = worker[v].pc, worker'[v].pos = worker[v].pos,
             worker'[v].replay = worker[v].replay
      PROVE  Place(v)'
  <2>1. /\ worker[v].pos \in 0..MaxPublished
        /\ worker[v].replay # None => worker[v].replay \in 0..MaxPublished
    BY <1>0 DEF WorkerRecords
  <2>2. worker[v].pos < published => worker[v].pos < published'
    BY <1>0, <1>1, <2>1
  <2> HIDE DEF Place
  <2> QED
    BY <1>0, <1>1, <1>2, <2>1, <2>2 DEF Place
<1>3. ASSUME \A v \in Workers : Place(v)',
             context' # None => Done(context.replay)'
      PROVE  PlacesDone'
  BY <1>3 DEF PlacesDone
<1>4. CASE Publish \/ CreateSession \/ ActivateSession \/ EndSessions \/ ListenerRead
             \/ ListenerWrite \/ Expire \/ Ripen \/ UNCHANGED vars
  <2>1. context' = context /\ \A v \in Workers : Place(v)'
    BY <1>2, <1>4, WorldSteps
  <2> QED
    BY <1>0, <1>1, <1>3, <2>1
<1>5. ASSUME NEW w \in Workers, WorkerStep(w) \/ Crash(w) \/ Lapse(w) PROVE PlacesDone'
  <2>0. worker[w] \in WorkerRecords /\ worker[w].pos \in Nat
    BY <1>0 DEF WorkerRecords
  <2>1. \A v \in Workers : v # w => Place(v)'
    BY <1>2, <1>5, OthersKept
  <2> HIDE DEF Place
  <2>2. ASSUME Place(w)', context' = context PROVE PlacesDone'
    BY <1>0, <1>1, <1>3, <2>1, <2>2
  <2> USE DEF Types, WorkerRecords
  <2>3. CASE Collect(w) \/ Release(w) \/ Crash(w)
    <3>1. /\ worker'[w].pc \in {"lock", "idle"} /\ worker'[w].replay = None
          /\ context' = context
      <4>1. CASE Collect(w)
        BY <2>0, <4>1 DEF Collect, Rest
      <4>2. CASE Release(w) \/ Crash(w)
        BY <4>2 DEF Release, Crash, Rest
      <4> QED
        BY <2>3, <4>1, <4>2
    <3> QED
      BY <2>2, <3>1 DEF Place
  <2>4. CASE TryLock(w) \/ Park(w) \/ CheckSessions(w) \/ DeleteEvent(w) \/ TouchEvent(w)
             \/ EndStream(w)
    <3>1. /\ worker'[w].pc \notin {"stream", "dispatch", "next", "create"}
          /\ worker'[w].replay = worker[w].replay /\ context' = context
      BY <2>4 DEF TryLock, Park, CheckSessions, DeleteEvent, TouchEvent, EndStream, Goto
    <3> QED
      BY <1>0, <1>1, <2>2, <3>1 DEF Place
  <2>5. CASE Lapse(w)
    BY <1>2, <2>2, <2>5 DEF Lapse
  <2>6. CASE LoadContext(w)
    <3>1. /\ worker'[w].pc = "subscribe" /\ context' = context
          /\ worker'[w].replay # None => context # None /\ worker'[w].replay = context.replay
      BY <2>6 DEF LoadContext
    <3> QED
      BY <1>0, <1>1, <2>2, <3>1 DEF Place
  <2>7. CASE Subscribe(w)
    <3>1. /\ worker'[w].pc = "stream" /\ worker'[w].replay = worker[w].replay
          /\ worker'[w].pos = StartOf(worker[w].replay) /\ context' = context
          /\ published' = published
          /\ worker[w].replay = None => skipped' = skipped \cup 1..published
      BY <2>7 DEF Subscribe, World
    <3>2. CASE worker[w].replay = None
      BY <2>2, <3>1, <3>2 DEF Place, Done, StartOf
    <3>3. CASE worker[w].replay # None
      BY <1>0, <1>1, <2>2, <3>1, <3>3 DEF Place, StartOf
    <3> QED
      BY <3>2, <3>3
  <2>8. CASE Receive(w)
    <3>1. /\ worker'[w].pos = worker[w].pos /\ context' = context /\ published' = published
          /\ worker[w].pc = "stream"
          /\ \/ /\ worker'[w].pc = "dispatch" /\ worker[w].pos < published
                /\ worker'[w].replay = worker[w].replay
             \/ worker'[w].pc = "stream" /\ worker'[w].replay = worker[w].pos
      BY <2>8 DEF Receive, Goto, Is, World
    <3> QED
      BY <1>0, <1>1, <2>2, <3>1 DEF Place
  <2>9. CASE Dispatch(w)
    <3>1. /\ worker'[w].pos = worker[w].pos /\ context' = context /\ published' = published
          /\ worker[w].pc = "dispatch" /\ worker'[w].replay = worker[w].replay
          /\ \/ worker'[w].pc = "next" /\ handled' = handled \cup {worker[w].pos + 1}
             \/ worker'[w].pc = "close"
      BY <2>9 DEF Dispatch, Goto, Is, World
    <3> QED
      BY <1>0, <1>1, <2>2, <3>1 DEF Place
  <2>10. CASE SubmitNext(w)
    <3>1. /\ worker'[w].pos = worker[w].pos + 1 /\ context' = context /\ published' = published
          /\ worker[w].pc = "next" /\ worker'[w].pc = "stream"
          /\ worker'[w].replay = worker[w].pos + 1
          /\ UNCHANGED <<handled, skipped>>
      BY <2>10 DEF SubmitNext, Is, World, Kept
    <3>2. worker[w].pos + 1 <= published /\ 1..(worker[w].pos + 1) \subseteq handled \cup skipped
      BY <1>0, <2>0, <3>1 DEF Place, Done
    <3>3. Done(worker[w].pos)' /\ Done(worker[w].replay)'
      BY <3>1, <3>2 DEF Done
    <3> QED
      BY <2>2, <3>1, <3>3 DEF Place
  <2>11. CASE Close(w) \/ CreateContext(w)
    <3>1. worker'[w].pc \in {"touch", "create", "release"} /\ worker'[w].replay = worker[w].replay
      BY <2>11 DEF Close, CreateContext, Goto
    <3>2. worker'[w].pc = "create" => worker[w].replay # None /\ context' = context
      BY <2>11 DEF Close, CreateContext, Goto, CopyReplay, CopiesOK
    <3>3. context' # context => worker[w].replay # None /\ context'.replay = worker[w].replay
      BY <1>0, <2>11 DEF Place, Close, CreateContext, CopyReplay, CopiesOK, Is
    <3>4. Place(w)'
      BY <1>0, <1>1, <3>1, <3>2 DEF Place
    <3>5. context' # None => Done(context.replay)'
      BY <1>0, <1>1, <3>3 DEF Place
    <3> QED
      BY <1>3, <2>1, <3>4, <3>5
  <2> QED
    BY <1>5, <2>3, <2>4, <2>5, <2>6, <2>7, <2>8, <2>9, <2>10, <2>11 DEF WorkerStep
<1> QED
  BY <1>4, <1>5 DEF Next

(* The context changes only when a thread closes its stream: it is created *)
(* with the counter of the thread's copy, or its counter goes up by one.   *)
LEMMA ContextChange ==
    ASSUME Types, PlacesDone, CopiesOK, [Next]_vars, context' # context
    PROVE  /\ context' \in Context
           /\ \E w \in Workers :
                 /\ Close(w) \/ CreateContext(w)
                 /\ context'.replay = worker[w].replay /\ worker[w].replay # None
                 /\ worker[w].pc \in {"close", "create"}
                 /\ \/ context = None /\ CreateContext(w) /\ context'.counter = CopyCounter(w)
                    \/ /\ Close(w) /\ SaveAllowed(w)
                       /\ context'.counter = CopyCounter(w) + 1
<1>1. PICK w \in Workers : Close(w) \/ CreateContext(w)
  BY DEF Next, vars, Publish, CreateSession, ActivateSession, EndSessions, ListenerRead,
         ListenerWrite, WorkerStep, Collect, TryLock, Park, CheckSessions, DeleteEvent,
         LoadContext, Subscribe, Receive, Dispatch, SubmitNext, EndStream,
         TouchEvent, Release, Crash, Lapse, Expire, Ripen
<1>2. context' # None
  <2>1. Types'
    BY NextTypes
  <2>2. context' \in Context \cup {None}
    BY <2>1 DEF Types
  <2>3. CopyCounter(w) \in Nat
    BY <1>1 DEF CopyCounter, Types, WorkerRecords, Context
  <2>4. worker[w].replay \in 0..MaxPublished
    BY <1>1 DEF Close, CreateContext, CopyReplay, Is, PlacesDone, CopiesOK, Types, WorkerRecords
  <2> QED
    BY <1>1, <2>2, <2>3, <2>4, NoneAssumption DEF Close, CreateContext, Context
<1>3. worker[w].replay # None /\ worker[w].pc \in {"close", "create"}
  BY <1>1 DEF Close, CreateContext, CopyReplay, Is, PlacesDone, CopiesOK
<1>4. context' \in Context
  BY <1>2, NextTypes DEF Types
<1> QED
  BY <1>1, <1>3, <1>4 DEF Close, CreateContext

(* Copies stay behind the context, and streams ahead of their replay ids. *)
LEMMA NextCopiesOK == Types /\ PlacesDone /\ CopiesOK /\ [Next]_vars => CopiesOK'
<1> SUFFICES ASSUME Types, PlacesDone, CopiesOK, [Next]_vars PROVE CopiesOK'
  OBVIOUS
<1> DEFINE Copy(v) ==
              /\ worker[v].context # None =>
                    /\ context # None /\ worker[v].replay # None
                    /\ worker[v].context.replay <= worker[v].replay
                    /\ worker[v].context.counter <= context.counter
                    /\ worker[v].context.counter = context.counter => worker[v].context = context
              /\ worker[v].pc \in Following /\ worker[v].replay # None
                    => worker[v].replay <= worker[v].pos
<1>0. /\ \A v \in Workers : /\ worker[v] \in WorkerRecords /\ Copy(v) /\ worker[v].pos \in Nat
                            /\ worker[v].replay # None => worker[v].replay \in Nat
                            /\ worker[v].context # None =>
                                   worker[v].context.counter \in Nat /\ worker[v].context.replay \in Nat
      /\ context # None => context.counter \in Nat /\ context.replay \in Nat
  BY DEF Types, CopiesOK, WorkerRecords, Context
<1>1. \/ context' = context
      \/ context' # None /\ (context # None => context'.counter = context.counter + 1)
  BY <1>0, ContextChange, NoneAssumption DEF SaveAllowed, CopyCounter, Context
<1>2. ASSUME NEW v \in Workers,
             worker'[v].pc \in Following => worker[v].pc \in Following,
             worker'[v].pos = worker[v].pos,
             worker'[v].context = worker[v].context, worker'[v].replay = worker[v].replay
      PROVE  Copy(v)'
  BY <1>0, <1>1, <1>2
<1>3. ASSUME \A v \in Workers : Copy(v)' PROVE CopiesOK'
  BY <1>3 DEF CopiesOK
<1>4. CASE Publish \/ CreateSession \/ ActivateSession \/ EndSessions \/ ListenerRead
             \/ ListenerWrite \/ Expire \/ Ripen \/ UNCHANGED vars
  BY <1>2, <1>3, <1>4, WorldSteps
<1>5. ASSUME NEW w \in Workers, WorkerStep(w) \/ Crash(w) \/ Lapse(w) PROVE CopiesOK'
  <2>0. worker[w] \in WorkerRecords
    BY <1>0
  <2>1. \A v \in Workers : v # w => Copy(v)'
    BY <1>2, <1>5, OthersKept
  <2> HIDE DEF Copy
  <2>2. ASSUME Copy(w)' PROVE CopiesOK'
    BY <1>3, <2>1, <2>2
  <2> USE DEF Types, WorkerRecords
  <2>3. CASE Collect(w) \/ Release(w) \/ Crash(w)
    <3>1. worker'[w].pc \notin Following /\ worker'[w].context = None
      <4>1. CASE Collect(w)
        BY <2>0, <4>1 DEF Collect, Rest, Following
      <4>2. CASE Release(w) \/ Crash(w)
        BY <4>2 DEF Release, Crash, Rest, Following
      <4> QED
        BY <2>3, <4>1, <4>2
    <3> QED
      BY <2>2, <3>1 DEF Copy
  <2>4. CASE TryLock(w) \/ Park(w) \/ CheckSessions(w) \/ DeleteEvent(w) \/ TouchEvent(w)
             \/ EndStream(w) \/ Dispatch(w) \/ Close(w) \/ CreateContext(w) \/ Lapse(w)
    <3>1. /\ worker'[w].pc \in Following => worker[w].pc \in Following
          /\ worker'[w].pos = worker[w].pos
          /\ worker'[w].context = worker[w].context /\ worker'[w].replay = worker[w].replay
      BY <2>4 DEF TryLock, Park, CheckSessions, DeleteEvent, TouchEvent, EndStream, Dispatch,
                  Close, CreateContext, Lapse, Goto, Is, Following
    <3> QED
      BY <1>2, <2>2, <3>1
  <2>5. CASE LoadContext(w)
    <3>1. /\ worker'[w].pc \notin Following /\ worker'[w].context = context /\ context' = context
          /\ context # None => worker'[w].replay = context.replay
      BY <2>5 DEF LoadContext, Following
    <3> QED
      BY <1>0, <2>2, <3>1, PubSubAssumption DEF Copy
  <2>6. CASE Subscribe(w)
    <3>1. /\ worker'[w].replay = worker[w].replay /\ worker'[w].context = worker[w].context
          /\ worker'[w].pos = StartOf(worker[w].replay) /\ context' = context
      BY <2>6 DEF Subscribe
    <3> QED
      BY <1>0, <2>2, <3>1 DEF Copy, StartOf
  <2>7. CASE Receive(w)
    <3>1. /\ worker'[w].pos = worker[w].pos /\ worker'[w].context = worker[w].context
          /\ worker'[w].replay \in {worker[w].replay, worker[w].pos} /\ context' = context
          /\ worker[w].pc \in Following
      BY <2>7 DEF Receive, Goto, Is, Following
    <3> QED
      BY <1>0, <2>2, <3>1, PubSubAssumption DEF Copy
  <2>8. CASE SubmitNext(w)
    <3>1. /\ worker'[w].pos = worker[w].pos + 1 /\ worker'[w].context = worker[w].context
          /\ worker'[w].replay = worker[w].pos + 1 /\ context' = context
          /\ worker[w].pc \in Following
      BY <2>8 DEF SubmitNext, Is, Following
    <3> QED
      BY <1>0, <2>2, <3>1, PubSubAssumption DEF Copy
  <2> QED
    BY <1>5, <2>3, <2>4, <2>5, <2>6, <2>7, <2>8 DEF WorkerStep
<1> QED
  BY <1>4, <1>5 DEF Next

-----------------------------------------------------------------------------
(* Until a lease runs out, the lock keeps all but one thread out. *)
LEMMA NextExclusive ==
    ASSUME Types, lapses = 0 => Exclusive, [Next]_vars, lapses' = 0
    PROVE  lapses = 0 /\ Exclusive'
<1> DEFINE Excl(v) ==
              /\ worker[v].pc \notin {"idle", "lock"} => lock = v
              /\ worker[v].pc \in Loaded => worker[v].context = context
              /\ worker[v].pc = "subscribe" => worker[v].replay = CopyReplay(v)
              /\ worker[v].pc = "create" => context = None
<1>1. lapses = 0
  <2>1. lapses' = lapses \/ lapses' = lapses + 1
    BY DEF Next, vars, Publish, CreateSession, ActivateSession, EndSessions, ListenerRead,
           ListenerWrite, WorkerStep, Collect, TryLock, Park, CheckSessions, DeleteEvent,
           LoadContext, Subscribe, Receive, Dispatch, SubmitNext, EndStream, Close, CreateContext,
           TouchEvent, Release, Crash, Lapse, Expire, Ripen, Bounds
  <2> QED
    BY <2>1 DEF Types
<1>2. \A v \in Workers : Excl(v) /\ worker[v] \in WorkerRecords
  BY <1>1 DEF Exclusive, Types
<1>3. ASSUME NEW v \in Workers, lock' = lock, context' = context,
             worker'[v].pc = worker[v].pc, worker'[v].context = worker[v].context,
             worker'[v].replay = worker[v].replay
      PROVE  Excl(v)'
  BY <1>2, <1>3 DEF CopyReplay
<1>4. ASSUME \A v \in Workers : Excl(v)' PROVE Exclusive'
  BY <1>4 DEF Exclusive
<1>5. CASE Publish \/ CreateSession \/ ActivateSession \/ EndSessions \/ ListenerRead
             \/ ListenerWrite \/ Ripen \/ UNCHANGED vars
  <2>1. lock' = lock
    BY <1>5 DEF Publish, CreateSession, ActivateSession, EndSessions, ListenerRead,
                ListenerWrite, Ripen, vars
  <2> QED
    BY <1>1, <1>3, <1>4, <1>5, <2>1, WorldSteps
<1>6. CASE Expire
  <2>1. \A v \in Workers : worker[v].pc \in {"idle", "lock"}
    BY <1>2, <1>6, PubSubAssumption DEF Expire
  <2>2. \A v \in Workers : worker'[v].pc \in {"idle", "lock"}
    BY <1>6, <2>1 DEF Expire
  <2> QED
    BY <1>1, <1>4, <2>2 DEF Loaded, Following
<1>7. ASSUME NEW w \in Workers, WorkerStep(w) \/ Crash(w) \/ Lapse(w) PROVE Exclusive'
  <2>0. worker[w] \in WorkerRecords /\ Excl(w) /\ w \notin {Free, Dead}
    BY <1>2, PubSubAssumption
  <2> HIDE DEF Excl
  <2>1. CASE UNCHANGED <<lock, context>>
    <3>1. \A v \in Workers : v # w => Excl(v)'
      BY <1>3, <1>7, <2>1, OthersKept
    <3>2. Excl(w)'
      <4> USE DEF Types, WorkerRecords
      <4>1. CASE Collect(w)
        BY <2>0, <4>1 DEF Collect, Rest, Excl, Loaded, Following
      <4>2. CASE TryLock(w) \/ Park(w) \/ Release(w) \/ Crash(w)
        <5>1. worker'[w].pc \in {"idle", "lock"}
              \/ (worker'[w].pc \in {"park", "check"} /\ lock' = w)
          BY <2>0, <2>1, <4>2 DEF TryLock, Park, Release, Crash, Goto, Rest, Is, Excl
        <5> QED
          BY <5>1 DEF Excl, Loaded, Following
      <4>3. CASE CheckSessions(w) \/ DeleteEvent(w) \/ TouchEvent(w)
        <5>1. worker[w].pc \notin {"idle", "lock"} /\ worker'[w].pc \in {"context", "delete", "release"}
          BY <4>3 DEF CheckSessions, DeleteEvent, TouchEvent, Goto, Is
        <5> QED
          BY <2>0, <2>1, <5>1 DEF Excl, Loaded, Following
      <4>4. CASE LoadContext(w)
        <5>1. /\ worker[w].pc = "context" /\ worker'[w].pc = "subscribe"
              /\ worker'[w].context = context
              /\ worker'[w].replay = IF context = None THEN None ELSE context.replay
          BY <4>4 DEF LoadContext, Is
        <5> QED
          BY <2>0, <2>1, <5>1 DEF Excl, CopyReplay
      <4>5. CASE Subscribe(w) \/ Receive(w) \/ Dispatch(w) \/ SubmitNext(w) \/ EndStream(w)
                 \/ Close(w) \/ CreateContext(w)
        <5>1. /\ worker[w].pc \in Loaded /\ worker'[w].context = worker[w].context
              /\ worker'[w].pc \in (Loaded \ {"subscribe"}) \cup {"touch", "release"}
          BY <4>5 DEF Subscribe, Receive, Dispatch, SubmitNext, EndStream, Close, CreateContext,
                      Goto, Is, Loaded, Following
        <5>2. worker[w].pc \notin {"idle", "lock"}
          BY <5>1 DEF Loaded, Following
        <5>3. worker'[w].pc = "create" => context = None
          BY <2>0, <4>5, <5>1 DEF Subscribe, Receive, Dispatch, SubmitNext, EndStream, Close,
                CreateContext, Goto, Is, Excl, CopyCounter, SaveAllowed
        <5> QED
          BY <2>0, <2>1, <5>1, <5>2, <5>3 DEF Excl
      <4>6. CASE Lapse(w)
        BY <1>1, <4>6 DEF Lapse
      <4> QED
        BY <1>7, <4>1, <4>2, <4>3, <4>4, <4>5, <4>6 DEF WorkerStep
    <3> QED
      BY <1>4, <3>1, <3>2
  <2>2. CASE lock' # lock
    <3> USE DEF Types, WorkerRecords
    <3>1. /\ lock \in {Free, w}
          /\ \/ worker'[w].pc = "idle"
             \/ worker'[w].pc = "park" /\ lock' = w
      BY <1>1, <1>7, <2>0, <2>2
      DEF WorkerStep, Collect, TryLock, Park, CheckSessions, DeleteEvent, LoadContext, Subscribe,
          Receive, Dispatch, SubmitNext, EndStream, Close, CreateContext, TouchEvent, Release,
          Crash, Lapse, Goto, Rest, Is, Excl
    <3>2. \A v \in Workers : v # w => worker'[v].pc \in {"idle", "lock"}
      BY <1>2, <1>7, <3>1, OthersKept, PubSubAssumption DEF Excl
    <3>3. \A v \in Workers : Excl(v)'
      BY <3>1, <3>2 DEF Excl, Loaded, Following
    <3> QED
      BY <1>4, <3>3
  <2>3. CASE lock' = lock /\ context' # context
    <3> USE DEF Types, WorkerRecords
    <3>1. Close(w) \/ CreateContext(w)
      BY <1>7, <2>3 DEF WorkerStep, Collect, TryLock, Park, CheckSessions, DeleteEvent, LoadContext,
          Subscribe, Receive, Dispatch, SubmitNext, EndStream, TouchEvent, Release, Crash, Lapse
    <3>2. lock = w /\ worker'[w].pc = "touch"
      BY <2>0, <2>3, <3>1 DEF Close, CreateContext, Goto, Is, Excl
    <3>3. \A v \in Workers : v # w => worker'[v].pc \in {"idle", "lock"}
      BY <1>2, <1>7, <3>2, OthersKept DEF Excl
    <3>4. \A v \in Workers : Excl(v)'
      BY <2>3, <3>2, <3>3 DEF Excl, Loaded, Following
    <3> QED
      BY <1>4, <3>4
  <2> QED
    BY <2>1, <2>2, <2>3
<1> QED
  BY <1>1, <1>5, <1>6, <1>7 DEF Next

(* A renewal of the row shows to the thread that works on it. *)
LEMMA NextRenewalShows ==
    ASSUME Types, Exclusive, RenewalShows, [Next]_vars, lapses = 0, lapses' = 0
    PROVE  RenewalShows'
<1> DEFINE Ren(v) ==
              /\ worker[v].pc \in {"check", "delete"} => v \in current
              /\ worker[v].pc \in {"lock", "park", "check", "delete"} /\ v \in current =>
                    /\ row # None
                    /\ worker[v].renewed => 1 \in {worker[v].counter, row.counter}
<1>1. \A v \in Workers : Ren(v) /\ worker[v] \in WorkerRecords
  BY DEF RenewalShows, Types
<1>2. ASSUME \A v \in Workers : Ren(v)' PROVE RenewalShows'
  BY <1>2 DEF RenewalShows
<1>3. ASSUME NEW v \in Workers, worker'[v] = worker[v], current' = current, row # None => row' # None,
             row # None => row'.counter = row.counter
      PROVE  Ren(v)'
  BY <1>1, <1>3
<1>4. CASE Publish \/ CreateSession \/ ActivateSession \/ EndSessions \/ ListenerRead
             \/ Expire \/ Ripen \/ UNCHANGED vars
  <2>1. /\ worker' = worker /\ current' = current
        /\ row # None => row' # None /\ row'.counter = row.counter
    BY <1>4, NoneAssumption
    DEF Publish, CreateSession, ActivateSession, EndSessions, ListenerRead, Expire,
        Ripen, vars, Types, Row
  <2> QED
    BY <1>2, <1>3, <2>1
<1>5. CASE ListenerWrite
  <2>1. CASE UNCHANGED <<row, current, worker>>
    BY <1>2, <1>3, <2>1
  <2>2. CASE row = None /\ current' = {} /\ Renewed
    <3>1. \A v \in Workers : worker[v].pc \notin {"check", "delete"}
      BY <1>1, <2>2
    <3>2. \A v \in Workers : worker'[v].pc \notin {"check", "delete"} /\ v \notin current'
      BY <2>2, <3>1, RenewedKeeps
    <3> QED
      BY <1>2, <3>2
  <2>3. CASE row # None /\ row' = [row EXCEPT !.counter = 1] /\ current' = current /\ Renewed
    <3>1. row' \in Row /\ row'.counter = 1 /\ row' # None
      BY <2>3, NoneAssumption DEF Types, Row
    <3> QED
      BY <1>1, <1>2, <2>3, <3>1, RenewedKeeps
  <2> QED
    BY <1>5, <2>1, <2>2, <2>3 DEF ListenerWrite
<1>6. ASSUME NEW w \in Workers, WorkerStep(w) \/ Crash(w) \/ Lapse(w) PROVE RenewalShows'
  <2>0. worker[w] \in WorkerRecords /\ Ren(w)
    BY <1>1
  <2>a. \A v \in Workers : v # w => worker'[v] = worker[v]
    BY <1>6, OthersKept
  <2>b. ASSUME NEW v \in Workers, v # w, worker[v].pc \notin {"idle", "lock"}
        PROVE  worker[w].pc \in {"idle", "lock"}
    BY <2>b DEF Exclusive
  <2> HIDE DEF Ren
  <2> USE DEF Types, WorkerRecords
  <2>1. CASE Collect(w)
    <3>1. /\ worker'[w].pc = "lock" /\ worker'[w].renewed = FALSE /\ row' = row /\ row # None
          /\ current' = current \cup {w}
      BY <2>0, <2>1 DEF Collect, Rest
    <3>2. \A v \in Workers : v # w => Ren(v)'
      BY <1>1, <2>a, <3>1 DEF Ren
    <3> QED
      BY <1>2, <3>1, <3>2 DEF Ren
  <2>2. CASE TryLock(w) \/ Lapse(w)
    <3>1. /\ worker'[w].pc \in {worker[w].pc, "park", "idle"} /\ row' = row /\ current' = current
          /\ worker'[w].pc = "park" => worker[w].pc \in {"lock", "park"}
          /\ worker'[w].renewed = worker[w].renewed /\ worker'[w].counter = worker[w].counter
      BY <2>0, <2>2 DEF TryLock, Lapse, Goto, Is
    <3>2. Ren(w)'
      BY <2>0, <3>1 DEF Ren
    <3> QED
      BY <1>2, <1>3, <2>a, <3>1, <3>2
  <2>3. CASE Park(w)
    <3>1. \A v \in Workers : v # w => worker'[v].pc \in {"idle", "lock"}
      BY <2>a, <2>b, <2>3 DEF Park, Is
    <3>2. /\ worker'[w].renewed = worker[w].renewed /\ worker'[w].counter = worker[w].counter
          /\ worker[w].pc = "park"
      BY <2>0, <2>3 DEF Park, Goto, Is
    <3>3. CASE row # None /\ w \in current
      <4>1. /\ row' = [row EXCEPT !.due = FALSE] /\ current' = {w}
            /\ worker'[w].pc = "check"
        BY <2>0, <2>3, <3>3 DEF Park, Goto
      <4>2. row' # None /\ row'.counter = row.counter
        BY <3>3, <4>1, NoneAssumption DEF Row
      <4> QED
        BY <1>2, <2>0, <3>1, <3>2, <3>3, <4>1, <4>2 DEF Ren
    <3>4. CASE ~(row # None /\ w \in current)
      <4>1. row' = row /\ current' = current /\ worker'[w].pc = "idle"
        BY <2>0, <2>3, <3>4 DEF Park, Goto
      <4> QED
        BY <1>1, <1>2, <1>3, <2>a, <4>1 DEF Ren
    <3> QED
      BY <3>3, <3>4
  <2>4. CASE CheckSessions(w)
    <3>1. /\ worker[w].pc = "check" /\ worker'[w].pc \in {"context", "delete"}
          /\ worker'[w].renewed = worker[w].renewed /\ worker'[w].counter = worker[w].counter
          /\ row' = row /\ current' = current
      BY <2>0, <2>4 DEF CheckSessions, Goto, Is
    <3>2. Ren(w)'
      BY <2>0, <3>1 DEF Ren
    <3> QED
      BY <1>2, <1>3, <2>a, <3>1, <3>2
  <2>5. CASE DeleteEvent(w) \/ TouchEvent(w)
    <3>1. \A v \in Workers : v # w => worker'[v].pc \in {"idle", "lock"}
      BY <2>a, <2>b, <2>5 DEF DeleteEvent, TouchEvent, Is
    <3>2. worker'[w].pc = "release"
      BY <2>0, <2>5 DEF DeleteEvent, TouchEvent, Goto
    <3>3. (row' = row /\ current' = current) \/ current' \subseteq {w}
      BY <2>5 DEF DeleteEvent, TouchEvent
    <3> QED
      BY <1>1, <1>2, <2>a, <3>1, <3>2, <3>3 DEF Ren
  <2>6. CASE LoadContext(w) \/ Subscribe(w) \/ Receive(w) \/ Dispatch(w) \/ SubmitNext(w)
             \/ EndStream(w) \/ Close(w) \/ CreateContext(w)
    <3>1. /\ worker'[w].pc \notin {"lock", "park", "check", "delete"}
          /\ row' = row /\ current' = current
      BY <2>0, <2>6 DEF LoadContext, Subscribe, Receive, Dispatch, SubmitNext, EndStream,
                        Close, CreateContext, Goto, Is
    <3>2. Ren(w)'
      BY <3>1 DEF Ren
    <3> QED
      BY <1>2, <1>3, <2>a, <3>1, <3>2
  <2>7. CASE Release(w) \/ Crash(w)
    <3>1. worker'[w].pc = "idle" /\ row' = row /\ current' = current \ {w}
      BY <2>7 DEF Release, Crash, Rest
    <3>2. \A v \in Workers : v # w => Ren(v)'
      BY <1>1, <2>a, <3>1 DEF Ren
    <3> QED
      BY <1>2, <3>1, <3>2 DEF Ren
  <2> QED
    BY <1>6, <2>1, <2>2, <2>3, <2>4, <2>5, <2>6, <2>7 DEF WorkerStep
<1> QED
  BY <1>4, <1>5, <1>6 DEF Next

(* An event that follows a stretch of events extends it and is new to it. *)
LEMMA UpToNext ==
    ASSUME NEW n \in Nat, NEW S, S \subseteq 1..n
    PROVE  S \cup {n + 1} \subseteq 1..(n + 1) /\ n + 1 \notin S
  OBVIOUS

(* Until something fails or a lease runs out, nothing is dispatched twice. *)
LEMMA NextNothingAhead ==
    ASSUME Types, PlacesDone, CopiesOK, Exclusive, NothingAhead, repeated = {}, [Next]_vars,
           lapses = 0, lapses' = 0, faults = 0, faults' = 0
    PROVE  NothingAhead' /\ repeated' = {}
<1> DEFINE Active == Loaded \ {"subscribe"}
           Quiet == (context # None /\ \A w \in Workers : worker[w].pc \notin Active)
                        => handled \subseteq 1..context.replay
           At(v) ==
              /\ worker[v].pc \in {"stream", "dispatch"} => handled \subseteq 1..worker[v].pos
              /\ worker[v].pc = "next" => handled \subseteq 1..(worker[v].pos + 1)
              /\ worker[v].pc \in {"stream", "close", "create"} /\ worker[v].replay # None
                    => handled \subseteq 1..worker[v].replay
<1>1. /\ Quiet /\ \A v \in Workers : At(v) /\ worker[v] \in WorkerRecords
      /\ handled \subseteq 1..published
      /\ context # None => context.replay \in Nat
  BY DEF NothingAhead, Types, Context
<1>2. ASSUME Quiet', \A v \in Workers : At(v)' PROVE NothingAhead'
  BY <1>2 DEF NothingAhead
<1> HIDE DEF Active
<1>3. ASSUME UNCHANGED <<context, handled>>,
             \A v \in Workers : \/ worker'[v].pc \notin Active /\ worker[v].pc \notin Active
                                \/ /\ worker'[v].pc = worker[v].pc /\ worker'[v].pos = worker[v].pos
                                   /\ worker'[v].replay = worker[v].replay
      PROVE  NothingAhead'
  <2>1. Quiet'
    BY <1>1, <1>3
  <2>2. \A v \in Workers : At(v)'
    BY <1>1, <1>3 DEF Active, Loaded, Following
  <2> QED
    BY <1>2, <2>1, <2>2
<1>4. CASE Publish \/ CreateSession \/ ActivateSession \/ EndSessions \/ ListenerRead
             \/ ListenerWrite \/ Expire \/ Ripen \/ UNCHANGED vars
  BY <1>3, <1>4, WorldSteps
<1>5. ASSUME NEW w \in Workers, WorkerStep(w) \/ Crash(w) \/ Lapse(w)
      PROVE  NothingAhead' /\ repeated' = {}
  <2>0. /\ worker[w] \in WorkerRecords /\ At(w) /\ worker[w].pos \in Nat
        /\ worker[w].replay # None => worker[w].replay \in Nat
    BY <1>1 DEF WorkerRecords
  <2>a. \A v \in Workers : v # w => worker'[v] = worker[v]
    BY <1>5, OthersKept
  <2>b. /\ worker[w].pc \in Loaded => worker[w].context = context
        /\ worker[w].pc = "subscribe" => worker[w].replay = CopyReplay(w)
        /\ worker[w].pc = "create" => context = None
    BY DEF Exclusive
  <2>c. ASSUME worker[w].pc \in Loaded, Quiet', At(w)'
        PROVE  NothingAhead'
    <3>1. \A v \in Workers : v # w => worker'[v].pc \in {"idle", "lock"}
      BY <2>a, <2>c DEF Exclusive, Loaded, Following
    <3>2. \A v \in Workers : v # w => At(v)'
      BY <3>1
    <3> QED
      BY <1>2, <2>c, <3>2
  <2>d. ASSUME worker'[w].pc \in Active PROVE Quiet'
    BY <2>d
  <2>e. \A v \in Workers : v # w /\ worker[w].pc \in Loaded => worker[v].pc \notin Active
    BY DEF Exclusive, Active, Loaded, Following
  <2> HIDE DEF Quiet, At
  <2> USE DEF Types, WorkerRecords
  <2>1. CASE Collect(w) \/ TryLock(w) \/ Park(w) \/ CheckSessions(w) \/ DeleteEvent(w)
             \/ LoadContext(w) \/ TouchEvent(w) \/ Release(w)
    <3>1. /\ UNCHANGED <<context, handled, repeated>>
          /\ worker[w].pc \notin Active /\ worker'[w].pc \notin Active
      <4>1. CASE Collect(w)
        BY <2>0, <4>1 DEF Collect, Is, Rest, Kept, Active, Loaded, Following
      <4>2. CASE ~Collect(w)
        BY <2>0, <2>1, <4>2 DEF TryLock, Park, CheckSessions, DeleteEvent, LoadContext, TouchEvent,
              Release, Goto, Is, Rest, Kept, Active, Loaded, Following
      <4> QED
        BY <4>1, <4>2
    <3> QED
      BY <1>3, <2>a, <3>1
  <2>2. CASE Lapse(w) \/ Crash(w)
    BY <2>2 DEF Lapse, Crash, Fault
  <2>3. CASE Subscribe(w)
    <3>1. /\ worker[w].pc = "subscribe" /\ worker'[w].pc = "stream"
          /\ worker'[w].replay = worker[w].replay
          /\ worker'[w].pos = StartOf(worker[w].replay)
          /\ UNCHANGED <<context, handled, repeated>>
      BY <2>3 DEF Subscribe, Is
    <3>2. worker[w].pc \in Loaded /\ worker'[w].pc \in Active
      BY <3>1 DEF Active, Loaded, Following
    <3>3. worker[w].context = context /\ worker[w].replay = CopyReplay(w)
      BY <2>b, <3>1, <3>2
    <3>4. CASE context = None
      BY <1>1, <2>c, <2>d, <3>1, <3>2, <3>3, <3>4 DEF At, StartOf, CopyReplay
    <3>5. CASE context # None
      <4>1. handled \subseteq 1..context.replay
        BY <1>1, <2>e, <3>1, <3>2, <3>5 DEF Quiet, Active
      <4>2. worker[w].replay = context.replay /\ worker[w].replay # None
        BY <1>1, <3>3, <3>5, PubSubAssumption DEF CopyReplay
      <4> QED
        BY <2>c, <2>d, <3>1, <3>2, <4>1, <4>2 DEF At, StartOf
    <3> QED
      BY <3>4, <3>5
  <2>4. CASE Receive(w) \/ EndStream(w)
    <3>1. /\ worker[w].pc = "stream" /\ worker'[w].pc \in {"stream", "dispatch", "close"}
          /\ worker'[w].pos = worker[w].pos
          /\ worker'[w].replay \in {worker[w].replay, worker[w].pos}
          /\ UNCHANGED <<context, handled, repeated>>
      BY <2>4 DEF Receive, EndStream, Goto, Is, Kept
    <3>2. worker[w].pc \in Loaded /\ worker'[w].pc \in Active
      BY <3>1 DEF Active, Loaded, Following
    <3> QED
      BY <2>0, <2>c, <2>d, <3>1, <3>2 DEF At
  <2>5. CASE Dispatch(w)
    <3>1. /\ worker[w].pc = "dispatch" /\ worker'[w].pc = "next"
          /\ worker'[w].pos = worker[w].pos
          /\ handled' = handled \cup {worker[w].pos + 1}
          /\ repeated' = repeated \cup ({worker[w].pos + 1} \cap handled)
      BY <2>5 DEF Dispatch, Fault, Goto, Is
    <3>2. worker[w].pc \in Loaded /\ worker'[w].pc \in Active
      BY <3>1 DEF Active, Loaded, Following
    <3>3. handled \subseteq 1..worker[w].pos
      BY <2>0, <3>1 DEF At
    <3>4. handled' \subseteq 1..(worker[w].pos + 1)
      BY <2>0, <3>1, <3>3, UpToNext
    <3>5. worker[w].pos + 1 \notin handled
      BY <2>0, <3>3, UpToNext
    <3>6. repeated' = {}
      BY <3>1, <3>5
    <3> QED
      BY <2>c, <2>d, <3>1, <3>2, <3>4, <3>6 DEF At
  <2>6. CASE SubmitNext(w)
    <3>1. /\ worker[w].pc = "next" /\ worker'[w].pc = "stream"
          /\ worker'[w].pos = worker[w].pos + 1 /\ worker'[w].replay = worker[w].pos + 1
          /\ UNCHANGED <<context, handled, repeated>>
      BY <2>6 DEF SubmitNext, Is, Kept
    <3>2. worker[w].pc \in Loaded /\ worker'[w].pc \in Active
      BY <3>1 DEF Active, Loaded, Following
    <3> QED
      BY <2>0, <2>c, <2>d, <3>1, <3>2 DEF At
  <2>7. CASE Close(w)
    <3>1. /\ worker[w].pc = "close" /\ worker'[w].pc \in {"touch", "create"}
          /\ worker'[w].replay = worker[w].replay
          /\ UNCHANGED <<handled, repeated>>
      BY <2>7 DEF Close, Goto, Is, Kept
    <3>2. worker[w].pc \in Loaded /\ worker[w].context = context
      BY <2>b, <3>1 DEF Loaded
    <3>3. At(w)'
      BY <2>0, <3>1 DEF At
    <3>4. CASE worker'[w].pc = "create"
      BY <2>c, <2>d, <3>1, <3>2, <3>3, <3>4 DEF Active, Loaded
    <3>5. CASE worker'[w].pc = "touch" /\ context' = context
      <4>1. worker[w].replay = CopyReplay(w) \/ context'.replay = worker[w].replay
        BY <2>7, <3>5 DEF Close, Goto
      <4>2. context # None => worker[w].replay = context.replay /\ worker[w].replay # None
        BY <1>1, <3>2, <3>5, <4>1 DEF CopyReplay, CopiesOK
      <4> QED
        BY <2>0, <2>c, <3>1, <3>2, <3>3, <3>5, <4>2 DEF At, Quiet
    <3>6. CASE context' # context
      <4>1. context'.replay = worker[w].replay /\ worker[w].replay # None
        BY <2>7, <3>2, <3>6 DEF Close, CopyReplay, CopiesOK
      <4> QED
        BY <2>0, <2>c, <3>1, <3>2, <3>3, <4>1 DEF At, Quiet
    <3> QED
      BY <3>1, <3>4, <3>5, <3>6
  <2>8. CASE CreateContext(w)
    <3>1. /\ worker[w].pc = "create" /\ worker'[w].pc = "touch"
          /\ context'.replay = worker[w].replay
          /\ UNCHANGED <<handled, repeated>>
      BY <2>8, <2>b DEF CreateContext, Goto, Is, Kept
    <3>2. worker[w].pc \in Loaded /\ worker[w].replay # None
      BY <3>1 DEF Loaded, PlacesDone
    <3> QED
      BY <2>0, <2>c, <3>1, <3>2 DEF At, Quiet
  <2> QED
    BY <1>5, <2>1, <2>2, <2>3, <2>4, <2>5, <2>6, <2>7, <2>8 DEF WorkerStep
<1> QED
  BY <1>4, <1>5, WorldSteps DEF Next

(* The counts of what went wrong never go down. *)
LEMMA BoundsGrow ==
    ASSUME Types, [Next]_vars
    PROVE  /\ lapses \in Nat /\ lapses' \in Nat /\ lapses <= lapses'
           /\ faults \in Nat /\ faults' \in Nat /\ faults <= faults'
<1>1. lapses' \in {lapses, lapses + 1}
  BY DEF Next, vars, Publish, CreateSession, ActivateSession, EndSessions, ListenerRead,
         ListenerWrite, WorkerStep, Collect, TryLock, Park, CheckSessions, DeleteEvent,
         LoadContext, Subscribe, Receive, Dispatch, SubmitNext, EndStream, Close, CreateContext,
         TouchEvent, Release, Crash, Lapse, Expire, Ripen, Bounds
<1>2. faults' \in {faults, faults + 1}
  BY DEF Next, vars, Publish, CreateSession, ActivateSession, EndSessions, ListenerRead,
         ListenerWrite, WorkerStep, Collect, TryLock, Park, CheckSessions, DeleteEvent,
         LoadContext, Subscribe, Receive, Dispatch, SubmitNext, EndStream, Close, CreateContext,
         TouchEvent, Release, Crash, Lapse, Expire, Ripen, Bounds, Fault
<1>3. lapses \in Nat /\ faults \in Nat
  BY PubSubAssumption DEF Types
<1> QED
  BY <1>1, <1>2, <1>3

(* A stream begins behind a saved replay id only after a lease ran out. *)
LEMMA NextLateSkip ==
    ASSUME IInv, [Next]_vars
    PROVE  (lateSkip # {} => lapses > 0)'
<1> SUFFICES ASSUME lapses' = 0 PROVE lateSkip' = {}
  BY BoundsGrow DEF IInv
<1>1. lapses = 0 /\ Types /\ Exclusive /\ lateSkip = {}
  BY BoundsGrow DEF IInv
<1>2. ASSUME NEW w \in Workers, Subscribe(w) PROVE lateSkip' = {}
  <2>1. CASE context = None
    BY <1>1, <1>2, <2>1 DEF Subscribe
  <2>2. CASE context # None
    <3>1. worker[w].context = context /\ worker[w].replay = CopyReplay(w)
      BY <1>1, <1>2 DEF Subscribe, Is, Exclusive, Loaded
    <3>2. context.replay \in Nat /\ StartOf(worker[w].replay) = context.replay
      BY <1>1, <2>2, <3>1, PubSubAssumption DEF Types, Context, CopyReplay, StartOf
    <3>3. (context.replay + 1)..StartOf(worker[w].replay) = {}
      BY <3>2
    <3> QED
      BY <1>1, <1>2, <2>2, <3>3 DEF Subscribe
  <2> QED
    BY <2>1, <2>2
<1>3. CASE \A w \in Workers : ~Subscribe(w)
  BY <1>1, <1>3
  DEF Next, vars, Publish, CreateSession, ActivateSession, EndSessions, ListenerRead,
      ListenerWrite, WorkerStep, Collect, TryLock, Park, CheckSessions, DeleteEvent,
      LoadContext, Receive, Dispatch, SubmitNext, EndStream, Close, CreateContext,
      TouchEvent, Release, Crash, Lapse, Expire, Ripen, Kept
<1> QED
  BY <1>2, <1>3

-----------------------------------------------------------------------------
(* Theorems *)

(* The parts together are inductive ... *)
LEMMA NextIInv == IInv /\ [Next]_vars => IInv'
<1> SUFFICES ASSUME IInv, [Next]_vars PROVE IInv'
  OBVIOUS
<1>1. Types /\ PlacesDone /\ CopiesOK
  BY DEF IInv
<1>2. Types' /\ PlacesDone' /\ CopiesOK'
  BY <1>1, NextTypes, NextPlacesDone, NextCopiesOK
<1>3. ASSUME lapses' = 0 PROVE lapses = 0 /\ Exclusive' /\ RenewalShows'
  <2>1. lapses = 0 /\ Exclusive'
    BY <1>1, <1>3, NextExclusive DEF IInv
  <2> QED
    BY <1>1, <1>3, <2>1, NextRenewalShows DEF IInv
<1>4. ASSUME lapses' = 0, faults' = 0 PROVE NothingAhead' /\ repeated' = {}
  <2>1. lapses = 0 /\ faults = 0
    BY <1>1, <1>4, BoundsGrow
  <2> QED
    BY <1>1, <1>4, <2>1, NextNothingAhead DEF IInv
<1> QED
  BY <1>2, <1>3, <1>4, NextLateSkip DEF IInv

(* ... and therefore hold in every behaviour. *)
LEMMA SpecIInv == Spec => []IInv
  BY InitIInv, NextIInv, PTL DEF Spec

(* A second dispatch is owed to a fault or a lapse, a stream that begins   *)
(* behind undispatched events to a lapse, however many threads, events and *)
(* sessions there are.                                                     *)
THEOREM DeviationsPaidForHolds == Spec => []DeviationsPaidFor
<1>1. IInv => DeviationsPaidFor
  <2> SUFFICES ASSUME IInv PROVE DeviationsPaidFor
    OBVIOUS
  <2>1. Types /\ TypeOK
    BY TypesGiveTypeOK DEF IInv
  <2>2. lapses \in Nat /\ faults \in Nat
    BY <2>1, PubSubAssumption DEF Types
  <2> QED
    BY <2>1, <2>2 DEF IInv, DeviationsPaidFor
<1> QED
  BY SpecIInv, <1>1, PTL

(* Every step is a step of a consumer that handles each item at least once, *)
(* or changes nothing that such a consumer remembers.                      *)
LEMMA StepIsFeedStep ==
    ASSUME IInv, [Next]_vars
    PROVE  [Feed!Next]_(Feed!vars)
<1> DEFINE Saved == IF context = None THEN 0 ELSE context.replay
<1>1. Types /\ PlacesDone /\ CopiesOK
  BY DEF IInv
<1>2. CASE Publish
  BY <1>2 DEF Publish, Kept, Feed!Next, Feed!Publish
<1>3. CASE context' # context
  <2>1. PICK w \in Workers : /\ Close(w) \/ CreateContext(w)
                             /\ context'.replay = worker[w].replay /\ worker[w].replay # None
    BY <1>1, <1>3, ContextChange
  <2>2. context' # None
    BY <1>1, <1>3, ContextChange, NoneAssumption
  <2>3. worker[w].replay \in 0..published /\ 1..worker[w].replay \subseteq handled \cup skipped
    BY <1>1, <2>1 DEF PlacesDone, Done, Types, WorkerRecords
  <2>4. UNCHANGED <<published, handled, skipped>>
    BY <2>1 DEF Close, CreateContext, World, Kept
  <2> QED
    BY <2>1, <2>2, <2>3, <2>4 DEF Feed!Next, Feed!Save
<1>4. ASSUME NEW w \in Workers, Dispatch(w) PROVE [Feed!Next]_(Feed!vars)
  <2>1. worker[w].pos + 1 \in 1..published
    BY <1>1, <1>4 DEF Dispatch, Is, PlacesDone, Done, Types, WorkerRecords
  <2>2. UNCHANGED <<published, skipped, context>>
    BY <1>4 DEF Dispatch, World
  <2>3. handled' = handled \/ handled' = handled \cup {worker[w].pos + 1}
    BY <1>4 DEF Dispatch
  <2> QED
    BY <2>1, <2>2, <2>3 DEF Feed!Next, Feed!Handle, Feed!vars
<1>5. ASSUME NEW w \in Workers, Subscribe(w) PROVE [Feed!Next]_(Feed!vars)
  <2>1. UNCHANGED <<published, handled, context>>
    BY <1>5 DEF Subscribe, World
  <2>2. skipped' = skipped \/ skipped' = skipped \cup 1..published
    BY <1>5 DEF Subscribe
  <2> QED
    BY <2>1, <2>2 DEF Feed!Next, Feed!Join, Feed!vars
<1>6. CASE /\ ~Publish /\ context' = context
           /\ \A w \in Workers : ~Dispatch(w) /\ ~Subscribe(w)
  <2>1. UNCHANGED <<published, handled, skipped>>
    BY <1>6
    DEF Next, vars, CreateSession, ActivateSession, EndSessions, ListenerRead,
        ListenerWrite, WorkerStep, Collect, TryLock, Park, CheckSessions, DeleteEvent,
        LoadContext, Receive, SubmitNext, EndStream, Close, CreateContext,
        TouchEvent, Release, Crash, Lapse, Expire, Ripen, World, Kept
  <2> QED
    BY <1>6, <2>1 DEF Feed!vars
<1> QED
  BY <1>2, <1>3, <1>4, <1>5, <1>6

(* Whatever crashes, overlaps or fails, the saved replay id never passes   *)
(* an event that no stream dispatched or left behind: the pollers          *)
(* implement AtLeastOnce.                                                  *)
THEOREM NothingLostHolds == Spec => NothingLost
<1>1. Init => Feed!Init
  BY DEF Init, Feed!Init
<1>2. IInv /\ [Next]_vars => [Feed!Next]_(Feed!vars)
  BY StepIsFeedStep
<1> QED
  BY SpecIInv, <1>1, <1>2, PTL DEF Spec, NothingLost, Feed!Spec

(* The saved replay id goes back only where the second create of a context *)
(* has the counter of the first, after a lease ran out.                    *)
THEOREM ReplayForwardHolds == Spec => ReplayForward
<1> DEFINE Forward == (context # None /\ context'.replay < context.replay)
                          => (context.counter = 0 /\ lapses > 0)
<1>1. IInv /\ [Next]_vars => (Forward \/ UNCHANGED vars)
  <2> SUFFICES ASSUME IInv, [Next]_vars, context # None, context'.replay < context.replay
               PROVE  context.counter = 0 /\ lapses > 0
    OBVIOUS
  <2>1. Types /\ PlacesDone /\ CopiesOK
    BY DEF IInv
  <2>2. context.replay \in Nat /\ context.counter \in Nat /\ context' # context
    BY <2>1 DEF Types, Context
  <2>3. PICK w \in Workers : /\ Close(w) /\ SaveAllowed(w)
                             /\ context'.replay = worker[w].replay /\ worker[w].replay # None
    BY <2>1, <2>2, ContextChange
  <2>4. worker[w].replay \in Nat
    BY <2>1, <2>3 DEF Types, WorkerRecords
  <2>5. worker[w].context # context
    BY <2>1, <2>2, <2>3, <2>4 DEF CopiesOK
  <2>6. worker[w].context = None
    BY <2>1, <2>3, <2>5 DEF SaveAllowed, CopyCounter, CopiesOK
  <2>7. context.counter = 0
    BY <2>3, <2>6 DEF SaveAllowed, CopyCounter
  <2>8. lapses # 0
    BY <2>3, <2>5 DEF IInv, Exclusive, Close, Is, Loaded
  <2> QED
    BY <2>1, <2>7, <2>8, BoundsGrow
<1> QED
  BY SpecIInv, <1>1, PTL DEF Spec, ReplayForward

(* An event that the listener has renewed is deleted only when its counter *)
(* was 1 already, or after a lease ran out.                                *)
THEOREM RenewedEventKeptHolds == Spec => RenewedEventKept
<1> DEFINE RenewalKept == \A w \in Workers :
                       (Is(w, "delete") /\ worker'[w].pc = "release" /\ row # None /\ row' = None)
                           => (~worker[w].renewed \/ worker[w].counter = 1 \/ lapses > 0)
<1>1. IInv /\ [Next]_vars => RenewalKept
  <2> SUFFICES ASSUME IInv, [Next]_vars, NEW w \in Workers,
                      Is(w, "delete"), row # None, row' = None, worker[w].renewed, lapses = 0
               PROVE  worker[w].counter = 1
    BY BoundsGrow DEF IInv, Types, WorkerRecords
  <2>1. Types /\ Exclusive /\ RenewalShows
    BY DEF IInv
  <2>2. 1 \in {worker[w].counter, row.counter}
    BY <2>1 DEF RenewalShows, Is
  <2>3. DeleteEvent(w)
    <3>0. /\ [row EXCEPT !.due = TRUE] # None /\ [row EXCEPT !.due = FALSE] # None
          /\ [row EXCEPT !.counter = 1] # None
      <4>1. row \in Row
        BY <2>1 DEF Types
      <4>2. \A b \in BOOLEAN : [row EXCEPT !.due = b] \in Row
        BY <4>1 DEF Row
      <4>3. [row EXCEPT !.counter = 1] \in Row
        BY <4>1 DEF Row
      <4> QED
        BY <4>2, <4>3, NoneAssumption
    <3>1. PICK v \in Workers : DeleteEvent(v)
      BY <3>0
      DEF Next, vars, Publish, CreateSession, ActivateSession, EndSessions, ListenerRead,
          ListenerWrite, WorkerStep, Collect, TryLock, Park, CheckSessions,
          LoadContext, Subscribe, Receive, Dispatch, SubmitNext, EndStream, Close, CreateContext,
          TouchEvent, Release, Crash, Lapse, Expire, Ripen
    <3> QED
      BY <2>1, <3>1 DEF DeleteEvent, Is, Exclusive
  <2> QED
    BY <2>2, <2>3 DEF DeleteEvent
<1> QED
  BY SpecIInv, <1>1, PTL DEF Spec, RenewedEventKept
=============================================================================
