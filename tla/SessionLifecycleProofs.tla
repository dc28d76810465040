------------------------ MODULE SessionLifecycleProofs ------------------------
(***************************************************************************)
(* For any number of sessions, requests, connectors and handlers: what the *)
(* tables keep, and that a failed session stays failed.                    *)
(***************************************************************************)
EXTENDS SessionLifecycle, TLAPS

(* A PUT request has not put its session yet, or has. *)
Early == {"create", "lookup", "find", "touch", "update", "fix"}
Late == {"invoke", "connect", "failFind", "failUpdate"}

RequestRecords ==
    [pc : {"idle"} \cup Early \cup Late, sid : Sids \cup {None}, token : Tokens \cup {None},
     device : Devices \cup {None}, found : Sids \cup {None}, current : SessionRows,
     retries : 0..MaxRetries]
ConnectRecords ==
    [pc : {"idle", "load", "connect"}, sid : Sids \cup {None}, counter : Nat, tries : 0..Tries]
HandlerRecords == [pc : {"idle", "touch", "delete"}, sid : Sids \cup {None}]
PollRecords == [pc : {"idle", "poll", "deleteEvent"}, event : (Sids \cup {None}) \X Nat]

Types ==
    /\ session \in [Sids -> SessionRows]
    /\ userSession \in Sids \cup {None} /\ formerUser \in Sids \cup {None}
    /\ sfdc \subseteq Sids /\ contexts \subseteq Sids /\ pending \subseteq Sids \X Nat
    /\ stream \subseteq Sids /\ used \subseteq Sids /\ invocations \subseteq Sids
    /\ lapsed \subseteq Sids /\ due \subseteq Sids \X Kinds
    /\ req \in [Requests -> RequestRecords]
    /\ conn \in [Connectors -> ConnectRecords]
    /\ hand \in [Handlers -> HandlerRecords]
    /\ poller \in PollRecords

(* Locals that are in use hold ids. *)
Shaped ==
    /\ \A r \in Requests : /\ req[r].pc # "idle" => req[r].sid \in used
                           /\ req[r].pc \in {"find", "touch", "update"} => req[r].found \in Sids
    /\ \A k \in Connectors : conn[k].pc # "idle" => conn[k].sid \in Sids
    /\ \A h \in Handlers : hand[h].pc # "idle" => hand[h].sid \in Sids
    /\ poller.pc # "idle" => poller.event[1] \in Sids

(* An id is unknown to the tables and the other actors until its request   *)
(* has put the session, which it does once.                                *)
Born(s) == s \in used /\ \A r \in Requests : req[r].pc \in Early => req[r].sid # s

Trace(s) ==
    \/ Exists(s) \/ s \in stream \/ s \in contexts \/ s \in sfdc \/ s \in invocations \/ s \in lapsed
    \/ s \in Polled \/ (poller.pc # "idle" /\ poller.event[1] = s)
    \/ \E k \in Connectors : conn[k].pc # "idle" /\ conn[k].sid = s

BornOnce ==
    /\ \A s \in Sids : Trace(s) => Born(s)
    /\ \A r \in Requests : req[r].pc \in Late => Born(req[r].sid)
    /\ \A q, r \in Requests : req[q].pc # "idle" /\ req[r].pc \in Early /\ req[q].sid = req[r].sid => q = r

(* Only what nobody kept alive expires. *)
DueLapsed == \A d \in due : d[1] \in lapsed

(* A record of the stream tells of a session that does not come back. *)
StreamGone == \A s \in stream : ~Readable(s)

(* A session is activated once, unless its SfdcSession row expires.        *)
ActivatedOnce ==
    \A s \in Sids \ lapsed :
        (s \in contexts \/ s \in Polled \/ (poller.pc # "idle" /\ poller.event[1] = s)) => s \in sfdc

(* The poller deletes the event of a session that it has failed. *)
DeletesFailed ==
    poller.pc = "deleteEvent" /\ poller.event[1] \notin lapsed => session[poller.event[1]].status # "ACTIVE"

(* The stateCounter tells a connector that its session failed meanwhile. *)
CountersTell ==
    /\ \A s \in Sids : Readable(s) => session[s].counter >= 1
    /\ \A k \in Connectors : (conn[k].pc = "connect" /\ Readable(conn[k].sid))
                                => conn[k].counter <= session[conn[k].sid].counter
    /\ \A s \in Sids \ lapsed : session[s].status = "FAILED" /\ s \notin sfdc =>
          /\ session[s].counter >= 2
          /\ \A k \in Connectors : conn[k].pc = "connect" /\ conn[k].sid = s
                                       => conn[k].counter < session[s].counter

IInv ==
    /\ Types /\ Shaped /\ BornOnce /\ DueLapsed /\ StreamGone
    /\ PointerTarget /\ ActivatedOnce /\ DeletesFailed /\ ActiveComplete /\ CountersTell

-----------------------------------------------------------------------------
(* The records of the actors. *)
LEMMA StartRecords ==
    /\ NoRow \in SessionRows /\ Stub \in SessionRows /\ NoRow.status = "none" /\ Stub.status = "stub"
    /\ NoRequest \in RequestRecords /\ NoRequest.pc = "idle"
    /\ NoConnect \in ConnectRecords /\ NoConnect.pc = "idle"
    /\ NoHandler \in HandlerRecords /\ NoHandler.pc = "idle"
    /\ NoPoll \in PollRecords /\ NoPoll.pc = "idle"
<1>1. NoRow \in SessionRows /\ Stub \in SessionRows /\ NoRow.status = "none" /\ Stub.status = "stub"
  BY DEF NoRow, Stub, Row, SessionRows, Statuses, Stubs
<1>2. NoRequest \in RequestRecords /\ NoRequest.pc = "idle"
  BY <1>1, RetriesAssumption DEF NoRequest, RequestRecords
<1> QED
  BY <1>1, <1>2, RetriesAssumption DEF NoConnect, ConnectRecords, NoHandler, HandlerRecords, NoPoll, PollRecords

(* A step of a request moves that request alone: it begins with a new id,  *)
(* goes on with the id it has, or ends; it puts its session once.          *)
RequestGoesOn(r) ==
    \/ req'[r].pc = "idle"
    \/ /\ req[r].pc = "idle" /\ req'[r].pc = "create"
       /\ req'[r].sid \in Sids \ used /\ used' = used \cup {req'[r].sid}
    \/ /\ req[r].pc # "idle" /\ req'[r].sid = req[r].sid
       /\ req'[r].pc \in Early => req[r].pc \in Early
       /\ req'[r].pc \in Late => req[r].pc \in Late \cup {"create"}
       /\ req'[r].pc \in {"find", "touch", "update"} => req'[r].found \in Sids

(* A session's row with some of its columns changed. *)
LEMMA RowFields ==
    ASSUME NEW status \in Statuses, NEW counter \in Nat, NEW token \in Tokens \cup {None},
           NEW device \in Devices \cup {None}
    PROVE  /\ Row(status, counter, token, device) \in SessionRows
           /\ Row(status, counter, token, device).status = status
           /\ Row(status, counter, token, device).counter = counter
BY DEF Row, SessionRows

LEMMA RequestMoves ==
    ASSUME Types, Shaped, NEW r \in Requests, RequestStep(r)
    PROVE  /\ req' \in [Requests -> RequestRecords]
           /\ \A q \in Requests : q # r => req'[q] = req[q]
           /\ RequestGoesOn(r)
           /\ (used' = used \/ StartRequest(r))
           /\ UNCHANGED <<conn, hand, poller>>
<1> DEFINE x == req[r]
           Moved == /\ req' \in [Requests -> RequestRecords]
                    /\ \A q \in Requests : q # r => req'[q] = req[q]
                    /\ RequestGoesOn(r)
<1>0. /\ req \in [Requests -> RequestRecords] /\ x \in RequestRecords
      /\ session \in [Sids -> SessionRows] /\ used \subseteq Sids
      /\ userSession \in Sids \cup {None} /\ formerUser \in Sids \cup {None}
      /\ x.pc \in {"find", "touch", "update"} => x.found \in Sids
      /\ x.pc # "idle" => x.sid \in Sids
  BY DEF Types, Shaped
<1>1. UNCHANGED <<conn, hand, poller>> /\ (used' = used \/ StartRequest(r))
  BY DEF RequestStep, StartRequest, CreateSession, Lookup, CheckReplace, TouchCurrent, ReplaceCurrent,
     FixOrphan, InvokeConnect, FailFind, FailUpdate, ConnectSync, RequestCrash, othersR
<1>2. ASSUME NEW y \in RequestRecords, req' = [req EXCEPT ![r] = y], RequestGoesOn(r) PROVE Moved
  BY <1>0, <1>2
<1>3. ASSUME Respond(r) PROVE Moved
  BY <1>0, <1>3, StartRecords DEF Respond, RequestGoesOn
<1>4. ASSUME NEW label \in {"lookup", "fix", "touch", "create", "invoke", "connect", "failFind"},
             GoTo(r, label), x.pc # "idle",
             label \in {"lookup", "fix", "touch", "create"} => x.pc \in Early,
             label \in {"invoke", "connect", "failFind"} => x.pc \in Late \cup {"create"},
             label = "touch" => x.pc = "find"
      PROVE  Moved
  <2> DEFINE y == [x EXCEPT !.pc = label]
  <2>1. req' = [req EXCEPT ![r] = y]
    BY <1>4 DEF GoTo
  <2>2. y \in RequestRecords /\ y.pc = label /\ y.sid = x.sid /\ y.found = x.found
    <3>1. label \in {"idle"} \cup Early \cup Late
      BY <1>4 DEF Early, Late
    <3> HIDE DEF x
    <3> QED
      BY <1>0, <3>1 DEF RequestRecords
  <2> HIDE DEF y
  <2>3. req'[r] = y
    BY <1>0, <2>1
  <2>4. RequestGoesOn(r)
    BY <1>0, <1>4, <2>2, <2>3 DEF RequestGoesOn, Early, Late
  <2> QED
    BY <1>2, <2>1, <2>2, <2>4
<1>5. CASE StartRequest(r)
  <2>1. PICK s \in Sids \ used, t \in Tokens, d \in Devices :
          /\ used' = used \cup {s}
          /\ req' = [req EXCEPT ![r] = [NoRequest EXCEPT !.pc = "create", !.sid = s, !.token = t, !.device = d]]
    BY <1>5 DEF StartRequest
  <2> DEFINE y == [NoRequest EXCEPT !.pc = "create", !.sid = s, !.token = t, !.device = d]
  <2>2. y \in RequestRecords /\ y.pc = "create" /\ y.sid = s
    BY StartRecords DEF RequestRecords, Early
  <2> HIDE DEF y
  <2>3. req'[r] = y /\ req[r].pc = "idle" /\ req' = [req EXCEPT ![r] = y]
    BY <1>0, <1>5, <2>1 DEF StartRequest, y
  <2>4. RequestGoesOn(r)
    BY <2>1, <2>2, <2>3 DEF RequestGoesOn
  <2> QED
    BY <1>1, <1>2, <2>2, <2>3, <2>4
<1>6. CASE CreateSession(r)
  BY <1>1, <1>4, <1>6 DEF CreateSession, Early
<1>7. CASE Lookup(r)
  <2>1. PICK s \in {userSession, formerUser} :
          \/ Respond(r)
          \/ s # None /\ RetriesLeft(r) /\ req' = [req EXCEPT ![r].pc = "find", ![r].found = s, ![r].retries = @ + 1]
    BY <1>7 DEF Lookup
  <2>2. CASE s # None /\ RetriesLeft(r) /\ req' = [req EXCEPT ![r].pc = "find", ![r].found = s, ![r].retries = @ + 1]
    <3> DEFINE y == [x EXCEPT !.pc = "find", !.found = s, !.retries = @ + 1]
    <3>1. req' = [req EXCEPT ![r] = y] /\ s \in Sids /\ x.pc = "lookup"
      BY <1>0, <1>7, <2>2 DEF Lookup
    <3>2. x.retries + 1 \in 0..MaxRetries
      BY <1>0, <2>2, RetriesAssumption DEF RetriesLeft, RequestRecords
    <3> HIDE DEF x
    <3>3. y \in RequestRecords /\ y.pc = "find" /\ y.sid = x.sid /\ y.found = s
      BY <1>0, <3>1, <3>2 DEF RequestRecords, Early
    <3> HIDE DEF y
    <3>4. req'[r] = y /\ x = req[r]
      BY <1>0, <3>1 DEF x
    <3>5. RequestGoesOn(r)
      BY <3>1, <3>3, <3>4 DEF RequestGoesOn, Early, Late
    <3> QED
      BY <1>1, <1>2, <3>1, <3>3, <3>5
  <2> QED
    BY <1>1, <1>3, <2>1, <2>2
<1>8. CASE CheckReplace(r)
  <2> DEFINE c == session[x.found]
             y == [x EXCEPT !.pc = "update", !.current = c]
  <2>1. x.pc = "find" /\ c \in SessionRows
    BY <1>0, <1>8 DEF CheckReplace
  <2>2. \/ Respond(r) \/ GoTo(r, "fix") \/ GoTo(r, "touch")
        \/ req' = [req EXCEPT ![r] = y]
    BY <1>8 DEF CheckReplace
  <2>3. CASE req' = [req EXCEPT ![r] = y]
    <3>1. x.found \in Sids
      BY <1>0, <2>1
    <3> HIDE DEF x, c
    <3>2. y \in RequestRecords /\ y.pc = "update" /\ y.sid = x.sid /\ y.found = x.found
      BY <1>0, <2>1 DEF RequestRecords, Early
    <3> HIDE DEF y
    <3>3. req'[r] = y /\ x = req[r]
      BY <1>0, <2>3 DEF x
    <3>4. RequestGoesOn(r)
      BY <2>1, <3>1, <3>2, <3>3 DEF RequestGoesOn, Early, Late
    <3> QED
      BY <1>1, <1>2, <2>3, <3>2, <3>4
  <2> QED
    BY <1>1, <1>3, <1>4, <2>1, <2>2, <2>3 DEF Early
<1>9. CASE TouchCurrent(r) \/ ReplaceCurrent(r) \/ FixOrphan(r)
  BY <1>1, <1>3, <1>4, <1>9 DEF TouchCurrent, ReplaceCurrent, FixOrphan, Early
<1>10. CASE InvokeConnect(r)
  BY <1>1, <1>3, <1>4, <1>10 DEF InvokeConnect, Late
<1>11. CASE FailFind(r)
  <2> DEFINE c == session[x.sid]
             y == [x EXCEPT !.pc = "failUpdate", !.current = c]
  <2>1. x.pc = "failFind" /\ c \in SessionRows
    BY <1>0, <1>11 DEF FailFind
  <2>2. Respond(r) \/ req' = [req EXCEPT ![r] = y]
    BY <1>11 DEF FailFind
  <2>3. CASE req' = [req EXCEPT ![r] = y]
    <3> HIDE DEF x, c
    <3>2. y \in RequestRecords /\ y.pc = "failUpdate" /\ y.sid = x.sid
      BY <1>0, <2>1 DEF RequestRecords, Late
    <3> HIDE DEF y
    <3>3. req'[r] = y /\ x = req[r]
      BY <1>0, <2>3 DEF x
    <3>4. RequestGoesOn(r)
      BY <2>1, <3>2, <3>3 DEF RequestGoesOn, Early, Late
    <3> QED
      BY <1>1, <1>2, <2>3, <3>2, <3>4
  <2> QED
    BY <1>1, <1>3, <2>2, <2>3
<1>12. CASE FailUpdate(r) \/ ConnectSync(r) \/ RequestCrash(r)
  BY <1>1, <1>3, <1>12 DEF FailUpdate, ConnectSync, RequestCrash
<1> QED
  BY <1>1, <1>5, <1>6, <1>7, <1>8, <1>9, <1>10, <1>11, <1>12 DEF RequestStep

(* Connect invocations. *)
LEMMA ConnectMoves ==
    ASSUME Types, Shaped, NEW k \in Connectors, ConnectStep(k)
    PROVE  /\ conn' \in [Connectors -> ConnectRecords]
           /\ \A l \in Connectors : l # k => conn'[l] = conn[l]
           /\ \/ conn'[k].pc = "idle"
              \/ conn'[k].pc = "load" /\ (conn'[k].sid \in invocations \/ (conn[k].pc # "idle" /\ conn'[k].sid = conn[k].sid))
              \/ /\ conn[k].pc = "load" /\ conn'[k].pc = "connect" /\ conn'[k].sid = conn[k].sid
                 /\ conn'[k].counter = session[conn[k].sid].counter
                 /\ session[conn[k].sid].status = "PENDING" /\ UNCHANGED tables
           /\ invocations' \subseteq invocations
           /\ UNCHANGED <<used, req, hand, poller>>
<1> DEFINE x == conn[k]
<1>0. /\ conn \in [Connectors -> ConnectRecords] /\ x \in ConnectRecords
      /\ session \in [Sids -> SessionRows] /\ invocations \subseteq Sids
      /\ x.pc # "idle" => x.sid \in Sids
      /\ NoConnect \in ConnectRecords /\ NoConnect.pc = "idle" /\ 1 \in 0..Tries
  BY StartRecords, RetriesAssumption DEF Types, Shaped
<1>1. UNCHANGED <<used, req, hand, poller>> /\ invocations' \subseteq invocations
  BY DEF ConnectStep, Deliver, ConnectLoad, ConnectAsync, othersC
<1>2. CASE ConnectDone(k)
  BY <1>0, <1>1, <1>2 DEF ConnectDone
<1>3. CASE Deliver(k)
  <2>1. PICK s \in invocations : conn' = [conn EXCEPT ![k] = [pc |-> "load", sid |-> s, counter |-> 0, tries |-> 1]]
    BY <1>3 DEF Deliver
  <2>2. [pc |-> "load", sid |-> s, counter |-> 0, tries |-> 1] \in ConnectRecords
    BY <1>0, <2>1 DEF ConnectRecords
  <2> QED
    BY <1>0, <1>1, <2>1, <2>2
<1>4. CASE ConnectLoad(k) /\ ~ConnectDone(k)
  <2> DEFINE y == [x EXCEPT !.pc = "connect", !.counter = session[x.sid].counter]
  <2>1. /\ x.pc = "load" /\ session[x.sid].status = "PENDING" /\ UNCHANGED tables
        /\ conn' = [conn EXCEPT ![k] = y]
    BY <1>4 DEF ConnectLoad
  <2>2. session[x.sid].counter \in Nat
    BY <1>0, <2>1 DEF SessionRows
  <2>3. y \in ConnectRecords /\ y.pc = "connect" /\ y.sid = x.sid /\ y.counter = session[x.sid].counter
    <3> HIDE DEF x
    <3> QED
      BY <1>0, <2>2 DEF ConnectRecords
  <2> HIDE DEF y
  <2> QED
    BY <1>0, <1>1, <2>1, <2>3
<1>5. CASE ConnectAsync(k) /\ ~ConnectDone(k)
  <2> DEFINE y == [x EXCEPT !.pc = "load", !.tries = @ + 1]
  <2>1. x.pc = "connect" /\ x.tries < Tries /\ conn' = [conn EXCEPT ![k] = y]
    BY <1>5 DEF ConnectAsync
  <2>2. x.tries + 1 \in 0..Tries
    BY <1>0, <2>1, RetriesAssumption DEF ConnectRecords
  <2>3. y \in ConnectRecords /\ y.pc = "load" /\ y.sid = x.sid
    <3> HIDE DEF x
    <3> QED
      BY <1>0, <2>2 DEF ConnectRecords
  <2> HIDE DEF y
  <2> QED
    BY <1>0, <1>1, <2>1, <2>3
<1> QED
  BY <1>2, <1>3, <1>4, <1>5 DEF ConnectStep

LEMMA HandlerMoves ==
    ASSUME Types, NEW h \in Handlers, HandlerStep(h)
    PROVE  /\ hand' \in [Handlers -> HandlerRecords]
           /\ \A g \in Handlers : g # h => hand'[g] = hand[g]
           /\ hand'[h].pc # "idle" => hand'[h].sid \in Sids
           /\ UNCHANGED <<used, invocations, req, conn, poller>>
<1>0. /\ hand \in [Handlers -> HandlerRecords] /\ used \subseteq Sids
      /\ NoHandler \in HandlerRecords /\ NoHandler.pc = "idle"
  BY StartRecords DEF Types
<1>1. UNCHANGED <<used, invocations, req, conn, poller>>
  BY DEF HandlerStep, LoadForHandler, KeepAlive, DeleteSession, othersH
<1>2. HandlerDone(h) \/ \E s \in used, pc \in {"touch", "delete"} : hand' = [hand EXCEPT ![h] = [pc |-> pc, sid |-> s]]
  BY DEF HandlerStep, LoadForHandler, KeepAlive, DeleteSession
<1>3. CASE HandlerDone(h)
  BY <1>0, <1>1, <1>3 DEF HandlerDone
<1>4. ASSUME NEW s \in used, NEW pc \in {"touch", "delete"}, hand' = [hand EXCEPT ![h] = [pc |-> pc, sid |-> s]]
      PROVE  /\ hand' \in [Handlers -> HandlerRecords]
             /\ \A g \in Handlers : g # h => hand'[g] = hand[g]
             /\ hand'[h].pc # "idle" => hand'[h].sid \in Sids
  <2>1. [pc |-> pc, sid |-> s] \in HandlerRecords
    BY <1>0 DEF HandlerRecords
  <2> QED
    BY <1>0, <1>4, <2>1
<1> QED
  BY <1>1, <1>2, <1>3, <1>4

LEMMA PollerMoves ==
    ASSUME Types, PollStep
    PROVE  /\ poller' \in PollRecords
           /\ \/ poller'.pc = "idle" \/ poller' = poller
              \/ /\ poller'.pc = "poll" /\ poller'.event \in pending /\ poller'.event[1] \in Sids
                 /\ poller'.event[1] \in sfdc /\ UNCHANGED tables
              \/ /\ poller.pc = "poll" /\ poller'.pc = "deleteEvent" /\ poller'.event = poller.event
                 /\ SetFailed(poller.event[1])
           /\ UNCHANGED <<used, invocations, req, conn, hand>>
<1>0. poller \in PollRecords /\ pending \subseteq Sids \X Nat /\ NoPoll \in PollRecords /\ NoPoll.pc = "idle"
  BY StartRecords DEF Types
<1>1. UNCHANGED <<used, invocations, req, conn, hand>>
  BY DEF PollStep, PollLoad, PollOk, PollFail, PollDeleteEvent, othersP
<1>2. CASE PollLoad /\ poller' # poller
  <2>1. PICK e \in pending : e[1] \in sfdc /\ poller' = [pc |-> "poll", event |-> e] /\ pending' = pending
    BY <1>2 DEF PollLoad
  <2>2. poller' \in PollRecords /\ e[1] \in Sids
    BY <1>0, <2>1 DEF PollRecords
  <2> QED
    BY <1>1, <1>2, <2>1, <2>2 DEF PollLoad, tables
<1>3. CASE poller' \in {poller, NoPoll}
  BY <1>0, <1>1, <1>3
<1>4. CASE PollFail /\ poller' # NoPoll
  <2>1. poller' = [poller EXCEPT !.pc = "deleteEvent"] /\ SetFailed(poller.event[1]) /\ poller.pc = "poll"
    BY <1>4 DEF PollFail
  <2>2. poller' \in PollRecords /\ poller'.pc = "deleteEvent" /\ poller'.event = poller.event
    BY <1>0, <2>1 DEF PollRecords
  <2> QED
    BY <1>1, <2>1, <2>2
<1> QED
  BY <1>2, <1>3, <1>4 DEF PollStep, PollLoad, PollOk, PollFail, PollDeleteEvent

-----------------------------------------------------------------------------
(* What a step does to the tables, whoever makes it. *)
Created(r) ==
    /\ req[r].pc = "create" /\ req'[r].pc \in Late /\ req'[r].sid = req[r].sid
    /\ session' = [session EXCEPT ![req[r].sid] = Row("PENDING", 1, req[r].token, req[r].device)]
    /\ userSession' = req[r].sid /\ formerUser' = userSession
    /\ UNCHANGED <<sfdc, contexts, pending, stream, due, lapsed>>
Touched(s) == CanTouch(s) /\ Touch(s)
Updated(s, row) == row.status \in {"PENDING", "FAILED"} /\ CanUpdate(s, row) /\ Update(s, row)
Connected(s, counter) ==
    /\ CanActivate(s, counter) /\ Activate(s)
    /\ counter = 1 \/ \E k \in Connectors : conn[k].pc = "connect" /\ conn[k].sid = s /\ conn[k].counter = counter
Unpointed ==
    /\ userSession' = None /\ formerUser' = userSession /\ due' \subseteq due
    /\ UNCHANGED <<session, sfdc, contexts, pending, stream, lapsed>>
Gone(s) ==
    /\ Exists(s) /\ session' = [session EXCEPT ![s] = NoRow] /\ stream' = stream \cup {s}
    /\ \/ userSession' = None
       \/ userSession' = userSession /\ <<s, "session">> \in due
    /\ formerUser' \in {formerUser, userSession} /\ due' \subseteq due
    /\ UNCHANGED <<sfdc, contexts, pending, lapsed>>
PollFailed == poller.pc = "poll" /\ SetFailed(poller.event[1])
EventDeleted ==
    /\ \E e \in Sids \X Nat :
          /\ pending' = pending \ {e}
          /\ \/ ~(Exists(e[1]) /\ e[1] \in sfdc /\ e[1] \in contexts)
             \/ poller.pc = "deleteEvent" /\ e = poller.event
    /\ UNCHANGED <<session, userSession, formerUser, sfdc, contexts, stream, due, lapsed>>
Expired(s) ==
    /\ <<s, "sfdc">> \in due /\ sfdc' = sfdc \ {s} /\ due' \subseteq due
    /\ UNCHANGED <<session, userSession, formerUser, contexts, pending, stream, lapsed>>

TableStep ==
    \/ UNCHANGED tables
    \/ \E r \in Requests : Created(r)
    \/ \E s \in Sids : Touched(s) \/ Gone(s) \/ Expired(s) \/ HandleRemove(s) \/ Lapse(s)
    \/ \E s \in Sids, row \in SessionRows : Updated(s, row)
    \/ \E s \in Sids, counter \in Nat : Connected(s, counter)
    \/ Unpointed \/ PollFailed \/ EventDeleted

LEMMA TableSteps ==
    ASSUME Types, Shaped, [Next]_vars
    PROVE  TableStep
<1>0. /\ session \in [Sids -> SessionRows] /\ req \in [Requests -> RequestRecords]
      /\ conn \in [Connectors -> ConnectRecords] /\ used \subseteq Sids
      /\ \A r \in Requests : req[r] \in RequestRecords /\ req[r].current \in SessionRows
                             /\ (req[r].pc # "idle" => req[r].sid \in Sids)
                             /\ (req[r].pc \in {"find", "touch", "update"} => req[r].found \in Sids)
      /\ \A k \in Connectors : conn[k] \in ConnectRecords /\ (conn[k].pc # "idle" => conn[k].sid \in Sids)
                               /\ conn[k].counter \in Nat
      /\ \A h \in Handlers : hand[h].pc # "idle" => hand[h].sid \in Sids
      /\ poller \in PollRecords /\ pending \subseteq Sids \X Nat
      /\ poller.pc # "idle" => poller.event \in Sids \X Nat
  <2>1. \A r \in Requests : req[r] \in RequestRecords /\ req[r].current \in SessionRows
    BY DEF Types, RequestRecords
  <2>2. \A k \in Connectors : conn[k] \in ConnectRecords /\ conn[k].counter \in Nat
    BY DEF Types, ConnectRecords
  <2>3. poller \in PollRecords /\ (poller.pc # "idle" => poller.event \in Sids \X Nat)
    BY DEF Types, Shaped, PollRecords
  <2> QED
    BY <2>1, <2>2, <2>3 DEF Types, Shaped
<1>1. ASSUME NEW r \in Requests, RequestStep(r) PROVE TableStep
  <2> DEFINE x == req[r]
  <2>1. CASE CreateSession(r)
    <3>1. CASE UNCHANGED tables
      BY <3>1 DEF TableStep
    <3>2. CASE ~UNCHANGED tables
      <4>1. x.pc = "create" /\ (GoTo(r, "invoke") \/ GoTo(r, "connect"))
        BY <2>1, <3>2 DEF CreateSession
      <4>2. req'[r].pc \in Late /\ req'[r].sid = x.sid
        <5>1. \/ req'[r] = [x EXCEPT !.pc = "invoke"] \/ req'[r] = [x EXCEPT !.pc = "connect"]
          BY <1>0, <4>1 DEF GoTo
        <5>2. x \in RequestRecords
          BY <1>0
        <5> HIDE DEF x
        <5> QED
          BY <5>1, <5>2 DEF RequestRecords, Late
      <4>3. Created(r)
        BY <2>1, <3>2, <4>1, <4>2 DEF CreateSession, Created, PointTo
      <4> QED
        BY <4>3 DEF TableStep
    <3> QED
      BY <3>1, <3>2
  <2>2. CASE TouchCurrent(r)
    <3>1. (UNCHANGED tables \/ (CanTouch(x.found) /\ Touch(x.found))) /\ x.found \in Sids
      BY <1>0, <2>2 DEF TouchCurrent
    <3> QED
      BY <3>1 DEF TableStep, Touched
  <2>3. CASE ReplaceCurrent(r)
    <3> DEFINE copy == Row("PENDING", x.current.counter, x.token, x.device)
    <3>1. x.pc = "update" /\ x.found \in Sids
      BY <1>0, <2>3 DEF ReplaceCurrent
    <3>2. copy \in SessionRows /\ copy.status = "PENDING"
      BY <1>0 DEF Row, SessionRows, RequestRecords, Statuses
    <3>3. UNCHANGED tables \/ (CanUpdate(x.found, copy) /\ Update(x.found, copy))
      BY <2>3 DEF ReplaceCurrent
    <3> HIDE DEF copy
    <3> QED
      BY <3>1, <3>2, <3>3 DEF TableStep, Updated
  <2>4. CASE FixOrphan(r)
    <3>1. Unpointed
      BY <2>4 DEF FixOrphan, PointTo, Unpointed
    <3> QED
      BY <3>1 DEF TableStep
  <2>5. CASE FailUpdate(r)
    <3> DEFINE row == [x.current EXCEPT !.status = "FAILED"]
    <3>1. x.pc = "failUpdate" /\ x.sid \in Sids /\ x.current \in SessionRows
      BY <1>0, <2>5 DEF FailUpdate
    <3>2. row \in SessionRows /\ row.status = "FAILED"
      BY <3>1 DEF SessionRows, Statuses
    <3>3. UNCHANGED tables \/ (CanUpdate(x.sid, row) /\ Update(x.sid, row))
      BY <2>5 DEF FailUpdate
    <3> HIDE DEF row
    <3> QED
      BY <3>1, <3>2, <3>3 DEF TableStep, Updated
  <2>6. CASE ConnectSync(r)
    <3>1. (UNCHANGED tables \/ (CanActivate(x.sid, 1) /\ Activate(x.sid))) /\ x.sid \in Sids
      BY <1>0, <2>6 DEF ConnectSync
    <3> QED
      BY <3>1 DEF TableStep, Connected
  <2>7. CASE StartRequest(r) \/ Lookup(r) \/ CheckReplace(r) \/ InvokeConnect(r) \/ FailFind(r) \/ RequestCrash(r)
    BY <2>7 DEF StartRequest, Lookup, CheckReplace, InvokeConnect, FailFind, RequestCrash, TableStep
  <2> QED
    BY <1>1, <2>1, <2>2, <2>3, <2>4, <2>5, <2>6, <2>7 DEF RequestStep
<1>2. ASSUME NEW k \in Connectors, ConnectStep(k) PROVE TableStep
  <2>1. \/ UNCHANGED tables
        \/ /\ conn[k].pc = "connect" /\ CanActivate(conn[k].sid, conn[k].counter) /\ Activate(conn[k].sid)
    BY <1>2 DEF ConnectStep, Deliver, ConnectLoad, ConnectAsync
  <2> QED
    BY <1>0, <2>1 DEF TableStep, Connected
<1>3. ASSUME NEW h \in Handlers, HandlerStep(h) PROVE TableStep
  <2>1. CASE UNCHANGED tables
    BY <2>1 DEF TableStep
  <2>2. CASE KeepAlive(h) /\ ~UNCHANGED tables
    BY <1>0, <2>2 DEF KeepAlive, TableStep, Touched
  <2>3. CASE DeleteSession(h) /\ ~UNCHANGED tables
    <3>1. hand[h].sid \in Sids /\ Gone(hand[h].sid)
      BY <1>0, <2>3 DEF DeleteSession, PointTo, Gone
    <3> QED
      BY <3>1 DEF TableStep
  <2> QED
    BY <1>3, <2>1, <2>2, <2>3 DEF HandlerStep, LoadForHandler
<1>4. CASE PollStep
  <2>1. CASE PollLoad
    <3>1. UNCHANGED tables \/ EventDeleted
      BY <1>0, <2>1 DEF PollLoad, EventDeleted, tables
    <3> QED
      BY <3>1 DEF TableStep
  <2>2. CASE PollDeleteEvent
    <3>1. EventDeleted
      BY <1>0, <2>2 DEF PollDeleteEvent, EventDeleted
    <3> QED
      BY <3>1 DEF TableStep
  <2>3. CASE PollOk \/ PollFail
    BY <2>3 DEF PollOk, PollFail, TableStep, PollFailed
  <2> QED
    BY <1>4, <2>1, <2>2, <2>3 DEF PollStep
<1>5. ASSUME NEW s \in Sids, HandleRemove(s) \/ TtlStep(s) PROVE TableStep
  <2>1. CASE TtlSession(s)
    <3>1. Gone(s)
      BY <2>1 DEF TtlSession, Gone
    <3> QED
      BY <3>1 DEF TableStep
  <2>2. CASE TtlUser(s)
    <3>1. Unpointed
      BY <2>2 DEF TtlUser, PointTo, Unpointed
    <3> QED
      BY <3>1 DEF TableStep
  <2>3. CASE TtlSfdc(s)
    <3>1. Expired(s)
      BY <2>3 DEF TtlSfdc, Expired
    <3> QED
      BY <3>1 DEF TableStep
  <2> QED
    BY <1>5, <2>1, <2>2, <2>3 DEF TtlStep, TableStep
<1>6. CASE UNCHANGED vars
  BY <1>6 DEF vars, TableStep
<1> QED
  BY <1>1, <1>2, <1>3, <1>4, <1>5, <1>6 DEF Next

-----------------------------------------------------------------------------
(* What a step does to the rows of one session. *)
Renewed(s) == /\ Readable(s) /\ session'[s].status \in {"PENDING", "FAILED"}
              /\ session'[s].counter = session[s].counter + 1
              /\ UNCHANGED <<userSession, sfdc, contexts, pending, stream, lapsed>>
Activated(s) == /\ \E counter \in Nat : Connected(s, counter)
                /\ session'[s].status = "ACTIVE" /\ session'[s].counter = session[s].counter + 1
FailedByPoll(s) ==
    /\ PollFailed /\ poller.event[1] = s
    /\ \/ Readable(s) /\ session'[s].status = "FAILED" /\ session'[s].counter = session[s].counter
       \/ ~Exists(s) /\ session'[s].status = "stub"

RowStep(s) ==
    \/ session'[s] = session[s]
    \/ /\ \E r \in Requests : Created(r) /\ req[r].sid = s
       /\ session'[s].status = "PENDING" /\ session'[s].counter = 1
    \/ Gone(s) /\ session'[s].status = "none"
    \/ session[s].status = "stub" /\ session'[s].status = "datedStub"
    \/ Renewed(s) \/ Activated(s) \/ FailedByPoll(s)

LEMMA FailedRow ==
    ASSUME Types, Shaped, PollFailed
    PROVE  LET s == poller.event[1]
           IN  /\ s \in Sids /\ contexts' = contexts \ {s}
               /\ UNCHANGED <<userSession, formerUser, sfdc, pending, stream, due, lapsed>>
               /\ \E y \in SessionRows :
                     /\ session' = [session EXCEPT ![s] = y]
                     /\ \/ y = session[s] /\ ~Readable(s)
                        \/ Readable(s) /\ y.status = "FAILED" /\ y.counter = session[s].counter
                        \/ ~Exists(s) /\ y.status = "stub"
<1> DEFINE s == poller.event[1]
           x == session[s]
           failed == [x EXCEPT !.status = "FAILED"]
<1>1. s \in Sids /\ x \in SessionRows
  BY DEF Types, Shaped, PollFailed
<1>2. /\ session' = [session EXCEPT ![s] = IF Readable(s) THEN failed ELSE IF Exists(s) THEN x ELSE Stub]
      /\ contexts' = contexts \ {s}
      /\ UNCHANGED <<userSession, formerUser, sfdc, pending, stream, due, lapsed>>
  BY DEF PollFailed, SetFailed
<1>3. failed \in SessionRows /\ failed.status = "FAILED" /\ failed.counter = x.counter
  <2> HIDE DEF x
  <2> QED
    BY <1>1 DEF SessionRows, Statuses
<1> HIDE DEF failed
<1>4. CASE Readable(s)
  BY <1>1, <1>2, <1>3, <1>4
<1>5. CASE ~Readable(s) /\ Exists(s)
  BY <1>1, <1>2, <1>5
<1>6. CASE ~Exists(s)
  <2>1. ~Readable(s)
    BY <1>6 DEF Exists, Readable
  <2> QED
    BY <1>1, <1>2, <1>6, <2>1, StartRecords
<1> QED
  BY <1>4, <1>5, <1>6

LEMMA RowSteps ==
    ASSUME Types, Shaped, TableStep
    PROVE  session' \in [Sids -> SessionRows] /\ \A s \in Sids : RowStep(s)
<1> DEFINE Result == session' \in [Sids -> SessionRows] /\ \A s \in Sids : RowStep(s)
<1>0. /\ session \in [Sids -> SessionRows]
      /\ \A s \in Sids : session[s] \in SessionRows /\ session[s].counter \in Nat
      /\ \A r \in Requests : /\ req[r].pc # "idle" => req[r].sid \in Sids
                             /\ req[r].token \in Tokens \cup {None} /\ req[r].device \in Devices \cup {None}
      /\ poller.pc # "idle" => poller.event[1] \in Sids
  BY DEF Types, Shaped, RequestRecords, SessionRows
<1>1. ASSUME session' = session PROVE Result
  BY <1>0, <1>1 DEF RowStep
<1>2. ASSUME NEW s \in Sids, NEW y \in SessionRows, session' = [session EXCEPT ![s] = y]
      PROVE  /\ session' \in [Sids -> SessionRows] /\ session'[s] = y
             /\ RowStep(s) => Result
  BY <1>0, <1>2 DEF RowStep
<1>3. ASSUME NEW r \in Requests, Created(r) PROVE Result
  <2> DEFINE y == Row("PENDING", 1, req[r].token, req[r].device)
  <2>1. req[r].sid \in Sids /\ session' = [session EXCEPT ![req[r].sid] = y]
    BY <1>0, <1>3 DEF Created
  <2>2. y \in SessionRows /\ y.status = "PENDING" /\ y.counter = 1
    <3>1. "PENDING" \in Statuses /\ 1 \in Nat /\ req[r].token \in Tokens \cup {None}
          /\ req[r].device \in Devices \cup {None}
      BY <1>0 DEF Statuses
    <3> QED
      BY <3>1, RowFields
  <2> HIDE DEF y
  <2>3. RowStep(req[r].sid)
    BY <1>2, <1>3, <2>1, <2>2 DEF RowStep
  <2> QED
    BY <1>2, <2>1, <2>2, <2>3
<1>4. ASSUME NEW s \in Sids, Touched(s) PROVE Result
  <2> DEFINE x == session[s]
             y == [x EXCEPT !.status = IF @ = "stub" THEN "datedStub" ELSE @]
  <2>1. session' = [session EXCEPT ![s] = y]
    BY <1>4 DEF Touched, Touch
  <2>2. y \in SessionRows /\ (y = x \/ (x.status = "stub" /\ y.status = "datedStub"))
    <3>1. x \in SessionRows
      BY <1>0
    <3> HIDE DEF x
    <3> QED
      BY <3>1 DEF SessionRows, Statuses, Stubs
  <2> HIDE DEF y
  <2>3. RowStep(s)
    BY <1>2, <2>1, <2>2 DEF RowStep
  <2> QED
    BY <1>2, <2>1, <2>2, <2>3
<1>5. ASSUME NEW s \in Sids, Gone(s) PROVE Result
  <2>1. session' = [session EXCEPT ![s] = NoRow]
    BY <1>5 DEF Gone
  <2>2. RowStep(s)
    BY <1>2, <1>5, <2>1, StartRecords DEF RowStep
  <2> QED
    BY <1>2, <2>1, <2>2, StartRecords
<1>6. ASSUME NEW s \in Sids, NEW row \in SessionRows, Updated(s, row) PROVE Result
  <2> DEFINE y == [row EXCEPT !.counter = @ + 1]
  <2>1. /\ session' = [session EXCEPT ![s] = y] /\ Readable(s) /\ session[s].counter = row.counter
        /\ row.status \in {"PENDING", "FAILED"}
        /\ UNCHANGED <<userSession, sfdc, contexts, pending, stream, lapsed>>
    BY <1>6 DEF Updated, Update, CanUpdate
  <2>2. y \in SessionRows /\ y.status = row.status /\ y.counter = row.counter + 1
    BY DEF SessionRows
  <2> HIDE DEF y
  <2>3. Renewed(s)
    BY <1>2, <2>1, <2>2 DEF Renewed
  <2> QED
    BY <1>2, <2>1, <2>2, <2>3 DEF RowStep
<1>7. ASSUME NEW s \in Sids, NEW counter \in Nat, Connected(s, counter) PROVE Result
  <2> DEFINE x == session[s]
             y == [x EXCEPT !.status = "ACTIVE", !.counter = @ + 1]
  <2>1. session' = [session EXCEPT ![s] = y]
    BY <1>7 DEF Connected, Activate
  <2>2. y \in SessionRows /\ y.status = "ACTIVE" /\ y.counter = x.counter + 1
    <3>1. x \in SessionRows /\ x.counter + 1 \in Nat /\ "ACTIVE" \in Statuses
      BY <1>0 DEF Statuses
    <3> HIDE DEF x
    <3> QED
      BY <3>1 DEF SessionRows
  <2> HIDE DEF y
  <2>3. Activated(s)
    BY <1>2, <1>7, <2>1, <2>2 DEF Activated
  <2> QED
    BY <1>2, <2>1, <2>2, <2>3 DEF RowStep
<1>8. ASSUME PollFailed PROVE Result
  <2> DEFINE s == poller.event[1]
  <2>1. PICK y \in SessionRows :
          /\ session' = [session EXCEPT ![s] = y]
          /\ \/ y = session[s] /\ ~Readable(s)
             \/ Readable(s) /\ y.status = "FAILED" /\ y.counter = session[s].counter
             \/ ~Exists(s) /\ y.status = "stub"
    BY <1>8, FailedRow
  <2>2. s \in Sids
    BY <1>8, FailedRow
  <2>3. RowStep(s)
    BY <1>2, <1>8, <2>1, <2>2 DEF RowStep, FailedByPoll
  <2> QED
    BY <1>2, <2>1, <2>2, <2>3
<1>9. ASSUME NEW s \in Sids, Expired(s) \/ HandleRemove(s) \/ Lapse(s) PROVE session' = session
  BY <1>9 DEF Expired, HandleRemove, Lapse
<1>10. ASSUME UNCHANGED tables \/ Unpointed \/ EventDeleted PROVE session' = session
  BY <1>10 DEF tables, Unpointed, EventDeleted
<1> QED
  BY <1>1, <1>3, <1>4, <1>5, <1>6, <1>7, <1>8, <1>9, <1>10 DEF TableStep

(* What a step puts into the other tables, and takes out. *)
Joined(s) == \E counter \in Nat : Connected(s, counter)

SetTypes ==
    /\ userSession \in Sids \cup {None} /\ formerUser \in Sids \cup {None}
    /\ sfdc \subseteq Sids /\ contexts \subseteq Sids /\ pending \subseteq Sids \X Nat
    /\ stream \subseteq Sids /\ lapsed \subseteq Sids /\ due \subseteq Sids \X Kinds

EventGone(s) == \/ poller.pc = "deleteEvent" /\ s = poller.event[1]
                \/ ~(Exists(s) /\ s \in sfdc /\ s \in contexts)

SetStep(s) ==
    /\ s \in lapsed => s \in lapsed'
    /\ s \in lapsed' => s \in lapsed \/ Exists(s)
    /\ s \in stream' => s \in stream \/ Gone(s)
    /\ (s \in sfdc' /\ s \notin sfdc) \/ (s \in contexts' /\ s \notin contexts) \/ (s \in Polled' /\ s \notin Polled)
            => Joined(s)
    /\ s \in sfdc => s \in sfdc' \/ s \in lapsed
    /\ s \in contexts => s \in contexts' \/ (s \in stream /\ session' = session) \/ FailedByPoll(s)
                                          \/ (PollFailed /\ session'[s] = session[s] /\ ~Readable(s))
    /\ s \in Polled => s \in Polled' \/ (session' = session /\ EventGone(s))

LEMMA JoinedRows ==
    ASSUME Types, NEW s \in Sids, Joined(s)
    PROVE  /\ s \in sfdc' /\ s \in contexts' /\ s \in Polled' /\ lapsed' = lapsed
           /\ s \notin sfdc /\ s \notin contexts /\ Readable(s)
<1>1. PICK counter \in Nat : Connected(s, counter)
  BY DEF Joined
<1>2. <<s, session[s].counter>> \in pending'
  BY <1>1 DEF Connected, Activate
<1>3. s \in Polled'
  BY <1>2 DEF Polled
<1> QED
  BY <1>1, <1>3 DEF Connected, Activate, CanActivate

LEMMA SetSteps ==
    ASSUME Types, Shaped, DueLapsed, TableStep
    PROVE  /\ SetTypes' /\ DueLapsed' /\ \A s \in Sids : SetStep(s)
           /\ \/ userSession' \in {None, userSession}
              \/ \E r \in Requests : Created(r) /\ userSession' = req[r].sid
<1> DEFINE Result == /\ SetTypes' /\ DueLapsed' /\ \A s \in Sids : SetStep(s)
                     /\ \/ userSession' \in {None, userSession}
                        \/ \E r \in Requests : Created(r) /\ userSession' = req[r].sid
<1>0. /\ SetTypes /\ session \in [Sids -> SessionRows]
      /\ \A r \in Requests : req[r].pc # "idle" => req[r].sid \in Sids
      /\ poller.pc # "idle" => poller.event[1] \in Sids
  BY DEF Types, Shaped, SetTypes
<1>1. ASSUME UNCHANGED <<sfdc, contexts, pending, stream, lapsed>>,
             due' \subseteq due, userSession' \in Sids \cup {None}, formerUser' \in {formerUser, userSession},
             \/ userSession' \in {None, userSession}
             \/ \E r \in Requests : Created(r) /\ userSession' = req[r].sid
      PROVE  Result
  <2>1. SetTypes' /\ DueLapsed' /\ Polled' = Polled
    BY <1>0, <1>1 DEF SetTypes, DueLapsed, Polled
  <2>2. \A s \in Sids : SetStep(s)
    BY <1>1, <2>1 DEF SetStep
  <2> QED
    BY <1>1, <2>1, <2>2
<1>2. CASE UNCHANGED tables
  BY <1>0, <1>1, <1>2 DEF tables, SetTypes
<1>3. ASSUME NEW r \in Requests, Created(r) PROVE Result
  BY <1>0, <1>1, <1>3 DEF Created, SetTypes
<1>4. ASSUME NEW s \in Sids, Touched(s) PROVE Result
  BY <1>0, <1>1, <1>4 DEF Touched, Touch, SetTypes
<1>5. ASSUME NEW s \in Sids, NEW row \in SessionRows, Updated(s, row) PROVE Result
  BY <1>0, <1>1, <1>5 DEF Updated, Update, SetTypes
<1>6. CASE Unpointed
  BY <1>0, <1>1, <1>6 DEF Unpointed, SetTypes
<1>7. ASSUME NEW s \in Sids, Gone(s) PROVE Result
  <2>1. /\ UNCHANGED <<sfdc, contexts, pending, lapsed>> /\ stream' = stream \cup {s} /\ due' \subseteq due
        /\ userSession' \in {None, userSession} /\ formerUser' \in {formerUser, userSession}
    BY <1>7 DEF Gone
  <2>2. SetTypes' /\ DueLapsed' /\ Polled' = Polled
    BY <1>0, <2>1 DEF SetTypes, DueLapsed, Polled
  <2>3. \A t \in Sids : SetStep(t)
    BY <1>7, <2>1, <2>2 DEF SetStep
  <2> QED
    BY <2>1, <2>2, <2>3
<1>8. ASSUME NEW s \in Sids, Expired(s) PROVE Result
  <2>1. /\ UNCHANGED <<userSession, formerUser, contexts, pending, stream, lapsed>>
        /\ sfdc' = sfdc \ {s} /\ due' \subseteq due /\ s \in lapsed
    BY <1>8 DEF Expired, DueLapsed
  <2>2. SetTypes' /\ DueLapsed' /\ Polled' = Polled
    BY <1>0, <2>1 DEF SetTypes, DueLapsed, Polled
  <2>3. \A t \in Sids : SetStep(t)
    BY <2>1, <2>2 DEF SetStep
  <2> QED
    BY <2>1, <2>2, <2>3
<1>9. ASSUME NEW s \in Sids, HandleRemove(s) PROVE Result
  <2>1. /\ UNCHANGED <<session, userSession, formerUser, sfdc, pending, due, lapsed>>
        /\ s \in stream /\ stream' = stream \ {s} /\ contexts' = contexts \ {s}
    BY <1>9 DEF HandleRemove
  <2>2. SetTypes' /\ DueLapsed' /\ Polled' = Polled
    BY <1>0, <2>1 DEF SetTypes, DueLapsed, Polled
  <2>3. \A t \in Sids : SetStep(t)
    BY <2>1, <2>2 DEF SetStep
  <2> QED
    BY <2>1, <2>2, <2>3
<1>10. ASSUME NEW s \in Sids, Lapse(s) PROVE Result
  <2> DEFINE new == {<<s, "session">>} \cup {<<s, "user">> : u \in {userSession} \cap {s}}
                                       \cup {<<s, "sfdc">> : u \in sfdc \cap {s}}
  <2>1. /\ UNCHANGED <<session, userSession, formerUser, sfdc, contexts, pending, stream>>
        /\ Exists(s) /\ lapsed' = lapsed \cup {s} /\ due' = due \cup new
    BY <1>10 DEF Lapse
  <2>2. \A d \in new : d \in Sids \X Kinds /\ d[1] = s
    BY DEF Kinds
  <2> HIDE DEF new
  <2>3. SetTypes' /\ DueLapsed' /\ Polled' = Polled
    BY <1>0, <2>1, <2>2 DEF SetTypes, DueLapsed, Polled
  <2>4. \A t \in Sids : SetStep(t)
    BY <2>1, <2>3 DEF SetStep
  <2> QED
    BY <2>1, <2>3, <2>4
<1>11. ASSUME NEW s \in Sids, NEW counter \in Nat, Connected(s, counter) PROVE Result
  <2> DEFINE e == <<s, session[s].counter>>
  <2>1. /\ UNCHANGED <<userSession, formerUser, stream, due, lapsed>>
        /\ sfdc' = sfdc \cup {s} /\ contexts' = contexts \cup {s} /\ pending' = pending \cup {e}
    BY <1>11 DEF Connected, Activate
  <2>2. e \in Sids \X Nat /\ e[1] = s
    <3>1. session[s] \in SessionRows
      BY <1>0
    <3> QED
      BY <3>1 DEF SessionRows
  <2> HIDE DEF e
  <2>3. SetTypes' /\ DueLapsed' /\ Polled' = Polled \cup {s}
    BY <1>0, <2>1, <2>2 DEF SetTypes, DueLapsed, Polled
  <2>4. Joined(s)
    BY <1>11 DEF Joined
  <2>5. \A t \in Sids : SetStep(t)
    BY <2>1, <2>3, <2>4 DEF SetStep
  <2> QED
    BY <2>1, <2>3, <2>5
<1>12. CASE PollFailed
  <2> DEFINE s == poller.event[1]
  <2>1. PICK y \in SessionRows :
          /\ session' = [session EXCEPT ![s] = y]
          /\ \/ y = session[s] /\ ~Readable(s)
             \/ Readable(s) /\ y.status = "FAILED" /\ y.counter = session[s].counter
             \/ ~Exists(s) /\ y.status = "stub"
    BY <1>12, FailedRow
  <2>2. /\ s \in Sids /\ contexts' = contexts \ {s}
        /\ UNCHANGED <<userSession, formerUser, sfdc, pending, stream, due, lapsed>>
    BY <1>12, FailedRow
  <2>3. SetTypes' /\ DueLapsed' /\ Polled' = Polled
    BY <1>0, <2>2 DEF SetTypes, DueLapsed, Polled
  <2>4. FailedByPoll(s) \/ (PollFailed /\ session'[s] = session[s] /\ ~Readable(s))
    BY <1>0, <1>12, <2>1, <2>2 DEF FailedByPoll
  <2> HIDE DEF s
  <2>5. \A t \in Sids : SetStep(t)
    BY <2>2, <2>3, <2>4 DEF SetStep
  <2> QED
    BY <2>2, <2>3, <2>5
<1>13. CASE EventDeleted
  <2>1. PICK e \in Sids \X Nat :
          /\ pending' = pending \ {e}
          /\ \/ ~(Exists(e[1]) /\ e[1] \in sfdc /\ e[1] \in contexts)
             \/ poller.pc = "deleteEvent" /\ e = poller.event
    BY <1>13 DEF EventDeleted
  <2>2. UNCHANGED <<session, userSession, formerUser, sfdc, contexts, stream, due, lapsed>>
    BY <1>13 DEF EventDeleted
  <2>3. SetTypes' /\ DueLapsed' /\ EventGone(e[1])
    BY <1>0, <2>1, <2>2 DEF SetTypes, DueLapsed, EventGone
  <2>4. \A t \in Sids : (t \in Polled' => t \in Polled) /\ (t \in Polled => t \in Polled' \/ t = e[1])
    BY <2>1 DEF Polled
  <2>5. \A t \in Sids : SetStep(t)
    BY <2>2, <2>3, <2>4 DEF SetStep
  <2> QED
    BY <2>2, <2>3, <2>5
<1> QED
  BY <1>2, <1>3, <1>4, <1>5, <1>6, <1>7, <1>8, <1>9, <1>10, <1>11, <1>12, <1>13 DEF TableStep

-----------------------------------------------------------------------------
(* What a step does to the actors, whoever makes it. *)
OneRequestMoves ==
    \/ UNCHANGED <<req, used>>
    \/ \E r \in Requests : RequestGoesOn(r) /\ \A q \in Requests : q # r => req'[q] = req[q]
ConnectorMoves(k) ==
    \/ conn'[k] = conn[k] \/ conn'[k].pc = "idle"
    \/ /\ conn'[k].pc = "load"
       /\ conn'[k].sid \in invocations \/ (conn[k].pc # "idle" /\ conn'[k].sid = conn[k].sid)
    \/ /\ conn[k].pc = "load" /\ conn'[k].pc = "connect" /\ conn'[k].sid = conn[k].sid
       /\ conn'[k].counter = session[conn[k].sid].counter
       /\ session[conn[k].sid].status = "PENDING" /\ UNCHANGED tables
PollMoves ==
    \/ poller'.pc = "idle" \/ poller' = poller
    \/ poller'.pc = "poll" /\ poller'.event[1] \in Polled /\ poller'.event[1] \in sfdc /\ UNCHANGED tables
    \/ /\ poller.pc = "poll" /\ poller'.pc = "deleteEvent" /\ poller'.event = poller.event
       /\ SetFailed(poller.event[1])
ActorTypes ==
    /\ used \subseteq Sids /\ invocations \subseteq Sids
    /\ req \in [Requests -> RequestRecords] /\ conn \in [Connectors -> ConnectRecords]
    /\ hand \in [Handlers -> HandlerRecords] /\ poller \in PollRecords

ActorStep ==
    /\ ActorTypes' /\ used \subseteq used' /\ OneRequestMoves
    /\ \A s \in invocations' : s \in invocations \/ \E r \in Requests : req[r].pc = "invoke" /\ req[r].sid = s
    /\ \A k \in Connectors : ConnectorMoves(k)
    /\ \A h \in Handlers : hand'[h].pc # "idle" => hand'[h].sid \in Sids
    /\ PollMoves

LEMMA ActorSteps ==
    ASSUME Types, Shaped, [Next]_vars
    PROVE  ActorStep
<1>0. /\ ActorTypes /\ \A h \in Handlers : hand[h].pc # "idle" => hand[h].sid \in Sids
      /\ \A r \in Requests : req[r].pc # "idle" => req[r].sid \in Sids
  BY DEF Types, Shaped, ActorTypes
<1>1. ASSUME UNCHANGED <<req, used>> PROVE OneRequestMoves
  BY <1>1 DEF OneRequestMoves
<1>2. ASSUME UNCHANGED conn PROVE \A k \in Connectors : ConnectorMoves(k)
  BY <1>2 DEF ConnectorMoves
<1>3. ASSUME UNCHANGED poller PROVE PollMoves
  BY <1>3 DEF PollMoves
<1>4. ASSUME NEW r \in Requests, RequestStep(r) PROVE ActorStep
  <2>1. /\ req' \in [Requests -> RequestRecords] /\ OneRequestMoves
        /\ UNCHANGED <<conn, hand, poller>>
    BY <1>4, RequestMoves DEF OneRequestMoves
  <2>2. used \subseteq used' /\ used' \subseteq Sids
    BY <1>0, <1>4, RequestMoves DEF StartRequest, ActorTypes
  <2>3. \A s \in invocations' : s \in invocations \/ (req[r].pc = "invoke" /\ req[r].sid = s)
    BY <1>4 DEF RequestStep, StartRequest, CreateSession, Lookup, CheckReplace, TouchCurrent, ReplaceCurrent,
       FixOrphan, InvokeConnect, FailFind, FailUpdate, ConnectSync, RequestCrash, othersR
  <2>4. invocations' \subseteq Sids
    BY <1>0, <2>3 DEF ActorTypes
  <2> QED
    BY <1>0, <1>2, <1>3, <2>1, <2>2, <2>3, <2>4 DEF ActorStep, ActorTypes
<1>5. ASSUME NEW k \in Connectors, ConnectStep(k) PROVE ActorStep
  <2>1. /\ conn' \in [Connectors -> ConnectRecords] /\ invocations' \subseteq invocations
        /\ UNCHANGED <<used, req, hand, poller>>
    BY <1>5, ConnectMoves
  <2>2. ConnectorMoves(k) /\ \A l \in Connectors : l # k => ConnectorMoves(l)
    BY <1>5, ConnectMoves DEF ConnectorMoves
  <2> QED
    BY <1>0, <1>1, <1>3, <2>1, <2>2 DEF ActorStep, ActorTypes
<1>6. ASSUME NEW h \in Handlers, HandlerStep(h) PROVE ActorStep
  <2>1. /\ hand' \in [Handlers -> HandlerRecords] /\ UNCHANGED <<used, invocations, req, conn, poller>>
    BY <1>6, HandlerMoves
  <2>2. \A g \in Handlers : hand'[g].pc # "idle" => hand'[g].sid \in Sids
    BY <1>0, <1>6, HandlerMoves
  <2> QED
    BY <1>0, <1>1, <1>2, <1>3, <2>1, <2>2 DEF ActorStep, ActorTypes
<1>7. CASE PollStep
  <2>1. poller' \in PollRecords /\ UNCHANGED <<used, invocations, req, conn, hand>>
    BY <1>7, PollerMoves
  <2>2. \A e \in pending : e[1] \in Polled
    BY DEF Polled
  <2>3. PollMoves
    BY <1>7, <2>2, PollerMoves DEF PollMoves
  <2> QED
    BY <1>0, <1>1, <1>2, <2>1, <2>3 DEF ActorStep, ActorTypes
<1>8. ASSUME UNCHANGED <<used, invocations, req, conn, hand, poller>> PROVE ActorStep
  BY <1>0, <1>1, <1>2, <1>3, <1>8 DEF ActorStep, ActorTypes
<1>9. ASSUME NEW s \in Sids, HandleRemove(s) \/ TtlStep(s) PROVE ActorStep
  BY <1>8, <1>9 DEF HandleRemove, TtlStep, Lapse, TtlSession, TtlUser, TtlSfdc
<1> QED
  BY <1>4, <1>5, <1>6, <1>7, <1>8, <1>9 DEF Next, vars

(* The types, and that the locals hold ids. *)
LEMMA TypesStay ==
    ASSUME Types, Shaped, DueLapsed, [Next]_vars
    PROVE  Types' /\ Shaped'
<1>1. TableStep /\ ActorStep
  BY TableSteps, ActorSteps
<1>2. session' \in [Sids -> SessionRows] /\ SetTypes' /\ ActorTypes'
  BY <1>1, RowSteps, SetSteps DEF ActorStep
<1>3. Types'
  BY <1>2 DEF Types, SetTypes, ActorTypes
<1>4. /\ invocations \subseteq Sids /\ pending \subseteq Sids \X Nat /\ used \subseteq used'
      /\ \A s \in Polled : s \in Sids
  BY <1>1 DEF Types, ActorStep, Polled
<1>5. \A r \in Requests : /\ req'[r].pc # "idle" => req'[r].sid \in used'
                          /\ req'[r].pc \in {"find", "touch", "update"} => req'[r].found \in Sids
  BY <1>1, <1>4 DEF ActorStep, OneRequestMoves, RequestGoesOn, Shaped
<1>6. \A k \in Connectors : conn'[k].pc # "idle" => conn'[k].sid \in Sids
  BY <1>1, <1>4 DEF ActorStep, ConnectorMoves, Shaped
<1>7. poller'.pc # "idle" => poller'.event[1] \in Sids
  BY <1>1, <1>4 DEF ActorStep, PollMoves, Shaped
<1> QED
  BY <1>1, <1>3, <1>5, <1>6, <1>7 DEF Shaped, ActorStep

-----------------------------------------------------------------------------
(* An id is born once: its traces are those of the session that its one    *)
(* request has put.                                                        *)
BornNext(s) == s \in used' /\ \A r \in Requests : req'[r].pc \in Early => req'[r].sid # s

LEMMA BornStays ==
    ASSUME Types, Shaped, BornOnce, ActorStep
    PROVE  /\ \A s \in Sids : Born(s) => BornNext(s)
           /\ \A r \in Requests : req'[r].pc \in Late => BornNext(req'[r].sid)
           /\ \A q, r \in Requests :
                 req'[q].pc # "idle" /\ req'[r].pc \in Early /\ req'[q].sid = req'[r].sid => q = r
<1>0. /\ used \subseteq used' /\ \A r \in Requests : req[r].pc # "idle" => req[r].sid \in used
      /\ \A q, r \in Requests :
            req[q].pc # "idle" /\ req[r].pc \in Early /\ req[q].sid = req[r].sid => q = r
      /\ \A r \in Requests : req[r].pc \in Late => Born(req[r].sid)
      /\ "idle" \notin Early /\ "idle" \notin Late /\ "create" \in Early
      /\ \A pc \in Early : pc \notin Late
  BY DEF ActorStep, Shaped, BornOnce, Early, Late
<1>1. CASE UNCHANGED <<req, used>>
  BY <1>0, <1>1 DEF Born, BornNext
<1>2. CASE ~UNCHANGED <<req, used>>
  <2>1. PICK m \in Requests : RequestGoesOn(m) /\ \A q \in Requests : q # m => req'[q] = req[q]
    BY <1>2 DEF ActorStep, OneRequestMoves
  <2>2. \/ req'[m].pc = "idle"
        \/ req[m].pc = "idle" /\ req'[m].pc = "create" /\ req'[m].sid \notin used /\ req'[m].sid \in used'
        \/ /\ req[m].pc # "idle" /\ req'[m].sid = req[m].sid
           /\ req'[m].pc \in Early => req[m].pc \in Early
           /\ req'[m].pc \in Late => req[m].pc \in Late \cup {"create"}
    BY <2>1 DEF RequestGoesOn
  <2>3. \A s \in Sids : Born(s) => BornNext(s)
    BY <1>0, <2>1, <2>2 DEF Born, BornNext
  <2>4. \A r \in Requests : req'[r].pc \in Late => BornNext(req'[r].sid)
    <3>1. ASSUME NEW r \in Requests, req'[r].pc \in Late PROVE BornNext(req'[r].sid)
      <4>1. CASE r # m
        BY <1>0, <2>1, <2>2, <3>1, <4>1 DEF Born, BornNext
      <4>2. CASE r = m
        <5>1. req'[m].sid = req[m].sid /\ req[m].pc \in Late \cup {"create"} /\ req[m].sid \in used
          BY <1>0, <2>2, <3>1, <4>2
        <5>2. \A q \in Requests \ {m} : req'[q].pc \in Early => req'[q].sid # req[m].sid
          BY <1>0, <2>1, <5>1
        <5>3. req'[m].pc \notin Early
          BY <1>0, <3>1, <4>2
        <5> QED
          BY <1>0, <4>2, <5>1, <5>2, <5>3 DEF BornNext
      <4> QED
        BY <4>1, <4>2
    <3> QED
      BY <3>1
  <2>5. \A q, r \in Requests :
           req'[q].pc # "idle" /\ req'[r].pc \in Early /\ req'[q].sid = req'[r].sid => q = r
    BY <1>0, <2>1, <2>2
  <2> QED
    BY <2>3, <2>4, <2>5
<1> QED
  BY <1>1, <1>2

LEMMA BornOnceStays ==
    ASSUME Types, Shaped, BornOnce, DueLapsed, TableStep, ActorStep
    PROVE  BornOnce'
<1>1. /\ \A s \in Sids : Trace(s) => Born(s)
      /\ \A r \in Requests : req[r].pc \in Late => Born(req[r].sid)
      /\ \A r \in Requests : req[r].pc # "idle" => req[r].sid \in Sids
      /\ "invoke" \in Late
  BY DEF BornOnce, Shaped, Types, Late
<1>2. \A s \in Sids : RowStep(s) /\ SetStep(s)
  BY RowSteps, SetSteps
<1>3. ASSUME NEW s \in Sids, Trace(s)'
      PROVE  \/ Trace(s) \/ \E r \in Requests : Created(r) /\ req[r].sid = s
             \/ \E r \in Requests : req[r].pc = "invoke" /\ req[r].sid = s
  <2>1. CASE Exists(s)'
    <3>1. \/ Exists(s) \/ \E r \in Requests : Created(r) /\ req[r].sid = s
          \/ FailedByPoll(s)
      BY <1>2, <2>1 DEF RowStep, Exists, Renewed, Activated, Joined, Gone, Readable, Connected, CanActivate
    <3> QED
      BY <3>1 DEF Trace, FailedByPoll, PollFailed
  <2>2. Joined(s) => Exists(s)
    BY JoinedRows DEF Readable, Exists
  <2>3. CASE (s \in stream \/ s \in contexts \/ s \in sfdc \/ s \in lapsed \/ s \in Polled)'
    <3>1. s \in stream \/ s \in contexts \/ s \in sfdc \/ s \in lapsed \/ s \in Polled \/ Exists(s)
      BY <1>2, <2>2, <2>3 DEF SetStep, Gone
    <3> QED
      BY <3>1 DEF Trace
  <2>4. CASE s \in invocations'
    BY <2>4 DEF ActorStep, Trace
  <2>5. CASE poller'.pc # "idle" /\ poller'.event[1] = s
    BY <2>5 DEF ActorStep, PollMoves, Trace
  <2>6. ASSUME NEW k \in Connectors, conn'[k].pc # "idle" /\ conn'[k].sid = s PROVE Trace(s)
    BY <2>6 DEF ActorStep, ConnectorMoves, Trace
  <2> QED
    BY <1>3, <2>1, <2>3, <2>4, <2>5, <2>6 DEF Trace
<1>4. ASSUME NEW r \in Requests, Created(r) PROVE BornNext(req[r].sid)
  BY <1>4, BornStays DEF Created
<1>5. \A s \in Sids : Trace(s)' => BornNext(s)
  <2>1. \A s \in Sids : Born(s) => BornNext(s)
    BY BornStays
  <2> QED
    BY <1>1, <1>3, <1>4, <2>1
<1>6. (\A s \in Sids : Trace(s) => Born(s))'
  BY <1>5 DEF Born, BornNext
<1>7. (\A r \in Requests : req[r].pc \in Late => Born(req[r].sid))'
  BY BornStays DEF Born, BornNext
<1>8. (\A q, r \in Requests :
          req[q].pc # "idle" /\ req[r].pc \in Early /\ req[q].sid = req[r].sid => q = r)'
  BY BornStays
<1> QED
  BY <1>6, <1>7, <1>8 DEF BornOnce

-----------------------------------------------------------------------------
(* What the tables tell of each other. *)
LEMMA CreatedIsNew ==
    ASSUME Shaped, Types, BornOnce, NEW r \in Requests, Created(r)
    PROVE  ~Trace(req[r].sid)
<1>1. req[r].pc \in Early /\ req[r].pc # "idle"
  BY DEF Created, Early
<1>2. ~Born(req[r].sid) /\ req[r].sid \in Sids
  BY <1>1 DEF Born, Shaped, Types
<1> QED
  BY <1>2 DEF BornOnce

(* A session that can be read was so before, or has just been put. *)
LEMMA ReadableSteps ==
    ASSUME Types, Shaped, TableStep, NEW s \in Sids, Readable(s)'
    PROVE  \/ Readable(s) \/ \E r \in Requests : Created(r) /\ req[r].sid = s
<1>1. RowStep(s)
  BY RowSteps
<1>2. CASE Joined(s)
  BY <1>2, JoinedRows
<1> QED
  BY <1>1, <1>2 DEF RowStep, Readable, Renewed, Activated, Joined, FailedByPoll, Gone

LEMMA StreamGoneStays ==
    ASSUME Types, Shaped, BornOnce, DueLapsed, StreamGone, TableStep
    PROVE  StreamGone'
<1> SUFFICES ASSUME NEW s \in Sids, s \in stream' PROVE ~Readable(s)'
  BY SetSteps DEF StreamGone, SetTypes
<1>1. CASE s \in stream
  BY <1>1, ReadableSteps, CreatedIsNew DEF StreamGone, Trace
<1>2. CASE s \notin stream
  <2>1. Gone(s)
    BY <1>2, SetSteps DEF SetStep
  <2>2. session'[s] = NoRow
    BY <2>1 DEF Gone, Types
  <2> QED
    BY <2>2, StartRecords DEF Readable
<1> QED
  BY <1>1, <1>2

LEMMA PointerTargetStays ==
    ASSUME Types, Shaped, DueLapsed, PointerTarget, TableStep
    PROVE  PointerTarget'
<1> SUFFICES ASSUME NEW s \in Sids, userSession' = s PROVE Exists(s)' \/ s \in lapsed'
  BY DEF PointerTarget
<1>0. RowStep(s) /\ SetStep(s) /\ s # None
  BY RowSteps, SetSteps, NoneAssumption
<1>1. ASSUME NEW r \in Requests, Created(r), req[r].sid = s PROVE Exists(s)'
  <2>1. session' = [session EXCEPT ![s] = Row("PENDING", 1, req[r].token, req[r].device)]
    BY <1>1 DEF Created
  <2> QED
    BY <2>1 DEF Types, Row, Exists
<1>2. CASE userSession = s
  <2>1. CASE s \in lapsed
    BY <1>0, <2>1 DEF SetStep
  <2>2. CASE Exists(s) /\ ~Gone(s)
    BY <1>0, <2>2 DEF RowStep, Exists, Renewed, Activated, FailedByPoll
  <2>3. CASE Gone(s)
    BY <1>0, <1>2, <2>3, <2>1 DEF Gone, DueLapsed
  <2> QED
    BY <1>2, <2>1, <2>2, <2>3 DEF PointerTarget
<1> QED
  BY <1>0, <1>1, <1>2, SetSteps

LEMMA ActivatedOnceStays ==
    ASSUME Types, Shaped, DueLapsed, ActivatedOnce, TableStep, ActorStep
    PROVE  ActivatedOnce'
<1> SUFFICES ASSUME NEW s \in Sids, s \notin lapsed',
                    (s \in contexts \/ s \in Polled \/ (poller.pc # "idle" /\ poller.event[1] = s))'
             PROVE  s \in sfdc'
  BY DEF ActivatedOnce
<1>1. SetStep(s)
  BY SetSteps
<1>2. s \notin lapsed /\ (s \in sfdc => s \in sfdc')
  BY <1>1 DEF SetStep
<1>3. CASE Joined(s)
  BY <1>3, JoinedRows
<1>4. CASE ~Joined(s) /\ (s \in contexts' \/ s \in Polled')
  BY <1>1, <1>2, <1>4 DEF SetStep, ActivatedOnce
<1>5. CASE poller'.pc # "idle" /\ poller'.event[1] = s
  BY <1>2, <1>5 DEF ActorStep, PollMoves, ActivatedOnce
<1> QED
  BY <1>3, <1>4, <1>5

LEMMA DeletesFailedStays ==
    ASSUME Types, Shaped, DueLapsed, ActivatedOnce, DeletesFailed, TableStep, ActorStep
    PROVE  DeletesFailed'
<1> DEFINE s == poller'.event[1]
<1> SUFFICES ASSUME poller'.pc = "deleteEvent", s \notin lapsed' PROVE session'[s].status # "ACTIVE"
  BY DEF DeletesFailed
<1>1. CASE poller' = poller
  <2>1. s \in Sids /\ s = poller.event[1] /\ poller.pc # "idle" /\ poller.pc = "deleteEvent"
    BY <1>1 DEF Shaped
  <2>2. RowStep(s) /\ SetStep(s)
    BY <2>1, RowSteps, SetSteps
  <2>3. s \notin lapsed
    BY <2>2 DEF SetStep
  <2>4. session[s].status # "ACTIVE" /\ s \in sfdc
    BY <2>1, <2>3 DEF DeletesFailed, ActivatedOnce
  <2>5. ~Joined(s)
    BY <2>1, <2>4, JoinedRows
  <2> HIDE DEF s
  <2> QED
    BY <2>1, <2>2, <2>4, <2>5 DEF RowStep, Gone, Renewed, Activated, Joined, FailedByPoll, PollFailed
<1>2. CASE poller' # poller
  <2>1. poller.pc = "poll" /\ s = poller.event[1] /\ SetFailed(s)
    BY <1>2 DEF ActorStep, PollMoves
  <2>2. PollFailed
    BY <2>1 DEF PollFailed
  <2>3. PICK y \in SessionRows :
          /\ session' = [session EXCEPT ![s] = y]
          /\ \/ y = session[s] /\ ~Readable(s)
             \/ Readable(s) /\ y.status = "FAILED" /\ y.counter = session[s].counter
             \/ ~Exists(s) /\ y.status = "stub"
    BY <2>1, <2>2, FailedRow
  <2>4. s \in Sids
    BY <2>1 DEF Shaped
  <2> HIDE DEF s
  <2>5. session'[s] = y
    BY <2>3, <2>4 DEF Types
  <2> QED
    BY <2>3, <2>5 DEF Readable
<1> QED
  BY <1>1, <1>2

LEMMA ActiveCompleteStays ==
    ASSUME Types, Shaped, DueLapsed, StreamGone, DeletesFailed, ActiveComplete, TableStep
    PROVE  ActiveComplete'
<1> SUFFICES ASSUME NEW s \in Sids, session'[s].status = "ACTIVE", s \notin lapsed'
             PROVE  s \in sfdc' /\ s \in contexts' /\ s \in Polled'
  BY DEF ActiveComplete
<1>0. RowStep(s) /\ SetStep(s)
  BY RowSteps, SetSteps
<1>1. CASE Joined(s)
  BY <1>1, JoinedRows
<1>2. CASE ~Joined(s)
  <2>1. session[s].status = "ACTIVE" /\ s \notin lapsed
    BY <1>0, <1>2 DEF RowStep, SetStep, Gone, Renewed, Activated, Joined, FailedByPoll
  <2>2. s \in sfdc /\ s \in contexts /\ s \in Polled
    BY <2>1 DEF ActiveComplete
  <2>3. Readable(s) /\ Exists(s) /\ s \notin stream
    BY <2>1 DEF Readable, Exists, StreamGone
  <2>4. s \in contexts'
    BY <1>0, <2>2, <2>3 DEF SetStep, FailedByPoll
  <2>5. s \in Polled'
    BY <1>0, <2>1, <2>2, <2>3 DEF SetStep, EventGone, DeletesFailed
  <2> QED
    BY <1>0, <2>1, <2>2, <2>4, <2>5 DEF SetStep
<1> QED
  BY <1>1, <1>2

(* A connection that succeeds finds the stateCounter it has loaded. *)
LEMMA JoinedCounter ==
    ASSUME Types, NEW s \in Sids, Joined(s)
    PROVE  \/ session[s].counter = 1
           \/ \E k \in Connectors : conn[k].pc = "connect" /\ conn[k].sid = s
                                    /\ conn[k].counter = session[s].counter
BY DEF Joined, Connected, CanActivate

LEMMA FailedStaysFailed ==
    ASSUME Types, Shaped, BornOnce, DueLapsed, CountersTell, TableStep, NEW s \in Sids,
           s \notin lapsed, session[s].status \in {"FAILED"} \cup Stubs
    PROVE  session'[s].status # "ACTIVE"
<1>0. RowStep(s)
  BY RowSteps
<1>1. ASSUME Joined(s) PROVE FALSE
  <2>1. session[s].status = "FAILED" /\ s \notin sfdc
    BY <1>1, JoinedRows DEF Readable, Stubs
  <2>2. /\ session[s].counter >= 2
        /\ \A k \in Connectors : conn[k].pc = "connect" /\ conn[k].sid = s => conn[k].counter < session[s].counter
    BY <2>1 DEF CountersTell
  <2>3. session[s].counter \in Nat
    BY DEF Types, SessionRows
  <2> QED
    BY <1>1, <2>2, <2>3, JoinedCounter
<1> QED
  BY <1>0, <1>1 DEF RowStep, Gone, Renewed, Activated, Joined, FailedByPoll, Stubs

LEMMA CountersTellStays ==
    ASSUME Types, Shaped, BornOnce, DueLapsed, ActivatedOnce, CountersTell, TableStep, ActorStep
    PROVE  CountersTell'
<1>0. /\ \A s \in Sids : RowStep(s) /\ SetStep(s) /\ session[s].counter \in Nat /\ session'[s].counter \in Nat
      /\ \A k \in Connectors : conn[k].counter \in Nat /\ conn'[k].counter \in Nat
      /\ \A k \in Connectors : conn[k].pc # "idle" => conn[k].sid \in Sids /\ Trace(conn[k].sid)
  <2>1. session' \in [Sids -> SessionRows] /\ conn' \in [Connectors -> ConnectRecords]
        /\ \A s \in Sids : RowStep(s) /\ SetStep(s)
    BY RowSteps, SetSteps DEF ActorStep, ActorTypes
  <2>2. \A s \in Sids : session[s].counter \in Nat /\ session'[s].counter \in Nat
    BY <2>1 DEF Types, SessionRows
  <2>3. \A k \in Connectors : conn[k].counter \in Nat /\ conn'[k].counter \in Nat
    BY <2>1 DEF Types, ConnectRecords
  <2> QED
    BY <2>1, <2>2, <2>3 DEF Shaped, Trace
<1>1. ASSUME NEW s \in Sids, Readable(s), Readable(s)' PROVE session'[s].counter >= session[s].counter
  <2>1. ASSUME NEW r \in Requests, Created(r), req[r].sid = s PROVE FALSE
    BY <1>1, <2>1, CreatedIsNew DEF Trace, Readable, Exists
  <2> QED
    BY <1>0, <1>1, <2>1 DEF RowStep, Readable, Renewed, Activated, FailedByPoll, Exists
<1>2. ASSUME NEW s \in Sids, Readable(s)' PROVE session'[s].counter >= 1
  <2>1. CASE Readable(s)
    BY <1>0, <1>1, <1>2, <2>1 DEF CountersTell
  <2>2. CASE ~Readable(s)
    <3>1. ~Joined(s)
      BY <2>2, JoinedRows
    <3>2. session'[s].status = "PENDING" /\ session'[s].counter = 1
      <4>1. ~Renewed(s) /\ ~Activated(s)
        BY <2>2, <3>1 DEF Renewed, Activated, Joined
      <4> QED
        BY <1>0, <1>2, <2>2, <4>1 DEF RowStep, Readable, FailedByPoll
    <3> QED
      BY <3>2
  <2> QED
    BY <2>1, <2>2
<1>3. ASSUME NEW k \in Connectors, conn'[k].pc = "connect"
      PROVE  \/ conn'[k] = conn[k]
             \/ /\ conn[k].pc = "load" /\ conn'[k].sid = conn[k].sid
                /\ conn'[k].counter = session[conn[k].sid].counter
                /\ session[conn[k].sid].status = "PENDING" /\ session' = session
  BY <1>3 DEF ActorStep, ConnectorMoves, tables
<1>4. ASSUME NEW k \in Connectors, NEW s \in Sids, conn'[k].pc = "connect", conn'[k].sid = s, Readable(s)'
      PROVE  conn'[k].counter <= session'[s].counter
  <2>1. conn[k].sid = s /\ conn[k].pc # "idle"
    BY <1>3, <1>4
  <2>3. CASE conn'[k] = conn[k]
    <3>1. Readable(s)
      BY <1>0, <1>4, <2>1, ReadableSteps, CreatedIsNew
    <3>2. conn[k].counter <= session[s].counter
      BY <1>4, <2>1, <2>3, <3>1 DEF CountersTell
    <3>3. session'[s].counter >= session[s].counter
      BY <1>1, <1>4, <3>1
    <3> QED
      BY <1>0, <2>3, <3>2, <3>3
  <2>4. CASE conn'[k].counter = session[s].counter /\ session' = session
    <3> QED
      BY <1>0, <2>4
  <2> QED
    BY <1>3, <1>4, <2>1, <2>3, <2>4
<1>5. ASSUME NEW s \in Sids, s \notin lapsed', session'[s].status = "FAILED", s \notin sfdc'
      PROVE  /\ session'[s].counter >= 2
             /\ \A k \in Connectors : conn'[k].pc = "connect" /\ conn'[k].sid = s
                                          => conn'[k].counter < session'[s].counter
  <2>1. s \notin lapsed /\ s \notin sfdc
    BY <1>0, <1>5 DEF SetStep
  <2>2. \A k \in Connectors : conn'[k].pc = "connect" /\ conn'[k].sid = s => conn'[k] = conn[k] \/ session' = session
    BY <1>3
  <2>3. CASE session[s].status = "FAILED"
    <3>1. Readable(s) /\ Readable(s)'
      BY <1>5, <2>3 DEF Readable
    <3>2. session'[s].counter >= session[s].counter /\ session[s].counter >= 2
      BY <1>1, <2>1, <2>3, <3>1 DEF CountersTell
    <3>3. ASSUME NEW k \in Connectors, conn'[k].pc = "connect", conn'[k].sid = s
          PROVE  conn'[k].counter < session'[s].counter
      <4>1. conn'[k] = conn[k]
        BY <1>3, <2>3, <3>3
      <4>2. conn[k].counter < session[s].counter
        BY <2>1, <2>3, <3>3, <4>1 DEF CountersTell
      <4> QED
        BY <1>0, <3>2, <4>1, <4>2
    <3> QED
      BY <1>0, <3>2, <3>3
  <2>4. CASE session[s].status # "FAILED"
    <3>1. Renewed(s) \/ FailedByPoll(s)
      BY <1>0, <1>5, <2>4 DEF RowStep, Activated
    <3>2. ~FailedByPoll(s)
      BY <2>1 DEF FailedByPoll, PollFailed, ActivatedOnce
    <3>3. Readable(s) /\ session'[s].counter = session[s].counter + 1
      BY <3>1, <3>2 DEF Renewed
    <3>4. session[s].counter >= 1
      BY <3>3 DEF CountersTell
    <3>5. ASSUME NEW k \in Connectors, conn'[k].pc = "connect", conn'[k].sid = s
          PROVE  conn'[k].counter < session'[s].counter
      <4>1. conn'[k] = conn[k]
        BY <1>3, <1>5, <2>4, <3>5
      <4>2. conn[k].counter <= session[s].counter
        BY <3>3, <3>5, <4>1 DEF CountersTell
      <4> QED
        BY <1>0, <3>3, <4>1, <4>2
    <3> QED
      BY <1>0, <3>3, <3>4, <3>5
  <2> QED
    BY <2>3, <2>4
<1>6. \A k \in Connectors : conn'[k].pc = "connect" => conn'[k].sid \in Sids
  BY <1>0, <1>3
<1>7. (\A k \in Connectors : (conn[k].pc = "connect" /\ Readable(conn[k].sid))
                                => conn[k].counter <= session[conn[k].sid].counter)'
  BY <1>4, <1>6 DEF Readable
<1> QED
  BY <1>2, <1>5, <1>7 DEF CountersTell

-----------------------------------------------------------------------------
LEMMA InitIInv == Init => IInv
<1> SUFFICES ASSUME Init PROVE IInv
  OBVIOUS
<1>1. Types
  BY StartRecords DEF Init, Types
<1>2. /\ \A r \in Requests : req[r].pc = "idle"
      /\ \A k \in Connectors : conn[k].pc = "idle"
      /\ \A h \in Handlers : hand[h].pc = "idle"
      /\ poller.pc = "idle"
      /\ \A s \in Sids : session[s].status = "none"
      /\ userSession = None
  BY StartRecords DEF Init
<1>3. Shaped
  BY <1>2 DEF Shaped
<1>4. BornOnce
  <2>1. \A s \in Sids : ~Trace(s)
    BY <1>2 DEF Init, Trace, Exists, Polled
  <2> QED
    BY <1>2, <2>1 DEF BornOnce, Early, Late
<1>5. DueLapsed /\ StreamGone /\ PointerTarget
  BY <1>2, NoneAssumption DEF Init, DueLapsed, StreamGone, PointerTarget
<1>6. ActivatedOnce /\ DeletesFailed /\ ActiveComplete
  BY <1>2 DEF Init, ActivatedOnce, DeletesFailed, ActiveComplete, Polled
<1>7. CountersTell
  BY <1>2 DEF CountersTell, Readable
<1> QED
  BY <1>1, <1>3, <1>4, <1>5, <1>6, <1>7 DEF IInv

LEMMA NextIInv == IInv /\ [Next]_vars => IInv'
<1> SUFFICES ASSUME IInv, [Next]_vars PROVE IInv'
  OBVIOUS
<1>1. /\ Types /\ Shaped /\ BornOnce /\ DueLapsed /\ StreamGone
      /\ PointerTarget /\ ActivatedOnce /\ DeletesFailed /\ ActiveComplete /\ CountersTell
  BY DEF IInv
<1>2. TableStep /\ ActorStep
  BY <1>1, TableSteps, ActorSteps
<1>3. Types' /\ Shaped' /\ DueLapsed'
  BY <1>1, <1>2, TypesStay, SetSteps
<1>4. BornOnce'
  BY <1>1, <1>2, BornOnceStays
<1>5. StreamGone' /\ PointerTarget'
  BY <1>1, <1>2, StreamGoneStays, PointerTargetStays
<1>6. ActivatedOnce' /\ DeletesFailed'
  BY <1>1, <1>2, ActivatedOnceStays, DeletesFailedStays
<1>7. ActiveComplete' /\ CountersTell'
  BY <1>1, <1>2, ActiveCompleteStays, CountersTellStays
<1> QED
  BY <1>3, <1>4, <1>5, <1>6, <1>7 DEF IInv

(* The inductive invariant of the session tables: every id is born once,   *)
(* only what nobody kept alive expires, and stateCounters tell a connector *)
(* what happened since it loaded its session.                              *)
THEOREM SpecIInv == Spec => []IInv
<1>1. Init => IInv
  BY InitIInv
<1>2. IInv /\ [Next]_vars => IInv'
  BY NextIInv
<1> QED
  BY <1>1, <1>2, PTL DEF Spec

(* The types of the tables and of the actors' locals; in particular no     *)
(* retry counter goes past its limit, and rows lapse only of ids in use.   *)
THEOREM LifecycleTypes == Spec => []TypeOK
<1>1. IInv => TypeOK
  <2> SUFFICES ASSUME IInv PROVE TypeOK
    OBVIOUS
  <2>1. lapsed \subseteq used
    BY DEF IInv, Types, BornOnce, Trace, Born
  <2>2. \A r \in Requests : req[r].retries \in 0..MaxRetries /\ req[r].current \in SessionRows
    BY DEF IInv, Types, RequestRecords
  <2>3. \A k \in Connectors : conn[k].tries \in 0..Tries
    BY DEF IInv, Types, ConnectRecords
  <2>4. \A h \in Handlers : hand[h].pc \in {"idle", "touch", "delete"}
    BY DEF IInv, Types, HandlerRecords
  <2>5. poller.pc \in {"idle", "poll", "deleteEvent"}
    BY DEF IInv, Types, PollRecords
  <2> QED
    BY <2>1, <2>2, <2>3, <2>4, <2>5 DEF IInv, Types, TypeOK
<1> QED
  BY SpecIInv, <1>1, PTL

(* The UserSession row names a session whose row is there or may have      *)
(* expired, however creates, deletes and orphan fixes of the user's        *)
(* requests interleave.                                                    *)
THEOREM PointerTargetHolds == Spec => []PointerTarget
<1>1. IInv => PointerTarget
  BY DEF IInv
<1> QED
  BY SpecIInv, <1>1, PTL

(* An active session that was kept alive has its SfdcSession row, contexts *)
(* and poll event: set_failed, the listener's clean-up and the poller's    *)
(* deletes never hit a session that is active.                             *)
THEOREM ActiveCompleteHolds == Spec => []ActiveComplete
<1>1. IInv => ActiveComplete
  BY DEF IInv
<1> QED
  BY SpecIInv, <1>1, PTL

(* create_session_contexts, with its stateCounter and its condition that   *)
(* no SfdcSession row is there, never activates a session that has failed, *)
(* for any number of connect invocations delivered any number of times.    *)
THEOREM FailedNeverActiveHolds == Spec => FailedNeverActive
<1>1. IInv /\ [Next]_vars
        => [\A s \in Sids : session[s].status \in {"FAILED"} \cup Stubs /\ s \notin lapsed
                               => session'[s].status # "ACTIVE"]_vars
  <2> SUFFICES ASSUME IInv, [Next]_vars, NEW s \in Sids,
                      session[s].status \in {"FAILED"} \cup Stubs, s \notin lapsed
               PROVE  session'[s].status # "ACTIVE"
    OBVIOUS
  <2>1. Types /\ Shaped /\ BornOnce /\ DueLapsed /\ CountersTell
    BY DEF IInv
  <2>2. TableStep
    BY <2>1, TableSteps
  <2> QED
    BY <2>1, <2>2, FailedStaysFailed
<1> QED
  BY SpecIInv, <1>1, PTL DEF Spec, FailedNeverActive
=============================================================================
