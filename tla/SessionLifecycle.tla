-------------------------- MODULE SessionLifecycle --------------------------
(***************************************************************************)
(* The life of one user's sessions across the tables that describe them:   *)
(* Session, UserSession (which session the user is logged in to),          *)
(* SfdcSession, SessionContext and PendingEvent.  The actors are Lambda    *)
(* invocations that share only these tables: PUT requests that start a     *)
(* session (session/manager.py), connect invocations (finish_connection),  *)
(* keep-alive and delete requests, the live agent poller, the listener on  *)
(* the Session table's stream, and DynamoDB's own TTL.  Every DynamoDB     *)
(* request or transaction is one step.  Event numbering, which every       *)
(* session transaction goes through, is the module EventSequence; here it  *)
(* is part of the transaction.                                             *)
(***************************************************************************)
EXTENDS Integers, FiniteSets

CONSTANTS
    Sids,           \* session ids (uuids: one per PUT request)
    Requests,       \* concurrent PUT requests
    Connectors,     \* concurrent connect-session invocations
    Handlers,       \* concurrent keep-alive and delete requests
    Tokens,         \* Salesforce access tokens
    Devices,        \* FCM device tokens
    MaxRetries,     \* max_create_session_retries
    Tries,          \* the bound of the retry decorator on finish_connection
    None

ASSUME RetriesAssumption == MaxRetries \in Nat /\ Tries \in Nat \ {0}
ASSUME NoneAssumption == None \notin Sids \cup Tokens \cup Devices

VARIABLES
    session,        \* the Session row of each id
    userSession,    \* sessionId of the user's UserSession row, or None
    formerUser,     \* what an eventually consistent read of it may return
    sfdc,           \* ids with an SfdcSession row
    contexts,       \* ids with SessionContext rows
    pending,        \* PendingEvent (live agent poll) rows: <<id, stateCounter>>
    stream,         \* REMOVE records of the Session table not yet handled
    due,            \* existing rows past their expireTime
    lapsed,         \* history: ids that were not kept alive at some time
    used,           \* ids generated so far
    invocations,    \* connect-session invocations to be delivered
    req, conn, hand,    \* the actors' local variables
    poller          \* the session being polled, and how far

tables == <<session, userSession, formerUser, sfdc, contexts, pending, stream, due, lapsed>>
vars == <<tables, used, invocations, req, conn, hand, poller>>

-----------------------------------------------------------------------------
(* Rows *)

(* "stub" is the partial row that set_failed leaves when it updates a      *)
(* session that is gone: it has a status, but neither stateCounter nor     *)
(* expireTime, and Session.from_record cannot read it.  A touch gives it   *)
(* an expireTime ("datedStub").                                            *)
Stubs == {"stub", "datedStub"}
Statuses == {"none", "PENDING", "ACTIVE", "FAILED"} \cup Stubs

Row(status, counter, token, device) ==
    [status |-> status, counter |-> counter, token |-> token, device |-> device]
NoRow == Row("none", 0, None, None)
Stub == Row("stub", 0, None, None)

SessionRows == [status : Statuses, counter : Nat,
                token : Tokens \cup {None}, device : Devices \cup {None}]

Kinds == {"session", "user", "sfdc"}

Exists(s) == session[s].status # "none"
Readable(s) == session[s].status \in {"PENDING", "ACTIVE", "FAILED"}

(* The locals of an actor that is not running. *)
NoRequest == [pc |-> "idle", sid |-> None, token |-> None, device |-> None,
              found |-> None, current |-> NoRow, retries |-> 0]
NoConnect == [pc |-> "idle", sid |-> None, counter |-> 0, tries |-> 0]
NoHandler == [pc |-> "idle", sid |-> None]
NoPoll == [pc |-> "idle", event |-> <<None, 0>>]

TypeOK ==
    /\ session \in [Sids -> SessionRows]
    /\ userSession \in Sids \cup {None} /\ formerUser \in Sids \cup {None}
    /\ sfdc \subseteq Sids /\ contexts \subseteq Sids /\ pending \subseteq Sids \X Nat
    /\ stream \subseteq Sids /\ lapsed \subseteq used /\ used \subseteq Sids /\ invocations \subseteq Sids
    /\ due \subseteq Sids \X Kinds
    /\ \A r \in Requests : req[r].retries \in 0..MaxRetries /\ req[r].current \in SessionRows
    /\ \A k \in Connectors : conn[k].tries \in 0..Tries
    /\ \A h \in Handlers : hand[h].pc \in {"idle", "touch", "delete"}
    /\ poller.pc \in {"idle", "poll", "deleteEvent"}

Init ==
    /\ session = [s \in Sids |-> NoRow]
    /\ userSession = None /\ formerUser = None
    /\ sfdc = {} /\ contexts = {} /\ pending = {} /\ stream = {} /\ due = {} /\ lapsed = {}
    /\ used = {} /\ invocations = {}
    /\ req = [r \in Requests |-> NoRequest]
    /\ conn = [k \in Connectors |-> NoConnect]
    /\ hand = [h \in Handlers |-> NoHandler]
    /\ poller = NoPoll

-----------------------------------------------------------------------------
(* The transactions of the repositories *)

PointTo(s) == userSession' = s /\ formerUser' = userSession

(* A fault for CanActivate: the stateCounter is not compared. *)
CanActivateUnchecked(s, counter) == s \notin contexts /\ s \notin sfdc /\ Readable(s)

(* create_session_contexts: contexts and SfdcSession row put, the Session  *)
(* row patched under its stateCounter, the poll event put, all or nothing. *)
(* The key of an event holds the time it was made, so that each activation *)
(* has an event of its own; the stateCounter stands for that time.         *)
CanActivate(s, counter) ==
    /\ s \notin contexts /\ s \notin sfdc
    /\ Readable(s) /\ session[s].counter = counter

Activate(s) ==
    /\ session' = [session EXCEPT ![s].status = "ACTIVE", ![s].counter = @ + 1]
    /\ contexts' = contexts \cup {s}
    /\ sfdc' = sfdc \cup {s}
    /\ pending' = pending \cup {<<s, session[s].counter>>}
    /\ UNCHANGED <<userSession, formerUser, stream, due, lapsed>>

(* touch_with_event: the three rows must exist; the UserSession row is     *)
(* addressed by user, whatever session it names.                           *)
CanTouch(s) == Exists(s) /\ userSession # None /\ s \in sfdc

Touch(s) ==
    /\ due' = due \ {<<s, "session">>, <<userSession, "user">>, <<s, "sfdc">>}
    /\ session' = [session EXCEPT ![s].status = IF @ = "stub" THEN "datedStub" ELSE @]
    /\ UNCHANGED <<userSession, formerUser, sfdc, contexts, pending, stream, lapsed>>

(* update_session: every attribute of row, under the stateCounter it       *)
(* carries.  The Session row's expireTime moves, the other two do not.     *)
CanUpdate(s, row) == Readable(s) /\ session[s].counter = row.counter

Update(s, row) ==
    /\ session' = [session EXCEPT ![s] = [row EXCEPT !.counter = @ + 1]]
    /\ due' = due \ {<<s, "session">>}
    /\ UNCHANGED <<userSession, formerUser, sfdc, contexts, pending, stream, lapsed>>

(* A fault for SetFailed: the contexts go, the status stays. *)
SetFailedContextsOnly(s) ==
    /\ contexts' = contexts \ {s}
    /\ UNCHANGED <<session, userSession, formerUser, sfdc, pending, stream, due, lapsed>>

(* set_failed of the contexts repository: no condition, no stateCounter.   *)
SetFailed(s) ==
    /\ session' = [session EXCEPT ![s] = IF Readable(s) THEN [@ EXCEPT !.status = "FAILED"]
                                        ELSE IF Exists(s) THEN @ ELSE Stub]
    /\ contexts' = contexts \ {s}
    /\ UNCHANGED <<userSession, formerUser, sfdc, pending, stream, due, lapsed>>

-----------------------------------------------------------------------------
(* PUT .../sessions: create_session of session/manager.py *)

(* The request's invocation ends, with a response or an exception. *)
Respond(r) == req' = [req EXCEPT ![r] = NoRequest]
GoTo(r, label) == req' = [req EXCEPT ![r].pc = label]

othersR == <<used, invocations, conn, hand, poller>>

StartRequest(r) ==
    /\ req[r].pc = "idle"
    /\ \E s \in Sids \ used, t \in Tokens, d \in Devices :
          /\ used' = used \cup {s}
          /\ req' = [req EXCEPT ![r] = [NoRequest EXCEPT !.pc = "create", !.sid = s,
                                        !.token = t, !.device = d]]
    /\ UNCHANGED <<tables, invocations, conn, hand, poller>>

(* AwsSessionsRepo.create_session: both puts, or the UserSession row is    *)
(* there already.  The request asks to be connected asynchronously         *)
(* ("invoke") or before it is answered ("connect").                        *)
CreateSession(r) ==
    LET q == req[r] IN
    /\ q.pc = "create"
    /\ \/ /\ userSession = None
          /\ session' = [session EXCEPT ![q.sid] = Row("PENDING", 1, q.token, q.device)]
          /\ PointTo(q.sid)
          /\ GoTo(r, "invoke") \/ GoTo(r, "connect")
          /\ UNCHANGED <<sfdc, contexts, pending, stream, due, lapsed>>
       \/ /\ userSession # None
          /\ GoTo(r, "lookup")
          /\ UNCHANGED tables
    /\ UNCHANGED othersR

(* A fault for RetriesLeft: RetryCounter.inc always answers True. *)
RetriesUnlimited(r) == TRUE

(* RetryCounter.inc *)
RetriesLeft(r) == req[r].retries < MaxRetries

(* find_by_session is not a consistent read.  No row found, or no retries  *)
(* left: the request fails.                                                *)
Lookup(r) ==
    /\ req[r].pc = "lookup"
    /\ \E s \in {userSession, formerUser} :
          \/ (s = None \/ ~RetriesLeft(r)) /\ Respond(r)
          \/ /\ s # None /\ RetriesLeft(r)
             /\ req' = [req EXCEPT ![r].pc = "find", ![r].found = s,
                                   ![r].retries = @ + 1]
    /\ UNCHANGED <<tables, othersR>>

(* __check_replace_session up to its first write.  The comparison of       *)
(* update times (the session counts as just updated, or not) is a choice.  *)
CheckReplace(r) ==
    LET q == req[r]
        c == session[q.found] IN
    /\ q.pc = "find"
    /\ \/ c.status \in Stubs /\ Respond(r)
       \/ c.status \in {"none", "FAILED"} /\ GoTo(r, "fix")
       \/ /\ c.status \in {"PENDING", "ACTIVE"}
          /\ \/ c.device # q.device /\ Respond(r)
             \/ c.device = q.device /\ c.token = q.token /\ Respond(r)
             \/ c.device = q.device /\ c.token = q.token /\ GoTo(r, "touch")
             \/ /\ c.device = q.device /\ c.token # q.token
                /\ req' = [req EXCEPT ![r].pc = "update", ![r].current = c]
    /\ UNCHANGED <<tables, othersR>>

TouchCurrent(r) ==
    LET s == req[r].found IN
    /\ req[r].pc = "touch"
    /\ \/ CanTouch(s) /\ Touch(s) /\ Respond(r)
       \/ ~CanTouch(s) /\ GoTo(r, "create") /\ UNCHANGED tables
    /\ UNCHANGED othersR

(* The copy of the requested session, a new object whose status is         *)
(* PENDING, replaces the current one.                                      *)
ReplaceCurrent(r) ==
    LET q == req[r]
        copy == Row("PENDING", q.current.counter, q.token, q.device) IN
    /\ q.pc = "update"
    /\ \/ CanUpdate(q.found, copy) /\ Update(q.found, copy) /\ Respond(r)
       \/ ~CanUpdate(q.found, copy) /\ GoTo(r, "create") /\ UNCHANGED tables
    /\ UNCHANGED othersR

(* fix_orphaned_session: the user's UserSession row is deleted without a   *)
(* condition.                                                              *)
FixOrphan(r) ==
    /\ req[r].pc = "fix"
    /\ PointTo(None)
    /\ due' = due \ {<<userSession, "user">>}
    /\ GoTo(r, "create")
    /\ UNCHANGED <<session, sfdc, contexts, pending, stream, lapsed, othersR>>

(* __connect_session_async.  An exception (the answer lost, for instance)  *)
(* does not mean that the invocation was not accepted.                     *)
InvokeConnect(r) ==
    LET accepted == invocations \cup {req[r].sid} IN
    /\ req[r].pc = "invoke"
    /\ \/ Respond(r) /\ invocations' = accepted
       \/ GoTo(r, "failFind") /\ invocations' \in {invocations, accepted}
    /\ UNCHANGED <<tables, used, conn, hand, poller>>

FailFind(r) ==
    LET c == session[req[r].sid] IN
    /\ req[r].pc = "failFind"
    /\ \/ ~Readable(req[r].sid) /\ Respond(r)
       \/ /\ Readable(req[r].sid)
          /\ req' = [req EXCEPT ![r].pc = "failUpdate", ![r].current = c]
    /\ UNCHANGED <<tables, othersR>>

FailUpdate(r) ==
    LET row == [req[r].current EXCEPT !.status = "FAILED"] IN
    /\ req[r].pc = "failUpdate"
    /\ \/ CanUpdate(req[r].sid, row) /\ Update(req[r].sid, row)
       \/ ~CanUpdate(req[r].sid, row) /\ UNCHANGED tables
    /\ Respond(r)
    /\ UNCHANGED othersR

(* __connect_to_sfdc in the request itself, with the session object it     *)
(* created; Salesforce may refuse, and a failed transaction is an error.   *)
ConnectSync(r) ==
    /\ req[r].pc = "connect"
    /\ \/ CanActivate(req[r].sid, 1) /\ Activate(req[r].sid)
       \/ UNCHANGED tables
    /\ Respond(r)
    /\ UNCHANGED othersR

RequestCrash(r) ==
    /\ req[r].pc # "idle"
    /\ Respond(r)
    /\ UNCHANGED <<tables, othersR>>

RequestStep(r) ==
    \/ StartRequest(r) \/ CreateSession(r) \/ Lookup(r) \/ CheckReplace(r)
    \/ TouchCurrent(r) \/ ReplaceCurrent(r) \/ FixOrphan(r)
    \/ InvokeConnect(r) \/ FailFind(r) \/ FailUpdate(r)
    \/ ConnectSync(r) \/ RequestCrash(r)

-----------------------------------------------------------------------------
(* finish_connection *)

ConnectDone(k) == conn' = [conn EXCEPT ![k] = NoConnect]

othersC == <<used, req, hand, poller>>

(* The invocation is delivered, and perhaps will be again. *)
Deliver(k) ==
    /\ conn[k].pc = "idle"
    /\ \E s \in invocations :
          /\ conn' = [conn EXCEPT ![k] = [pc |-> "load", sid |-> s, counter |-> 0, tries |-> 1]]
          /\ invocations' \in {invocations, invocations \ {s}}
    /\ UNCHANGED <<tables, othersC>>

(* get_session(allow_pending=True, allow_failure=False); an active session *)
(* needs nothing more.                                                     *)
ConnectLoad(k) ==
    LET s == conn[k].sid IN
    /\ conn[k].pc = "load"
    /\ \/ session[s].status # "PENDING" /\ ConnectDone(k)
       \/ /\ session[s].status = "PENDING"
          /\ conn' = [conn EXCEPT ![k].pc = "connect", ![k].counter = session[s].counter]
    /\ UNCHANGED <<tables, invocations, othersC>>

(* __connect_to_sfdc: a failed transaction is OptimisticLockException,     *)
(* which the retry decorator answers by starting over; Salesforce's        *)
(* refusal, like the last try, ends the invocation.                        *)
ConnectAsync(k) ==
    LET c == conn[k] IN
    /\ c.pc = "connect"
    /\ \/ CanActivate(c.sid, c.counter) /\ Activate(c.sid) /\ ConnectDone(k)
       \/ /\ ~CanActivate(c.sid, c.counter) /\ c.tries < Tries
          /\ conn' = [conn EXCEPT ![k].pc = "load", ![k].tries = @ + 1]
          /\ UNCHANGED tables
       \/ ConnectDone(k) /\ UNCHANGED tables
    /\ UNCHANGED <<invocations, othersC>>

ConnectStep(k) == Deliver(k) \/ ConnectLoad(k) \/ ConnectAsync(k)

-----------------------------------------------------------------------------
(* Keep-alive and delete *)

HandlerDone(h) == hand' = [hand EXCEPT ![h] = NoHandler]

othersH == <<used, invocations, req, conn, poller>>

(* __load_session for keepalive, which only an active session passes, and  *)
(* for delete_session_by_token, which takes any.                           *)
LoadForHandler(h) ==
    /\ hand[h].pc = "idle"
    /\ \E s \in used :
          \/ /\ session[s].status = "ACTIVE"
             /\ hand' = [hand EXCEPT ![h] = [pc |-> "touch", sid |-> s]]
          \/ /\ Readable(s)
             /\ hand' = [hand EXCEPT ![h] = [pc |-> "delete", sid |-> s]]
    /\ UNCHANGED <<tables, othersH>>

KeepAlive(h) ==
    LET s == hand[h].sid IN
    /\ hand[h].pc = "touch"
    /\ \/ CanTouch(s) /\ Touch(s)
       \/ ~CanTouch(s) /\ UNCHANGED tables
    /\ HandlerDone(h)
    /\ UNCHANGED othersH

(* A fault for DeleteSession: the UserSession row is forgotten. *)
DeleteSessionRow(h) ==
    LET s == hand[h].sid IN
    /\ hand[h].pc = "delete"
    /\ Exists(s)
    /\ session' = [session EXCEPT ![s] = NoRow]
    /\ stream' = stream \cup {s}
    /\ HandlerDone(h)
    /\ UNCHANGED <<userSession, formerUser, sfdc, contexts, pending, due, lapsed, othersH>>

(* AwsSessionsRepo.delete_session: the Session row must exist; the user's  *)
(* UserSession row goes with it, whatever session it names.                *)
DeleteSession(h) ==
    LET s == hand[h].sid IN
    /\ hand[h].pc = "delete"
    /\ \/ /\ Exists(s)
          /\ session' = [session EXCEPT ![s] = NoRow]
          /\ PointTo(None)
          /\ stream' = stream \cup {s}
          /\ due' = due \ {<<s, "session">>, <<userSession, "user">>}
          /\ UNCHANGED <<sfdc, contexts, pending, lapsed>>
       \/ ~Exists(s) /\ UNCHANGED tables
    /\ HandlerDone(h)
    /\ UNCHANGED othersH

HandlerStep(h) == LoadForHandler(h) \/ KeepAlive(h) \/ DeleteSession(h)

-----------------------------------------------------------------------------
(* The live agent poller.  The lock on tenant and user (ResourceLock)      *)
(* makes it one poller for the user's sessions.                            *)

othersP == <<used, invocations, req, conn, hand>>

(* should_poll: load_data_and_context wants all three rows and an active   *)
(* session; with a row missing the event is deleted, with a session in     *)
(* another status SessionNotActiveException leaves everything as it is.    *)
PollLoad ==
    /\ poller.pc = "idle"
    /\ \E e \in pending :
          LET s == e[1] IN
          \/ /\ ~(Exists(s) /\ s \in sfdc /\ s \in contexts)
             /\ pending' = pending \ {e}
             /\ UNCHANGED poller
          \/ /\ session[s].status = "ACTIVE" /\ s \in sfdc /\ s \in contexts
             /\ poller' = [pc |-> "poll", event |-> e]
             /\ UNCHANGED pending
    /\ UNCHANGED <<session, userSession, formerUser, sfdc, contexts, stream, due, lapsed, othersP>>

(* poll: the context is updated and the event's time moved; the poller     *)
(* dying has the same effect on these tables.                              *)
PollOk ==
    /\ poller.pc = "poll"
    /\ poller' = NoPoll
    /\ UNCHANGED <<tables, othersP>>

(* An exception fails the session and leaves the event; a shutdown message *)
(* fails the session and then deletes the event.                           *)
PollFail ==
    /\ poller.pc = "poll"
    /\ SetFailed(poller.event[1])
    /\ poller' \in {NoPoll, [poller EXCEPT !.pc = "deleteEvent"]}
    /\ UNCHANGED othersP

PollDeleteEvent ==
    /\ poller.pc = "deleteEvent"
    /\ pending' = pending \ {poller.event}
    /\ poller' = NoPoll
    /\ UNCHANGED <<session, userSession, formerUser, sfdc, contexts, stream, due, lapsed, othersP>>

PollStep == PollLoad \/ PollOk \/ PollFail \/ PollDeleteEvent

-----------------------------------------------------------------------------
(* The table listener, and DynamoDB's TTL *)

(* A fault for HandleRemove: the record is skipped. *)
SkipRemove(s) ==
    /\ s \in stream
    /\ stream' = stream \ {s}
    /\ UNCHANGED <<session, userSession, formerUser, sfdc, contexts, pending, due, lapsed,
                   used, invocations, req, conn, hand, poller>>

(* TableListenerProcessor.invoke on a REMOVE record: delete_by_row_keys. *)
HandleRemove(s) ==
    /\ s \in stream
    /\ stream' = stream \ {s}
    /\ contexts' = contexts \ {s}
    /\ UNCHANGED <<session, userSession, formerUser, sfdc, pending, due, lapsed,
                   used, invocations, req, conn, hand, poller>>

(* Nobody kept the session alive: its rows pass their expireTime. *)
Lapse(s) ==
    /\ Exists(s) /\ session[s].status # "stub"
    /\ due' = due \cup {<<s, "session">>} \cup {<<s, "user">> : u \in {userSession} \cap {s}}
                     \cup {<<s, "sfdc">> : u \in sfdc \cap {s}}
    /\ lapsed' = lapsed \cup {s}
    /\ UNCHANGED <<session, userSession, formerUser, sfdc, contexts, pending, stream,
                   used, invocations, req, conn, hand, poller>>

TtlSession(s) ==
    /\ Exists(s) /\ session[s].status # "stub" /\ <<s, "session">> \in due
    /\ session' = [session EXCEPT ![s] = NoRow]
    /\ stream' = stream \cup {s}
    /\ due' = due \ {<<s, "session">>}
    /\ UNCHANGED <<userSession, formerUser, sfdc, contexts, pending, lapsed,
                   used, invocations, req, conn, hand, poller>>

TtlUser(s) ==
    /\ userSession = s /\ <<s, "user">> \in due
    /\ PointTo(None)
    /\ due' = due \ {<<s, "user">>}
    /\ UNCHANGED <<session, sfdc, contexts, pending, stream, lapsed,
                   used, invocations, req, conn, hand, poller>>

TtlSfdc(s) ==
    /\ s \in sfdc /\ <<s, "sfdc">> \in due
    /\ sfdc' = sfdc \ {s}
    /\ due' = due \ {<<s, "sfdc">>}
    /\ UNCHANGED <<session, userSession, formerUser, contexts, pending, stream, lapsed,
                   used, invocations, req, conn, hand, poller>>

TtlStep(s) == Lapse(s) \/ TtlSession(s) \/ TtlUser(s) \/ TtlSfdc(s)

-----------------------------------------------------------------------------
(* The ids that some pending event is for. *)
Polled == {e[1] : e \in pending}

Next ==
    \/ \E r \in Requests : RequestStep(r)
    \/ \E k \in Connectors : ConnectStep(k)
    \/ \E h \in Handlers : HandlerStep(h)
    \/ PollStep
    \/ \E s \in Sids : HandleRemove(s) \/ TtlStep(s)

Spec == Init /\ [][Next]_vars

(* The stream's records are delivered.  Nothing is assumed of the poller:  *)
(* when it comes round to an event is the module Polling's subject.        *)
Fairness == \A s \in Sids : WF_vars(HandleRemove(s))

FairSpec == Spec /\ Fairness

-----------------------------------------------------------------------------
(* Properties *)

(* The UserSession row names a session whose row is there, unless that row *)
(* may have expired: a create after a delete or a failure never leaves the *)
(* user pointing at nothing.                                               *)
PointerTarget ==
    \A s \in Sids : userSession = s => Exists(s) \/ s \in lapsed

(* An active session has everything its requests, its poller and its push  *)
(* notifications need: SfdcSession row, contexts and poll event.  No       *)
(* failure, delete, late listener or poller takes them away while the      *)
(* status says ACTIVE.                                                     *)
ActiveComplete ==
    \A s \in Sids : session[s].status = "ACTIVE" /\ s \notin lapsed
                        => s \in sfdc \cap contexts \cap Polled

(* A session that has failed does not become active, whatever connect      *)
(* invocation is still under way or delivered again.                       *)
FailedNeverActive ==
    [][\A s \in Sids :
          session[s].status \in {"FAILED"} \cup Stubs /\ s \notin lapsed
              => session'[s].status # "ACTIVE"]_vars

(* The contexts of a session that is gone, with the tokens they carry, do  *)
(* not outlive it for ever, although neither delete_session nor the time   *)
(* to live touches them and a connection may just be being made.           *)
GoneIsCleaned ==
    \A s \in Sids : (~Exists(s) /\ s \in contexts) ~> (s \notin contexts)
=============================================================================
