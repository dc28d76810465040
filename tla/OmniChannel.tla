----------------------------- MODULE OmniChannel -----------------------------
(***************************************************************************)
(* Requests of the web API that act on Salesforce for a connected session: *)
(* set a presence status; accept, decline or close work; send a message    *)
(* (controllers/web_presence.py, web_conversations.py).  A request is      *)
(* routed, authenticated and tied to its session; its body is read; then,  *)
(* under the session's web lock, it numbers its calls from the WEB context *)
(* and sends them, stores an event, and saves the numbering on the way out *)
(* (omnichannel_api.py).  Accepting work enters the target in the work id  *)
(* map, which closing it and sending messages look up.                     *)
(*                                                                         *)
(* The web lock is leased for one second and not refreshed.  Each user has *)
(* one session; how it comes to be and ends is SessionLifecycle's subject. *)
(* Work ids follow their targets and are left out.                         *)
(***************************************************************************)
EXTENDS Integers, FiniteSets

CONSTANTS
    Users,          \* users, each with a session of the tenant
    Targets,        \* work targets
    Plain,          \* those whose id begins with "a17": no conversation to end
    Requests,       \* places for requests under way
    Flaws,          \* what may be wrong with a request
    MaxRequests,    \* bound on requests
    MaxFaults,      \* bound on crashes, failed calls and leases that end under a request
    Free, Dead, None

ASSUME OmniChannelAssumption ==
    /\ Plain \subseteq Targets /\ {Free, Dead} \cap Requests = {} /\ Free # Dead
    /\ None \notin Users \cup Flaws \cup Int
    /\ MaxRequests \in Nat /\ MaxFaults \in Nat

VARIABLES
    session,        \* sessionStatus of each user's session, or "gone"
    web,            \* the WEB context: the next X-Liveagent-Sequence, or None
    webLock,        \* "web-session/<tenant>/<session>"
    workMap,        \* the user a target's WorkIdMap row names, or None
    before,         \* what the row said before, which find_work may still read
    granted,        \* Salesforce: the user who has the work, or None
    req,            \* each request
    sent,           \* history: the numbers of the calls Salesforce has had
    reused,         \* history: a number was used again
    stolen,         \* history: targets whose refused accept was stored
    begun, lapses, faults

webVars == <<session, web, webLock, workMap, before, granted, req, sent, reused, stolen, begun, lapses, faults>>

Ops == {"status", "accept", "decline", "close", "message"}
Rest == [pc |-> "idle", user |-> None, op |-> "status", target |-> None, seq |-> 0, first |-> 0,
         left |-> 0, asked |-> 0, refused |-> FALSE, code |-> 0]

WebTypeOK ==
    /\ session \in [Users -> {"PENDING", "ACTIVE", "FAILED", "gone", "stub"}]
    /\ \A u \in Users : web[u] = None \/ web[u] \in 1..(3 * MaxRequests + 1)
    /\ webLock \in [Users -> Requests \cup {Free, Dead}]
    /\ workMap \in [Targets -> Users \cup {None}] /\ before \in [Targets -> Users \cup {None}]
    /\ granted \in [Targets -> Users \cup {None}]
    /\ \A q \in Requests :
           /\ req[q].pc \in {"idle", "lock", "load", "find", "send", "store", "exit", "release"}
           /\ req[q].user \in Users \cup {None} /\ req[q].op \in Ops /\ req[q].target \in Targets \cup {None}
           /\ req[q].left \in 0..2 /\ req[q].seq \in 0..(3 * MaxRequests + 1)
           /\ req[q].code \in {0, 204, 400, 401, 403, 404, 409, 415, 500, 502}
    /\ \A u \in Users : sent[u] \subseteq 1..(3 * MaxRequests)
    /\ reused \in BOOLEAN /\ stolen \subseteq Targets
    /\ begun \in 0..MaxRequests /\ lapses \in 0..MaxFaults /\ faults \in 0..MaxFaults

WebInit ==
    /\ session \in [Users -> {"PENDING", "ACTIVE"}]
    /\ web = [u \in Users |-> IF session[u] = "ACTIVE" THEN 1 ELSE None]
    /\ webLock = [u \in Users |-> Free]
    /\ workMap = [t \in Targets |-> None] /\ before = workMap /\ granted = workMap
    /\ req = [q \in Requests |-> Rest]
    /\ sent = [u \in Users |-> {}] /\ reused = FALSE /\ stolen = {}
    /\ begun = 0 /\ lapses = 0 /\ faults = 0

tables == <<session, web, workMap, before>>
history == <<sent, reused, stolen>>
bounds == <<begun, lapses>>

Fault == faults + lapses < MaxFaults /\ faults' = faults + 1

-----------------------------------------------------------------------------
(* From the HTTP event to the session: router.process, authenticate,       *)
(* verify_session, and the body transformer of the route.                  *)

(* __find_full_route, __find_route *)
RouteRefusal(flaw) == CASE flaw = "path" -> 404 [] flaw = "method" -> 415 [] OTHER -> 0

(* authenticate, __get_creds, _AuthParts.validate *)
AuthRefusal(flaw) ==
    CASE flaw = "header" -> 400 [] flaw \in {"name", "signature"} -> 401 [] OTHER -> 0

(* __load_session and get_session, where failures are refused before the   *)
(* user is compared, and PENDING after that; a row that set_failed put     *)
(* lacks what Session.from_record reads.                                   *)
SessionRefusal(flaw, status) ==
    CASE flaw = "token" -> 401
      [] flaw = "tenant" -> 403
      [] status = "gone" -> 400
      [] status = "stub" -> 500
      [] status = "FAILED" -> 409
      [] flaw = "user" -> 401
      [] status = "PENDING" -> 409
      [] OTHER -> 0

(* The body transformers; a target in the path is not found. *)
BodyRefusal(flaw, op) ==
    CASE flaw = "body" -> 400
      [] flaw = "target" /\ op = "message" -> 404
      [] flaw = "target" /\ op \in {"accept", "decline", "close"} -> 400
      [] OTHER -> 0

(* The first refusal counts. *)
Screened(flaw, op, status) ==
    LET refusals == {RouteRefusal(flaw), AuthRefusal(flaw), SessionRefusal(flaw, status), BodyRefusal(flaw, op)}
        early == {RouteRefusal(flaw), AuthRefusal(flaw)} \ {0}
        late == SessionRefusal(flaw, status)
    IN
    IF refusals = {0} THEN 0
    ELSE IF early # {} THEN CHOOSE c \in early : TRUE
    ELSE IF late # 0 THEN late
    ELSE BodyRefusal(flaw, op)

Step(q, pc) == req' = [req EXCEPT ![q].pc = pc]

(* An operation that is over keeps what __exit__ needs, and the answer.    *)
Over(r, code) ==
    [Rest EXCEPT !.pc = "exit", !.user = r.user, !.seq = r.seq, !.first = r.first,
                 !.asked = r.asked, !.refused = r.refused, !.code = code]
Leave(q, code) == req' = [req EXCEPT ![q] = Over(@, code)]

(* Out of load_api's block there is only the answer. *)
Done(q, code) ==
    req' = [req EXCEPT ![q] = [Rest EXCEPT !.pc = "release", !.asked = req[q].asked,
                                           !.refused = req[q].refused, !.code = code]]

Receive(q) ==
    /\ req[q].pc = "idle" /\ begun < MaxRequests /\ begun' = begun + 1
    /\ \E u \in Users, op \in Ops, t \in Targets, flaw \in Flaws \cup {None} :
          LET code == Screened(flaw, op, session[u])
              r == [Rest EXCEPT !.user = u, !.op = op, !.target = IF op = "status" THEN None ELSE t]
          IN req' = [req EXCEPT ![q] = IF code = 0 THEN [r EXCEPT !.pc = "lock"]
                                       ELSE [Rest EXCEPT !.pc = "release", !.code = code]]
    /\ UNCHANGED <<tables, webLock, granted, history, lapses, faults>>

-----------------------------------------------------------------------------
(* load_api *)

(* acquire, which tries again until it has the lock *)
AcquireWebLock(q) ==
    /\ req[q].pc = "lock" /\ webLock[req[q].user] = Free
    /\ webLock' = [webLock EXCEPT ![req[q].user] = q]
    /\ Step(q, "load")
    /\ UNCHANGED <<tables, granted, history, bounds, faults>>

(* load_with_context(WEB): SessionNotActiveException, or an attribute of   *)
(* None when a row is missing; both end in 500 with the lock released.     *)
LoadApi(q) ==
    LET u == req[q].user IN
    /\ req[q].pc = "load"
    /\ IF session[u] # "ACTIVE" \/ web[u] = None THEN Done(q, 500)
       ELSE req' = [req EXCEPT ![q].pc = IF req[q].op \in {"close", "message"} THEN "find" ELSE "send",
                               ![q].seq = web[u], ![q].first = web[u]]
    /\ UNCHANGED <<tables, webLock, granted, history, bounds, faults>>

-----------------------------------------------------------------------------
(* The operations of _OmniChannelApi *)

(* Calls before the one with an event: ConversationEnd and                 *)
(* StartAfterConversationWork.                                             *)
Preludes(q) == IF req[q].op = "close" /\ req[q].target \notin Plain THEN 2 ELSE 0

(* get_work_id *)
OwnedBy(owner, u) == owner = u

FindWork(q) ==
    /\ req[q].pc = "find"
    /\ \E owner \in {workMap[req[q].target], before[req[q].target]} :
          IF OwnedBy(owner, req[q].user)
          THEN req' = [req EXCEPT ![q].pc = "send", ![q].left = Preludes(q)]
          ELSE Leave(q, 400)
    /\ UNCHANGED <<tables, webLock, granted, history, bounds, faults>>

(* set_presence_status with an id that is not one of the user's *)
UnknownStatus(q) ==
    /\ req[q].pc = "send" /\ req[q].op = "status" /\ req[q].asked = 0
    /\ Leave(q, 400)
    /\ UNCHANGED <<tables, webLock, granted, history, bounds, faults>>

(* Salesforce gives work to one user, and has it back when it is closed. *)
MayGrant(q) ==
    CASE req[q].op = "accept" -> granted[req[q].target] \in {None, req[q].user}
      [] req[q].op \in {"close", "message"} -> granted[req[q].target] = req[q].user
      [] OTHER -> TRUE

Granted(q) ==
    CASE req[q].op = "accept" -> [granted EXCEPT ![req[q].target] = req[q].user]
      [] req[q].op = "close" /\ req[q].left = 0 -> [granted EXCEPT ![req[q].target] = None]
      [] OTHER -> granted

(* add_headers has counted the number, however the call ends. *)
Numbered(q) == [req[q] EXCEPT !.seq = @ + 1, !.asked = @ + 1]

(* send_web_request.  The call with the event has its response examined    *)
(* later, the others raise HttpException; a connection that breaks raises  *)
(* something else, after Salesforce had the call or before.                *)
Send(q) ==
    LET u == req[q].user
        r == Numbered(q)
        last == req[q].left = 0
    IN
    /\ req[q].pc = "send"
    /\ \/ /\ MayGrant(q) /\ granted' = Granted(q)
          /\ req' = [req EXCEPT ![q] = IF last THEN [r EXCEPT !.pc = "store"] ELSE [r EXCEPT !.left = @ - 1]]
          /\ UNCHANGED faults
       \/ /\ req' = [req EXCEPT ![q] = IF last THEN [r EXCEPT !.pc = "store", !.refused = TRUE]
                                       ELSE Over([r EXCEPT !.refused = TRUE], 502)]
          /\ UNCHANGED <<granted, faults>>
       \/ /\ Fault /\ req' = [req EXCEPT ![q] = Over(r, 500)]
          /\ granted' \in {granted} \cup {g \in {Granted(q)} : MayGrant(q)}
    /\ sent' = [sent EXCEPT ![u] = @ \cup {req[q].seq}]
    /\ reused' = (reused \/ req[q].seq \in sent[u])
    /\ UNCHANGED <<tables, webLock, stolen, bounds>>

(* touch_with_event wants the session's three rows, whatever its status. *)
Touchable(u) == session[u] \notin {"gone", "stub"}

(* A fault for AnswerOf: the response is not looked at. *)
AnswerAlways204(q) == 204

(* check_exception, and 502 from __invoke_api *)
AnswerOf(q) == IF req[q].refused THEN 502 ELSE 204

(* A fault for Entered: the event of another operation is entered. *)
EnteredOnDecline(q) == req[q].op = "decline"

(* AwsWorkIdRepo.event_received looks at the type of the event only. *)
Entered(q) == req[q].op = "accept"

(* store_event: its answer, None when a row was missing, is not looked at; *)
(* the sequence's lock may not be had in time.                             *)
StoreEvent(q) ==
    LET u == req[q].user
        t == req[q].target
        enter == Touchable(u) /\ Entered(q)
    IN
    /\ req[q].pc = "store"
    /\ \/ /\ workMap' = IF enter THEN [workMap EXCEPT ![t] = u] ELSE workMap
          /\ before' = IF enter THEN [before EXCEPT ![t] = workMap[t]] ELSE before
          /\ stolen' = IF enter THEN IF req[q].refused THEN stolen \cup {t} ELSE stolen \ {t} ELSE stolen
          /\ Leave(q, AnswerOf(q))
          /\ UNCHANGED faults
       \/ /\ Fault /\ Leave(q, 500)
          /\ UNCHANGED <<workMap, before, stolen>>
    /\ UNCHANGED <<session, web, webLock, granted, sent, reused, bounds>>

(* A fault for Saved: the row is put when it is not there. *)
SavedAnyway(q, u) == req[q].seq

(* update_session_context: patch, which wants the row *)
Saved(q, u) == IF web[u] = None THEN None ELSE req[q].seq

(* A fault for ExitApi: what was counted is kept only after an answer of   *)
(* Salesforce that was good.                                               *)
ExitOnSuccess(q) ==
    LET u == req[q].user IN
    /\ req[q].pc = "exit"
    /\ web' = [web EXCEPT ![u] = IF req[q].code = 204 THEN Saved(q, u) ELSE @]
    /\ Done(q, req[q].code)
    /\ UNCHANGED <<session, webLock, workMap, before, granted, history, bounds, faults>>

(* __exit__: the settings are saved if they changed. *)
ExitApi(q) ==
    LET u == req[q].user IN
    /\ req[q].pc = "exit"
    /\ \/ /\ web' = IF req[q].seq = req[q].first THEN web ELSE [web EXCEPT ![u] = Saved(q, u)]
          /\ Done(q, req[q].code) /\ UNCHANGED faults
       \/ Fault /\ Done(q, 500) /\ UNCHANGED web
    /\ UNCHANGED <<session, webLock, workMap, before, granted, history, bounds>>

(* The lock, if it is still held, is released, and the answer goes out. *)
ReleaseWebLock(q) ==
    /\ req[q].pc = "release"
    /\ webLock' = [u \in Users |-> IF webLock[u] = q THEN Free ELSE webLock[u]]
    /\ req' = [req EXCEPT ![q] = Rest]
    /\ UNCHANGED <<tables, granted, history, bounds, faults>>

-----------------------------------------------------------------------------
(* The rest of the world *)

CrashRequest(q) ==
    /\ req[q].pc # "idle" /\ Fault
    /\ webLock' = [u \in Users |-> IF webLock[u] = q THEN Dead ELSE webLock[u]]
    /\ req' = [req EXCEPT ![q] = Rest]
    /\ UNCHANGED <<tables, granted, history, bounds>>

(* The lease of a dead holder, or of a live one, ends. *)
EndLease(u) ==
    /\ \/ webLock[u] = Dead /\ UNCHANGED lapses
       \/ webLock[u] \in Requests /\ faults + lapses < MaxFaults /\ lapses' = lapses + 1
    /\ webLock' = [webLock EXCEPT ![u] = Free]
    /\ UNCHANGED <<tables, granted, req, history, begun, faults>>

(* delete_session; the contexts go later. *)
EndSession(u) ==
    /\ session[u] \in {"ACTIVE", "FAILED"}
    /\ session' = [session EXCEPT ![u] = "gone"]
    /\ UNCHANGED <<web, webLock, workMap, before, granted, req, history, bounds, faults>>

RequestStep(q) ==
    \/ Receive(q) \/ AcquireWebLock(q) \/ LoadApi(q) \/ FindWork(q) \/ UnknownStatus(q) \/ Send(q)
    \/ StoreEvent(q) \/ ExitApi(q) \/ ReleaseWebLock(q)

WebNext ==
    \/ \E q \in Requests : RequestStep(q) \/ CrashRequest(q)
    \/ \E u \in Users : EndLease(u) \/ EndSession(u)

-----------------------------------------------------------------------------
(* Properties *)

(* Salesforce orders a session's calls by X-Liveagent-Sequence: a number   *)
(* is used twice only when a lease ended under a request or a request died *)
(* or could not save, never because of a call that was refused, a request  *)
(* that failed half way, or two requests that only waited for each other.  *)
NumbersPaidFor == reused => lapses + faults > 0

(* Work that Salesforce gave to a user can be closed by that user once no  *)
(* request is about it: the map names the user, unless another user's      *)
(* refused accept was entered (event_received does not look at the         *)
(* response), or the rows were gone or a call failed in between.  (When    *)
(* the lease ends under an accept that was granted, the work may be        *)
(* closed and go to another user before the accept is entered: then the    *)
(* map names the wrong one, for good.)                                     *)
GrantedIsMapped ==
    \A t \in Targets :
        (granted[t] # None /\ Touchable(granted[t]) /\ faults + lapses = 0
         /\ \A q \in Requests : req[q].target # t)
            => workMap[t] = granted[t] \/ t \in stolen

(* 204 says that Salesforce did all that it was asked; 502 that it refused *)
(* something; every 4xx that it was asked nothing.                         *)
AnswersHonest ==
    \A q \in Requests : req[q].pc = "release" =>
        /\ req[q].code = 204 => req[q].asked > 0 /\ ~req[q].refused
        /\ req[q].code = 502 => req[q].refused
        /\ req[q].code \in 400..499 => req[q].asked = 0
=============================================================================
