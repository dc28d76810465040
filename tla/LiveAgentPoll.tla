---------------------------- MODULE LiveAgentPoll ----------------------------
(***************************************************************************)
(* The live agent poller at work for one user's session, beside the web    *)
(* requests of OmniChannel: it asks Salesforce for the messages after ack, *)
(* submits those of a supported type as push notifications, and saves ack  *)
(* (poll/live_agent/processor.py, sfdc_session.py, message_dispatcher.py). *)
(* When the poll fails the session is failed and its contexts are deleted, *)
(* the WEB context of a request under way included.                        *)
(*                                                                         *)
(* One poller at a time has the user, and comes back: see Polling.         *)
(* Salesforce numbers messages from 0, so that ack is -1 at first.         *)
(***************************************************************************)
EXTENDS OmniChannel, Sequences

CONSTANTS
    Polled,         \* the user whose session is polled
    Texts,          \* what messages may say
    MaxWork,        \* bound on requests and messages together
    Supported       \* those whose type is in SUPPORTED_MESSAGE_TYPES

ASSUME PollAssumption == Polled \in Users /\ Supported \subseteq Texts /\ MaxWork \in Nat

VARIABLES
    feed,           \* the texts of the messages there are so far
    ack,            \* the LIVE_AGENT context's ack, or None
    event,          \* whether there is a pending event
    poll,           \* the poller
    examined,       \* history: messages that dispatch_message_data has been through
    submitted,      \* history: messages put as push notifications
    repeated,       \* history: a message was put again
    gap,            \* history: an answer did not follow ack
    told            \* history: the shutdown was submitted

pollVars == <<feed, ack, event, poll, examined, submitted, repeated, gap, told>>
vars == <<webVars, pollVars>>

NoPoll == [pc |-> "idle", ack |-> -1, data |-> <<>>, shutdown |-> FALSE, seen |-> {}]
Numbers == 1..MaxWork
published == Len(feed)

TypeOK ==
    /\ WebTypeOK
    /\ feed \in Seq(Texts) /\ published <= MaxWork /\ (ack = None \/ ack \in -1..(MaxWork - 1))
    /\ {event, repeated, gap, told, poll.shutdown} \subseteq BOOLEAN
    /\ poll.pc \in {"idle", "ask", "dispatch", "save", "fail", "delete"}
    /\ poll.ack \in -1..(MaxWork - 1) /\ poll.data \in Seq(Numbers) /\ poll.seen \subseteq Texts
    /\ examined \subseteq Numbers /\ submitted \subseteq examined

(* create_session_contexts has made the sessions that are ACTIVE, with     *)
(* contexts in their first state and, for the user who is polled, an       *)
(* event.                                                                  *)
Init ==
    /\ WebInit
    /\ event = (session[Polled] = "ACTIVE") /\ ack = IF event THEN -1 ELSE None
    /\ feed = <<>> /\ poll = NoPoll
    /\ examined = {} /\ submitted = {} /\ repeated = FALSE /\ gap = FALSE /\ told = FALSE

webTables == <<session, web, webLock, workMap, before, granted, req, history, bounds>>
pollHistory == <<examined, submitted, repeated, gap, told>>

-----------------------------------------------------------------------------
(* delete_by_row_keys, when the listener hears that the session is gone *)
RemoveContexts(u) ==
    /\ session[u] = "gone" /\ (web[u] # None \/ (u = Polled /\ ack # None))
    /\ web' = [web EXCEPT ![u] = None]
    /\ ack' = IF u = Polled THEN None ELSE ack
    /\ UNCHANGED <<session, webLock, workMap, before, granted, req, history, bounds, faults,
                   feed, event, poll, pollHistory>>

Publish ==
    /\ begun + published < MaxWork
    /\ \E text \in Texts : feed' = Append(feed, text)
    /\ UNCHANGED <<webVars, ack, event, poll, pollHistory>>

(* should_poll: all three rows and an active session; the event is deleted *)
(* when a row is missing, and left when the session is not active.         *)
StartPoll ==
    /\ poll.pc = "idle" /\ event
    /\ \/ /\ session[Polled] = "ACTIVE" /\ ack # None
          /\ poll' = [NoPoll EXCEPT !.pc = "ask", !.ack = ack]
          /\ UNCHANGED event
       \/ /\ session[Polled] = "gone" \/ ack = None
          /\ event' = FALSE /\ UNCHANGED poll
    /\ UNCHANGED <<webVars, feed, ack, pollHistory>>

(* A fault for MatchesAck: whatever comes is acknowledged. *)
MatchesAnyway(n, sequence) == TRUE

(* matches_ack *)
MatchesAck(n, sequence) == poll.ack + n = sequence

(* add_message_data: what does not follow ack is dispatched too, but not   *)
(* acknowledged; message_list stays empty.                                 *)
Acked(n, sequence) == IF MatchesAck(n, sequence) THEN sequence ELSE poll.ack

(* poll_live_agent: the messages after ack; or with the first of them left *)
(* out; nothing, after five seconds or more; or an error, for which it     *)
(* makes up a shutdown message with the sequence ack.                      *)
AskSalesforce ==
    /\ poll.pc = "ask"
    /\ \/ \E from \in {poll.ack + 2, poll.ack + 3} : \E to \in from..published :
             LET n == to - from + 1 IN
             /\ poll' = [poll EXCEPT !.pc = "dispatch", !.data = [i \in 1..n |-> from + i - 1],
                                     !.ack = Acked(n, to - 1)]
             /\ gap' = (gap \/ from # poll.ack + 2)
       \/ poll' = [poll EXCEPT !.pc = "save"] /\ UNCHANGED gap
       \/ poll' = [poll EXCEPT !.pc = "dispatch", !.shutdown = TRUE, !.ack = Acked(1, poll.ack)] /\ UNCHANGED gap
    /\ UNCHANGED <<webVars, feed, ack, event, examined, submitted, repeated, told>>

(* is_good and examine_message: the text was not in this answer before,    *)
(* and is of a supported type.                                             *)
Worthy(text) == text \notin poll.seen /\ text \in Supported

(* examine_message, one message; submit may fail, before the notification  *)
(* is put or after.                                                        *)
DispatchMessage ==
    /\ poll.pc = "dispatch" /\ poll.data # <<>>
    /\ LET m == Head(poll.data)
           rest == Tail(poll.data)
           put == IF Worthy(feed[m]) THEN {m} ELSE {}
       IN \/ /\ examined' = examined \cup {m} /\ submitted' = submitted \cup put
             /\ repeated' = (repeated \/ put \cap submitted # {})
             /\ poll' = [poll EXCEPT !.data = rest, !.seen = @ \cup {feed[m]},
                                     !.pc = IF rest = <<>> THEN "save" ELSE "dispatch"]
             /\ UNCHANGED faults
          \/ /\ put # {} /\ Fault
             /\ \/ /\ examined' = examined \cup {m} /\ submitted' = submitted \cup put
                   /\ repeated' = (repeated \/ put \cap submitted # {})
                \/ UNCHANGED <<examined, submitted, repeated>>
             /\ poll' = [poll EXCEPT !.pc = "fail"]
    /\ UNCHANGED <<webTables, feed, ack, event, gap, told>>

(* The shutdown is submitted for the user, and then ends the session. *)
DispatchShutdown ==
    /\ poll.pc = "dispatch" /\ poll.shutdown
    /\ \/ told' = TRUE /\ poll' = [poll EXCEPT !.pc = "fail"] /\ UNCHANGED faults
       \/ Fault /\ told' \in {told, TRUE} /\ poll' = [poll EXCEPT !.pc = "fail", !.shutdown = FALSE]
    /\ UNCHANGED <<webTables, feed, ack, event, examined, submitted, repeated, gap>>

(* update_session_context: patch, which wants the row *)
SavedAck == IF ack = None THEN None ELSE poll.ack

(* A fault for SavePoll: the settings are not saved. *)
SavePollForgets == poll.pc = "save" /\ poll' = NoPoll /\ UNCHANGED <<webVars, feed, ack, event, pollHistory>>

SavePoll ==
    /\ poll.pc = "save"
    /\ \/ ack' = SavedAck /\ poll' = NoPoll /\ UNCHANGED faults
       \/ Fault /\ poll' = [poll EXCEPT !.pc = "fail"] /\ UNCHANGED ack
    /\ UNCHANGED <<webTables, feed, event, pollHistory>>

(* set_failed: the session's status is put, with a row if there is none,   *)
(* and all contexts are deleted; after a shutdown, then, the event.        *)
FailSession ==
    /\ poll.pc = "fail"
    /\ session' = [session EXCEPT ![Polled] = IF @ \in {"gone", "stub"} THEN "stub" ELSE "FAILED"]
    /\ web' = [web EXCEPT ![Polled] = None] /\ ack' = None
    /\ poll' = IF poll.shutdown THEN [NoPoll EXCEPT !.pc = "delete"] ELSE NoPoll
    /\ UNCHANGED <<webLock, workMap, before, granted, req, history, bounds, faults,
                   feed, event, pollHistory>>

DeletePollEvent ==
    /\ poll.pc = "delete" /\ event' = FALSE /\ poll' = NoPoll
    /\ UNCHANGED <<webVars, feed, ack, pollHistory>>

CrashPoll ==
    /\ poll.pc # "idle" /\ Fault
    /\ poll' = NoPoll
    /\ UNCHANGED <<webTables, feed, ack, event, pollHistory>>

PollStep ==
    \/ StartPoll \/ AskSalesforce \/ DispatchMessage \/ DispatchShutdown \/ SavePoll \/ FailSession
    \/ DeletePollEvent

Next ==
    \/ WebNext /\ begun' + published <= MaxWork /\ UNCHANGED pollVars
    \/ PollStep \/ CrashPoll \/ Publish
    \/ \E u \in Users : RemoveContexts(u)

Spec == Init /\ [][Next]_vars

-----------------------------------------------------------------------------
(* The promise of ack: Salesforce is never told to forget a message that   *)
(* the dispatcher has not been through, whatever crashes, fails or comes   *)
(* out of order in between.                                                *)
Messages == INSTANCE AtLeastOnce
    WITH handled <- examined, skipped <- {}, saved <- IF ack = None THEN 0 ELSE ack + 1

NoMessageLost == Messages!Spec

(* A message is put as a push notification twice only when a poller died   *)
(* or a call failed, or an answer did not follow ack and came again.       *)
RepeatsPaidFor == repeated => faults > 0 \/ gap

(* A failed session is over: it has no context left, and none comes back,  *)
(* neither by the poller's own save nor by that of a web request which was *)
(* under way when set_failed deleted them; its user's notification was put *)
(* before, and it is not polled again, unless a call failed.               *)
FailedIsOver ==
    /\ TypeOK
    /\ \A u \in Users : session[u] \in {"FAILED", "stub"} => web[u] = None /\ (u = Polled => ack = None)
    /\ (session[Polled] \in {"FAILED", "stub"} /\ poll.pc = "idle") => (told /\ ~event) \/ faults > 0
=============================================================================
