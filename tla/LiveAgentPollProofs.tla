------------------------- MODULE LiveAgentPollProofs -------------------------
(***************************************************************************)
(* For any number of users, targets, requests, messages and faults: what   *)
(* the web requests of OmniChannel and the poller keep, side by side.      *)
(***************************************************************************)
EXTENDS LiveAgentPoll, FiniteSetTheorems, TLAPS

Codes == {0, 204, 400, 401, 403, 404, 409, 415, 500, 502}

ReqRecords ==
    [pc : {"idle", "lock", "load", "find", "send", "store", "exit", "release"},
     user : Users \cup {None}, op : Ops, target : Targets \cup {None},
     seq : Nat, first : Nat, left : 0..2, asked : 0..3, refused : BOOLEAN, code : Codes]

(* The types, without the bounds that take counting. *)
WebBasics ==
    /\ session \in [Users -> {"PENDING", "ACTIVE", "FAILED", "gone", "stub"}]
    /\ web \in [Users -> Nat \cup {None}]
    /\ webLock \in [Users -> Requests \cup {Free, Dead}]
    /\ workMap \in [Targets -> Users \cup {None}] /\ before \in [Targets -> Users \cup {None}]
    /\ granted \in [Targets -> Users \cup {None}]
    /\ req \in [Requests -> ReqRecords]
    /\ sent \in [Users -> SUBSET Nat]
    /\ reused \in BOOLEAN /\ stolen \subseteq Targets
    /\ begun \in 0..MaxRequests /\ lapses \in 0..MaxFaults /\ faults \in 0..MaxFaults

(* What a request holds at each point of its way. *)
Shape(r) ==
    /\ r.pc \in {"lock", "load", "find", "send", "store", "exit"} => r.user \in Users
    /\ r.pc \in {"lock", "load", "find", "send", "store"} /\ r.op # "status" => r.target \in Targets
    /\ r.pc \in {"idle", "lock", "load", "release"} => r.seq = 0
    /\ r.pc \in {"idle", "lock", "load", "find"} => r.asked = 0 /\ ~r.refused /\ r.left = 0
    /\ r.pc = "send" => ~r.refused /\ r.asked + r.left <= 2 /\ (r.op # "close" => r.left = 0)
    /\ r.pc = "store" => r.asked > 0
    /\ r.pc \in {"exit", "release"} =>
          /\ r.code = 204 => r.asked > 0 /\ ~r.refused
          /\ r.code = 502 => r.refused
          /\ r.code \in 400..499 => r.asked = 0

Shaped == \A q \in Requests : Shape(req[q])

(* Requests that may yet use numbers, and the number of those that will    *)
(* not.  Each takes three numbers at most, from what was saved before.     *)
Active == {q \in Requests : req[q].pc \in {"lock", "load", "find", "send", "store", "exit"}}
Finished == begun - Cardinality(Active)

Counting(r) == r.pc \in {"find", "send", "store", "exit"}

NumbersBounded ==
    /\ IsFiniteSet(Active) /\ Cardinality(Active) <= begun
    /\ \A u \in Users : web[u] # None => web[u] \in 1..(3 * Finished + 1)
    /\ \A q \in Requests : Counting(req[q]) =>
          req[q].first > 0 /\ req[q].seq = req[q].first + req[q].asked
          /\ req[q].first <= 3 * Finished + 1
    /\ \A u \in Users : sent[u] \subseteq 1..(3 * MaxRequests)

(* While no lease has ended and no call has failed the lock keeps the      *)
(* requests of a user apart,                                               *)
Locked(r) == r.pc \in {"load", "find", "send", "store", "exit"}

Exclusive == \A q \in Requests : Locked(req[q]) => webLock[req[q].user] = q

(* and the next number, in the row or in the request at work, is new.      *)
NumbersNew ==
    /\ ~reused
    /\ \A q \in Requests : Counting(req[q]) =>
          /\ \A n \in sent[req[q].user] : n < req[q].seq
          /\ web[req[q].user] \in {req[q].first, None}
    /\ \A u \in Users :
          (web[u] # None /\ \A q \in Requests : Counting(req[q]) => req[q].user # u)
             => \A n \in sent[u] : n < web[u]

(* Work that was given away is in the map, or about to be entered.         *)
Accepting(r, t) == r.pc = "store" /\ r.op = "accept" /\ ~r.refused /\ r.target = t

GrantsMapped ==
    /\ \A q \in Requests, t \in Targets : Accepting(req[q], t) => granted[t] = req[q].user
    /\ \A t \in Targets :
          (granted[t] # None /\ Touchable(granted[t])) =>
             \/ workMap[t] = granted[t] \/ t \in stolen
             \/ \E q \in Requests : Accepting(req[q], t)

Orderly == lapses = 0 /\ faults = 0

WebInv ==
    /\ WebBasics /\ Shaped /\ NumbersBounded
    /\ Orderly => Exclusive /\ NumbersNew /\ GrantsMapped

(* What the poller keeps: its settings, whether they came from the row or  *)
(* are on the way there, number messages that there are.                   *)
PollRecords ==
    [pc : {"idle", "ask", "dispatch", "save", "fail", "delete"}, ack : -1..(published - 1),
     data : Seq(1..published), shutdown : BOOLEAN, seen : SUBSET Texts]

PollBasics ==
    /\ feed \in Seq(Texts) /\ published <= MaxWork
    /\ ack \in (-1..(published - 1)) \cup {None}
    /\ poll \in PollRecords /\ (poll.pc = "ask" => poll.data = <<>>)
    /\ examined \subseteq 1..published /\ submitted \subseteq examined
    /\ event \in BOOLEAN /\ repeated \in BOOLEAN /\ gap \in BOOLEAN /\ told \in BOOLEAN

(* What ack acknowledges has been through the dispatcher, or is in what is *)
(* left of the answer.                                                     *)
Left(data) == {data[i] : i \in 1..Len(data)}

AckCovered ==
    /\ ack # None => 1..(ack + 1) \subseteq examined
    /\ poll.pc \in {"ask", "save"} => 1..(poll.ack + 1) \subseteq examined
    /\ poll.pc = "dispatch" => 1..(poll.ack + 1) \subseteq examined \cup Left(poll.data)

(* With no fault and no gap, what was submitted is not asked for again.    *)
Rising(data) == \A i, j \in 1..Len(data) : i < j => data[i] < data[j]

FirstTime ==
    /\ ~repeated
    /\ poll.pc \in {"idle", "delete"} /\ ack # None => submitted \subseteq 1..(ack + 1)
    /\ poll.pc \in {"ask", "dispatch", "save"} => submitted \subseteq 1..(poll.ack + 1)
    /\ poll.pc = "dispatch" => /\ Rising(poll.data) /\ submitted \cap Left(poll.data) = {}
                               /\ Left(poll.data) \subseteq 1..(poll.ack + 1)

(* A session that failed has nothing left, and nothing comes back; with no *)
(* fault its user was told before, and the event goes next.                *)
Failed(u) == session[u] \in {"FAILED", "stub"}

FailedEmpty == \A u \in Users : Failed(u) => web[u] = None /\ (u = Polled => ack = None)

FailedTold ==
    /\ poll.pc = "fail" => poll.shutdown /\ told
    /\ poll.pc = "delete" => told
    /\ Failed(Polled) => told /\ (poll.pc = "delete" \/ (poll.pc = "idle" /\ ~event))

PollInv ==
    /\ PollBasics /\ AckCovered /\ FailedEmpty
    /\ faults = 0 => FailedTold
    /\ faults = 0 /\ ~gap => FirstTime

IInv == WebInv /\ PollInv

-----------------------------------------------------------------------------
(* Where the steps take a request. *)

LEMMA RestFields ==
    /\ Rest \in ReqRecords /\ Shape(Rest)
    /\ Rest.pc = "idle" /\ Rest.op = "status" /\ Rest.left = 0 /\ Rest.asked = 0 /\ ~Rest.refused
    /\ Rest.seq = 0
BY DEF Rest, ReqRecords, Shape, Ops, Codes

(* An operation that is over keeps its numbering and the answer. *)
LEMMA OverFields ==
    ASSUME NEW r \in ReqRecords, NEW code \in Codes
    PROVE  /\ Over(r, code) \in ReqRecords
           /\ Over(r, code).pc = "exit" /\ Over(r, code).code = code
           /\ Over(r, code).user = r.user /\ Over(r, code).asked = r.asked
           /\ Over(r, code).seq = r.seq /\ Over(r, code).first = r.first
           /\ Over(r, code).refused = r.refused
<1>1. r.user \in Users \cup {None} /\ r.seq \in Nat /\ r.first \in Nat /\ r.asked \in 0..3
      /\ r.refused \in BOOLEAN
  BY DEF ReqRecords
<1> QED
  BY <1>1, RestFields DEF Over, ReqRecords

Answered(r, code) ==
    [Rest EXCEPT !.pc = "release", !.asked = r.asked, !.refused = r.refused, !.code = code]

LEMMA AnsweredFields ==
    ASSUME NEW r \in ReqRecords, NEW code \in Codes
    PROVE  /\ Answered(r, code) \in ReqRecords
           /\ Answered(r, code).pc = "release" /\ Answered(r, code).code = code
           /\ Answered(r, code).asked = r.asked /\ Answered(r, code).refused = r.refused
           /\ Answered(r, code).seq = 0
<1>1. r.asked \in 0..3 /\ r.refused \in BOOLEAN
  BY DEF ReqRecords
<1> QED
  BY <1>1, RestFields DEF Answered, ReqRecords

(* A request that is screened out is told so with an error. *)
LEMMA ScreenedCodes ==
    ASSUME NEW flaw, NEW op, NEW status
    PROVE  Screened(flaw, op, status) \in {0, 400, 401, 403, 404, 409, 415, 500}
<1> DEFINE early == {RouteRefusal(flaw), AuthRefusal(flaw)} \ {0}
           late == SessionRefusal(flaw, status)
           body == BodyRefusal(flaw, op)
           all == {0, 400, 401, 403, 404, 409, 415, 500}
<1>1. RouteRefusal(flaw) \in all
  BY DEF RouteRefusal
<1>2. AuthRefusal(flaw) \in all
  BY DEF AuthRefusal
<1>3. late \in all
  BY DEF SessionRefusal
<1>4. body \in all
  BY DEF BodyRefusal
<1>5. early # {} => (CHOOSE c \in early : TRUE) \in all
  BY <1>1, <1>2
<1>6. Screened(flaw, op, status) \in {0, CHOOSE c \in early : TRUE, late, body}
      /\ (early = {} => Screened(flaw, op, status) \in {0, late, body})
  <2> HIDE DEF late, body
  <2> QED
    BY DEF Screened, late, body
<1> QED
  <2> DEFINE pick == CHOOSE c \in early : TRUE
  <2>1. (early # {} => pick \in all) /\ Screened(flaw, op, status) \in {0, pick, late, body}
        /\ (early = {} => Screened(flaw, op, status) \in {0, late, body})
    BY <1>5, <1>6
  <2> HIDE DEF early, late, body, pick
  <2> QED
    BY <1>3, <1>4, <2>1

(* Only the request that makes a step moves. *)
LEMMA OthersKept ==
    ASSUME req \in [Requests -> ReqRecords], NEW q \in Requests, RequestStep(q) \/ CrashRequest(q)
    PROVE  \A p \in Requests : p # q => req'[p] = req[p]
<1> SUFFICES \E x : req' = [req EXCEPT ![q] = x]
  OBVIOUS
<1> DEFINE Kept == \E x : req' = [req EXCEPT ![q] = x]
<1>1. \A pc : Step(q, pc) => Kept
  BY DEF Step
<1>2. \A code : Done(q, code) => Kept
  BY DEF Done
<1>3. \A code : Leave(q, code) => Kept
  BY DEF Leave
<1>4. CASE Receive(q)
  BY <1>4 DEF Receive
<1>5. CASE AcquireWebLock(q)
  BY <1>1, <1>5 DEF AcquireWebLock
<1>6. CASE LoadApi(q)
  BY <1>2, <1>6 DEF LoadApi
<1>7. CASE FindWork(q)
  BY <1>3, <1>7 DEF FindWork
<1>8. CASE UnknownStatus(q) \/ StoreEvent(q)
  BY <1>3, <1>8 DEF UnknownStatus, StoreEvent
<1>9. CASE Send(q)
  BY <1>9 DEF Send
<1>10. CASE ExitApi(q)
  BY <1>2, <1>10 DEF ExitApi
<1>11. CASE ReleaseWebLock(q) \/ CrashRequest(q)
  BY <1>11 DEF ReleaseWebLock, CrashRequest
<1> QED
  BY <1>4, <1>5, <1>6, <1>7, <1>8, <1>9, <1>10, <1>11 DEF RequestStep

LEMMA ReceiveMoves ==
    ASSUME req \in [Requests -> ReqRecords], NEW q \in Requests, Receive(q)
    PROVE  /\ req' \in [Requests -> ReqRecords] /\ Shape(req'[q])
           /\ req'[q].pc \in {"lock", "release"} /\ req[q].pc = "idle"
<1>1. PICK u \in Users, op \in Ops, t \in Targets, flaw \in Flaws \cup {None} :
        LET code == Screened(flaw, op, session[u])
            r == [Rest EXCEPT !.user = u, !.op = op, !.target = IF op = "status" THEN None ELSE t]
        IN req' = [req EXCEPT ![q] = IF code = 0 THEN [r EXCEPT !.pc = "lock"]
                                     ELSE [Rest EXCEPT !.pc = "release", !.code = code]]
  BY DEF Receive
<1> DEFINE code == Screened(flaw, op, session[u])
           target == IF op = "status" THEN None ELSE t
           r == [Rest EXCEPT !.user = u, !.op = op, !.target = target]
<1>2. code \in {0, 400, 401, 403, 404, 409, 415, 500} /\ target \in Targets \cup {None}
      /\ (op # "status" => target \in Targets)
  BY ScreenedCodes
<1>3. req' = [req EXCEPT ![q] = IF code = 0 THEN [r EXCEPT !.pc = "lock"]
                                ELSE [Rest EXCEPT !.pc = "release", !.code = code]]
  BY <1>1
<1> HIDE DEF code, target
<1>4. code \in Codes /\ code # 204 /\ code # 502
  BY <1>2 DEF Codes
<1> DEFINE in == [r EXCEPT !.pc = "lock"]
           out == [Rest EXCEPT !.pc = "release", !.code = code]
<1>5. /\ in \in ReqRecords /\ in.pc = "lock" /\ in.user = u /\ in.op = op /\ in.target = target
      /\ in.asked = 0 /\ ~in.refused /\ in.left = 0 /\ in.seq = 0
  BY <1>2, RestFields DEF ReqRecords
<1>6. /\ out \in ReqRecords /\ out.pc = "release" /\ out.code = code /\ out.asked = 0
      /\ out.seq = 0
  BY <1>4, RestFields DEF ReqRecords
<1> HIDE DEF in, out
<1>7. Shape(in)
  BY <1>2, <1>5 DEF Shape
<1>8. Shape(out)
  BY <1>4, <1>6 DEF Shape
<1>9. req'[q] = (IF code = 0 THEN in ELSE out) /\ req' \in [Requests -> ReqRecords]
  BY <1>3, <1>5, <1>6 DEF in, out
<1> QED
  BY <1>5, <1>6, <1>7, <1>8, <1>9 DEF Receive

LEMMA AcquireMoves ==
    ASSUME req \in [Requests -> ReqRecords], NEW q \in Requests, AcquireWebLock(q), Shape(req[q])
    PROVE  /\ req' \in [Requests -> ReqRecords] /\ Shape(req'[q])
           /\ req'[q].pc = "load" /\ req[q].pc = "lock" /\ req'[q].user = req[q].user
<1>1. req[q] \in ReqRecords /\ req[q].pc = "lock" /\ req' = [req EXCEPT ![q].pc = "load"]
  BY DEF AcquireWebLock, Step
<1>2. [req[q] EXCEPT !.pc = "load"] \in ReqRecords /\ Shape([req[q] EXCEPT !.pc = "load"])
  BY <1>1 DEF ReqRecords, Shape
<1> QED
  BY <1>1, <1>2 DEF ReqRecords

LEMMA LoadMoves ==
    ASSUME req \in [Requests -> ReqRecords], NEW q \in Requests, LoadApi(q), Shape(req[q]),
           web \in [Users -> Nat \cup {None}]
    PROVE  /\ req' \in [Requests -> ReqRecords] /\ Shape(req'[q]) /\ req[q].pc = "load"
           /\ \/ req'[q].pc = "release"
              \/ /\ req'[q].pc \in {"find", "send"} /\ req'[q].user = req[q].user
                 /\ web[req[q].user] # None /\ req'[q].seq = web[req[q].user]
                 /\ req'[q].first = web[req[q].user] /\ req'[q].asked = 0
<1> DEFINE r == req[q]
           u == r.user
<1>1. r \in ReqRecords /\ r.pc = "load" /\ u \in Users /\ r.asked = 0 /\ ~r.refused /\ r.left = 0
  BY DEF LoadApi, Shape
<1>2. CASE req' = [req EXCEPT ![q] = Answered(r, 500)]
  <2>1. 500 \in Codes
    BY DEF Codes
  <2>2. Shape(Answered(r, 500))
    BY <1>1, <2>1, AnsweredFields DEF Shape
  <2> QED
    BY <1>1, <1>2, <2>1, <2>2, AnsweredFields
<1>3. CASE /\ web[u] # None
           /\ req' = [req EXCEPT ![q].pc = IF r.op \in {"close", "message"} THEN "find" ELSE "send",
                                 ![q].seq = web[u], ![q].first = web[u]]
  <2> DEFINE pc == IF r.op \in {"close", "message"} THEN "find" ELSE "send"
             s == [r EXCEPT !.pc = pc, !.seq = web[u], !.first = web[u]]
  <2>1. web[u] \in Nat /\ pc \in {"find", "send"} /\ (pc = "send" => r.op # "close")
    BY <1>1, <1>3
  <2>2. req' = [req EXCEPT ![q] = s]
    BY <1>3
  <2> HIDE DEF pc
  <2>3. s \in ReqRecords /\ s.pc = pc /\ s.user = u /\ s.seq = web[u] /\ s.first = web[u] /\ s.asked = 0
    BY <1>1, <2>1 DEF ReqRecords
  <2>4. Shape(s)
    BY <1>1, <2>1 DEF Shape, ReqRecords
  <2> HIDE DEF s
  <2>5. req'[q] = s /\ req' \in [Requests -> ReqRecords]
    BY <2>2, <2>3
  <2> QED
    BY <1>1, <1>3, <2>1, <2>3, <2>4, <2>5
<1> QED
  BY <1>2, <1>3 DEF LoadApi, Done, Answered

LEMMA FindMoves ==
    ASSUME req \in [Requests -> ReqRecords], NEW q \in Requests, FindWork(q), Shape(req[q])
    PROVE  /\ req' \in [Requests -> ReqRecords] /\ Shape(req'[q])
           /\ req[q].pc = "find" /\ req'[q].pc \in {"send", "exit"}
           /\ req'[q].user = req[q].user /\ req'[q].asked = req[q].asked
           /\ req'[q].seq = req[q].seq /\ req'[q].first = req[q].first
<1> DEFINE r == req[q]
           left == Preludes(q)
           s == [r EXCEPT !.pc = "send", !.left = left]
<1>1. r \in ReqRecords /\ r.pc = "find" /\ r.user \in Users /\ r.asked = 0 /\ ~r.refused /\ r.left = 0
  BY DEF FindWork, Shape
<1>2. left \in {0, 2} /\ (r.op # "close" => left = 0)
  BY DEF Preludes
<1>3. req' = [req EXCEPT ![q] = s] \/ req' = [req EXCEPT ![q] = Over(r, 400)]
  BY DEF FindWork, Leave
<1>4. s \in ReqRecords /\ Shape(s) /\ s.pc = "send" /\ s.user = r.user /\ s.asked = r.asked
      /\ s.seq = r.seq /\ s.first = r.first
  <2> HIDE DEF r, left
  <2>1. s \in ReqRecords /\ s.pc = "send" /\ s.left = left /\ s.op = r.op
        /\ s.user = r.user /\ s.target = r.target /\ s.asked = r.asked /\ s.refused = r.refused
        /\ s.seq = r.seq /\ s.first = r.first
    <3>1. r \in ReqRecords /\ left \in 0..2
      BY <1>1, <1>2
    <3> QED
      BY <3>1 DEF ReqRecords
  <2>2. r.op # "status" => r.target \in Targets
    BY <1>1 DEF r, Shape
  <2> HIDE DEF s
  <2> QED
    BY <1>1, <1>2, <2>1, <2>2 DEF Shape
<1>5. 400 \in Codes
  BY DEF Codes
<1>6. Shape(Over(r, 400))
  BY <1>1, <1>5, OverFields DEF Shape
<1> HIDE DEF s
<1> QED
  BY <1>1, <1>3, <1>4, <1>5, <1>6, OverFields

LEMMA UnknownStatusMoves ==
    ASSUME req \in [Requests -> ReqRecords], NEW q \in Requests, UnknownStatus(q), Shape(req[q])
    PROVE  /\ req' \in [Requests -> ReqRecords] /\ Shape(req'[q])
           /\ req[q].pc = "send" /\ req'[q].pc = "exit"
           /\ req'[q].user = req[q].user /\ req'[q].asked = req[q].asked
           /\ req'[q].seq = req[q].seq /\ req'[q].first = req[q].first
<1>1. /\ req[q] \in ReqRecords /\ req[q].pc = "send" /\ req[q].user \in Users /\ req[q].asked = 0
      /\ req' = [req EXCEPT ![q] = Over(req[q], 400)] /\ 400 \in Codes
  BY DEF UnknownStatus, Shape, Leave, Codes
<1>2. Shape(Over(req[q], 400))
  BY <1>1, OverFields DEF Shape
<1> QED
  BY <1>1, <1>2, OverFields

LEMMA SendMoves ==
    ASSUME req \in [Requests -> ReqRecords], NEW q \in Requests, Send(q), Shape(req[q])
    PROVE  /\ req' \in [Requests -> ReqRecords] /\ Shape(req'[q])
           /\ req[q].pc = "send" /\ req'[q].pc \in {"send", "store", "exit"}
           /\ req'[q].user = req[q].user /\ req'[q].first = req[q].first
           /\ req'[q].seq = req[q].seq + 1 /\ req'[q].asked = req[q].asked + 1
           /\ req'[q].pc = "store" => /\ req'[q].op = req[q].op /\ req'[q].target = req[q].target
                                      /\ req[q].left = 0
<1> DEFINE r == req[q]
           n == Numbered(q)
           n1 == [n EXCEPT !.refused = TRUE]
           s1 == [n EXCEPT !.pc = "store"]
           s2 == [n EXCEPT !.left = @ - 1]
           s3 == [n EXCEPT !.pc = "store", !.refused = TRUE]
<1>1. /\ r \in ReqRecords /\ r.pc = "send" /\ r.user \in Users /\ ~r.refused /\ r.left \in 0..2
      /\ r.asked \in 0..2 /\ r.asked + r.left <= 2 /\ (r.op # "close" => r.left = 0)
      /\ r.op # "status" => r.target \in Targets
  BY DEF Send, Shape, ReqRecords
<1>2. \/ r.left = 0 /\ req' = [req EXCEPT ![q] = s1]
      \/ r.left # 0 /\ req' = [req EXCEPT ![q] = s2]
      \/ r.left = 0 /\ req' = [req EXCEPT ![q] = s3]
      \/ r.left # 0 /\ req' = [req EXCEPT ![q] = Over(n1, 502)]
      \/ req' = [req EXCEPT ![q] = Over(n, 500)]
  BY DEF Send
<1>3. n = [r EXCEPT !.seq = @ + 1, !.asked = @ + 1]
  BY DEF Numbered
<1> HIDE DEF r, n
<1>4. /\ n \in ReqRecords /\ n.pc = "send" /\ n.user = r.user /\ n.op = r.op /\ n.target = r.target
      /\ n.left = r.left /\ ~n.refused /\ n.first = r.first
      /\ n.seq = r.seq + 1 /\ n.asked = r.asked + 1
  <2>1. r.seq \in Nat /\ r.seq + 1 \in Nat /\ r.asked + 1 \in 0..3
    BY <1>1 DEF ReqRecords
  <2> QED
    BY <1>1, <1>3, <2>1 DEF ReqRecords
<1>5. /\ n1 \in ReqRecords /\ n1.refused /\ n1.user = n.user /\ n1.asked = n.asked
      /\ n1.seq = n.seq /\ n1.first = n.first
  BY <1>4 DEF ReqRecords
<1>6. /\ s1 \in ReqRecords /\ s1.pc = "store" /\ s1.user = n.user /\ s1.op = n.op
      /\ s1.target = n.target /\ s1.seq = n.seq /\ s1.first = n.first /\ s1.asked = n.asked
  BY <1>4 DEF ReqRecords
<1>7. r.left # 0 =>
        /\ s2 \in ReqRecords /\ s2.pc = "send" /\ s2.user = n.user /\ s2.op = n.op
        /\ s2.target = n.target /\ s2.seq = n.seq /\ s2.first = n.first /\ s2.asked = n.asked
        /\ s2.left = n.left - 1 /\ s2.refused = n.refused
  <2> SUFFICES ASSUME r.left # 0
               PROVE  /\ s2 \in ReqRecords /\ s2.pc = "send" /\ s2.user = n.user /\ s2.op = n.op
                      /\ s2.target = n.target /\ s2.seq = n.seq /\ s2.first = n.first
                      /\ s2.asked = n.asked /\ s2.left = n.left - 1 /\ s2.refused = n.refused
    OBVIOUS
  <2>1. n \in ReqRecords /\ n.pc = "send" /\ n.left - 1 \in 0..2
    BY <1>1, <1>4
  <2> QED
    BY <2>1 DEF ReqRecords
<1>8. /\ s3 \in ReqRecords /\ s3.pc = "store" /\ s3.user = n.user /\ s3.op = n.op
      /\ s3.target = n.target /\ s3.seq = n.seq /\ s3.first = n.first /\ s3.asked = n.asked
  BY <1>4 DEF ReqRecords
<1>9. 500 \in Codes /\ 502 \in Codes
  BY DEF Codes
<1> HIDE DEF n1, s1, s2, s3
<1>10. /\ Shape(s1) /\ Shape(s3) /\ (r.left # 0 => Shape(s2))
       /\ Shape(Over(n1, 502)) /\ Shape(Over(n, 500))
  <2>1. Shape(s1)
    BY <1>1, <1>4, <1>6 DEF Shape
  <2>2. Shape(s3)
    BY <1>1, <1>4, <1>8 DEF Shape
  <2>3. r.left # 0 => Shape(s2)
    BY <1>1, <1>4, <1>7 DEF Shape
  <2>4. Shape(Over(n1, 502)) /\ Shape(Over(n, 500))
    BY <1>1, <1>4, <1>5, <1>9, OverFields DEF Shape
  <2> QED
    BY <2>1, <2>2, <2>3, <2>4
<1>11. req[q] = r
  BY DEF r
<1>12. ASSUME NEW s \in ReqRecords, req' = [req EXCEPT ![q] = s], Shape(s),
              s.user = n.user, s.first = n.first, s.seq = n.seq, s.asked = n.asked,
              s.pc \in {"send", "store", "exit"},
              s.pc = "store" => s.op = n.op /\ s.target = n.target /\ r.left = 0
       PROVE  /\ req' \in [Requests -> ReqRecords] /\ Shape(req'[q])
              /\ req[q].pc = "send" /\ req'[q].pc \in {"send", "store", "exit"}
              /\ req'[q].user = req[q].user /\ req'[q].first = req[q].first
              /\ req'[q].seq = req[q].seq + 1 /\ req'[q].asked = req[q].asked + 1
              /\ req'[q].pc = "store" => /\ req'[q].op = req[q].op /\ req'[q].target = req[q].target
                                         /\ req[q].left = 0
  <2>1. req'[q] = s /\ req' \in [Requests -> ReqRecords]
    BY <1>12
  <2> QED
    BY <1>1, <1>4, <1>11, <1>12, <2>1
<1>13. CASE r.left = 0 /\ req' = [req EXCEPT ![q] = s1]
  BY <1>6, <1>10, <1>12, <1>13
<1>14. CASE r.left # 0 /\ req' = [req EXCEPT ![q] = s2]
  BY <1>7, <1>10, <1>12, <1>14
<1>15. CASE r.left = 0 /\ req' = [req EXCEPT ![q] = s3]
  BY <1>8, <1>10, <1>12, <1>15
<1>16. CASE req' = [req EXCEPT ![q] = Over(n1, 502)]
  <2> DEFINE s == Over(n1, 502)
  <2>1. /\ s \in ReqRecords /\ s.pc = "exit" /\ s.user = n1.user /\ s.first = n1.first
        /\ s.seq = n1.seq /\ s.asked = n1.asked
    BY <1>5, <1>9, OverFields
  <2>2. Shape(s) /\ req' = [req EXCEPT ![q] = s]
    BY <1>10, <1>16
  <2> HIDE DEF s
  <2> QED
    BY <1>5, <1>12, <2>1, <2>2
<1>17. CASE req' = [req EXCEPT ![q] = Over(n, 500)]
  <2> DEFINE s == Over(n, 500)
  <2>1. /\ s \in ReqRecords /\ s.pc = "exit" /\ s.user = n.user /\ s.first = n.first
        /\ s.seq = n.seq /\ s.asked = n.asked
    BY <1>4, <1>9, OverFields
  <2>2. Shape(s) /\ req' = [req EXCEPT ![q] = s]
    BY <1>10, <1>17
  <2> HIDE DEF s
  <2> QED
    BY <1>12, <2>1, <2>2
<1> QED
  BY <1>2, <1>13, <1>14, <1>15, <1>16, <1>17

LEMMA StoreMoves ==
    ASSUME req \in [Requests -> ReqRecords], NEW q \in Requests, StoreEvent(q), Shape(req[q])
    PROVE  /\ req' \in [Requests -> ReqRecords] /\ Shape(req'[q])
           /\ req[q].pc = "store" /\ req'[q].pc = "exit"
           /\ req'[q].user = req[q].user /\ req'[q].asked = req[q].asked
           /\ req'[q].seq = req[q].seq /\ req'[q].first = req[q].first
<1> DEFINE r == req[q]
<1>1. r \in ReqRecords /\ r.pc = "store" /\ r.user \in Users /\ r.asked > 0
  BY DEF StoreEvent, Shape
<1>2. PICK code \in {204, 500, 502} :
        /\ req' = [req EXCEPT ![q] = Over(r, code)]
        /\ code = 204 => ~r.refused
        /\ code = 502 => r.refused
  BY DEF StoreEvent, AnswerOf, Leave
<1>3. code \in Codes
  BY DEF Codes
<1> HIDE DEF r
<1>4. Shape(Over(r, code))
  BY <1>1, <1>2, <1>3, OverFields DEF Shape
<1>5. req'[q] = Over(r, code) /\ req' \in [Requests -> ReqRecords]
  BY <1>1, <1>2, <1>3, OverFields
<1> QED
  BY <1>1, <1>3, <1>4, <1>5, OverFields DEF r

LEMMA ExitMoves ==
    ASSUME req \in [Requests -> ReqRecords], NEW q \in Requests, ExitApi(q), Shape(req[q])
    PROVE  /\ req' \in [Requests -> ReqRecords] /\ Shape(req'[q])
           /\ req[q].pc = "exit" /\ req'[q].pc = "release"
<1> DEFINE r == req[q]
<1>1. r \in ReqRecords /\ r.pc = "exit" /\ r.code \in Codes
  BY DEF ExitApi, ReqRecords
<1>2. PICK code \in {r.code, 500} : req' = [req EXCEPT ![q] = Answered(r, code)]
  BY DEF ExitApi, Done, Answered
<1>3. code \in Codes
  BY <1>1, <1>2 DEF Codes
<1>4. Shape(Answered(r, code))
  <2>1. /\ r.code = 204 => r.asked > 0 /\ ~r.refused
        /\ r.code = 502 => r.refused
        /\ r.code \in 400..499 => r.asked = 0
    BY <1>1 DEF Shape
  <2> HIDE DEF r
  <2> QED
    <3> DEFINE s == Answered(r, code)
    <3>1. s.pc = "release" /\ s.code = code /\ s.asked = r.asked /\ s.refused = r.refused
          /\ s.seq = 0
      BY <1>1, <1>3, AnsweredFields
    <3>2. code = r.code \/ code = 500
      BY <1>2
    <3> HIDE DEF s
    <3> QED
      BY <2>1, <3>1, <3>2 DEF s, Shape
<1>5. req'[q] = Answered(r, code) /\ req' \in [Requests -> ReqRecords]
  BY <1>1, <1>2, <1>3, AnsweredFields
<1> QED
  BY <1>1, <1>3, <1>4, <1>5, AnsweredFields

LEMMA EndMoves ==
    ASSUME req \in [Requests -> ReqRecords], NEW q \in Requests,
           ReleaseWebLock(q) \/ CrashRequest(q)
    PROVE  /\ req' \in [Requests -> ReqRecords] /\ Shape(req'[q]) /\ req'[q].pc = "idle"
BY RestFields DEF ReleaseWebLock, CrashRequest

-----------------------------------------------------------------------------
(* What the rest of the world does to the tables that requests use: rows   *)
(* of contexts go, sessions end, calls fail.                               *)
Statuses == {"PENDING", "ACTIVE", "FAILED", "gone", "stub"}

Outer ==
    /\ UNCHANGED <<webLock, workMap, before, granted, req, history, bounds>>
    /\ web' \in [Users -> Nat \cup {None}] /\ \A u \in Users : web'[u] \in {web[u], None}
    /\ session' \in [Users -> Statuses] /\ \A u \in Users : Touchable(u)' => Touchable(u)
    /\ faults' \in 0..MaxFaults /\ faults <= faults'

LEMMA OuterSteps ==
    ASSUME WebBasics, [Next]_vars
    PROVE  \/ Outer
           \/ \E q \in Requests : RequestStep(q) \/ CrashRequest(q)
           \/ \E u \in Users : EndLease(u)
<1>0. /\ session \in [Users -> Statuses] /\ web \in [Users -> Nat \cup {None}]
      /\ faults \in 0..MaxFaults /\ lapses \in Nat /\ MaxFaults \in Nat /\ Polled \in Users
  BY OmniChannelAssumption, PollAssumption DEF WebBasics, Statuses
<1>1. ASSUME UNCHANGED webTables, faults' = faults \/ Fault PROVE Outer
  <2>1. faults' \in 0..MaxFaults /\ faults <= faults'
    BY <1>0, <1>1 DEF Fault
  <2>2. UNCHANGED <<session, web, webLock, workMap, before, granted, req, history, bounds>>
    BY <1>1 DEF webTables
  <2> QED
    BY <1>0, <2>1, <2>2 DEF Outer, Touchable
<1>2. CASE StartPoll \/ AskSalesforce \/ DispatchMessage \/ DispatchShutdown \/ SavePoll
             \/ DeletePollEvent \/ CrashPoll \/ Publish \/ UNCHANGED vars
  <2>1. UNCHANGED webTables
    BY <1>2 DEF StartPoll, AskSalesforce, DispatchMessage, DispatchShutdown, SavePoll,
       DeletePollEvent, CrashPoll, Publish, vars, webVars, webTables, history, bounds
  <2>2. faults' = faults \/ Fault
    BY <1>2 DEF StartPoll, AskSalesforce, DispatchMessage, DispatchShutdown, SavePoll,
       DeletePollEvent, CrashPoll, Publish, vars, webVars
  <2> QED
    BY <1>1, <2>1, <2>2
<1>3. CASE FailSession
  BY <1>0, <1>3 DEF FailSession, Outer, Touchable, Statuses
<1>4. ASSUME NEW u \in Users, RemoveContexts(u) PROVE Outer
  BY <1>0, <1>4 DEF RemoveContexts, Outer, Touchable
<1>5. ASSUME NEW u \in Users, EndSession(u) PROVE Outer
  BY <1>0, <1>5 DEF EndSession, Outer, Touchable, Statuses
<1> QED
  BY <1>2, <1>3, <1>4, <1>5 DEF Next, PollStep, WebNext

(* A step of a request, told by what it does to the request. *)
LEMMA RequestMoves ==
    ASSUME WebBasics, Shaped, NEW q \in Requests, RequestStep(q) \/ CrashRequest(q)
    PROVE  req' \in [Requests -> ReqRecords] /\ Shape(req'[q])
<1>1. req \in [Requests -> ReqRecords] /\ Shape(req[q]) /\ web \in [Users -> Nat \cup {None}]
  BY DEF WebBasics, Shaped
<1> QED
  BY <1>1, ReceiveMoves, AcquireMoves, LoadMoves, FindMoves, UnknownStatusMoves, SendMoves,
     StoreMoves, ExitMoves, EndMoves DEF RequestStep

(* Types, and what a request holds on its way. *)
LEMMA NextWebBasics ==
    ASSUME WebBasics, Shaped, [Next]_vars
    PROVE  WebBasics' /\ Shaped'
<1>0. /\ session \in [Users -> Statuses] /\ web \in [Users -> Nat \cup {None}]
      /\ webLock \in [Users -> Requests \cup {Free, Dead}]
      /\ workMap \in [Targets -> Users \cup {None}] /\ before \in [Targets -> Users \cup {None}]
      /\ granted \in [Targets -> Users \cup {None}]
      /\ req \in [Requests -> ReqRecords] /\ sent \in [Users -> SUBSET Nat]
      /\ reused \in BOOLEAN /\ stolen \subseteq Targets
      /\ begun \in 0..MaxRequests /\ lapses \in 0..MaxFaults /\ faults \in 0..MaxFaults
      /\ MaxRequests \in Nat /\ MaxFaults \in Nat
  BY OmniChannelAssumption DEF WebBasics, Statuses
<1>1. CASE Outer
  <2>1. WebBasics'
    BY <1>0, <1>1 DEF Outer, WebBasics, Statuses, history, bounds
  <2> QED
    BY <1>1, <2>1 DEF Outer, Shaped
<1>2. ASSUME NEW u \in Users, EndLease(u) PROVE WebBasics' /\ Shaped'
  <2>1. webLock' \in [Users -> Requests \cup {Free, Dead}] /\ lapses' \in 0..MaxFaults
    BY <1>0, <1>2 DEF EndLease
  <2>2. UNCHANGED <<session, web, workMap, before, granted, req, sent, reused, stolen, begun, faults>>
    BY <1>2 DEF EndLease, tables, history
  <2> QED
    BY <1>0, <2>1, <2>2 DEF WebBasics, Shaped, Statuses
<1>3. ASSUME NEW q \in Requests, RequestStep(q) \/ CrashRequest(q) PROVE WebBasics' /\ Shaped'
  <2>1. req' \in [Requests -> ReqRecords] /\ Shape(req'[q])
    BY <1>3, RequestMoves
  <2>2. Shaped'
    BY <1>0, <1>3, <2>1, OthersKept DEF Shaped
  <2>3. req[q] \in ReqRecords /\ Shape(req[q])
    BY <1>0 DEF Shaped
  <2>4. req[q].user \in Users \cup {None} /\ req[q].seq \in Nat
    BY <2>3 DEF ReqRecords
  <2>5. /\ webLock' \in [Users -> Requests \cup {Free, Dead}]
        /\ web' \in [Users -> Nat \cup {None}]
    <3>1. CASE AcquireWebLock(q)
      BY <1>0, <3>1 DEF AcquireWebLock, tables
    <3>2. CASE ReleaseWebLock(q) \/ CrashRequest(q)
      BY <1>0, <3>2 DEF ReleaseWebLock, CrashRequest, tables
    <3>3. CASE ExitApi(q)
      BY <1>0, <2>4, <3>3 DEF ExitApi, Saved
    <3>4. CASE Receive(q) \/ LoadApi(q) \/ FindWork(q) \/ UnknownStatus(q) \/ Send(q) \/ StoreEvent(q)
      BY <1>0, <3>4 DEF Receive, LoadApi, FindWork, UnknownStatus, Send, StoreEvent, tables
    <3> QED
      BY <1>3, <3>1, <3>2, <3>3, <3>4 DEF RequestStep
  <2>6. session' = session
    BY <1>3 DEF RequestStep, CrashRequest, Receive, AcquireWebLock, LoadApi, FindWork,
       UnknownStatus, Send, StoreEvent, ExitApi, ReleaseWebLock, tables
  <2>7. begun' \in 0..MaxRequests /\ lapses' \in 0..MaxFaults /\ faults' \in 0..MaxFaults
    <3>1. begun' = begun \/ (begun < MaxRequests /\ begun' = begun + 1)
      BY <1>3 DEF RequestStep, CrashRequest, Receive, AcquireWebLock, LoadApi, FindWork,
         UnknownStatus, Send, StoreEvent, ExitApi, ReleaseWebLock, bounds
    <3>2. lapses' = lapses
      BY <1>3 DEF RequestStep, CrashRequest, Receive, AcquireWebLock, LoadApi, FindWork,
         UnknownStatus, Send, StoreEvent, ExitApi, ReleaseWebLock, bounds
    <3>3. faults' = faults \/ (faults + lapses < MaxFaults /\ faults' = faults + 1)
      BY <1>3 DEF RequestStep, CrashRequest, Receive, AcquireWebLock, LoadApi, FindWork,
         UnknownStatus, Send, StoreEvent, ExitApi, ReleaseWebLock, Fault
    <3> QED
      BY <1>0, <3>1, <3>2, <3>3
  <2>8. /\ workMap' \in [Targets -> Users \cup {None}] /\ before' \in [Targets -> Users \cup {None}]
        /\ stolen' \subseteq Targets
    <3>1. CASE StoreEvent(q)
      <4>1. Entered(q) => req[q].user \in Users /\ req[q].target \in Targets
        BY <2>3, <3>1 DEF StoreEvent, Entered, Shape
      <4> QED
        BY <1>0, <3>1, <4>1 DEF StoreEvent
    <3>2. CASE ~StoreEvent(q)
      BY <1>0, <1>3, <3>2 DEF RequestStep, CrashRequest, Receive, AcquireWebLock, LoadApi, FindWork,
         UnknownStatus, Send, ExitApi, ReleaseWebLock, tables, history
    <3> QED
      BY <3>1, <3>2
  <2>9. /\ granted' \in [Targets -> Users \cup {None}] /\ sent' \in [Users -> SUBSET Nat]
        /\ reused' \in BOOLEAN
    <3>1. CASE Send(q)
      <4>1. Granted(q) \in [Targets -> Users \cup {None}]
        BY <1>0, <2>4 DEF Granted
      <4>2. granted' \in [Targets -> Users \cup {None}]
        BY <1>0, <3>1, <4>1 DEF Send
      <4>3. sent' \in [Users -> SUBSET Nat]
        BY <1>0, <2>4, <3>1 DEF Send
      <4>4. reused' \in BOOLEAN
        BY <1>0, <3>1 DEF Send
      <4> QED
        BY <4>2, <4>3, <4>4
    <3>2. CASE ~Send(q)
      BY <1>0, <1>3, <3>2 DEF RequestStep, CrashRequest, Receive, AcquireWebLock, LoadApi, FindWork,
         UnknownStatus, StoreEvent, ExitApi, ReleaseWebLock, tables, history
    <3> QED
      BY <3>1, <3>2
  <2>10. WebBasics'
    BY <2>1, <2>5, <2>6, <2>7, <2>8, <2>9, <1>0 DEF WebBasics, Statuses
  <2> QED
    BY <2>2, <2>10
<1> QED
  BY <1>1, <1>2, <1>3, OuterSteps

-----------------------------------------------------------------------------
(* The row of the WEB context changes at the end of a request only. *)
LEMMA WebSaved ==
    ASSUME WebBasics, NEW q \in Requests, RequestStep(q) \/ CrashRequest(q), NEW u \in Users
    PROVE  \/ web'[u] = web[u]
           \/ /\ ExitApi(q) /\ u = req[q].user /\ req[q].seq # req[q].first
              /\ web'[u] = IF web[u] = None THEN None ELSE req[q].seq
<1>1. web \in [Users -> Nat \cup {None}]
  BY DEF WebBasics
<1>2. CASE ExitApi(q)
  BY <1>1, <1>2 DEF ExitApi, Saved
<1>3. CASE ~ExitApi(q)
  BY <1>3 DEF RequestStep, CrashRequest, Receive, AcquireWebLock, LoadApi, FindWork,
     UnknownStatus, Send, StoreEvent, ReleaseWebLock, tables
<1> QED
  BY <1>2, <1>3

LEMMA SentGrows ==
    ASSUME NEW q \in Requests, RequestStep(q) \/ CrashRequest(q), ~Send(q)
    PROVE  UNCHANGED <<sent, reused, granted>>
BY DEF RequestStep, CrashRequest, Receive, AcquireWebLock, LoadApi, FindWork,
   UnknownStatus, StoreEvent, ExitApi, ReleaseWebLock, history

LEMMA BegunSteps ==
    ASSUME NEW q \in Requests, RequestStep(q) \/ CrashRequest(q)
    PROVE  /\ Receive(q) => begun' = begun + 1
           /\ ~Receive(q) => begun' = begun
BY DEF RequestStep, CrashRequest, Receive, AcquireWebLock, LoadApi, FindWork,
   UnknownStatus, Send, StoreEvent, ExitApi, ReleaseWebLock, bounds

ActivePCs == {"lock", "load", "find", "send", "store", "exit"}

(* The number of requests that are done with numbering does not fall, and  *)
(* grows with the one that leaves.                                         *)
LEMMA FinishedFollows ==
    ASSUME WebBasics, Shaped, NumbersBounded, NEW q \in Requests,
           RequestStep(q) \/ CrashRequest(q)
    PROVE  /\ IsFiniteSet(Active') /\ Cardinality(Active') <= begun'
           /\ Finished \in Nat /\ Finished' \in Nat /\ Finished <= Finished'
           /\ req[q].pc \in ActivePCs =>
                 /\ Finished + 1 <= begun
                 /\ req'[q].pc \notin ActivePCs => Finished' = Finished + 1
<1>1. /\ req \in [Requests -> ReqRecords] /\ Shape(req[q]) /\ web \in [Users -> Nat \cup {None}]
      /\ begun \in Nat
  BY OmniChannelAssumption DEF WebBasics, Shaped
<1>2. \A p \in Requests : p # q => req'[p] = req[p]
  BY <1>1, OthersKept
<1>3. /\ q \in Active <=> req[q].pc \in ActivePCs
      /\ q \in Active' <=> req'[q].pc \in ActivePCs
      /\ Active' = IF req'[q].pc \in ActivePCs THEN Active \cup {q} ELSE Active \ {q}
  BY <1>2 DEF Active, ActivePCs
<1>4. /\ IsFiniteSet(Active) /\ Cardinality(Active) \in Nat /\ Cardinality(Active) <= begun
  BY FS_CardinalityType DEF NumbersBounded
<1>5. /\ IsFiniteSet(Active \cup {q}) /\ IsFiniteSet(Active \ {q})
      /\ Cardinality(Active \cup {q}) = IF q \in Active THEN Cardinality(Active)
                                                      ELSE Cardinality(Active) + 1
      /\ Cardinality(Active \ {q}) = IF q \in Active THEN Cardinality(Active) - 1
                                                    ELSE Cardinality(Active)
  BY <1>4, FS_AddElement, FS_RemoveElement
<1>6. /\ Cardinality(Active') = IF req'[q].pc \in ActivePCs
                                THEN IF req[q].pc \in ActivePCs THEN Cardinality(Active)
                                                              ELSE Cardinality(Active) + 1
                                ELSE IF req[q].pc \in ActivePCs THEN Cardinality(Active) - 1
                                                              ELSE Cardinality(Active)
      /\ IsFiniteSet(Active')
  BY <1>3, <1>5
<1>7. q \in Active => Cardinality(Active) # 0
  BY <1>4, FS_EmptySet
<1>8. /\ req[q].pc \notin ActivePCs /\ req'[q].pc \in ActivePCs => begun' = begun + 1
      /\ req[q].pc \in ActivePCs => begun' = begun
      /\ begun' = begun \/ begun' = begun + 1
  <2>1. Receive(q) => req[q].pc = "idle"
    BY DEF Receive
  <2>2. ~Receive(q) /\ req'[q].pc \in ActivePCs => req[q].pc \in ActivePCs
    BY <1>1, EndMoves, ExitMoves DEF RequestStep, ActivePCs, AcquireWebLock, LoadApi, FindWork,
       UnknownStatus, Send, StoreEvent
  <2> QED
    BY <2>1, <2>2, BegunSteps DEF ActivePCs
<1>9. (Finished = begun - Cardinality(Active)) /\ (Finished' = begun' - Cardinality(Active'))
  BY DEF Finished
<1> HIDE DEF Active, Finished
<1> QED
  BY <1>1, <1>3, <1>4, <1>6, <1>7, <1>8, <1>9

(* Numbers stay within three for each request. *)
LEMMA NextNumbersBounded ==
    ASSUME WebBasics, Shaped, NumbersBounded, [Next]_vars
    PROVE  NumbersBounded'
<1> DEFINE F == Finished
           NumberedUp(r) == r.first > 0 /\ r.seq = r.first + r.asked /\ r.first <= 3 * F + 1
<1>0. /\ req \in [Requests -> ReqRecords] /\ web \in [Users -> Nat \cup {None}]
      /\ begun \in 0..MaxRequests /\ MaxRequests \in Nat /\ None \notin Nat
      /\ \A q \in Requests : Shape(req[q]) /\ req[q] \in ReqRecords
      /\ sent \in [Users -> SUBSET Nat]
  BY OmniChannelAssumption DEF WebBasics, Shaped
<1>1. ASSUME UNCHANGED <<req, begun, sent>>, \A u \in Users : web'[u] \in {web[u], None}
      PROVE  NumbersBounded'
  <2>1. Active' = Active /\ Finished' = Finished
    BY <1>1 DEF Active, Finished
  <2> QED
    BY <1>0, <1>1, <2>1 DEF NumbersBounded
<1>2. ASSUME NEW q \in Requests, RequestStep(q) \/ CrashRequest(q) PROVE NumbersBounded'
  <2> DEFINE G == F'
  <2>1. /\ IsFiniteSet(Active') /\ Cardinality(Active') <= begun'
        /\ F \in Nat /\ G \in Nat /\ F <= G
        /\ req[q].pc \in ActivePCs =>
              /\ F + 1 <= begun
              /\ req'[q].pc \notin ActivePCs => G = F + 1
    BY <1>2, FinishedFollows
  <2>2. /\ \A u \in Users : web[u] # None => web[u] \in 1..(3 * F + 1)
        /\ \A p \in Requests : Counting(req[p]) => NumberedUp(req[p])
        /\ \A u \in Users : sent[u] \subseteq 1..(3 * MaxRequests)
    BY DEF NumbersBounded
  <2>3. \A p \in Requests : req[p].first \in Nat /\ req[p].seq \in Nat /\ req[p].asked \in 0..3
    BY <1>0 DEF ReqRecords
  <2>4. \A p \in Requests : p # q => req'[p] = req[p]
    BY <1>0, <1>2, OthersKept
  <2> HIDE DEF F, G
  <2>5. \A u \in Users : web'[u] # None => web'[u] \in 1..(3 * G + 1)
    <3> SUFFICES ASSUME NEW u \in Users, web'[u] # None PROVE web'[u] \in 1..(3 * G + 1)
      OBVIOUS
    <3>1. CASE web'[u] = web[u]
      BY <2>1, <2>2, <3>1
    <3>2. CASE ExitApi(q) /\ web'[u] = req[q].seq
      <4>1. Counting(req[q]) /\ req[q].pc \in ActivePCs /\ req'[q].pc \notin ActivePCs
        BY <1>0, <3>2, ExitMoves DEF Counting, ActivePCs
      <4> QED
        BY <2>1, <2>2, <2>3, <3>2, <4>1
    <3> QED
      BY <1>2, <3>1, <3>2, WebSaved
  <2>6. \A p \in Requests : Counting(req'[p]) =>
           req'[p].first > 0 /\ req'[p].seq = req'[p].first + req'[p].asked
           /\ req'[p].first <= 3 * G + 1
    <3>1. ASSUME NEW p \in Requests, p # q, Counting(req'[p])
          PROVE  req'[p].first > 0 /\ req'[p].seq = req'[p].first + req'[p].asked
                 /\ req'[p].first <= 3 * G + 1
      BY <2>1, <2>2, <2>3, <2>4, <3>1
    <3>2. ASSUME Counting(req'[q])
          PROVE  req'[q].first > 0 /\ req'[q].seq = req'[q].first + req'[q].asked
                 /\ req'[q].first <= 3 * G + 1
      <4>1. CASE LoadApi(q)
        <5>1. /\ req[q].user \in Users /\ web[req[q].user] # None
              /\ req'[q].seq = web[req[q].user] /\ req'[q].first = web[req[q].user]
              /\ req'[q].asked = 0
          <6>1. req[q].pc = "load" /\ Shape(req[q])
            BY <1>0, <4>1 DEF LoadApi
          <6> QED
            BY <1>0, <3>2, <4>1, <6>1, LoadMoves DEF Counting, Shape
        <5>2. web[req[q].user] \in 1..(3 * F + 1)
          BY <2>2, <5>1
        <5> QED
          BY <2>1, <5>1, <5>2
      <4>2. CASE FindWork(q) \/ UnknownStatus(q) \/ StoreEvent(q)
        <5>1. /\ Counting(req[q]) /\ req'[q].asked = req[q].asked
              /\ req'[q].seq = req[q].seq /\ req'[q].first = req[q].first
          BY <1>0, <4>2, FindMoves, UnknownStatusMoves, StoreMoves DEF Counting
        <5> QED
          BY <2>1, <2>2, <2>3, <5>1
      <4>3. CASE Send(q)
        <5>1. /\ Counting(req[q]) /\ req'[q].asked = req[q].asked + 1
              /\ req'[q].seq = req[q].seq + 1 /\ req'[q].first = req[q].first
          BY <1>0, <4>3, SendMoves DEF Counting
        <5> QED
          BY <2>1, <2>2, <2>3, <5>1
      <4>4. ~(Receive(q) \/ AcquireWebLock(q) \/ ExitApi(q) \/ ReleaseWebLock(q) \/ CrashRequest(q))
        BY <1>0, <3>2, ReceiveMoves, AcquireMoves, ExitMoves, EndMoves DEF Counting
      <4> QED
        BY <1>2, <4>1, <4>2, <4>3, <4>4 DEF RequestStep
    <3> QED
      BY <3>1, <3>2
  <2>7. \A u \in Users : sent'[u] \subseteq 1..(3 * MaxRequests)
    <3>1. CASE Send(q)
      <4>1. /\ req[q].pc = "send" /\ sent' = [sent EXCEPT ![req[q].user] = @ \cup {req[q].seq}]
        BY <3>1 DEF Send
      <4>2. Counting(req[q]) /\ req[q].pc \in ActivePCs /\ req[q].asked <= 2
        <5>1. req[q].asked + req[q].left <= 2 /\ req[q].asked \in 0..3 /\ req[q].left \in 0..2
          BY <1>0, <4>1 DEF Shape, ReqRecords
        <5> QED
          BY <4>1, <5>1 DEF Counting, ActivePCs
      <4>3. req[q].seq \in 1..(3 * MaxRequests)
        BY <1>0, <2>1, <2>2, <2>3, <4>2
      <4> QED
        BY <1>0, <2>2, <4>1, <4>3
    <3>2. CASE ~Send(q)
      BY <1>2, <2>2, <3>2, SentGrows
    <3> QED
      BY <3>1, <3>2
  <2>8. G = Finished'
    BY DEF F, G
  <2> QED
    BY <2>1, <2>5, <2>6, <2>7, <2>8 DEF NumbersBounded
<1>3. CASE Outer
  BY <1>1, <1>3 DEF Outer, bounds, history
<1>4. ASSUME NEW u \in Users, EndLease(u) PROVE NumbersBounded'
  BY <1>1, <1>4 DEF EndLease, tables, history
<1> QED
  BY <1>2, <1>3, <1>4, OuterSteps

-----------------------------------------------------------------------------
(* A fault or a lapse stays on record. *)
LEMMA OrderlyBefore ==
    ASSUME WebBasics, [Next]_vars, Orderly'
    PROVE  Orderly /\ faults' = faults /\ lapses' = lapses
<1>1. lapses \in Nat /\ faults \in Nat /\ lapses' = 0 /\ faults' = 0
  BY OmniChannelAssumption DEF WebBasics, Orderly
<1>2. CASE Outer
  BY <1>1, <1>2 DEF Outer, bounds, Orderly
<1>3. ASSUME NEW q \in Requests, RequestStep(q) \/ CrashRequest(q)
      PROVE  lapses' = lapses /\ (faults' = faults \/ faults' = faults + 1)
  BY <1>3 DEF RequestStep, CrashRequest, Receive, AcquireWebLock, LoadApi, FindWork,
     UnknownStatus, Send, StoreEvent, ExitApi, ReleaseWebLock, bounds, Fault
<1>4. ASSUME NEW u \in Users, EndLease(u)
      PROVE  faults' = faults /\ (lapses' = lapses \/ lapses' = lapses + 1)
  BY <1>4 DEF EndLease
<1> QED
  BY <1>1, <1>2, <1>3, <1>4, OuterSteps DEF Orderly

(* acquire lets one request of a user in; without a lapse it stays alone. *)
LEMMA NextExclusive ==
    ASSUME WebBasics, Shaped, Exclusive, [Next]_vars, Orderly'
    PROVE  Exclusive'
<1>0. /\ req \in [Requests -> ReqRecords] /\ webLock \in [Users -> Requests \cup {Free, Dead}]
      /\ web \in [Users -> Nat \cup {None}]
      /\ \A q \in Requests : Shape(req[q]) /\ Shape(req'[q])
      /\ Free \notin Requests /\ Dead \notin Requests
      /\ faults' = faults /\ lapses' = lapses /\ faults \in Nat /\ lapses \in Nat
  BY OrderlyBefore, NextWebBasics, OmniChannelAssumption DEF WebBasics, Shaped
<1>1. \A q \in Requests : Locked(req[q]) => webLock[req[q].user] = q /\ req[q].user \in Users
  BY <1>0 DEF Exclusive, Shape, Locked
<1>2. CASE UNCHANGED <<req, webLock>>
  BY <1>1, <1>2 DEF Exclusive
<1>3. ASSUME NEW u \in Users, EndLease(u) PROVE Exclusive'
  <2>1. /\ webLock[u] = Dead /\ webLock' = [webLock EXCEPT ![u] = Free] /\ req' = req
    BY <1>0, <1>3 DEF EndLease
  <2> QED
    BY <1>0, <1>1, <2>1 DEF Exclusive
<1>4. ASSUME NEW q \in Requests, RequestStep(q) \/ CrashRequest(q) PROVE Exclusive'
  <2>1. \A p \in Requests : p # q => req'[p] = req[p]
    BY <1>0, <1>4, OthersKept
  <2>2. ASSUME webLock' = webLock,
               Locked(req'[q]) => Locked(req[q]) /\ req'[q].user = req[q].user
        PROVE  Exclusive'
    BY <1>1, <2>1, <2>2 DEF Exclusive
  <2>3. CASE AcquireWebLock(q)
    <3>1. req'[q].pc = "load" /\ req[q].pc = "lock" /\ req'[q].user = req[q].user
          /\ req[q].user \in Users
      BY <1>0, <2>3, AcquireMoves DEF Shape
    <3>2. webLock[req[q].user] = Free /\ webLock' = [webLock EXCEPT ![req[q].user] = q]
      BY <2>3 DEF AcquireWebLock
    <3> QED
      BY <1>0, <1>1, <2>1, <3>1, <3>2 DEF Exclusive
  <2>4. CASE ReleaseWebLock(q)
    <3>1. req'[q].pc = "idle"
      BY <1>0, <2>4, EndMoves
    <3>2. webLock' = [u \in Users |-> IF webLock[u] = q THEN Free ELSE webLock[u]]
      BY <2>4 DEF ReleaseWebLock
    <3> QED
      BY <1>0, <1>1, <2>1, <3>1, <3>2 DEF Exclusive, Locked
  <2>5. CASE Receive(q)
    BY <1>0, <2>2, <2>5, ReceiveMoves DEF Receive, Locked
  <2>6. CASE LoadApi(q)
    BY <1>0, <2>2, <2>6, LoadMoves DEF LoadApi, Locked
  <2>7. CASE FindWork(q) \/ UnknownStatus(q)
    BY <1>0, <2>2, <2>7, FindMoves, UnknownStatusMoves DEF FindWork, UnknownStatus, Locked
  <2>8. CASE Send(q)
    BY <1>0, <2>2, <2>8, SendMoves DEF Send, Locked, tables
  <2>9. CASE StoreEvent(q)
    BY <1>0, <2>2, <2>9, StoreMoves DEF StoreEvent, Locked
  <2>10. CASE ExitApi(q)
    BY <1>0, <2>2, <2>10, ExitMoves DEF ExitApi, Locked
  <2>11. ~CrashRequest(q)
    BY <1>0 DEF CrashRequest, Fault
  <2> QED
    BY <1>4, <2>3, <2>4, <2>5, <2>6, <2>7, <2>8, <2>9, <2>10, <2>11 DEF RequestStep
<1>5. CASE Outer
  BY <1>2, <1>5 DEF Outer
<1> QED
  BY <1>3, <1>4, <1>5, OuterSteps

(* The next number is new. *)
LEMMA NextNumbersNew ==
    ASSUME WebBasics, Shaped, NumbersBounded, Exclusive, NumbersNew, [Next]_vars, Orderly'
    PROVE  NumbersNew'
<1> DEFINE Below(u, n) == \A m \in sent[u] : m < n
<1>0. /\ req \in [Requests -> ReqRecords] /\ web \in [Users -> Nat \cup {None}]
      /\ \A q \in Requests : Shape(req[q]) /\ Shape(req'[q])
      /\ None \notin Nat /\ sent \in [Users -> SUBSET Nat] /\ reused = FALSE
      /\ faults' = faults /\ faults \in Nat
  BY OrderlyBefore, NextWebBasics, OmniChannelAssumption DEF WebBasics, Shaped, NumbersNew
<1>1. \A q \in Requests : Counting(req[q]) =>
         /\ req[q].user \in Users /\ Below(req[q].user, req[q].seq)
         /\ web[req[q].user] \in {req[q].first, None}
  BY <1>0 DEF NumbersNew, Counting, Shape
<1>2. \A u \in Users : (web[u] # None /\ \A q \in Requests : Counting(req[q]) => req[q].user # u)
                         => Below(u, web[u])
  BY DEF NumbersNew
<1>3. \A q \in Requests : req[q].seq \in Nat /\ req[q].first \in Nat
  BY <1>0 DEF ReqRecords
<1>4. ASSUME UNCHANGED <<req, sent, reused>>, \A u \in Users : web'[u] \in {web[u], None}
      PROVE  NumbersNew'
  BY <1>0, <1>1, <1>2, <1>4 DEF NumbersNew
<1>5. ASSUME NEW q \in Requests, RequestStep(q) \/ CrashRequest(q) PROVE NumbersNew'
  <2> DEFINE r == req[q]
             s == req'[q]
  <2>0. \A p \in Requests : p # q => req'[p] = req[p]
    BY <1>0, <1>5, OthersKept
  <2>1. \A p \in Requests : p # q /\ Counting(req[p]) /\ Locked(r) => req[p].user # r.user
    BY DEF Exclusive, Counting, Locked
  <2>a. ASSUME UNCHANGED <<web, sent, reused>>, ~Counting(r), ~Counting(s) PROVE NumbersNew'
    BY <1>0, <1>1, <1>2, <2>0, <2>a DEF NumbersNew
  <2>2. CASE Receive(q) \/ AcquireWebLock(q) \/ ReleaseWebLock(q)
    <3>1. ~Counting(r)
      BY <2>2 DEF Receive, AcquireWebLock, ReleaseWebLock, Counting
    <3>2. ~Counting(s)
      BY <1>0, <2>2, ReceiveMoves, AcquireMoves, EndMoves DEF Counting
    <3>3. UNCHANGED <<web, sent, reused>>
      BY <2>2 DEF Receive, AcquireWebLock, ReleaseWebLock, tables, history
    <3> QED
      BY <2>a, <3>1, <3>2, <3>3
  <2>3. CASE LoadApi(q)
    <3>1. UNCHANGED <<web, sent, reused>> /\ r.pc = "load" /\ r.user \in Users
      BY <1>0, <2>3 DEF LoadApi, tables, history, Shape
    <3>2. CASE s.pc = "release"
      BY <2>a, <3>1, <3>2 DEF Counting
    <3>3. CASE /\ s.pc \in {"find", "send"} /\ s.user = r.user /\ web[r.user] # None
               /\ s.seq = web[r.user] /\ s.first = web[r.user]
      <4>1. Below(r.user, web[r.user])
        BY <1>2, <2>1, <3>1, <3>3 DEF Counting, Locked
      <4>2. Counting(s) /\ ~Counting(r)
        BY <3>1, <3>3 DEF Counting
      <4> HIDE DEF r, s
      <4>3. \A p \in Requests : Counting(req'[p]) =>
               /\ \A n \in sent'[req'[p].user] : n < req'[p].seq
               /\ web'[req'[p].user] \in {req'[p].first, None}
        BY <1>1, <2>0, <3>1, <3>3, <4>1 DEF s
      <4>4. ASSUME NEW u \in Users, web'[u] # None,
                   \A p \in Requests : Counting(req'[p]) => req'[p].user # u
            PROVE  \A n \in sent'[u] : n < web'[u]
        BY <1>2, <2>0, <3>1, <4>2, <4>4 DEF r
      <4> QED
        BY <1>0, <3>1, <4>3, <4>4 DEF NumbersNew
    <3> QED
      BY <1>0, <2>3, <3>2, <3>3, LoadMoves
  <2>4. CASE FindWork(q) \/ UnknownStatus(q) \/ StoreEvent(q)
    <3>1. UNCHANGED <<web, sent, reused>>
      BY <2>4 DEF FindWork, UnknownStatus, StoreEvent, tables, history
    <3>2. /\ Counting(r) /\ Counting(s) /\ s.user = r.user /\ s.seq = r.seq /\ s.first = r.first
      BY <1>0, <2>4, FindMoves, UnknownStatusMoves, StoreMoves DEF Counting
    <3> QED
      BY <1>0, <1>1, <1>2, <2>0, <3>1, <3>2 DEF NumbersNew
  <2>5. CASE Send(q)
    <3>1. /\ sent' = [sent EXCEPT ![r.user] = @ \cup {r.seq}] /\ web' = web
          /\ reused' = (reused \/ r.seq \in sent[r.user])
      BY <2>5 DEF Send, tables
    <3>2. /\ Counting(r) /\ Locked(r) /\ Counting(s)
          /\ s.user = r.user /\ s.seq = r.seq + 1 /\ s.first = r.first
      BY <1>0, <2>5, SendMoves DEF Counting, Locked
    <3>3. r.user \in Users /\ Below(r.user, r.seq) /\ web[r.user] \in {r.first, None} /\ r.seq \in Nat
      BY <1>1, <1>3, <3>2
    <3>4. r.seq \notin sent[r.user]
      BY <1>0, <3>3
    <3>5. reused' = FALSE
      BY <1>0, <3>1, <3>4
    <3>6. \A n \in sent'[r.user] : n < s.seq
      BY <1>0, <3>1, <3>2, <3>3
    <3>7. \A u \in Users : u # r.user => sent'[u] = sent[u]
      BY <1>0, <3>1
    <3>8. \A p \in Requests : p # q /\ Counting(req[p]) => req[p].user # r.user
      BY <2>1, <3>2
    <3> HIDE DEF r, s
    <3>9. \A p \in Requests : Counting(req'[p]) =>
             /\ \A n \in sent'[req'[p].user] : n < req'[p].seq
             /\ web'[req'[p].user] \in {req'[p].first, None}
      BY <1>1, <2>0, <3>1, <3>2, <3>3, <3>6, <3>7, <3>8 DEF s
    <3>10. ASSUME NEW u \in Users, web'[u] # None,
                  \A p \in Requests : Counting(req'[p]) => req'[p].user # u
           PROVE  \A n \in sent'[u] : n < web'[u]
      <4>1. u # r.user
        BY <3>2, <3>10 DEF s
      <4>2. \A p \in Requests : Counting(req[p]) => req[p].user # u
        BY <2>0, <3>10, <4>1 DEF r
      <4> QED
        BY <1>2, <3>1, <3>7, <3>10, <4>1, <4>2
    <3> QED
      BY <3>5, <3>9, <3>10 DEF NumbersNew
  <2>6. CASE ExitApi(q)
    <3>1. Counting(r) /\ Locked(r) /\ ~Counting(s)
      BY <1>0, <2>6, ExitMoves DEF Counting, Locked
    <3>2. UNCHANGED <<sent, reused>>
      BY <2>6 DEF ExitApi, history
    <3>3. r.user \in Users /\ Below(r.user, r.seq) /\ web[r.user] \in {r.first, None}
      BY <1>1, <3>1
    <3>4. /\ \A u \in Users : u # r.user => web'[u] = web[u]
          /\ web'[r.user] # None => web'[r.user] = r.seq
      <4>1. faults' # faults + 1
        BY <1>0
      <4>2. web' = IF r.seq = r.first THEN web ELSE [web EXCEPT ![r.user] = Saved(q, r.user)]
        BY <2>6, <4>1 DEF ExitApi, Fault
      <4> QED
        BY <1>0, <3>3, <4>2 DEF Saved
    <3>5. \A p \in Requests : p # q /\ Counting(req[p]) => req[p].user # r.user
      BY <2>1, <3>1
    <3> HIDE DEF r, s
    <3>6. \A p \in Requests : Counting(req'[p]) =>
             /\ \A n \in sent'[req'[p].user] : n < req'[p].seq
             /\ web'[req'[p].user] \in {req'[p].first, None}
      BY <1>1, <2>0, <3>1, <3>2, <3>4, <3>5 DEF s
    <3>7. ASSUME NEW u \in Users, web'[u] # None,
                 \A p \in Requests : Counting(req'[p]) => req'[p].user # u
          PROVE  \A n \in sent'[u] : n < web'[u]
      <4>1. CASE u = r.user
        BY <3>2, <3>3, <3>4, <3>7, <4>1
      <4>2. CASE u # r.user
        <5>1. \A p \in Requests : Counting(req[p]) => req[p].user # u
          BY <2>0, <3>7, <4>2 DEF r
        <5> QED
          BY <1>2, <3>2, <3>4, <3>7, <4>2, <5>1
      <4> QED
        BY <4>1, <4>2
    <3> QED
      BY <1>0, <3>2, <3>6, <3>7 DEF NumbersNew
  <2>7. ~CrashRequest(q)
    BY <1>0 DEF CrashRequest, Fault
  <2> QED
    BY <1>5, <2>2, <2>3, <2>4, <2>5, <2>6, <2>7 DEF RequestStep
<1>6. CASE Outer
  BY <1>4, <1>6 DEF Outer, history
<1>7. ASSUME NEW u \in Users, EndLease(u) PROVE NumbersNew'
  BY <1>4, <1>7 DEF EndLease, tables, history
<1> QED
  BY <1>5, <1>6, <1>7, OuterSteps

(* What Salesforce does with a call, when nothing breaks. *)
LEMMA SendGrants ==
    ASSUME req \in [Requests -> ReqRecords], NEW q \in Requests, Send(q), Shape(req[q]),
           faults \in Nat, faults' = faults
    PROVE  \/ /\ MayGrant(q) /\ granted' = Granted(q)
              /\ req'[q].user = req[q].user /\ ~req'[q].refused
              /\ req[q].left = 0 => /\ req'[q].pc = "store" /\ req'[q].op = req[q].op
                                    /\ req'[q].target = req[q].target
              /\ req[q].left # 0 => req'[q].pc # "store"
           \/ /\ granted' = granted
              /\ req'[q].pc = "store" => req'[q].refused
<1> DEFINE r == req[q]
           n == Numbered(q)
<1>1. r \in ReqRecords /\ ~r.refused /\ r.left \in 0..2
  BY DEF Send, Shape, ReqRecords
<1>2. \/ /\ MayGrant(q) /\ granted' = Granted(q)
         /\ req' = [req EXCEPT ![q] = IF r.left = 0 THEN [n EXCEPT !.pc = "store"]
                                      ELSE [n EXCEPT !.left = @ - 1]]
      \/ /\ granted' = granted
         /\ req' = [req EXCEPT ![q] = IF r.left = 0 THEN [n EXCEPT !.pc = "store", !.refused = TRUE]
                                      ELSE Over([n EXCEPT !.refused = TRUE], 502)]
  BY DEF Send, Fault
<1>3. n = [r EXCEPT !.seq = @ + 1, !.asked = @ + 1] /\ r.pc = "send"
  BY DEF Numbered, Send
<1>4. DOMAIN n = DOMAIN r /\ n.user = r.user /\ n.op = r.op /\ n.target = r.target
      /\ n.refused = r.refused /\ n.left = r.left /\ n.pc = "send"
  <2> HIDE DEF r, n
  <2> QED
    BY <1>1, <1>3 DEF ReqRecords
<1>5. /\ [n EXCEPT !.pc = "store"].user = n.user /\ [n EXCEPT !.pc = "store"].op = n.op
      /\ [n EXCEPT !.pc = "store"].target = n.target
      /\ [n EXCEPT !.pc = "store"].refused = n.refused
      /\ [n EXCEPT !.pc = "store"].pc = "store"
      /\ [n EXCEPT !.left = @ - 1].user = n.user /\ [n EXCEPT !.left = @ - 1].refused = n.refused
      /\ [n EXCEPT !.left = @ - 1].pc = n.pc
      /\ [n EXCEPT !.pc = "store", !.refused = TRUE].refused
  <2>1. DOMAIN n = {"pc", "user", "op", "target", "seq", "first", "left", "asked", "refused", "code"}
    BY <1>1, <1>4 DEF ReqRecords
  <2> HIDE DEF n
  <2> QED
    BY <2>1
<1>6. Over([n EXCEPT !.refused = TRUE], 502).pc = "exit"
  BY DEF Over, Rest
<1> HIDE DEF n
<1>7. CASE /\ MayGrant(q) /\ granted' = Granted(q)
           /\ req' = [req EXCEPT ![q] = IF r.left = 0 THEN [n EXCEPT !.pc = "store"]
                                        ELSE [n EXCEPT !.left = @ - 1]]
  <2>1. req'[q] = IF r.left = 0 THEN [n EXCEPT !.pc = "store"] ELSE [n EXCEPT !.left = @ - 1]
    BY <1>7
  <2> QED
    BY <1>1, <1>4, <1>5, <1>7, <2>1
<1>8. CASE /\ granted' = granted
           /\ req' = [req EXCEPT ![q] = IF r.left = 0 THEN [n EXCEPT !.pc = "store", !.refused = TRUE]
                                        ELSE Over([n EXCEPT !.refused = TRUE], 502)]
  <2>1. req'[q] = IF r.left = 0 THEN [n EXCEPT !.pc = "store", !.refused = TRUE]
                  ELSE Over([n EXCEPT !.refused = TRUE], 502)
    BY <1>8
  <2> QED
    BY <1>5, <1>6, <1>8, <2>1
<1> QED
  BY <1>2, <1>7, <1>8

(* The map keeps up with Salesforce. *)
LEMMA NextGrantsMapped ==
    ASSUME WebBasics, Shaped, Exclusive, GrantsMapped, [Next]_vars, Orderly'
    PROVE  GrantsMapped'
<1>0. /\ req \in [Requests -> ReqRecords]
      /\ workMap \in [Targets -> Users \cup {None}] /\ granted \in [Targets -> Users \cup {None}]
      /\ \A q \in Requests : Shape(req[q]) /\ Shape(req'[q])
      /\ None \notin Users /\ faults' = faults /\ faults \in Nat
  BY OrderlyBefore, NextWebBasics, OmniChannelAssumption DEF WebBasics, Shaped
<1>1. \A q \in Requests, t \in Targets : Accepting(req[q], t) => granted[t] = req[q].user
  BY DEF GrantsMapped
<1>2. \A t \in Targets : (granted[t] # None /\ Touchable(granted[t])) =>
         \/ workMap[t] = granted[t] \/ t \in stolen
         \/ \E q \in Requests : Accepting(req[q], t)
  BY DEF GrantsMapped
<1>3. ASSUME UNCHANGED <<workMap, granted, stolen, req>>,
             \A u \in Users : Touchable(u)' => Touchable(u)
      PROVE  GrantsMapped'
  <2>1. \A t \in Targets : granted[t] # None => granted[t] \in Users
    BY <1>0
  <2> QED
    BY <1>1, <1>2, <1>3, <2>1 DEF GrantsMapped, Touchable
<1>4. ASSUME NEW q \in Requests, RequestStep(q) \/ CrashRequest(q) PROVE GrantsMapped'
  <2> DEFINE r == req[q]
             s == req'[q]
  <2>0. \A p \in Requests : p # q => req'[p] = req[p]
    BY <1>0, <1>4, OthersKept
  <2>1. \A p \in Requests, t \in Targets :
           p # q /\ Accepting(req[p], t) /\ Locked(r) => req[p].user # r.user
    BY DEF Exclusive, Accepting, Locked
  <2>2. session' = session
    BY <1>4 DEF RequestStep, CrashRequest, Receive, AcquireWebLock, LoadApi, FindWork,
       UnknownStatus, Send, StoreEvent, ExitApi, ReleaseWebLock, tables
  <2>3. CASE Send(q)
    <3>1. UNCHANGED <<workMap, stolen>> /\ r.pc = "send" /\ Locked(r) /\ r.user \in Users
      BY <1>0, <2>3 DEF Send, tables, Locked, Shape
    <3>2. \A t \in Targets : ~Accepting(r, t)
      BY <3>1 DEF Accepting
    <3>3. CASE /\ granted' = granted
               /\ s.pc = "store" => s.refused
      <4>1. \A t \in Targets : ~Accepting(s, t)
        BY <3>3 DEF Accepting
      <4> HIDE DEF r, s
      <4> QED
        BY <1>1, <1>2, <2>0, <2>2, <3>1, <3>2, <3>3, <4>1 DEF GrantsMapped, Touchable, r, s
    <3>4. CASE /\ MayGrant(q) /\ granted' = Granted(q)
               /\ s.user = r.user /\ ~s.refused
               /\ r.left = 0 => s.pc = "store" /\ s.op = r.op /\ s.target = r.target
               /\ r.left # 0 => s.pc # "store"
      <4>1. ASSUME r.op = "accept" PROVE GrantsMapped'
        <5>1. r.left = 0 /\ r.target \in Targets
          BY <1>0, <3>1, <4>1 DEF Shape
        <5>2. /\ granted' = [granted EXCEPT ![r.target] = r.user]
              /\ granted[r.target] \in {None, r.user}
          BY <3>4, <4>1 DEF Granted, MayGrant
        <5>3. Accepting(s, r.target) /\ \A t \in Targets : Accepting(s, t) => t = r.target
          BY <3>4, <4>1, <5>1 DEF Accepting
        <5> HIDE DEF r, s
        <5>4. \A p \in Requests, t \in Targets : p # q /\ Accepting(req[p], t) => t # r.target
          <6> SUFFICES ASSUME NEW p \in Requests, p # q, Accepting(req[p], r.target) PROVE FALSE
            OBVIOUS
          <6>1. granted[r.target] = req[p].user /\ req[p].user \in Users
            BY <1>0, <1>1, <5>1 DEF Accepting, Shape
          <6> QED
            BY <1>0, <2>1, <3>1, <5>1, <5>2, <6>1
        <5>5. \A p \in Requests, t \in Targets : Accepting(req'[p], t) => granted'[t] = req'[p].user
          BY <1>0, <1>1, <2>0, <3>4, <5>1, <5>2, <5>3, <5>4 DEF s
        <5>6. ASSUME NEW t \in Targets, granted'[t] # None, Touchable(granted'[t])
              PROVE  \/ workMap'[t] = granted'[t] \/ t \in stolen'
                     \/ \E p \in Requests : Accepting(req'[p], t)
          BY <1>0, <1>2, <2>0, <3>1, <3>2, <5>1, <5>2, <5>3, <5>6 DEF r, s
        <5> QED
          BY <2>2, <5>5, <5>6 DEF GrantsMapped, Touchable
      <4>2. ASSUME r.op # "accept" PROVE GrantsMapped'
        <5>1. \A t \in Targets : ~Accepting(s, t)
          <6>1. s.pc = "store" => s.op = r.op
            BY <3>4
          <6> QED
            BY <4>2, <6>1 DEF Accepting
        <5>2. \/ granted' = granted
              \/ /\ r.op = "close" /\ r.target \in Targets /\ granted[r.target] = r.user
                 /\ granted' = [granted EXCEPT ![r.target] = None]
          BY <1>0, <3>1, <3>4, <4>2 DEF Granted, MayGrant, Shape
        <5> HIDE DEF r, s
        <5>3. \A p \in Requests, t \in Targets :
                 p # q /\ Accepting(req[p], t) => granted'[t] = granted[t]
          BY <1>0, <1>1, <2>1, <3>1, <5>2
        <5>4. \A p \in Requests, t \in Targets : Accepting(req'[p], t) => granted'[t] = req'[p].user
          BY <1>1, <2>0, <5>1, <5>3 DEF s
        <5>5. ASSUME NEW t \in Targets, granted'[t] # None, Touchable(granted'[t])
              PROVE  \/ workMap'[t] = granted'[t] \/ t \in stolen'
                     \/ \E p \in Requests : Accepting(req'[p], t)
          <6>1. granted'[t] = granted[t]
            BY <1>0, <5>2, <5>5
          <6> QED
            BY <1>2, <2>0, <3>1, <3>2, <5>5, <6>1 DEF r
        <5> QED
          BY <2>2, <5>4, <5>5 DEF GrantsMapped, Touchable
      <4> QED
        BY <4>1, <4>2
    <3> QED
      BY <1>0, <2>3, <3>3, <3>4, SendGrants
  <2>4. CASE StoreEvent(q)
    <3>1. s.pc = "exit" /\ r.pc = "store" /\ granted' = granted /\ r.user \in Users
      BY <1>0, <2>4, StoreMoves DEF StoreEvent, Shape
    <3>2. \A t \in Targets : ~Accepting(s, t)
      BY <3>1 DEF Accepting
    <3>3. /\ \/ Touchable(r.user) /\ r.op = "accept" /\ workMap' = [workMap EXCEPT ![r.target] = r.user]
             \/ ~(Touchable(r.user) /\ r.op = "accept") /\ workMap' = workMap
          /\ stolen' = IF Touchable(r.user) /\ r.op = "accept"
                       THEN IF r.refused THEN stolen \cup {r.target} ELSE stolen \ {r.target}
                       ELSE stolen
      <4>1. faults' # faults + 1
        BY <1>0
      <4> QED
        BY <2>4, <4>1 DEF StoreEvent, Fault, Entered
    <3>4. r.op = "accept" => r.target \in Targets /\ (~r.refused => Accepting(r, r.target))
      BY <1>0, <3>1 DEF Shape, Accepting
    <3>5. \A t \in Targets : Accepting(r, t) => t = r.target /\ r.op = "accept" /\ granted[t] = r.user
      BY <1>1 DEF Accepting
    <3> HIDE DEF r, s
    <3>6. \A p \in Requests, t \in Targets : Accepting(req'[p], t) => granted'[t] = req'[p].user
      BY <1>1, <2>0, <3>1, <3>2 DEF s
    <3>7. ASSUME NEW t \in Targets, granted'[t] # None, Touchable(granted'[t])
          PROVE  \/ workMap'[t] = granted'[t] \/ t \in stolen'
                 \/ \E p \in Requests : Accepting(req'[p], t)
      <4>1. CASE Touchable(r.user) /\ r.op = "accept" /\ t = r.target
        BY <1>0, <3>1, <3>3, <3>4, <3>5, <4>1
      <4>2. CASE ~(Touchable(r.user) /\ r.op = "accept" /\ t = r.target)
        <5>1. workMap'[t] = workMap[t] /\ (t \in stolen' <=> t \in stolen)
          BY <1>0, <3>3, <3>4, <4>2
        <5>2. ~Accepting(r, t)
          BY <3>1, <3>5, <3>7, <4>2
        <5> QED
          BY <1>2, <2>0, <3>1, <3>7, <5>1, <5>2 DEF r
      <4> QED
        BY <4>1, <4>2
    <3> QED
      BY <2>2, <3>6, <3>7 DEF GrantsMapped, Touchable
  <2>5. CASE ~Send(q) /\ ~StoreEvent(q)
    <3>1. UNCHANGED <<workMap, granted, stolen>>
      BY <1>4, <2>5 DEF RequestStep, CrashRequest, Receive, AcquireWebLock, LoadApi, FindWork,
         UnknownStatus, ExitApi, ReleaseWebLock, tables, history
    <3>2. ~CrashRequest(q)
      BY <1>0 DEF CrashRequest, Fault
    <3>3. r.pc # "store"
      BY <1>4, <2>5, <3>2 DEF RequestStep, Receive, AcquireWebLock, LoadApi, FindWork,
         UnknownStatus, ExitApi, ReleaseWebLock
    <3>4. s.pc # "store"
      <4>1. web \in [Users -> Nat \cup {None}]
        BY DEF WebBasics
      <4> QED
        BY <1>0, <1>4, <2>5, <3>2, <4>1, ReceiveMoves, AcquireMoves, LoadMoves, FindMoves,
           UnknownStatusMoves, ExitMoves, EndMoves DEF RequestStep
    <3>5. \A t \in Targets : ~Accepting(r, t) /\ ~Accepting(s, t)
      BY <3>3, <3>4 DEF Accepting
    <3> HIDE DEF r, s
    <3> QED
      BY <1>1, <1>2, <2>0, <2>2, <3>1, <3>5 DEF GrantsMapped, Touchable, r, s
  <2> QED
    BY <2>3, <2>4, <2>5
<1>5. CASE Outer
  BY <1>3, <1>5 DEF Outer, history
<1>6. ASSUME NEW u \in Users, EndLease(u) PROVE GrantsMapped'
  BY <1>3, <1>6 DEF EndLease, tables, history, Touchable
<1> QED
  BY <1>4, <1>5, <1>6, OuterSteps

(* The part of the inductive invariant that is about the web requests. *)
LEMMA NextWebInv ==
    ASSUME WebInv, [Next]_vars
    PROVE  WebInv'
<1>1. WebBasics' /\ Shaped' /\ NumbersBounded'
  BY NextWebBasics, NextNumbersBounded DEF WebInv
<1>2. ASSUME Orderly' PROVE Exclusive' /\ NumbersNew' /\ GrantsMapped'
  <2>1. Exclusive /\ NumbersNew /\ GrantsMapped
    BY <1>2, OrderlyBefore DEF WebInv
  <2> QED
    BY <1>2, <2>1, NextExclusive, NextNumbersNew, NextGrantsMapped DEF WebInv
<1> QED
  BY <1>1, <1>2 DEF WebInv

-----------------------------------------------------------------------------
(* The poller.  Beside it, the web requests leave its variables alone and  *)
(* bring no row back.                                                      *)
WebOnly ==
    /\ UNCHANGED pollVars /\ faults <= faults'
    /\ \A u \in Users : Failed(u)' => Failed(u)
    /\ \A u \in Users : web[u] = None => web'[u] = None

LEMMA WebOnlySteps ==
    ASSUME WebBasics, [Next]_vars
    PROVE  \/ WebOnly
           \/ PollStep \/ CrashPoll \/ Publish
           \/ \E u \in Users : RemoveContexts(u)
<1>0. faults \in Nat /\ session \in [Users -> Statuses]
  BY OmniChannelAssumption DEF WebBasics, Statuses
<1>1. ASSUME NEW q \in Requests, RequestStep(q) \/ CrashRequest(q), UNCHANGED pollVars
      PROVE  WebOnly
  <2>0. session' = session
    BY <1>1 DEF RequestStep, CrashRequest, Receive, AcquireWebLock, LoadApi, FindWork,
       UnknownStatus, Send, StoreEvent, ExitApi, ReleaseWebLock, tables
  <2>1. faults' = faults \/ faults' = faults + 1
    BY <1>1 DEF RequestStep, CrashRequest, Receive, AcquireWebLock, LoadApi, FindWork,
       UnknownStatus, Send, StoreEvent, ExitApi, ReleaseWebLock, Fault
  <2>2. \A u \in Users : web[u] = None => web'[u] = None
    BY <1>1, WebSaved
  <2> QED
    BY <1>0, <1>1, <2>0, <2>1, <2>2 DEF WebOnly, Failed
<1>2. ASSUME NEW u \in Users, EndLease(u), UNCHANGED pollVars PROVE WebOnly
  BY <1>0, <1>2 DEF EndLease, tables, WebOnly, Failed
<1>3. ASSUME NEW u \in Users, EndSession(u), UNCHANGED pollVars PROVE WebOnly
  BY <1>0, <1>3 DEF EndSession, WebOnly, Failed
<1>4. CASE UNCHANGED vars
  BY <1>0, <1>4 DEF vars, webVars, WebOnly, Failed
<1> QED
  BY <1>1, <1>2, <1>3, <1>4 DEF Next, WebNext

(* The first message of an answer, and the rest of it. *)
LEMMA HeadLeft ==
    ASSUME NEW S, NEW data \in Seq(S), data # <<>>
    PROVE  /\ Tail(data) \in Seq(S) /\ Head(data) \in S
           /\ Left(data) = {Head(data)} \cup Left(Tail(data))
           /\ Tail(data) = <<>> => Left(data) = {Head(data)}
<1>1. /\ Len(data) \in Nat /\ Len(data) > 0 /\ Len(Tail(data)) = Len(data) - 1
      /\ Tail(data) \in Seq(S) /\ Head(data) = data[1] /\ Head(data) \in S
      /\ \A i \in 1..Len(Tail(data)) : Tail(data)[i] = data[i + 1]
  OBVIOUS
<1>2. \A n \in Left(data) : n \in {Head(data)} \cup Left(Tail(data))
  <2> SUFFICES ASSUME NEW i \in 1..Len(data)
               PROVE  data[i] \in {Head(data)} \cup Left(Tail(data))
    BY DEF Left
  <2>1. CASE i = 1
    BY <1>1, <2>1
  <2>2. CASE i # 1
    <3>1. i - 1 \in 1..Len(Tail(data)) /\ Tail(data)[i - 1] = data[i]
      BY <1>1, <2>2
    <3> QED
      BY <3>1 DEF Left
  <2> QED
    BY <2>1, <2>2
<1>3. Head(data) \in Left(data)
  BY <1>1 DEF Left
<1>4. \A n \in Left(Tail(data)) : n \in Left(data)
  <2> SUFFICES ASSUME NEW i \in 1..Len(Tail(data)) PROVE Tail(data)[i] \in Left(data)
    BY DEF Left
  <2>1. i + 1 \in 1..Len(data) /\ Tail(data)[i] = data[i + 1]
    BY <1>1
  <2> QED
    BY <2>1 DEF Left
<1>5. Left(<<>>) = {}
  BY DEF Left
<1> QED
  BY <1>1, <1>2, <1>3, <1>4, <1>5

LEMMA TailRises ==
    ASSUME NEW n \in Nat, NEW data \in Seq(1..n), data # <<>>, Rising(data)
    PROVE  Rising(Tail(data)) /\ Head(data) \notin Left(Tail(data))
<1>1. /\ Len(data) \in Nat /\ Len(data) > 0 /\ Len(Tail(data)) = Len(data) - 1
      /\ Head(data) = data[1]
      /\ \A i \in 1..Len(Tail(data)) : Tail(data)[i] = data[i + 1]
      /\ \A i \in 1..Len(data) : data[i] \in 1..n
  OBVIOUS
<1>2. Rising(Tail(data))
  <2> SUFFICES ASSUME NEW i \in 1..Len(Tail(data)), NEW j \in 1..Len(Tail(data)), i < j
               PROVE  Tail(data)[i] < Tail(data)[j]
    BY DEF Rising
  <2>1. i + 1 \in 1..Len(data) /\ j + 1 \in 1..Len(data) /\ i + 1 < j + 1
    BY <1>1
  <2> QED
    BY <1>1, <2>1 DEF Rising
<1>3. ASSUME NEW i \in 1..Len(Tail(data)) PROVE Tail(data)[i] # Head(data)
  <2>1. 1 \in 1..Len(data) /\ i + 1 \in 1..Len(data) /\ 1 < i + 1
    BY <1>1
  <2>2. data[1] < data[i + 1] /\ data[1] \in Nat /\ data[i + 1] \in Nat
    BY <1>1, <2>1 DEF Rising
  <2> QED
    BY <1>1, <2>2
<1> QED
  BY <1>2, <1>3 DEF Left

(* What poll_live_agent answers with, and what ack is after it. *)
LEMMA AskedMessages ==
    ASSUME PollBasics, AskSalesforce
    PROVE  /\ poll' \in PollRecords /\ gap' \in BOOLEAN /\ (gap => gap')
           /\ \/ poll'.pc = "save" /\ poll'.ack = poll.ack
              \/ /\ poll'.pc = "dispatch" /\ poll.ack <= poll'.ack
                 /\ 1..(poll'.ack + 1) \subseteq 1..(poll.ack + 1) \cup Left(poll'.data)
                 /\ Rising(poll'.data)
                 /\ ~gap' => /\ Left(poll'.data) \cap 1..(poll.ack + 1) = {}
                             /\ Left(poll'.data) \subseteq 1..(poll'.ack + 1)
<1>0. /\ poll \in PollRecords /\ poll.pc = "ask" /\ poll.data = <<>> /\ gap \in BOOLEAN
      /\ published \in Nat /\ published' = published
  <2>1. poll.pc = "ask" /\ feed' = feed
    BY DEF AskSalesforce
  <2>2. feed \in Seq(Texts) /\ poll \in PollRecords /\ gap \in BOOLEAN
        /\ (poll.pc = "ask" => poll.data = <<>>)
    BY DEF PollBasics
  <2> QED
    BY <2>1, <2>2 DEF published
<1>1. poll.ack \in -1..(published - 1) /\ PollRecords' = PollRecords
  BY <1>0 DEF PollRecords
<1>2. ASSUME NEW from \in {poll.ack + 2, poll.ack + 3}, NEW to \in from..published,
             poll' = [poll EXCEPT !.pc = "dispatch",
                                  !.data = [i \in 1..(to - from + 1) |-> from + i - 1],
                                  !.ack = Acked(to - from + 1, to - 1)],
             gap' = (gap \/ from # poll.ack + 2)
      PROVE  /\ poll' \in PollRecords /\ gap' \in BOOLEAN /\ (gap => gap')
             /\ poll'.pc = "dispatch" /\ poll.ack <= poll'.ack
             /\ 1..(poll'.ack + 1) \subseteq 1..(poll.ack + 1) \cup Left(poll'.data)
             /\ Rising(poll'.data)
             /\ ~gap' => /\ Left(poll'.data) \cap 1..(poll.ack + 1) = {}
                         /\ Left(poll'.data) \subseteq 1..(poll'.ack + 1)
  <2> DEFINE n == to - from + 1
             data == [i \in 1..n |-> from + i - 1]
             a == Acked(n, to - 1)
             b == poll.ack
  <2>1. /\ b \in -1..(published - 1) /\ from \in Int /\ to \in Int /\ from <= to /\ to <= published
        /\ from = b + 2 \/ from = b + 3
    BY <1>0, <1>1
  <2>2. n \in Nat /\ data \in Seq(1..published) /\ Len(data) = n
        /\ \A i \in 1..n : data[i] = from + i - 1
    <3>1. n \in Nat /\ \A i \in 1..n : from + i - 1 \in 1..published
      BY <1>0, <2>1
    <3> HIDE DEF n
    <3> QED
      BY <3>1
  <2>3. a = IF from = b + 2 THEN to - 1 ELSE b
    BY <2>1 DEF Acked, MatchesAck
  <2>4. poll' = [poll EXCEPT !.pc = "dispatch", !.data = data, !.ack = a]
    BY <1>2
  <2>5. a \in -1..(published - 1) /\ b <= a
    BY <1>0, <2>1, <2>3
  <2>6. Left(data) = from..to
    <3>1. \A i \in 1..n : data[i] \in from..to
      BY <2>1, <2>2
    <3>2. ASSUME NEW m \in from..to PROVE m - from + 1 \in 1..n /\ data[m - from + 1] = m
      <4>1. m - from + 1 \in 1..n /\ from + (m - from + 1) - 1 = m
        BY <2>1
      <4> DEFINE i == m - from + 1
      <4>2. i \in 1..n /\ from + i - 1 = m
        BY <4>1
      <4> HIDE DEF n, data, i
      <4>3. data[i] = m
        BY <2>2, <4>2
      <4> QED
        BY <4>2, <4>3 DEF i
    <3> HIDE DEF n, data
    <3> QED
      BY <2>2, <3>1, <3>2 DEF Left
  <2>7. Rising(data)
    <3> HIDE DEF data, n
    <3> QED
      BY <2>1, <2>2 DEF Rising
  <2> HIDE DEF data, a, n
  <2>8. poll' \in PollRecords /\ poll'.pc = "dispatch" /\ poll'.data = data /\ poll'.ack = a
    BY <1>0, <2>2, <2>4, <2>5 DEF PollRecords
  <2>9. 1..(a + 1) \subseteq 1..(b + 1) \cup (from..to)
    BY <2>1, <2>3
  <2>10. (from..to) \cap 1..(b + 1) = {} /\ (from = b + 2 => from..to \subseteq 1..(a + 1))
    BY <2>1, <2>3
  <2> QED
    BY <1>0, <1>2, <2>5, <2>6, <2>7, <2>8, <2>9, <2>10
<1>3. CASE poll' = [poll EXCEPT !.pc = "save"] /\ gap' = gap
  <2>1. poll' \in PollRecords /\ poll'.pc = "save" /\ poll'.ack = poll.ack
    BY <1>0, <1>3 DEF PollRecords
  <2> QED
    BY <1>0, <1>3, <2>1
<1>4. CASE /\ poll' = [poll EXCEPT !.pc = "dispatch", !.shutdown = TRUE, !.ack = Acked(1, poll.ack)]
           /\ gap' = gap
  <2>1. Acked(1, poll.ack) = poll.ack
    BY <1>1 DEF Acked, MatchesAck
  <2>2. poll' \in PollRecords /\ poll'.pc = "dispatch" /\ poll'.ack = poll.ack /\ poll'.data = <<>>
    BY <1>0, <1>4, <2>1 DEF PollRecords
  <2>3. Left(poll'.data) = {} /\ Rising(poll'.data)
    BY <2>2 DEF Left, Rising
  <2> QED
    BY <1>0, <1>1, <1>4, <2>2, <2>3
<1> QED
  BY <1>2, <1>3, <1>4 DEF AskSalesforce

(* One message goes through the dispatcher. *)
LEMMA DispatchMoves ==
    ASSUME PollBasics, DispatchMessage
    PROVE  /\ poll.pc = "dispatch" /\ poll.data # <<>> /\ poll.data \in Seq(1..published)
           /\ Head(poll.data) \in 1..published
           /\ poll' \in PollRecords /\ poll'.ack = poll.ack /\ poll'.shutdown = poll.shutdown
           /\ \/ /\ examined' = examined \cup {Head(poll.data)}
                 /\ submitted' \in {submitted, submitted \cup {Head(poll.data)}}
                 /\ repeated' \in BOOLEAN
                 /\ Head(poll.data) \notin submitted => repeated' = repeated
              \/ UNCHANGED <<examined, submitted, repeated>>
           /\ \/ /\ poll'.pc \in {"dispatch", "save"} /\ poll'.data = Tail(poll.data)
                 /\ examined' = examined \cup {Head(poll.data)}
                 /\ poll'.pc = "save" => Tail(poll.data) = <<>>
                 /\ faults' = faults
              \/ poll'.pc = "fail" /\ faults' = faults + 1
<1> DEFINE m == Head(poll.data)
           rest == Tail(poll.data)
           put == IF Worthy(feed[m]) THEN {m} ELSE {}
           next == IF rest = <<>> THEN "save" ELSE "dispatch"
<1>1. /\ poll \in PollRecords /\ feed \in Seq(Texts) /\ repeated \in BOOLEAN
      /\ PollRecords' = PollRecords
  <2>1. feed' = feed
    BY DEF DispatchMessage
  <2> QED
    BY <2>1 DEF PollBasics, PollRecords, published
<1>2. poll.pc = "dispatch" /\ poll.data # <<>>
  BY DEF DispatchMessage
<1>3. poll.data \in Seq(1..published) /\ m \in 1..published /\ rest \in Seq(1..published)
  <2>1. poll.data \in Seq(1..published)
    BY <1>1 DEF PollRecords
  <2> QED
    BY <1>2, <2>1, HeadLeft
<1>4. feed[m] \in Texts
  BY <1>1, <1>3 DEF published
<1>5. put \in {{}, {m}} /\ next \in {"dispatch", "save"} /\ (next = "save" => rest = <<>>)
  OBVIOUS
<1>6. \/ /\ examined' = examined \cup {m} /\ submitted' = submitted \cup put
         /\ repeated' = (repeated \/ put \cap submitted # {})
         /\ poll' = [poll EXCEPT !.data = rest, !.seen = @ \cup {feed[m]}, !.pc = next]
         /\ faults' = faults
      \/ /\ \/ /\ examined' = examined \cup {m} /\ submitted' = submitted \cup put
               /\ repeated' = (repeated \/ put \cap submitted # {})
            \/ UNCHANGED <<examined, submitted, repeated>>
         /\ poll' = [poll EXCEPT !.pc = "fail"] /\ faults' = faults + 1
  BY DEF DispatchMessage, Fault
<1> HIDE DEF m, rest, put, next
<1>7. submitted \cup put \in {submitted, submitted \cup {m}}
      /\ (m \notin submitted => put \cap submitted = {})
  BY <1>5
<1>8. CASE /\ examined' = examined \cup {m} /\ submitted' = submitted \cup put
           /\ repeated' = (repeated \/ put \cap submitted # {})
           /\ poll' = [poll EXCEPT !.data = rest, !.seen = @ \cup {feed[m]}, !.pc = next]
           /\ faults' = faults
  <2>1. /\ poll' \in PollRecords /\ poll'.ack = poll.ack /\ poll'.shutdown = poll.shutdown
        /\ poll'.pc = next /\ poll'.data = rest
    BY <1>1, <1>3, <1>4, <1>5, <1>8 DEF PollRecords
  <2>2. repeated' \in BOOLEAN /\ (m \notin submitted => repeated' = repeated)
    BY <1>1, <1>7, <1>8, Zenon
  <2> QED
    BY <1>2, <1>3, <1>5, <1>7, <1>8, <2>1, <2>2 DEF m, rest
<1>9. CASE poll' = [poll EXCEPT !.pc = "fail"] /\ faults' = faults + 1
  <2>1. /\ poll' \in PollRecords /\ poll'.ack = poll.ack /\ poll'.shutdown = poll.shutdown
        /\ poll'.pc = "fail"
    BY <1>1, <1>9 DEF PollRecords
  <2>2. \/ /\ examined' = examined \cup {m} /\ submitted' = submitted \cup put
           /\ repeated' = (repeated \/ put \cap submitted # {})
        \/ UNCHANGED <<examined, submitted, repeated>>
    BY <1>6
  <2>3. \/ /\ examined' = examined \cup {m}
           /\ submitted' \in {submitted, submitted \cup {m}}
           /\ repeated' \in BOOLEAN
           /\ m \notin submitted => repeated' = repeated
        \/ UNCHANGED <<examined, submitted, repeated>>
    BY <1>1, <1>7, <2>2, Zenon
  <2> QED
    BY <1>2, <1>3, <1>9, <2>1, <2>3 DEF m
<1> QED
  BY <1>6, <1>8, <1>9

NoPollFields ==
    /\ NoPoll \in PollRecords
    /\ NoPoll.pc = "idle" /\ NoPoll.ack = -1 /\ NoPoll.data = <<>> /\ ~NoPoll.shutdown

LEMMA NoPollIsIdle ==
    ASSUME published \in Nat
    PROVE  NoPollFields
BY DEF NoPoll, PollRecords, NoPollFields

(* Types of the poller's state. *)
LEMMA NextPollBasics ==
    ASSUME WebBasics, PollBasics, [Next]_vars
    PROVE  PollBasics'
<1>0. /\ feed \in Seq(Texts) /\ published \in Nat /\ published <= MaxWork
      /\ ack \in (-1..(published - 1)) \cup {None}
      /\ poll \in PollRecords /\ (poll.pc = "ask" => poll.data = <<>>)
      /\ examined \subseteq 1..published /\ submitted \subseteq examined
      /\ event \in BOOLEAN /\ repeated \in BOOLEAN /\ gap \in BOOLEAN /\ told \in BOOLEAN
      /\ begun \in Nat /\ MaxWork \in Nat /\ Polled \in Users
  BY OmniChannelAssumption, PollAssumption DEF PollBasics, WebBasics, published
<1>1. poll.ack \in -1..(published - 1) /\ NoPollFields
  BY <1>0, NoPollIsIdle DEF PollRecords
<1>2. ASSUME feed' = feed, ack' \in (-1..(published - 1)) \cup {None}, poll' \in PollRecords,
             poll'.pc = "ask" => poll'.data = <<>>,
             UNCHANGED <<examined, submitted, repeated, gap>>,
             event' \in BOOLEAN, told' \in BOOLEAN
      PROVE  PollBasics'
  <2>1. published' = published /\ PollRecords' = PollRecords
    BY <1>2 DEF published, PollRecords
  <2> QED
    BY <1>0, <1>2, <2>1 DEF PollBasics
<1>3. CASE WebOnly
  BY <1>0, <1>2, <1>3 DEF WebOnly, pollVars
<1>4. CASE StartPoll
  <2>1. /\ UNCHANGED <<feed, ack, examined, submitted, repeated, gap, told>>
        /\ event' \in BOOLEAN
        /\ \/ poll' = [NoPoll EXCEPT !.pc = "ask", !.ack = ack] /\ ack # None
           \/ poll' = poll
    BY <1>0, <1>4 DEF StartPoll, pollHistory
  <2>2. ack # None => [NoPoll EXCEPT !.pc = "ask", !.ack = ack] \in PollRecords
                      /\ [NoPoll EXCEPT !.pc = "ask", !.ack = ack].data = <<>>
    BY <1>0, <1>1 DEF NoPollFields, PollRecords
  <2> QED
    BY <1>0, <1>2, <2>1, <2>2
<1>5. CASE AskSalesforce
  <2>1. feed' = feed /\ UNCHANGED <<ack, event, examined, submitted, repeated, told>>
    BY <1>5 DEF AskSalesforce
  <2>2. published' = published /\ PollRecords' = PollRecords
    BY <2>1 DEF published, PollRecords
  <2>3. poll' \in PollRecords /\ gap' \in BOOLEAN /\ poll'.pc # "ask"
    BY <1>5, AskedMessages
  <2> QED
    BY <1>0, <2>1, <2>2, <2>3 DEF PollBasics
<1>6. CASE DispatchMessage
  <2>1. feed' = feed /\ UNCHANGED <<ack, event, gap, told>>
    BY <1>6 DEF DispatchMessage
  <2>2. published' = published /\ PollRecords' = PollRecords
    BY <2>1 DEF published, PollRecords
  <2>3. /\ poll' \in PollRecords /\ poll'.pc # "ask" /\ repeated' \in BOOLEAN
        /\ examined' \subseteq 1..published /\ submitted' \subseteq examined'
    BY <1>0, <1>6, DispatchMoves
  <2> QED
    BY <1>0, <2>1, <2>2, <2>3 DEF PollBasics
<1>7. CASE DispatchShutdown
  <2>1. /\ feed' = feed /\ UNCHANGED <<ack, event, examined, submitted, repeated, gap>>
        /\ told' \in BOOLEAN
        /\ poll' \in {[poll EXCEPT !.pc = "fail"], [poll EXCEPT !.pc = "fail", !.shutdown = FALSE]}
    BY <1>0, <1>7 DEF DispatchShutdown
  <2>2. poll' \in PollRecords /\ poll'.pc = "fail"
    BY <1>0, <2>1 DEF PollRecords
  <2> QED
    BY <1>0, <1>2, <2>1, <2>2
<1>8. CASE SavePoll
  <2>1. /\ feed' = feed /\ UNCHANGED <<event, examined, submitted, repeated, gap, told>>
        /\ ack' \in {ack, None, poll.ack}
        /\ poll' \in {NoPoll, [poll EXCEPT !.pc = "fail"]}
    BY <1>8 DEF SavePoll, SavedAck, pollHistory
  <2>2. poll' \in PollRecords /\ poll'.pc # "ask"
    BY <1>0, <1>1, <2>1 DEF NoPollFields, PollRecords
  <2> QED
    BY <1>0, <1>1, <1>2, <2>1, <2>2
<1>9. CASE FailSession
  <2>1. /\ feed' = feed /\ UNCHANGED <<event, examined, submitted, repeated, gap, told>>
        /\ ack' = None
        /\ poll' \in {NoPoll, [NoPoll EXCEPT !.pc = "delete"]}
    BY <1>9 DEF FailSession, pollHistory
  <2>2. poll' \in PollRecords /\ poll'.pc # "ask"
    BY <1>1, <2>1 DEF NoPollFields, PollRecords
  <2> QED
    BY <1>0, <1>2, <2>1, <2>2
<1>10. CASE DeletePollEvent \/ CrashPoll
  <2>1. /\ UNCHANGED <<feed, ack, examined, submitted, repeated, gap, told>>
        /\ event' \in BOOLEAN /\ poll' = NoPoll
    BY <1>0, <1>10 DEF DeletePollEvent, CrashPoll, pollHistory
  <2> QED
    BY <1>0, <1>1, <1>2, <2>1 DEF NoPollFields
<1>11. CASE Publish
  <2>1. PICK text \in Texts : feed' = Append(feed, text)
    BY <1>11 DEF Publish
  <2>2. feed' \in Seq(Texts) /\ published' = published + 1 /\ published + 1 <= MaxWork
    BY <1>0, <1>11, <2>1 DEF Publish, published
  <2>3. UNCHANGED <<ack, event, poll, examined, submitted, repeated, gap, told>>
    BY <1>11 DEF Publish, pollHistory
  <2>4. poll \in PollRecords'
    <3>1. poll.ack \in -1..(published' - 1) /\ poll.data \in Seq(1..published')
      <4>1. poll.data \in Seq(1..published)
        BY <1>0 DEF PollRecords
      <4>2. 1..published \subseteq 1..published'
        BY <1>0, <2>2
      <4> QED
        BY <1>0, <1>1, <2>2, <4>1, <4>2
    <3> QED
      BY <1>0, <3>1 DEF PollRecords
  <2>5. /\ ack \in (-1..(published' - 1)) \cup {None} /\ examined \subseteq 1..published'
    BY <1>0, <2>2
  <2> HIDE DEF published
  <2> QED
    BY <1>0, <2>2, <2>3, <2>4, <2>5 DEF PollBasics
<1>12. ASSUME NEW u \in Users, RemoveContexts(u) PROVE PollBasics'
  <2>1. /\ UNCHANGED <<feed, event, poll, examined, submitted, repeated, gap, told>>
        /\ ack' \in {ack, None}
    BY <1>12 DEF RemoveContexts, pollHistory
  <2> QED
    BY <1>0, <1>2, <2>1
<1> QED
  BY <1>3, <1>4, <1>5, <1>6, <1>7, <1>8, <1>9, <1>10, <1>11, <1>12, WebOnlySteps DEF PollStep

(* What each step of the poller does to its place, its settings and the    *)
(* messages it has been through.                                           *)
LEMMA PollerMoves ==
    ASSUME PollBasics, PollStep \/ CrashPoll \/ Publish \/ \E u \in Users : RemoveContexts(u)
    PROVE  \/ /\ poll'.pc \in {"idle", "fail", "delete"}
              /\ ack' \in {ack, None} /\ UNCHANGED <<examined, submitted, repeated>>
              /\ poll'.pc = "fail" \/ ack' = None \/ poll.pc = "delete" \/ faults' = faults + 1
           \/ UNCHANGED <<poll, examined, submitted, repeated>> /\ ack' \in {ack, None}
           \/ /\ poll'.pc = "ask" /\ ack # None /\ poll'.ack = ack
              /\ UNCHANGED <<ack, examined, submitted, repeated>>
              /\ poll.pc = "idle" /\ event
           \/ AskSalesforce /\ UNCHANGED <<ack, examined, submitted, repeated>>
           \/ DispatchMessage /\ ack' = ack
           \/ /\ poll.pc = "save" /\ poll'.pc = "idle" /\ ack' \in {None, poll.ack}
              /\ UNCHANGED <<examined, submitted, repeated>>
<1>0. published \in Nat /\ poll \in PollRecords
  BY DEF PollBasics, published
<1>1. NoPollFields
  BY <1>0, NoPollIsIdle
<1>2. CASE StartPoll
  <2>1. ack # None => [NoPoll EXCEPT !.pc = "ask", !.ack = ack].pc = "ask"
                      /\ [NoPoll EXCEPT !.pc = "ask", !.ack = ack].ack = ack
    BY DEF NoPoll
  <2> QED
    BY <1>2, <2>1 DEF StartPoll, pollHistory
<1>3. CASE AskSalesforce
  BY <1>3 DEF AskSalesforce
<1>4. CASE DispatchMessage
  BY <1>4 DEF DispatchMessage
<1>5. CASE DispatchShutdown
  <2>1. poll'.pc = "fail"
    BY <1>0, <1>5 DEF DispatchShutdown, PollRecords
  <2> QED
    BY <1>5, <2>1 DEF DispatchShutdown
<1>6. CASE SavePoll
  <2>1. [poll EXCEPT !.pc = "fail"].pc = "fail"
    BY <1>0 DEF PollRecords
  <2> QED
    BY <1>1, <1>6, <2>1 DEF SavePoll, SavedAck, NoPollFields, pollHistory
<1>7. CASE FailSession
  <2>1. [NoPoll EXCEPT !.pc = "delete"].pc = "delete"
    BY DEF NoPoll
  <2> QED
    BY <1>1, <1>7, <2>1 DEF FailSession, NoPollFields, pollHistory
<1>8. CASE DeletePollEvent \/ CrashPoll
  BY <1>1, <1>8 DEF DeletePollEvent, CrashPoll, Fault, NoPollFields, pollHistory
<1>9. CASE Publish
  BY <1>9 DEF Publish, pollHistory
<1>10. ASSUME NEW u \in Users, RemoveContexts(u)
       PROVE  UNCHANGED <<poll, examined, submitted, repeated>> /\ ack' \in {ack, None}
  BY <1>10 DEF RemoveContexts, pollHistory
<1> QED
  BY <1>2, <1>3, <1>4, <1>5, <1>6, <1>7, <1>8, <1>9, <1>10 DEF PollStep

(* Nothing is acknowledged that the dispatcher has not been through.       *)
LEMMA NextAckCovered ==
    ASSUME WebBasics, PollBasics, AckCovered, [Next]_vars
    PROVE  AckCovered'
<1>0. /\ ack # None => 1..(ack + 1) \subseteq examined
      /\ poll.pc \in {"ask", "save"} => 1..(poll.ack + 1) \subseteq examined
      /\ poll.pc = "dispatch" => 1..(poll.ack + 1) \subseteq examined \cup Left(poll.data)
  BY DEF AckCovered
<1>1. CASE UNCHANGED <<poll, examined>> /\ ack' \in {ack, None}
  BY <1>0, <1>1 DEF AckCovered
<1>2. CASE poll'.pc \in {"idle", "fail", "delete"} /\ ack' \in {ack, None} /\ examined' = examined
  BY <1>0, <1>2 DEF AckCovered
<1>3. CASE poll'.pc = "ask" /\ ack # None /\ poll'.ack = ack /\ UNCHANGED <<ack, examined>>
  BY <1>0, <1>3 DEF AckCovered
<1>4. CASE AskSalesforce /\ UNCHANGED <<ack, examined>>
  <2>1. 1..(poll.ack + 1) \subseteq examined
    BY <1>0, <1>4 DEF AskSalesforce
  <2> QED
    BY <1>0, <1>4, <2>1, AskedMessages DEF AckCovered
<1>5. CASE DispatchMessage /\ ack' = ack
  <2>1. /\ poll.pc = "dispatch" /\ poll'.ack = poll.ack /\ examined \subseteq examined'
        /\ \/ /\ poll'.pc \in {"dispatch", "save"} /\ poll'.data = Tail(poll.data)
              /\ examined' = examined \cup {Head(poll.data)}
              /\ poll'.pc = "save" => Tail(poll.data) = <<>>
           \/ poll'.pc = "fail"
    BY <1>5, DispatchMoves
  <2>2. /\ Left(poll.data) = {Head(poll.data)} \cup Left(Tail(poll.data))
        /\ Tail(poll.data) = <<>> => Left(poll.data) = {Head(poll.data)}
    BY <1>5, DispatchMoves, HeadLeft
  <2>3. poll'.data = Tail(poll.data) => Left(poll'.data) = Left(Tail(poll.data))
    OBVIOUS
  <2> QED
    BY <1>0, <1>5, <2>1, <2>2, <2>3 DEF AckCovered
<1>6. CASE /\ poll.pc = "save" /\ poll'.pc = "idle" /\ ack' \in {None, poll.ack}
           /\ examined' = examined
  BY <1>0, <1>6 DEF AckCovered
<1>7. CASE WebOnly
  BY <1>1, <1>7 DEF WebOnly, pollVars
<1> QED
  BY <1>1, <1>2, <1>3, <1>4, <1>5, <1>6, <1>7, PollerMoves, WebOnlySteps

(* A message that was submitted is behind ack, so that it is new when it   *)
(* comes.                                                                  *)
LEMMA NextFirstTime ==
    ASSUME WebBasics, PollBasics, faults = 0, ~gap => FirstTime, [Next]_vars, faults' = 0, ~gap'
    PROVE  FirstTime'
<1>0. /\ ~repeated /\ ~gap /\ repeated \in BOOLEAN
      /\ poll.pc \in {"idle", "delete"} /\ ack # None => submitted \subseteq 1..(ack + 1)
      /\ poll.pc \in {"ask", "dispatch", "save"} => submitted \subseteq 1..(poll.ack + 1)
      /\ poll.pc = "dispatch" => /\ Rising(poll.data) /\ submitted \cap Left(poll.data) = {}
                                 /\ Left(poll.data) \subseteq 1..(poll.ack + 1)
  <2>1. gap \in BOOLEAN /\ repeated \in BOOLEAN
    BY DEF PollBasics
  <2>2. gap => gap'
    <3>1. gap' # gap => AskSalesforce
      BY DEF Next, vars, pollVars, pollHistory, PollStep, StartPoll, DispatchMessage,
         DispatchShutdown, SavePoll, FailSession, DeletePollEvent, CrashPoll, Publish, RemoveContexts
    <3>2. CASE gap' = gap
      BY <3>2
    <3>3. CASE AskSalesforce
      BY <3>3, AskedMessages
    <3> QED
      BY <3>1, <3>2, <3>3
  <2>3. ~gap
    BY <2>2
  <2> QED
    BY <2>1, <2>3 DEF FirstTime
<1>1. CASE UNCHANGED <<poll, submitted, repeated>> /\ ack' \in {ack, None}
  BY <1>0, <1>1 DEF FirstTime
<1>2. CASE /\ poll'.pc \in {"idle", "fail", "delete"} /\ ack' \in {ack, None}
           /\ UNCHANGED <<submitted, repeated>>
           /\ poll'.pc = "fail" \/ ack' = None \/ poll.pc = "delete" \/ faults' = faults + 1
  BY <1>0, <1>2 DEF FirstTime
<1>3. CASE /\ poll'.pc = "ask" /\ ack # None /\ poll'.ack = ack /\ poll.pc = "idle"
           /\ UNCHANGED <<ack, submitted, repeated>>
  BY <1>0, <1>3 DEF FirstTime
<1>4. CASE AskSalesforce /\ UNCHANGED <<ack, submitted, repeated>>
  <2>1. poll.pc = "ask" /\ poll.ack \in Int
    <3>1. poll.pc = "ask"
      BY <1>4 DEF AskSalesforce
    <3>2. poll \in PollRecords
      BY DEF PollBasics
    <3> QED
      BY <3>1, <3>2 DEF PollRecords
  <2>2. submitted \subseteq 1..(poll.ack + 1)
    BY <1>0, <2>1
  <2>3. \/ poll'.pc = "save" /\ poll'.ack = poll.ack
        \/ /\ poll'.pc = "dispatch" /\ poll.ack <= poll'.ack /\ Rising(poll'.data)
           /\ Left(poll'.data) \cap 1..(poll.ack + 1) = {}
           /\ Left(poll'.data) \subseteq 1..(poll'.ack + 1)
    BY <1>4, AskedMessages
  <2>4. poll'.ack \in Int
    <3>1. poll' \in PollRecords
      BY <1>4, AskedMessages
    <3> QED
      BY <3>1 DEF PollRecords
  <2>5. 1..(poll.ack + 1) \subseteq 1..(poll'.ack + 1)
    BY <2>1, <2>3, <2>4
  <2> QED
    BY <1>0, <1>4, <2>2, <2>3, <2>5 DEF FirstTime
<1>5. CASE DispatchMessage /\ ack' = ack
  <2> DEFINE m == Head(poll.data)
             rest == Tail(poll.data)
  <2>1. /\ poll.pc = "dispatch" /\ poll'.ack = poll.ack /\ repeated' \in BOOLEAN
        /\ \/ /\ submitted' \in {submitted, submitted \cup {m}}
              /\ m \notin submitted => repeated' = repeated
           \/ UNCHANGED <<submitted, repeated>>
        /\ \/ /\ poll'.pc \in {"dispatch", "save"} /\ poll'.data = rest
              /\ poll'.pc = "save" => rest = <<>>
           \/ poll'.pc = "fail"
    BY <1>0, <1>5, DispatchMoves
  <2>2. Left(poll.data) = {m} \cup Left(rest) /\ Rising(rest) /\ m \notin Left(rest)
    <3>1. published \in Nat
      BY DEF PollBasics, published
    <3> QED
      BY <1>0, <1>5, <2>1, <3>1, DispatchMoves, HeadLeft, TailRises
  <2>3. /\ Rising(poll.data) /\ submitted \cap Left(poll.data) = {}
        /\ Left(poll.data) \subseteq 1..(poll.ack + 1)
        /\ submitted \subseteq 1..(poll.ack + 1)
    BY <1>0, <2>1
  <2>4. repeated' = repeated
    BY <2>1, <2>2, <2>3
  <2>5. submitted' \subseteq submitted \cup {m}
    BY <2>1
  <2>6. submitted' \subseteq 1..(poll.ack + 1) /\ submitted' \cap Left(rest) = {}
        /\ Left(rest) \subseteq 1..(poll.ack + 1)
    BY <2>2, <2>3, <2>5
  <2>7. CASE poll'.pc \in {"dispatch", "save"} /\ poll'.data = rest
    <3>1. poll'.data = rest => Rising(poll'.data) /\ Left(poll'.data) = Left(rest)
      BY <2>2
    <3> HIDE DEF rest, m
    <3> QED
      BY <1>0, <2>1, <2>4, <2>6, <2>7, <3>1 DEF FirstTime
  <2>8. CASE poll'.pc = "fail"
    BY <1>0, <2>4, <2>8 DEF FirstTime
  <2> QED
    BY <2>1, <2>7, <2>8
<1>6. CASE /\ poll.pc = "save" /\ poll'.pc = "idle" /\ ack' \in {None, poll.ack}
           /\ UNCHANGED <<submitted, repeated>>
  BY <1>0, <1>6 DEF FirstTime
<1>7. CASE WebOnly
  BY <1>1, <1>7 DEF WebOnly, pollVars
<1> QED
  BY <1>1, <1>2, <1>3, <1>4, <1>5, <1>6, <1>7, PollerMoves, WebOnlySteps

(* Rows of contexts do not come back to a session that failed.             *)
LEMMA NextFailedEmpty ==
    ASSUME WebBasics, PollBasics, FailedEmpty, [Next]_vars
    PROVE  FailedEmpty'
<1>0. /\ session \in [Users -> Statuses] /\ web \in [Users -> Nat \cup {None}] /\ Polled \in Users
      /\ \A u \in Users : Failed(u) => web[u] = None /\ (u = Polled => ack = None)
  BY PollAssumption DEF WebBasics, Statuses, FailedEmpty
<1>1. ASSUME \A u \in Users : Failed(u)' => Failed(u), ack = None => ack' = None,
             \A u \in Users : web[u] = None => web'[u] = None
      PROVE  FailedEmpty'
  BY <1>0, <1>1 DEF FailedEmpty
<1>2. CASE WebOnly
  BY <1>1, <1>2 DEF WebOnly, pollVars
<1>3. CASE FailSession
  <2>1. /\ ack' = None /\ web' = [web EXCEPT ![Polled] = None]
        /\ \A u \in Users : u # Polled => session'[u] = session[u]
    BY <1>0, <1>3 DEF FailSession
  <2> QED
    BY <1>0, <2>1 DEF FailedEmpty, Failed
<1>4. CASE SavePoll
  <2>1. UNCHANGED <<session, web>> /\ (ack = None => ack' = None)
    BY <1>4 DEF SavePoll, SavedAck, webTables
  <2> QED
    BY <1>1, <2>1 DEF Failed
<1>5. CASE StartPoll \/ AskSalesforce \/ DispatchMessage \/ DispatchShutdown \/ DeletePollEvent
           \/ CrashPoll \/ Publish
  <2>1. UNCHANGED <<session, web, ack>>
    BY <1>5 DEF StartPoll, AskSalesforce, DispatchMessage, DispatchShutdown, DeletePollEvent,
       CrashPoll, Publish, webTables, webVars
  <2> QED
    BY <1>1, <2>1 DEF Failed
<1>6. ASSUME NEW u \in Users, RemoveContexts(u) PROVE FailedEmpty'
  BY <1>0, <1>1, <1>6 DEF RemoveContexts, Failed
<1> QED
  BY <1>2, <1>3, <1>4, <1>5, <1>6, WebOnlySteps DEF PollStep

(* With no fault, a session fails after its user has been told only, and   *)
(* then its event goes.                                                    *)
LEMMA NextFailedTold ==
    ASSUME WebBasics, PollBasics, faults = 0, FailedTold, [Next]_vars, faults' = 0
    PROVE  FailedTold'
<1>0. /\ session \in [Users -> Statuses] /\ Polled \in Users /\ poll \in PollRecords /\ NoPollFields
      /\ poll.pc = "fail" => poll.shutdown /\ told
      /\ poll.pc = "delete" => told
      /\ Failed(Polled) => told /\ (poll.pc = "delete" \/ (poll.pc = "idle" /\ ~event))
      /\ event \in BOOLEAN
  BY NoPollIsIdle, PollAssumption DEF WebBasics, PollBasics, Statuses, FailedTold, published
<1>1. ASSUME Failed(Polled)' => Failed(Polled), UNCHANGED <<poll, event, told>> PROVE FailedTold'
  BY <1>0, <1>1 DEF FailedTold
<1>2. CASE WebOnly
  BY <1>0, <1>1, <1>2 DEF WebOnly, pollVars, pollHistory
<1>3. CASE FailSession
  <2>1. told' = told /\ poll' = [NoPoll EXCEPT !.pc = "delete"]
    BY <1>0, <1>3 DEF FailSession, pollHistory
  <2>2. poll'.pc = "delete"
    BY <2>1 DEF NoPoll
  <2> QED
    BY <1>0, <1>3, <2>1, <2>2 DEF FailSession, FailedTold
<1>4. CASE SavePoll
  <2>1. poll' = NoPoll /\ poll.pc = "save" /\ session' = session
    BY <1>4 DEF SavePoll, Fault, webTables
  <2> QED
    BY <1>0, <2>1 DEF FailedTold, Failed, NoPollFields
<1>5. CASE DispatchShutdown
  <2>1. told' = TRUE /\ poll' = [poll EXCEPT !.pc = "fail"] /\ session' = session
        /\ poll.pc = "dispatch" /\ poll.shutdown
    BY <1>5 DEF DispatchShutdown, Fault, webTables
  <2>2. poll'.pc = "fail" /\ poll'.shutdown
    BY <1>0, <2>1 DEF PollRecords
  <2> QED
    BY <1>0, <2>1, <2>2 DEF FailedTold, Failed
<1>6. CASE DeletePollEvent
  <2>1. event' = FALSE /\ poll' = NoPoll /\ UNCHANGED <<session, told>> /\ poll.pc = "delete"
    BY <1>6 DEF DeletePollEvent, webVars, pollHistory
  <2> QED
    BY <1>0, <2>1 DEF FailedTold, Failed, NoPollFields
<1>7. CASE StartPoll
  <2>1. \/ poll' = [NoPoll EXCEPT !.pc = "ask", !.ack = ack] /\ session[Polled] = "ACTIVE"
        \/ poll' = poll /\ event' = FALSE
    BY <1>7 DEF StartPoll
  <2>2. UNCHANGED <<session, told>>
    BY <1>7 DEF StartPoll, webVars, pollHistory
  <2>3. [NoPoll EXCEPT !.pc = "ask", !.ack = ack].pc = "ask"
    BY DEF NoPoll
  <2> QED
    BY <1>0, <2>1, <2>2, <2>3 DEF FailedTold, Failed
<1>8. CASE AskSalesforce
  <2>1. poll.pc = "ask" /\ UNCHANGED <<session, told>> /\ poll'.pc \in {"dispatch", "save"}
    BY <1>8, AskedMessages DEF AskSalesforce, webVars
  <2> QED
    BY <1>0, <2>1 DEF FailedTold, Failed
<1>9. CASE DispatchMessage
  <2>1. poll.pc = "dispatch" /\ poll'.pc \in {"dispatch", "save"}
    BY <1>9, DispatchMoves
  <2>2. UNCHANGED <<session, told>>
    BY <1>9 DEF DispatchMessage, webTables
  <2> QED
    BY <1>0, <2>1, <2>2 DEF FailedTold, Failed
<1>10. CASE Publish
  BY <1>0, <1>1, <1>10 DEF Publish, webVars, pollHistory, Failed
<1>11. ASSUME NEW u \in Users, RemoveContexts(u) PROVE FailedTold'
  BY <1>0, <1>1, <1>11 DEF RemoveContexts, pollHistory, Failed
<1>12. ~CrashPoll
  BY DEF CrashPoll, Fault
<1> QED
  BY <1>2, <1>3, <1>4, <1>5, <1>6, <1>7, <1>8, <1>9, <1>10, <1>11, <1>12, WebOnlySteps DEF PollStep

-----------------------------------------------------------------------------
(* The inductive invariant. *)
LEMMA FaultsGrow ==
    ASSUME WebBasics, [Next]_vars
    PROVE  faults <= faults' /\ faults \in Nat /\ (faults' = 0 => faults = 0)
<1>0. faults \in Nat
  BY OmniChannelAssumption DEF WebBasics
<1>1. CASE Outer
  <2>1. faults <= faults' /\ faults' \in 0..MaxFaults
    BY <1>1 DEF Outer
  <2> QED
    BY <1>0, <2>1, OmniChannelAssumption
<1>2. ASSUME NEW q \in Requests, RequestStep(q) \/ CrashRequest(q)
      PROVE  faults' = faults \/ faults' = faults + 1
  BY <1>2 DEF RequestStep, CrashRequest, Receive, AcquireWebLock, LoadApi, FindWork,
     UnknownStatus, Send, StoreEvent, ExitApi, ReleaseWebLock, Fault
<1>3. ASSUME NEW u \in Users, EndLease(u) PROVE faults' = faults
  BY <1>3 DEF EndLease
<1> QED
  BY <1>0, <1>1, <1>2, <1>3, OuterSteps

(* A session is there with its contexts, or about to be. *)
LEMMA InitIInv == Init => IInv
<1> SUFFICES ASSUME Init PROVE IInv
  OBVIOUS
<1>0. /\ WebInit /\ (ack = -1 \/ ack = None) /\ event \in BOOLEAN /\ feed = <<>> /\ poll = NoPoll
      /\ examined = {} /\ submitted = {} /\ repeated = FALSE /\ gap = FALSE /\ told = FALSE
      /\ session \in [Users -> {"PENDING", "ACTIVE"}]
      /\ req = [q \in Requests |-> Rest] /\ begun = 0 /\ lapses = 0 /\ faults = 0
      /\ MaxRequests \in Nat /\ MaxFaults \in Nat /\ MaxWork \in Nat
  BY OmniChannelAssumption, PollAssumption DEF Init, WebInit
<1>1. \A q \in Requests : req[q] = Rest
  BY <1>0
<1>2. WebBasics /\ Shaped
  <2>1. Shaped
    BY <1>1, RestFields DEF Shaped
  <2>2. req \in [Requests -> ReqRecords]
    BY <1>0, RestFields
  <2>3. session \in [Users -> Statuses]
    BY <1>0 DEF Statuses
  <2>4. web \in [Users -> Nat \cup {None}]
    BY <1>0 DEF WebInit
  <2>5. webLock \in [Users -> Requests \cup {Free, Dead}] /\ sent \in [Users -> SUBSET Nat]
    BY <1>0 DEF WebInit
  <2>6. /\ workMap \in [Targets -> Users \cup {None}] /\ before \in [Targets -> Users \cup {None}]
        /\ granted \in [Targets -> Users \cup {None}]
    BY <1>0 DEF WebInit
  <2>7. reused \in BOOLEAN /\ stolen = {}
    BY <1>0 DEF WebInit
  <2> QED
    BY <1>0, <2>1, <2>2, <2>3, <2>4, <2>5, <2>6, <2>7 DEF WebBasics, Statuses
<1>3. NumbersBounded
  <2>1. Active = {}
    BY <1>1, RestFields DEF Active
  <2>2. IsFiniteSet(Active) /\ Cardinality(Active) = 0 /\ Finished = 0
    BY <1>0, <2>1, FS_EmptySet DEF Finished
  <2>3. \A q \in Requests : ~Counting(req[q])
    BY <1>1, RestFields DEF Counting
  <2> QED
    BY <1>0, <2>2, <2>3 DEF WebInit, NumbersBounded
<1>4. Exclusive /\ NumbersNew /\ GrantsMapped
  <2>1. \A q \in Requests : ~Counting(req[q]) /\ ~Locked(req[q])
    BY <1>1, RestFields DEF Counting, Locked
  <2>2. \A q \in Requests, t \in Targets : ~Accepting(req[q], t)
    BY <1>1, RestFields DEF Accepting
  <2> QED
    BY <1>0, <2>1, <2>2 DEF WebInit, Exclusive, NumbersNew, GrantsMapped
<1>5. published = 0 /\ feed \in Seq(Texts)
  BY <1>0 DEF published
<1>6. NoPollFields
  BY <1>5, NoPollIsIdle
<1>7. PollBasics
  <2>1. ack \in (-1..(published - 1)) \cup {None} /\ published <= MaxWork
    BY <1>0, <1>5
  <2>2. poll \in PollRecords /\ poll.pc = "idle"
    BY <1>0, <1>6 DEF NoPollFields
  <2> QED
    BY <1>0, <1>5, <2>1, <2>2 DEF PollBasics
<1>8. AckCovered
  BY <1>0, <1>6 DEF AckCovered, NoPollFields
<1>9. FirstTime
  BY <1>0, <1>6 DEF FirstTime, NoPollFields
<1>10. \A u \in Users : ~Failed(u)
  BY <1>0 DEF Failed
<1>11. FailedEmpty /\ FailedTold
  BY <1>0, <1>6, <1>10, PollAssumption DEF FailedEmpty, FailedTold, NoPollFields
<1> QED
  BY <1>2, <1>3, <1>4, <1>7, <1>8, <1>9, <1>11 DEF IInv, WebInv, PollInv

LEMMA NextIInv == IInv /\ [Next]_vars => IInv'
<1> SUFFICES ASSUME IInv, [Next]_vars PROVE IInv'
  OBVIOUS
<1>0. WebInv /\ WebBasics /\ PollBasics /\ AckCovered /\ FailedEmpty
  BY DEF IInv, WebInv, PollInv
<1>1. WebInv'
  BY <1>0, NextWebInv
<1>2. PollBasics' /\ AckCovered' /\ FailedEmpty'
  BY <1>0, NextPollBasics, NextAckCovered, NextFailedEmpty
<1>3. ASSUME faults' = 0 PROVE FailedTold'
  BY <1>0, <1>3, FaultsGrow, NextFailedTold DEF IInv, PollInv
<1>4. ASSUME faults' = 0, ~gap' PROVE FirstTime'
  <2>1. faults = 0
    BY <1>0, <1>4, FaultsGrow
  <2>2. ~gap => FirstTime
    BY <2>1 DEF IInv, PollInv
  <2> QED
    BY <1>0, <1>4, <2>1, <2>2, NextFirstTime
<1> QED
  BY <1>1, <1>2, <1>3, <1>4 DEF IInv, PollInv

THEOREM SpecIInv == Spec => []IInv
BY InitIInv, NextIInv, PTL DEF Spec

-----------------------------------------------------------------------------
(* The rows and the requests keep within the bounds on the numbers. *)
LEMMA Types == IInv => TypeOK
<1> SUFFICES ASSUME IInv PROVE TypeOK
  OBVIOUS
<1>0. WebBasics /\ Shaped /\ NumbersBounded /\ PollBasics
  BY DEF IInv, WebInv, PollInv
<1>1. /\ req \in [Requests -> ReqRecords] /\ begun \in 0..MaxRequests /\ MaxRequests \in Nat
      /\ \A q \in Requests : Shape(req[q]) /\ req[q] \in ReqRecords
  BY <1>0, OmniChannelAssumption DEF WebBasics, Shaped
<1>2. /\ IsFiniteSet(Active) /\ Cardinality(Active) \in Nat /\ Cardinality(Active) <= begun
  BY <1>0, FS_CardinalityType DEF NumbersBounded
<1>3. Finished \in Nat /\ Finished <= MaxRequests
  BY <1>1, <1>2 DEF Finished
<1>4. ASSUME NEW q \in Requests, req[q].pc \in ActivePCs PROVE Finished + 1 <= MaxRequests
  <2>1. Cardinality(Active) # 0
    BY <1>2, <1>4, FS_EmptySet DEF Active, ActivePCs
  <2> QED
    BY <1>1, <1>2, <2>1 DEF Finished
<1>5. \A u \in Users : web[u] = None \/ web[u] \in 1..(3 * MaxRequests + 1)
  <2> DEFINE F == Finished
  <2>1. \A u \in Users : web[u] # None => web[u] \in 1..(3 * F + 1)
    BY <1>0 DEF NumbersBounded
  <2>2. F \in Nat /\ F <= MaxRequests
    BY <1>3
  <2> HIDE DEF F
  <2> QED
    BY <1>1, <2>1, <2>2
<1>6. ASSUME NEW q \in Requests PROVE req[q].seq \in 0..(3 * MaxRequests + 1)
  <2> DEFINE r == req[q]
             F == Finished
  <2>1. r.pc \in {"idle", "lock", "load", "release"} => r.seq = 0
    BY <1>1 DEF Shape
  <2>2. Counting(r) => r.first > 0 /\ r.seq = r.first + r.asked /\ r.first <= 3 * F + 1
    BY <1>0 DEF NumbersBounded
  <2>3. r.seq \in Nat /\ r.first \in Nat /\ r.asked \in 0..3
        /\ (Counting(r) \/ r.pc \in {"idle", "lock", "load", "release"})
    BY <1>1 DEF ReqRecords, Counting
  <2>4. F \in Nat /\ (Counting(r) => F + 1 <= MaxRequests)
    BY <1>3, <1>4 DEF Counting, ActivePCs
  <2> HIDE DEF F, r
  <2>5. r.seq \in 0..(3 * MaxRequests + 1)
    BY <1>1, <2>1, <2>2, <2>3, <2>4
  <2> QED
    BY <2>5 DEF r
<1>7. \A q \in Requests :
        /\ req[q].pc \in {"idle", "lock", "load", "find", "send", "store", "exit", "release"}
        /\ req[q].user \in Users \cup {None} /\ req[q].op \in Ops /\ req[q].target \in Targets \cup {None}
        /\ req[q].left \in 0..2
        /\ req[q].code \in {0, 204, 400, 401, 403, 404, 409, 415, 500, 502}
  BY <1>1 DEF ReqRecords, Codes
<1>8. WebTypeOK
  BY <1>0, <1>5, <1>6, <1>7 DEF WebTypeOK, WebBasics, NumbersBounded
<1>9. /\ poll.pc \in {"idle", "ask", "dispatch", "save", "fail", "delete"}
      /\ poll.ack \in -1..(published - 1) /\ poll.data \in Seq(1..published)
      /\ poll.shutdown \in BOOLEAN /\ poll.seen \subseteq Texts
  BY <1>0 DEF PollBasics, PollRecords
<1>10. /\ published \in Nat /\ MaxWork \in Nat /\ published <= MaxWork
       /\ ack \in (-1..(published - 1)) \cup {None} /\ examined \subseteq 1..published
  BY <1>0, PollAssumption DEF PollBasics, published
<1>11. /\ ack = None \/ ack \in -1..(MaxWork - 1)
       /\ poll.ack \in -1..(MaxWork - 1) /\ poll.data \in Seq(Numbers)
       /\ examined \subseteq Numbers
  <2>1. 1..published \subseteq Numbers
    BY <1>10 DEF Numbers
  <2> QED
    BY <1>9, <1>10, <2>1
<1> QED
  BY <1>0, <1>8, <1>9, <1>10, <1>11 DEF TypeOK, PollBasics

(* A session's calls have numbers of their own: one is used again only     *)
(* after a lease ended under a request, or a request failed or died        *)
(* (add_headers, load_api and __exit__ in omnichannel_api.py).             *)
THEOREM NumbersPaidForHolds == Spec => []NumbersPaidFor
<1>1. IInv => NumbersPaidFor
  <2> SUFFICES ASSUME IInv, reused, ~(lapses + faults > 0) PROVE FALSE
    BY DEF NumbersPaidFor
  <2>1. lapses \in Nat /\ faults \in Nat
    BY OmniChannelAssumption DEF IInv, WebInv, WebBasics
  <2>2. Orderly
    BY <2>1 DEF Orderly
  <2> QED
    BY <2>2 DEF IInv, WebInv, NumbersNew
<1> QED
  BY SpecIInv, <1>1, PTL

(* Work that Salesforce gave to a user is in the work id map once no       *)
(* request is about it (accept_work, store_event and event_received), when *)
(* nothing fails.                                                          *)
THEOREM GrantedIsMappedHolds == Spec => []GrantedIsMapped
<1>1. IInv => GrantedIsMapped
  <2> SUFFICES ASSUME IInv, NEW t \in Targets, granted[t] # None, Touchable(granted[t]),
                      faults + lapses = 0, \A q \in Requests : req[q].target # t
               PROVE  workMap[t] = granted[t] \/ t \in stolen
    BY DEF GrantedIsMapped
  <2>1. lapses \in Nat /\ faults \in Nat
    BY OmniChannelAssumption DEF IInv, WebInv, WebBasics
  <2>2. Orderly
    BY <2>1 DEF Orderly
  <2>3. GrantsMapped
    BY <2>2 DEF IInv, WebInv
  <2> QED
    BY <2>3 DEF GrantsMapped, Accepting
<1> QED
  BY SpecIInv, <1>1, PTL

(* The answer to a request says what was done for it (_OmniChannelApi,     *)
(* check_exception and the exception handlers of the web app).             *)
THEOREM AnswersHonestHolds == Spec => []AnswersHonest
<1>1. IInv => AnswersHonest
  BY DEF IInv, WebInv, Shaped, Shape, AnswersHonest
<1> QED
  BY SpecIInv, <1>1, PTL

(* A message is put as a notification twice only when something failed     *)
(* (add_message_data and examine_message).                                 *)
THEOREM RepeatsPaidForHolds == Spec => []RepeatsPaidFor
<1>1. IInv => RepeatsPaidFor
  <2> SUFFICES ASSUME IInv, repeated, ~(faults > 0), ~gap PROVE FALSE
    BY DEF RepeatsPaidFor
  <2>1. faults \in Nat
    BY OmniChannelAssumption DEF IInv, WebInv, WebBasics
  <2> QED
    BY <2>1 DEF IInv, PollInv, FirstTime
<1> QED
  BY SpecIInv, <1>1, PTL

(* A session that set_failed has put is over: no context of it is left or  *)
(* comes back, and with no fault its user was told before and it is not    *)
(* polled again.                                                           *)
THEOREM FailedIsOverHolds == Spec => []FailedIsOver
<1>1. IInv => FailedIsOver
  <2> SUFFICES ASSUME IInv PROVE FailedIsOver
    OBVIOUS
  <2>1. TypeOK
    BY Types
  <2>2. faults \in Nat
    BY OmniChannelAssumption DEF IInv, WebInv, WebBasics
  <2>3. \A u \in Users : session[u] \in {"FAILED", "stub"} => web[u] = None /\ (u = Polled => ack = None)
    BY DEF IInv, PollInv, FailedEmpty, Failed
  <2>4. session[Polled] \in {"FAILED", "stub"} /\ poll.pc = "idle" => (told /\ ~event) \/ faults > 0
    BY <2>2 DEF IInv, PollInv, FailedTold, Failed
  <2> QED
    BY <2>1, <2>3, <2>4 DEF FailedIsOver
<1> QED
  BY SpecIInv, <1>1, PTL

(* The poller implements a consumer that handles every message at least    *)
(* once: Salesforce is never told to forget one that the dispatcher has    *)
(* not been through.                                                       *)
THEOREM NoMessageLostHolds == Spec => NoMessageLost
<1> DEFINE saved == IF ack = None THEN 0 ELSE ack + 1
<1>1. Init => Messages!Init
  <2> SUFFICES ASSUME Init PROVE Messages!Init
    OBVIOUS
  <2>1. published = 0 /\ examined = {} /\ (ack = -1 \/ ack = None)
    BY DEF Init, published
  <2> QED
    BY <2>1 DEF Messages!Init
<1>2. IInv /\ [Next]_vars => [Messages!Next]_(Messages!vars)
  <2> SUFFICES ASSUME IInv, [Next]_vars PROVE [Messages!Next]_(Messages!vars)
    OBVIOUS
  <2>0. /\ WebBasics /\ PollBasics /\ AckCovered /\ AckCovered' /\ PollBasics'
        /\ published \in Nat /\ None \notin Int
    BY NextIInv, OmniChannelAssumption DEF IInv, WebInv, PollInv, PollBasics, published
  <2>1. ASSUME UNCHANGED <<feed, examined>>, ack' \in {None, ack, poll.ack}
        PROVE  [Messages!Next]_(Messages!vars)
    <3>1. published' = published
      BY <2>1 DEF published
    <3>2. saved' \in 0..published /\ 1..(saved') \subseteq examined
      <4>1. /\ ack' \in (-1..(published - 1)) \cup {None}
            /\ ack' # None => 1..(ack' + 1) \subseteq examined
        BY <2>0, <2>1, <3>1 DEF PollBasics, AckCovered
      <4>2. CASE ack' = None
        <5>1. saved' = 0
          BY <4>2
        <5> QED
          BY <2>0, <5>1
      <4>3. CASE ack' # None
        <5>1. saved' = ack' + 1 /\ ack' \in -1..(published - 1)
          BY <4>1, <4>3
        <5>2. 1..(saved') \subseteq examined
          BY <4>1, <4>3, <5>1
        <5>3. PICK n \in -1..(published - 1) : ack' = n
          BY <5>1
        <5>4. n + 1 \in 0..published /\ saved' = n + 1
          BY <2>0, <5>1, <5>3
        <5> QED
          BY <5>2, <5>4
      <4> QED
        BY <4>2, <4>3
    <3>3. Messages!Save
      <4> DEFINE n == saved'
      <4>1. n \in 0..published /\ saved' = n /\ 1..n \subseteq examined \cup {}
        BY <3>2
      <4> QED
        BY <2>1, <3>1, <3>2, <4>1 DEF Messages!Save
    <3> QED
      BY <3>3 DEF Messages!Next
  <2>2. CASE WebOnly
    BY <2>2 DEF WebOnly, pollVars, Messages!vars, published
  <2>3. CASE DispatchMessage
    <3>1. UNCHANGED <<feed, ack>> /\ published' = published
      BY <2>3 DEF DispatchMessage, published
    <3>2. Head(poll.data) \in 1..published
          /\ (examined' = examined \cup {Head(poll.data)} \/ examined' = examined)
      BY <2>0, <2>3, DispatchMoves
    <3> QED
      BY <3>1, <3>2 DEF Messages!Next, Messages!Handle, Messages!vars
  <2>4. CASE Publish
    <3>1. PICK text \in Texts : feed' = Append(feed, text)
      BY <2>4 DEF Publish
    <3>2. published' = published + 1 /\ UNCHANGED <<ack, examined>>
      BY <2>0, <2>4, <3>1 DEF Publish, published, pollHistory, PollBasics
    <3> QED
      BY <3>2 DEF Messages!Next, Messages!Publish
  <2>5. CASE SavePoll
    <3>1. UNCHANGED <<feed, examined>> /\ ack' \in {None, ack, poll.ack}
      BY <2>5 DEF SavePoll, SavedAck, pollHistory
    <3> QED
      BY <2>1, <3>1
  <2>6. CASE StartPoll \/ AskSalesforce \/ DispatchShutdown \/ FailSession \/ DeletePollEvent \/ CrashPoll
    <3>1. UNCHANGED <<feed, examined>> /\ ack' \in {ack, None}
      BY <2>6 DEF StartPoll, AskSalesforce, DispatchShutdown, FailSession, DeletePollEvent,
         CrashPoll, pollHistory
    <3> QED
      BY <2>1, <3>1
  <2>7. ASSUME NEW u \in Users, RemoveContexts(u) PROVE [Messages!Next]_(Messages!vars)
    <3>1. UNCHANGED <<feed, examined>> /\ ack' \in {ack, None}
      BY <2>7 DEF RemoveContexts, pollHistory
    <3> QED
      BY <2>1, <3>1
  <2> QED
    BY <2>0, <2>2, <2>3, <2>4, <2>5, <2>6, <2>7, WebOnlySteps DEF PollStep
<1> QED
  BY SpecIInv, <1>1, <1>2, PTL DEF Spec, NoMessageLost, Messages!Spec
=============================================================================
