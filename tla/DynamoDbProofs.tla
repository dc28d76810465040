--------------------------- MODULE DynamoDbProofs ---------------------------
(***************************************************************************)
(* For any table, any number of writers and readers and any number of lost *)
(* answers: one writer wins a version of a row, what a writer is told is   *)
(* what happened, and a reader's pages cover what it asked for.  The last  *)
(* rests on what the range keys are: text whose order is that of the due   *)
(* times.                                                                  *)
(***************************************************************************)
EXTENDS DynamoDb, FiniteSetTheorems, SequenceTheorems, WellFoundedInduction, TLAPS

(* A state check is made with a counter that was read. *)
GoodRequests == {q \in Requests : q.kind \in {"update_if", "delete_if"} => q.counter \in Nat}
GoodJob(reqs) == reqs \in Seq(GoodRequests) /\ Len(reqs) \in 1..2 /\ Distinct(reqs)

Answers == {None, "done", "refused"} \cup 0..2
Jobs == [op : {"idle", "single", "transact", "batch"}, id : Nat, reqs : Seq(GoodRequests), todo : SUBSET (1..2),
         answer : Answers, applied : Nat, lost : BOOLEAN, failing : SUBSET (1..2)]
Copies == [key : RowKeys, row : Rows]

RowsOK == births \in Nat /\ DOMAIN table \subseteq RowKeys
          /\ \A k \in DOMAIN table : table[k] \in Rows /\ table[k].made <= births

WritersOK ==
    /\ copy \in [Writers -> {None} \cup Copies] /\ begun \in Nat
    /\ job \in [Writers -> Jobs]
    /\ \A w \in Writers : /\ job[w].op # "idle" => GoodJob(job[w].reqs)
                          /\ job[w].op = "batch" => \A i \in DOMAIN job[w].reqs :
                                                        job[w].reqs[i].kind \in {"replace", "delete"}

(* The row that a state check was passed on has a higher counter, or is    *)
(* another row.                                                            *)
Advanced ==
    \A x \in wins : /\ x[2] \in Nat /\ x[3] \in Nat /\ x[2] <= births
                    /\ (x[1] \in DOMAIN table /\ table[x[1]].made = x[2])
                           => table[x[1]].counter \in Nat /\ x[3] < table[x[1]].counter

(* What has been applied is told, or the answer was lost on its way. *)
Told(j) ==
    /\ j.todo \subseteq DOMAIN j.reqs
    /\ j.op = "single" => /\ j.answer \in {None, "done", "refused"}
                          /\ j.answer = "done" => j.applied > 0
                          /\ j.answer # "done" => j.applied = 0 \/ j.lost
    /\ j.op = "transact" => /\ j.answer \in {None} \cup 0..2
                            /\ j.answer = 0 => j.applied = 1
                            /\ j.answer # 0 => j.applied = 0
                            /\ j.answer \in 1..2 => j.answer \in j.failing
    /\ j.op = "batch" => /\ j.applied = Len(j.reqs) - Cardinality(j.todo)
                         /\ j.answer # None => j.todo = {}

IInv == RowsOK /\ WritersOK /\ Advanced /\ OneWinner /\ \A w \in Writers : Told(job[w])

-----------------------------------------------------------------------------
(* What a writer submits. *)
LEMMA RequestFields ==
    ASSUME NEW kind \in Kinds, NEW k \in RowKeys, NEW on \in BOOLEAN, NEW c \in Nat \cup {None},
           kind \in {"update_if", "delete_if"} => c \in Nat
    PROVE  /\ Req(kind, k, on, c) \in GoodRequests
           /\ Req(kind, k, on, c).kind = kind /\ Req(kind, k, on, c).key = k
BY DEF Req, GoodRequests, Requests

LEMMA PlainFields ==
    ASSUME NEW kind \in Kinds, NEW k \in RowKeys, kind \notin {"update_if", "delete_if"}
    PROVE  Plain(kind, k) \in GoodRequests /\ Plain(kind, k).kind = kind
BY DEF Plain, Req, GoodRequests, Requests

LEMMA OneRequest ==
    ASSUME NEW q \in GoodRequests
    PROVE  GoodJob(<<q>>) /\ DOMAIN <<q>> = {1} /\ <<q>>[1] = q
BY DEF GoodJob, Distinct

LEMMA TwoRequests ==
    ASSUME NEW p \in GoodRequests, NEW q \in GoodRequests, Distinct(<<p, q>>)
    PROVE  GoodJob(<<p, q>>) /\ DOMAIN <<p, q>> = {1, 2} /\ <<p, q>>[1] = p /\ <<p, q>>[2] = q
BY DEF GoodJob

LEMMA CheckedGood ==
    ASSUME WritersOK, NEW w \in Writers, NEW q \in Checked(w)
    PROVE  q \in GoodRequests
<1>1. copy[w] \in Copies /\ copy[w].row.counter # None
  BY DEF Checked, WritersOK
<1>2. copy[w].key \in RowKeys /\ copy[w].row.counter \in Nat /\ (~copy[w].row.active) \in BOOLEAN
  BY <1>1 DEF Copies, Rows
<1>3. PICK kind \in {"update_if", "delete_if"} :
        q = Req(kind, copy[w].key, ~copy[w].row.active, copy[w].row.counter)
  BY DEF Checked
<1>4. kind \in Kinds
  BY DEF Kinds
<1> QED
  BY <1>2, <1>3, <1>4, RequestFields

LEMMA SinglesGood ==
    ASSUME WritersOK, NEW w \in Writers, NEW reqs, reqs \in Singles(w)
    PROVE  GoodJob(reqs)
<1>1. CASE copy[w] # None
  <2>1. PICK q \in Checked(w) : reqs = <<q>>
    BY <1>1 DEF Singles
  <2> QED
    BY <2>1, CheckedGood, OneRequest
<1>2. CASE copy[w] = None
  <2>1. PICK kind \in {"create", "replace", "update", "delete"}, k \in RowKeys : reqs = <<Plain(kind, k)>>
    BY <1>2 DEF Singles
  <2>2. kind \in Kinds /\ kind \notin {"update_if", "delete_if"}
    BY DEF Kinds
  <2> QED
    BY <2>1, <2>2, PlainFields, OneRequest
<1> QED
  BY <1>1, <1>2

LEMMA TransactionsGood ==
    ASSUME WritersOK, NEW w \in Writers, NEW reqs, reqs \in Transactions(w), Distinct(reqs)
    PROVE  GoodJob(reqs)
<1>1. \A kind \in {"create", "update", "upsert", "delete", "delete_present"}, k \in RowKeys :
        Plain(kind, k) \in GoodRequests
  <2> SUFFICES ASSUME NEW kind \in {"create", "update", "upsert", "delete", "delete_present"},
                      NEW k \in RowKeys
               PROVE  Plain(kind, k) \in GoodRequests
    OBVIOUS
  <2>1. kind \in Kinds /\ kind \notin {"update_if", "delete_if"}
    BY DEF Kinds
  <2> QED
    BY <2>1, PlainFields
<1>2. CASE copy[w] # None
  <2>1. PICK q \in Checked(w), k \in RowKeys : reqs = <<q, Plain("create", k)>>
    BY <1>2 DEF Transactions
  <2> QED
    BY <1>1, <2>1, CheckedGood, TwoRequests
<1>3. CASE copy[w] = None
  <2>1. PICK k \in RowKeys, l \in RowKeys :
          \/ reqs = <<Plain("delete_present", k), Plain("create", l)>>
          \/ reqs = <<Plain("update", k), Plain("update", l)>>
          \/ reqs = <<Plain("upsert", k), Plain("delete", l)>>
    <3>1. \/ \E p \in RowKeys \X RowKeys : reqs = <<Plain("delete_present", p[1]), Plain("create", p[2])>>
          \/ \E p \in RowKeys \X RowKeys : reqs = <<Plain("update", p[1]), Plain("update", p[2])>>
          \/ \E p \in RowKeys \X RowKeys : reqs = <<Plain("upsert", p[1]), Plain("delete", p[2])>>
      BY <1>3 DEF Transactions
    <3>2. \A p \in RowKeys \X RowKeys : p[1] \in RowKeys /\ p[2] \in RowKeys
      OBVIOUS
    <3> QED
      BY <3>1, <3>2, Zenon
  <2> QED
    BY <1>1, <2>1, TwoRequests
<1> QED
  BY <1>2, <1>3

LEMMA BatchesGood ==
    ASSUME NEW reqs, reqs \in Batches, Distinct(reqs)
    PROVE  GoodJob(reqs) /\ \A i \in DOMAIN reqs : reqs[i].kind \in {"replace", "delete"}
<1>1. PICK kind \in {"replace", "delete"}, k \in RowKeys, l \in RowKeys :
        reqs = <<Plain(kind, k), Plain("delete", l)>>
  <2>1. \E kind \in {"replace", "delete"}, p \in RowKeys \X RowKeys :
          reqs = <<Plain(kind, p[1]), Plain("delete", p[2])>>
    BY DEF Batches
  <2>2. \A p \in RowKeys \X RowKeys : p[1] \in RowKeys /\ p[2] \in RowKeys
    OBVIOUS
  <2> QED
    BY <2>1, <2>2, Zenon
<1>2. \A any \in {"replace", "delete"}, m \in RowKeys : Plain(any, m) \in GoodRequests
                                                         /\ Plain(any, m).kind = any
  <2> SUFFICES ASSUME NEW any \in {"replace", "delete"}, NEW m \in RowKeys
               PROVE  Plain(any, m) \in GoodRequests /\ Plain(any, m).kind = any
    OBVIOUS
  <2>1. any \in Kinds /\ any \notin {"update_if", "delete_if"}
    BY DEF Kinds
  <2> QED
    BY <2>1, PlainFields
<1> QED
  BY <1>1, <1>2, TwoRequests

-----------------------------------------------------------------------------
(* What requests do to the rows. *)
AllPass(reqs) == \A q \in reqs : q.kind = "update_if" => Passes(table, q)

LEMMA EffectRows ==
    ASSUME RowsOK, NEW Q \in SUBSET GoodRequests, AllPass(Q), \A p, q \in Q : p.key = q.key => p = q,
           Becomes(Effect(table, Q))
    PROVE  /\ RowsOK'
           /\ \A k \in DOMAIN table' :
                 \/ table'[k].made = births + 1
                 \/ /\ k \in DOMAIN table /\ table'[k].made = table[k].made
                    /\ \/ table'[k].counter = table[k].counter
                       \/ table[k].counter \in Nat /\ table'[k].counter = table[k].counter + 1
           /\ \A q \in Q : q.kind = "update_if" =>
                 /\ q.key \in DOMAIN table /\ table[q.key].counter = q.counter
                 /\ q.key \in DOMAIN table' /\ table'[q.key].made = table[q.key].made
                 /\ table'[q.key].counter = q.counter + 1
<1> DEFINE about(k) == {q \in Q : q.key = k}
           keys == {q.key : q \in Q}
           gone == {q.key : q \in {q \in Q : Removes(q)}}
<1>1. table' = [k \in (DOMAIN table \cup keys) \ gone |->
                   IF k \in keys THEN RowAfter(table, CHOOSE q \in about(k) : TRUE) ELSE table[k]]
      /\ births' = births + 1
  BY DEF Becomes, Effect
<1>2. ASSUME NEW q \in Q PROVE (CHOOSE p \in about(q.key) : TRUE) = q
  <2>1. about(q.key) = {q}
    OBVIOUS
  <2> QED
    BY <2>1
<1>3. ASSUME NEW k \in DOMAIN table'
      PROVE  \/ k \in DOMAIN table /\ table'[k] = table[k]
             \/ \E q \in Q : q.key = k /\ ~Removes(q) /\ table'[k] = RowAfter(table, q)
  <2>1. CASE k \notin keys
    BY <1>1, <1>3, <2>1
  <2>2. CASE k \in keys
    <3>1. PICK q \in Q : q.key = k
      BY <2>2
    <3> HIDE DEF about
    <3> QED
      BY <1>1, <1>2, <1>3, <3>1
  <2> QED
    BY <2>1, <2>2
<1>4. ASSUME NEW q \in Q, ~Removes(q) PROVE q.key \in DOMAIN table' /\ table'[q.key] = RowAfter(table, q)
  <2>1. q.key \notin gone /\ q.key \in keys
    BY <1>4
  <2> HIDE DEF about, gone, keys
  <2> QED
    BY <1>1, <1>2, <2>1
<1>5. ASSUME NEW q \in Q
      PROVE  /\ q.key \in RowKeys /\ q.active \in BOOLEAN /\ q.kind \in Kinds
             /\ q.kind \in {"update_if", "delete_if"} => q.counter \in Nat
             /\ q.kind = "update_if" => q.key \in DOMAIN table /\ table[q.key].counter = q.counter
  <2>1. q \in GoodRequests
    OBVIOUS
  <2> QED
    BY <2>1 DEF GoodRequests, Requests, AllPass, Passes
<1>6. ASSUME NEW q \in Q, ~Removes(q)
      PROVE  /\ RowAfter(table, q) \in Rows /\ RowAfter(table, q).made <= births + 1
             /\ \/ RowAfter(table, q).made = births + 1
                \/ /\ q.key \in DOMAIN table /\ RowAfter(table, q).made = table[q.key].made
                   /\ \/ q.kind # "update_if" /\ RowAfter(table, q).counter = table[q.key].counter
                      \/ q.kind = "update_if" /\ RowAfter(table, q).counter = q.counter + 1
             /\ q.kind = "update_if" => RowAfter(table, q).made = table[q.key].made
                                        /\ RowAfter(table, q).counter = q.counter + 1
  <2> DEFINE x == table[q.key]
             row == RowAfter(table, q)
  <2>1. births \in Nat /\ (q.key \in DOMAIN table => x \in Rows /\ x.made <= births)
    BY DEF RowsOK
  <2>2. CASE q.kind \in {"create", "replace"}
    <3>1. row = [counter |-> 0, active |-> q.active, made |-> births + 1]
      BY <2>2 DEF RowAfter
    <3> QED
      BY <1>5, <2>1, <2>2, <3>1 DEF Rows
  <2>3. CASE q.kind = "update_if"
    <3>1. row = [x EXCEPT !.active = q.active, !.counter = q.counter + 1]
      BY <2>3 DEF RowAfter
    <3>2. x \in Rows /\ x.made <= births /\ q.counter + 1 \in Nat /\ q.active \in BOOLEAN /\ q.key \in DOMAIN table
      BY <1>5, <2>1, <2>3
    <3> HIDE DEF x, row
    <3>3. row \in Rows /\ row.made = x.made /\ row.counter = q.counter + 1
      BY <3>1, <3>2 DEF Rows
    <3>4. x.made \in Nat
      BY <3>2 DEF Rows
    <3> QED
      BY <2>1, <2>3, <3>2, <3>3, <3>4 DEF x, row
  <2>4. CASE q.kind \notin {"create", "replace", "update_if"} /\ q.key \in DOMAIN table
    <3>1. row = [x EXCEPT !.active = q.active]
      BY <2>4 DEF RowAfter
    <3>2. x \in Rows /\ x.made <= births /\ q.active \in BOOLEAN
      BY <1>5, <2>1, <2>4
    <3> HIDE DEF x, row
    <3>3. row \in Rows /\ row.made = x.made /\ row.counter = x.counter
      BY <3>1, <3>2 DEF Rows
    <3>4. x.made \in Nat
      BY <3>2 DEF Rows
    <3> QED
      BY <2>1, <2>4, <3>2, <3>3, <3>4 DEF x, row
  <2>5. CASE q.kind \notin {"create", "replace", "update_if"} /\ q.key \notin DOMAIN table
    <3>1. row = [counter |-> None, active |-> q.active, made |-> births + 1]
      BY <2>5 DEF RowAfter
    <3> QED
      BY <1>5, <2>1, <2>5, <3>1 DEF Rows
  <2> QED
    BY <2>2, <2>3, <2>4, <2>5
<1> HIDE DEF about, keys, gone
<1>7. RowsOK'
  <2>1. \A k \in DOMAIN table' : k \in RowKeys /\ table'[k] \in Rows /\ table'[k].made <= births + 1
    <3>1. ASSUME NEW k \in DOMAIN table, table'[k] = table[k]
          PROVE  k \in RowKeys /\ table'[k] \in Rows /\ table'[k].made <= births + 1
      BY <3>1 DEF RowsOK, Rows
    <3> QED
      BY <1>3, <1>5, <1>6, <3>1
  <2>2. births \in Nat /\ births' = births + 1
    BY <1>1 DEF RowsOK
  <2> QED
    BY <2>1, <2>2 DEF RowsOK
<1>8. ASSUME NEW k \in DOMAIN table'
      PROVE  \/ table'[k].made = births + 1
             \/ /\ k \in DOMAIN table /\ table'[k].made = table[k].made
                /\ \/ table'[k].counter = table[k].counter
                   \/ table[k].counter \in Nat /\ table'[k].counter = table[k].counter + 1
  <2>1. CASE k \in DOMAIN table /\ table'[k] = table[k]
    BY <2>1
  <2>2. ASSUME NEW q \in Q, q.key = k, ~Removes(q), table'[k] = RowAfter(table, q)
        PROVE  \/ table'[k].made = births + 1
               \/ /\ k \in DOMAIN table /\ table'[k].made = table[k].made
                  /\ \/ table'[k].counter = table[k].counter
                     \/ table[k].counter \in Nat /\ table'[k].counter = table[k].counter + 1
    BY <1>5, <1>6, <2>2
  <2> QED
    BY <1>3, <1>8, <2>1, <2>2
<1>9. ASSUME NEW q \in Q, q.kind = "update_if"
      PROVE  /\ q.key \in DOMAIN table /\ table[q.key].counter = q.counter
             /\ q.key \in DOMAIN table' /\ table'[q.key].made = table[q.key].made
             /\ table'[q.key].counter = q.counter + 1
  <2>1. ~Removes(q)
    BY <1>9 DEF Removes
  <2> QED
    BY <1>4, <1>5, <1>6, <1>9, <2>1
<1> QED
  BY <1>7, <1>8, <1>9

(* The wins of requests that passed their checks in one step. *)
LEMMA WinsKept ==
    ASSUME RowsOK, Advanced, OneWinner,
           NEW Q \in SUBSET GoodRequests, AllPass(Q), \A p, q \in Q : p.key = q.key => p = q,
           Becomes(Effect(table, Q)), NEW id,
           wins' = wins \cup {<<q.key, table[q.key].made, q.counter, id>> : q \in {q \in Q : q.kind = "update_if"}}
    PROVE  RowsOK' /\ Advanced' /\ OneWinner'
<1> DEFINE new == {<<q.key, table[q.key].made, q.counter, id>> : q \in {q \in Q : q.kind = "update_if"}}
<1>1. /\ RowsOK'
      /\ \A k \in DOMAIN table' :
            \/ table'[k].made = births + 1
            \/ /\ k \in DOMAIN table /\ table'[k].made = table[k].made
               /\ \/ table'[k].counter = table[k].counter
                  \/ table[k].counter \in Nat /\ table'[k].counter = table[k].counter + 1
      /\ \A q \in Q : q.kind = "update_if" =>
            /\ q.key \in DOMAIN table /\ table[q.key].counter = q.counter
            /\ q.key \in DOMAIN table' /\ table'[q.key].made = table[q.key].made
            /\ table'[q.key].counter = q.counter + 1
  BY EffectRows
<1>2. births \in Nat /\ births' = births + 1
  BY DEF RowsOK, Becomes
<1>3. ASSUME NEW q \in Q, q.kind = "update_if"
      PROVE  q.counter \in Nat /\ table[q.key].made \in Nat /\ table[q.key].made <= births
  <2>1. q \in GoodRequests
    OBVIOUS
  <2> QED
    BY <1>1, <1>3, <2>1 DEF GoodRequests, RowsOK, Rows
<1>4. ASSUME NEW x \in new
      PROVE  \E q \in Q : /\ q.kind = "update_if"
                          /\ x[1] = q.key /\ x[2] = table[q.key].made /\ x[3] = q.counter
                          /\ x = <<q.key, table[q.key].made, q.counter, id>>
  OBVIOUS
<1> HIDE DEF new
<1>5. wins' = wins \cup new
  BY DEF new
<1>6. Advanced'
  <2>1. ASSUME NEW x \in wins
        PROVE  /\ x[2] \in Nat /\ x[3] \in Nat /\ x[2] <= births'
               /\ (x[1] \in DOMAIN table' /\ table'[x[1]].made = x[2])
                      => table'[x[1]].counter \in Nat /\ x[3] < table'[x[1]].counter
    <3>1. /\ x[2] \in Nat /\ x[3] \in Nat /\ x[2] <= births
          /\ (x[1] \in DOMAIN table /\ table[x[1]].made = x[2])
                 => table[x[1]].counter \in Nat /\ x[3] < table[x[1]].counter
      BY <2>1 DEF Advanced
    <3> QED
      BY <1>1, <1>2, <3>1
  <2>2. ASSUME NEW x \in new
        PROVE  /\ x[2] \in Nat /\ x[3] \in Nat /\ x[2] <= births'
               /\ (x[1] \in DOMAIN table' /\ table'[x[1]].made = x[2])
                      => table'[x[1]].counter \in Nat /\ x[3] < table'[x[1]].counter
    <3>1. PICK q \in Q : q.kind = "update_if" /\ x[1] = q.key /\ x[2] = table[q.key].made /\ x[3] = q.counter
      BY <1>4, <2>2
    <3>2. q.counter \in Nat /\ table[q.key].made \in Nat /\ table[q.key].made <= births
      BY <1>3, <3>1
    <3> QED
      BY <1>1, <1>2, <3>1, <3>2
  <2> QED
    BY <1>5, <2>1, <2>2 DEF Advanced
<1>7. OneWinner'
  <2>1. ASSUME NEW x \in wins, NEW y \in new, x[1] = y[1], x[2] = y[2], x[3] = y[3]
        PROVE  FALSE
    <3>1. PICK q \in Q : q.kind = "update_if" /\ y[1] = q.key /\ y[2] = table[q.key].made /\ y[3] = q.counter
      BY <1>4, <2>1
    <3>2. q.key \in DOMAIN table /\ table[q.key].counter = q.counter
      BY <1>1, <3>1
    <3> QED
      BY <2>1, <3>1, <3>2 DEF Advanced
  <2>2. ASSUME NEW x \in new, NEW y \in new, x[1] = y[1], x[2] = y[2], x[3] = y[3]
        PROVE  x = y
    <3>1. PICK p \in Q : /\ x[1] = p.key /\ x[3] = p.counter
                         /\ x = <<p.key, table[p.key].made, p.counter, id>>
      BY <1>4, <2>2
    <3>2. PICK q \in Q : /\ y[1] = q.key /\ y[3] = q.counter
                         /\ y = <<q.key, table[q.key].made, q.counter, id>>
      BY <1>4, <2>2
    <3> QED
      BY <2>2, <3>1, <3>2
  <2> QED
    BY <1>5, <2>1, <2>2 DEF OneWinner
<1> QED
  BY <1>1, <1>6, <1>7

LEMMA RowsKept ==
    ASSUME RowsOK, Advanced, OneWinner, UNCHANGED <<table, births, wins>>
    PROVE  RowsOK' /\ Advanced' /\ OneWinner'
BY DEF RowsOK, Advanced, OneWinner

-----------------------------------------------------------------------------
(* A writer's job goes on to j. *)
LEMMA JobKept ==
    ASSUME WritersOK, \A v \in Writers : Told(job[v]), NEW w \in Writers, NEW j \in Jobs,
           j.op # "idle" => GoodJob(j.reqs),
           j.op = "batch" => \A i \in DOMAIN j.reqs : j.reqs[i].kind \in {"replace", "delete"},
           Told(j), job' = [job EXCEPT ![w] = j],
           copy' \in [Writers -> {None} \cup Copies], begun' \in Nat
    PROVE  WritersOK' /\ (\A v \in Writers : Told(job[v]))'
<1>1. job' \in [Writers -> Jobs] /\ job'[w] = j /\ \A v \in Writers \ {w} : job'[v] = job[v]
  BY DEF WritersOK
<1>2. WritersOK'
  BY <1>1 DEF WritersOK
<1>3. \A v \in Writers : Told(job'[v])
  BY <1>1
<1> QED
  BY <1>2, <1>3

LEMMA FindKept ==
    ASSUME IInv, NEW w \in Writers, Find(w)
    PROVE  IInv'
<1>1. PICK k \in DOMAIN table : copy' = [copy EXCEPT ![w] = [key |-> k, row |-> table[k]]]
  BY DEF Find
<1>2. [key |-> k, row |-> table[k]] \in Copies
  BY DEF IInv, RowsOK, Copies
<1>3. WritersOK'
  BY <1>1, <1>2 DEF IInv, WritersOK, Find
<1>4. RowsOK' /\ Advanced' /\ OneWinner'
  BY RowsKept DEF IInv, Find
<1> QED
  BY <1>3, <1>4 DEF IInv, Find

LEMMA ReaderKept ==
    ASSUME IInv, UNCHANGED <<table, copy, job, births, wins>>, begun' \in Nat
    PROVE  IInv'
<1>1. WritersOK'
  BY DEF IInv, WritersOK
<1>2. RowsOK' /\ Advanced' /\ OneWinner'
  BY RowsKept DEF IInv
<1> QED
  BY <1>1, <1>2 DEF IInv

LEMMA NoJobFields == NoJob \in Jobs /\ NoJob.op = "idle" /\ NoJob.answer = None /\ NoJob.applied = 0
                      /\ NoJob.todo = {}
<1>1. <<>> \in Seq(GoodRequests) /\ {} \in SUBSET (1..2) /\ FALSE \in BOOLEAN /\ 0 \in Nat
  OBVIOUS
<1> QED
  BY <1>1 DEF NoJob, Jobs, Answers

LEMMA SubmitKept ==
    ASSUME IInv, NEW w \in Writers, Submit(w)
    PROVE  IInv'
<1> USE DEF IInv
<1>1. PICK op \in {"single", "transact", "batch"} :
        \E reqs \in CASE op = "single" -> Singles(w) [] op = "transact" -> Transactions(w) [] OTHER -> Batches :
            /\ Distinct(reqs)
            /\ job' = [job EXCEPT ![w] = [NoJob EXCEPT !.op = op, !.id = begun + 1, !.reqs = reqs, !.todo = DOMAIN reqs]]
  BY DEF Submit
<1>2. PICK reqs : /\ reqs \in CASE op = "single" -> Singles(w) [] op = "transact" -> Transactions(w) [] OTHER -> Batches
                  /\ Distinct(reqs)
                  /\ job' = [job EXCEPT ![w] = [NoJob EXCEPT !.op = op, !.id = begun + 1, !.reqs = reqs, !.todo = DOMAIN reqs]]
  BY <1>1
<1>3. GoodJob(reqs) /\ (op = "batch" => \A i \in DOMAIN reqs : reqs[i].kind \in {"replace", "delete"})
  <2>1. CASE op = "single"
    <3>1. reqs \in Singles(w)
      BY <1>2, <2>1
    <3> QED
      BY <2>1, <3>1, SinglesGood
  <2>2. CASE op = "transact"
    <3>1. reqs \in Transactions(w)
      BY <1>2, <2>2
    <3> QED
      BY <1>2, <2>2, <3>1, TransactionsGood
  <2>3. CASE op = "batch"
    <3>1. reqs \in Batches
      BY <1>2, <2>3
    <3> QED
      BY <1>2, <2>3, <3>1, BatchesGood
  <2> QED
    BY <1>1, <2>1, <2>2, <2>3
<1> DEFINE j == [NoJob EXCEPT !.op = op, !.id = begun + 1, !.reqs = reqs, !.todo = DOMAIN reqs]
<1>4. begun \in Nat
  BY DEF WritersOK
<1>5. reqs \in Seq(GoodRequests) /\ DOMAIN reqs = 1..Len(reqs) /\ Len(reqs) \in 1..2
  BY <1>3 DEF GoodJob
<1>6. /\ j \in Jobs
      /\ j.op = op /\ j.reqs = reqs /\ j.todo = DOMAIN reqs /\ j.answer = None /\ j.applied = 0
  <2>1. NoJob \in Jobs /\ NoJob.answer = None /\ NoJob.applied = 0
    BY NoJobFields
  <2>2. begun + 1 \in Nat /\ DOMAIN reqs \subseteq 1..2
    BY <1>4, <1>5
  <2>3. op \in {"idle", "single", "transact", "batch"}
    BY <1>1
  <2> QED
    BY <1>5, <2>1, <2>2, <2>3 DEF Jobs
<1>7. Told(j)
  <2>1. Cardinality(DOMAIN reqs) = Len(reqs)
    BY <1>5, FS_Interval
  <2>2. None \notin 0..2 /\ None # "done"
    BY DynamoDbAssumption
  <2> HIDE DEF j
  <2> QED
    BY <1>5, <1>6, <2>1, <2>2 DEF Told
<1> HIDE DEF j
<1>8. copy' \in [Writers -> {None} \cup Copies] /\ begun' \in Nat
  BY <1>4 DEF WritersOK, Submit
<1>9. job' = [job EXCEPT ![w] = j]
  BY <1>2 DEF j
<1>10. WritersOK' /\ (\A v \in Writers : Told(job[v]))'
  BY <1>3, <1>6, <1>7, <1>8, <1>9, JobKept
<1>11. RowsOK' /\ Advanced' /\ OneWinner'
  BY RowsKept DEF Submit
<1> QED
  BY <1>10, <1>11

(* What stays of a job when it is answered, or when its answer is lost. *)
Answered(j, a, n) == [j EXCEPT !.answer = a, !.applied = n]
Lost(j, n) == [j EXCEPT !.lost = TRUE, !.applied = n]
Cancelled(j, a, S) == [j EXCEPT !.answer = a, !.failing = S]

LEMMA JobAnswered ==
    ASSUME NEW j \in Jobs, NEW a \in Answers, NEW n \in Nat
    PROVE  LET new == Answered(j, a, n)
           IN  /\ new \in Jobs /\ new.op = j.op /\ new.reqs = j.reqs /\ new.todo = j.todo
               /\ new.answer = a /\ new.applied = n /\ new.lost = j.lost
BY DEF Jobs, Answered

LEMMA JobLost ==
    ASSUME NEW j \in Jobs, NEW n \in Nat
    PROVE  LET new == Lost(j, n)
           IN  /\ new \in Jobs /\ new.op = j.op /\ new.reqs = j.reqs /\ new.todo = j.todo
               /\ new.answer = j.answer /\ new.lost
BY DEF Jobs, Lost

LEMMA JobCancelled ==
    ASSUME NEW j \in Jobs, NEW a \in Answers, NEW S \in SUBSET (1..2)
    PROVE  LET new == Cancelled(j, a, S)
           IN  /\ new \in Jobs /\ new.op = j.op /\ new.reqs = j.reqs /\ new.todo = j.todo
               /\ new.answer = a /\ new.applied = j.applied /\ new.failing = S
BY DEF Jobs, Cancelled

(* The request of a single job, sent for the first time or again. *)
LEMMA SingleKept ==
    ASSUME IInv, NEW w \in Writers, Single(w)
    PROVE  IInv'
<1> DEFINE q == job[w].reqs[1]
<1> USE DEF IInv
<1>1. /\ job[w] \in Jobs /\ GoodJob(job[w].reqs) /\ job[w].op = "single" /\ job[w].answer = None
      /\ job[w].applied \in Nat /\ Told(job[w])
  BY DEF Single, Running, WritersOK, Jobs
<1>2. q \in GoodRequests
  BY <1>1 DEF GoodJob
<1>3. copy' \in [Writers -> {None} \cup Copies] /\ begun' \in Nat
  BY DEF Single, WritersOK
<1>4. None \notin {"done", "refused"}
  BY DynamoDbAssumption
<1>5. ASSUME Passes(table, q) PROVE RowsOK' /\ Advanced' /\ OneWinner'
  <2>1. {q} \in SUBSET GoodRequests /\ AllPass({q}) /\ \A p, r \in {q} : p.key = r.key => p = r
    BY <1>2, <1>5 DEF AllPass
  <2>2. Becomes(Effect(table, {q}))
    BY <1>5 DEF Single
  <2>3. wins' = IF q.kind = "update_if" THEN wins \cup Won(w, q) ELSE wins
    BY <1>5 DEF Single
  <2> DEFINE new == {<<p.key, table[p.key].made, p.counter, job[w].id>> : p \in {p \in {q} : p.kind = "update_if"}}
  <2>4. wins' = wins \cup new
    <3>1. CASE q.kind = "update_if"
      <4>1. new = {<<q.key, table[q.key].made, q.counter, job[w].id>>}
        BY <3>1
      <4> QED
        BY <2>3, <3>1, <4>1 DEF Won
    <3>2. CASE q.kind # "update_if"
      <4>1. new = {}
        BY <3>2
      <4> QED
        BY <2>3, <3>2, <4>1
    <3> QED
      BY <3>1, <3>2
  <2> HIDE DEF q
  <2> QED
    BY <2>1, <2>2, <2>4, WinsKept
<1>6. ASSUME ~Passes(table, q) PROVE RowsOK' /\ Advanced' /\ OneWinner'
  BY <1>6, RowsKept DEF Single, Untouched
<1>7. CASE Passes(table, q) /\ job' = [job EXCEPT ![w].answer = "done", ![w].applied = @ + 1]
  <2> DEFINE n == Answered(job[w], "done", job[w].applied + 1)
  <2>1. job' = [job EXCEPT ![w] = n]
    BY <1>7 DEF WritersOK, Answered
  <2>2. n \in Jobs /\ n.op = "single" /\ n.reqs = job[w].reqs /\ n.todo = job[w].todo /\ n.answer = "done" /\ n.applied > 0
    <3>1. job[w].applied + 1 \in Nat /\ job[w].applied + 1 > 0 /\ "done" \in Answers
      BY <1>1 DEF Answers
    <3> HIDE DEF IInv
    <3> QED
      BY <1>1, <3>1, JobAnswered
  <2>3. Told(n)
    <3> HIDE DEF n
    <3> QED
      BY <1>1, <2>2 DEF Told
  <2> HIDE DEF n
  <2> QED
    BY <1>1, <1>3, <1>5, <1>7, <2>1, <2>2, <2>3, JobKept
<1>8. CASE ~Passes(table, q) /\ job' = [job EXCEPT ![w].answer = "refused", ![w].applied = @ + 0]
  <2> DEFINE n == Answered(job[w], "refused", job[w].applied + 0)
  <2>1. job' = [job EXCEPT ![w] = n]
    BY <1>8 DEF WritersOK, Answered
  <2>2. /\ n \in Jobs /\ n.op = "single" /\ n.reqs = job[w].reqs /\ n.todo = job[w].todo /\ n.answer = "refused"
        /\ n.applied = job[w].applied /\ n.lost = job[w].lost
    <3>1. job[w].applied + 0 = job[w].applied /\ "refused" \in Answers
      BY <1>1 DEF Answers
    <3> HIDE DEF IInv
    <3> QED
      BY <1>1, <3>1, JobAnswered
  <2>3. Told(n)
    <3> HIDE DEF n
    <3> QED
      BY <1>1, <1>4, <2>2 DEF Told
  <2> HIDE DEF n
  <2> QED
    BY <1>1, <1>3, <1>6, <1>8, <2>1, <2>2, <2>3, JobKept
<1>9. CASE Passes(table, q) /\ job' = [job EXCEPT ![w].lost = TRUE, ![w].applied = @ + 1]
  <2> DEFINE n == Lost(job[w], job[w].applied + 1)
  <2>1. job' = [job EXCEPT ![w] = n]
    BY <1>9 DEF WritersOK, Lost
  <2>2. /\ n \in Jobs /\ n.op = "single" /\ n.reqs = job[w].reqs /\ n.todo = job[w].todo /\ n.answer = None /\ n.lost
    <3>1. job[w].applied + 1 \in Nat
      BY <1>1
    <3> HIDE DEF IInv
    <3> QED
      BY <1>1, <3>1, JobLost
  <2>3. Told(n)
    <3> HIDE DEF n
    <3> QED
      BY <1>1, <1>4, <2>2 DEF Told
  <2> HIDE DEF n
  <2> QED
    BY <1>1, <1>3, <1>5, <1>9, <2>1, <2>2, <2>3, JobKept
<1> QED
  <2>1. \/ job' = [job EXCEPT ![w].answer = Answer(Passes(table, q)),
                              ![w].applied = @ + (IF Passes(table, q) THEN 1 ELSE 0)]
        \/ Passes(table, q) /\ job' = [job EXCEPT ![w].lost = TRUE, ![w].applied = @ + 1]
    BY DEF Single
  <2> QED
    BY <1>7, <1>8, <1>9, <2>1 DEF Answer

LEMMA ReasonFails ==
    ASSUME NEW reqs, NEW S \in SUBSET (1..2), S # {}
    PROVE  FirstReason(reqs, S) \in S
<1>1. \E x \in S : \A y \in S : x <= y
  <2>1. CASE 1 \in S
    BY <2>1
  <2>2. CASE 1 \notin S
    <3>1. PICK x \in S : TRUE
      OBVIOUS
    <3>2. \A y \in S : y = 2
      BY <2>2
    <3> QED
      BY <3>1, <3>2
  <2> QED
    BY <2>1, <2>2
<1> QED
  BY <1>1 DEF FirstReason, Min

(* A transaction of a writer: all of its requests, or none. *)
LEMMA TransactKept ==
    ASSUME IInv, NEW w \in Writers, Transact(w)
    PROVE  IInv'
<1> DEFINE reqs == job[w].reqs
           bad == {i \in DOMAIN reqs : ~Passes(table, reqs[i])}
           wonAt == UNION {Won(w, reqs[i]) : i \in {i \in DOMAIN reqs : reqs[i].kind = "update_if"}}
<1>1. /\ job[w] \in Jobs /\ GoodJob(reqs) /\ job[w].op = "transact" /\ job[w].answer = None
      /\ Told(job[w])
  BY DEF IInv, Transact, Running, WritersOK
<1>2. /\ reqs \in Seq(GoodRequests) /\ DOMAIN reqs \subseteq 1..2
      /\ \A i, k \in DOMAIN reqs : reqs[i].key = reqs[k].key => i = k
  <2>1. reqs \in Seq(GoodRequests) /\ Len(reqs) \in 1..2 /\ Distinct(reqs)
    BY <1>1 DEF GoodJob
  <2> HIDE DEF reqs
  <2>2. DOMAIN reqs \subseteq 1..2
    BY <2>1
  <2>3. ASSUME NEW i \in DOMAIN reqs, NEW k \in DOMAIN reqs, reqs[i].key = reqs[k].key PROVE i = k
    <3>1. CASE Len(reqs) = 1
      BY <2>1, <3>1
    <3>2. CASE Len(reqs) = 2
      BY <2>1, <2>3, <3>2 DEF Distinct
    <3> QED
      BY <2>1, <3>1, <3>2
  <2> QED
    BY <2>1, <2>2, <2>3
<1>3. copy' \in [Writers -> {None} \cup Copies] /\ begun' \in Nat
  BY DEF IInv, Transact, WritersOK
<1>4. None \notin 0..2
  BY DynamoDbAssumption
<1>5. \/ /\ bad = {}
         /\ Becomes(Effect(table, ToSet(reqs)))
         /\ wins' = wins \cup wonAt
         /\ job' = [job EXCEPT ![w].answer = 0, ![w].applied = 1]
      \/ /\ Untouched /\ UNCHANGED wins
         /\ \E S \in SUBSET DOMAIN reqs :
                S # {} /\ job' = [job EXCEPT ![w].answer = FirstReason(reqs, S), ![w].failing = S]
  <2>1. \A i \in DOMAIN reqs : {i} \in SUBSET DOMAIN reqs /\ {i} # {}
    OBVIOUS
  <2>2. bad \in SUBSET DOMAIN reqs
    OBVIOUS
  <2> QED
    BY <2>1, <2>2, Zenon DEF Transact
<1>6. CASE /\ bad = {}
           /\ Becomes(Effect(table, ToSet(reqs)))
           /\ wins' = wins \cup wonAt
           /\ job' = [job EXCEPT ![w].answer = 0, ![w].applied = 1]
  <2> DEFINE Q == ToSet(reqs)
             new == {<<q.key, table[q.key].made, q.counter, job[w].id>> : q \in {q \in Q : q.kind = "update_if"}}
  <2>1. Q = {reqs[i] : i \in DOMAIN reqs}
    BY DEF ToSet
  <2>2. Q \in SUBSET GoodRequests
    <3> HIDE DEF reqs
    <3> QED
      BY <1>2, <2>1
  <2>3. AllPass(Q)
    BY <1>6, <2>1 DEF AllPass
  <2>4. \A p, q \in Q : p.key = q.key => p = q
    BY <1>2, <2>1
  <2>5. wonAt = new
    <3> HIDE DEF Q, reqs
    <3> QED
      BY <2>1 DEF Won
  <2>6. RowsOK' /\ Advanced' /\ OneWinner'
    <3> HIDE DEF Q, wonAt
    <3>1. wins' = wins \cup new
      BY <1>6, <2>5
    <3>2. Becomes(Effect(table, Q))
      BY <1>6 DEF Q
    <3> QED
      BY <2>2, <2>3, <2>4, <3>1, <3>2, WinsKept DEF IInv
  <2> DEFINE n == Answered(job[w], 0, 1)
  <2>7. job' = [job EXCEPT ![w] = n]
    BY <1>6 DEF IInv, WritersOK, Answered
  <2>8. n \in Jobs /\ n.op = "transact" /\ n.reqs = reqs /\ n.todo = job[w].todo /\ n.answer = 0 /\ n.applied = 1
    <3>1. 0 \in Answers /\ 1 \in Nat
      BY DEF Answers
    <3> QED
      BY <1>1, <3>1, JobAnswered
  <2>9. Told(n)
    <3> HIDE DEF n
    <3> QED
      BY <1>1, <2>8 DEF Told
  <2> HIDE DEF n
  <2> QED
    BY <1>1, <1>3, <2>6, <2>7, <2>8, <2>9, JobKept DEF IInv
<1>7. CASE /\ Untouched /\ UNCHANGED wins
           /\ \E S \in SUBSET DOMAIN reqs :
                  S # {} /\ job' = [job EXCEPT ![w].answer = FirstReason(reqs, S), ![w].failing = S]
  <2>1. PICK S \in SUBSET DOMAIN reqs :
          S # {} /\ job' = [job EXCEPT ![w].answer = FirstReason(reqs, S), ![w].failing = S]
    BY <1>7
  <2> DEFINE n == Cancelled(job[w], FirstReason(reqs, S), S)
  <2>2. FirstReason(reqs, S) \in S /\ S \in SUBSET (1..2)
    BY <1>2, <2>1, ReasonFails
  <2>3. FirstReason(reqs, S) \in Answers /\ FirstReason(reqs, S) \in 1..2
    <3>1. \A i \in 1..2 : i \in Answers
      BY DEF Answers
    <3> QED
      BY <2>2, <3>1
  <2>4. job' = [job EXCEPT ![w] = n]
    BY <2>1 DEF IInv, WritersOK, Cancelled
  <2>5. /\ n \in Jobs /\ n.op = "transact" /\ n.reqs = reqs /\ n.todo = job[w].todo /\ n.applied = job[w].applied
        /\ n.answer = FirstReason(reqs, S) /\ n.failing = S
    BY <1>1, <2>2, <2>3, JobCancelled
  <2>6. job[w].applied = 0
    BY <1>1, <1>4 DEF Told
  <2>7. Told(n)
    <3> HIDE DEF n
    <3> QED
      BY <1>1, <2>2, <2>3, <2>5, <2>6 DEF Told
  <2>8. RowsOK' /\ Advanced' /\ OneWinner'
    BY <1>7, RowsKept DEF IInv, Untouched
  <2> HIDE DEF n
  <2> QED
    BY <1>1, <1>3, <2>4, <2>5, <2>7, <2>8, JobKept DEF IInv
<1> QED
  BY <1>5, <1>6, <1>7

(* A batch is written in parts. *)
Written(j, left, n, a) == [j EXCEPT !.todo = left, !.applied = n, !.answer = a]

LEMMA JobWritten ==
    ASSUME NEW j \in Jobs, NEW left \in SUBSET (1..2), NEW n \in Nat, NEW a \in Answers
    PROVE  LET new == Written(j, left, n, a)
           IN  /\ new \in Jobs /\ new.op = j.op /\ new.reqs = j.reqs
               /\ new.todo = left /\ new.applied = n /\ new.answer = a
BY DEF Jobs, Written

LEMMA BatchKept ==
    ASSUME IInv, NEW w \in Writers, BatchWrite(w)
    PROVE  IInv'
<1> DEFINE reqs == job[w].reqs
           todo == job[w].todo
<1>1. /\ job[w] \in Jobs /\ GoodJob(reqs) /\ job[w].op = "batch" /\ job[w].answer = None
      /\ job[w].applied \in Nat /\ Told(job[w])
      /\ \A i \in DOMAIN reqs : reqs[i].kind \in {"replace", "delete"}
  BY DEF IInv, BatchWrite, Running, WritersOK, Jobs
<1>2. reqs \in Seq(GoodRequests) /\ Len(reqs) \in 1..2 /\ Distinct(reqs)
  BY <1>1 DEF GoodJob
<1>3. todo \subseteq DOMAIN reqs /\ job[w].applied = Len(reqs) - Cardinality(todo)
  BY <1>1 DEF Told
<1>4. PICK part \in (SUBSET todo) \ {{}} :
        /\ Becomes(Effect(table, {reqs[i] : i \in part}))
        /\ job' = [job EXCEPT ![w].todo = todo \ part, ![w].applied = @ + Cardinality(part),
                              ![w].answer = IF todo \ part = {} THEN "done" ELSE None]
  BY DEF BatchWrite, Unprocessed
<1>5. copy' \in [Writers -> {None} \cup Copies] /\ begun' \in Nat /\ wins' = wins
  BY DEF IInv, BatchWrite, WritersOK
<1>6. RowsOK' /\ Advanced' /\ OneWinner'
  <2> DEFINE Q == {reqs[i] : i \in part}
             new == {<<q.key, table[q.key].made, q.counter, job[w].id>> : q \in {q \in Q : q.kind = "update_if"}}
  <2>1. \A i \in part : i \in DOMAIN reqs /\ i \in 1..Len(reqs)
    BY <1>2, <1>3, <1>4
  <2>2. Q \in SUBSET GoodRequests /\ \A q \in Q : q.kind # "update_if"
    <3> HIDE DEF reqs
    <3> QED
      BY <1>1, <1>2, <2>1
  <2>3. \A p, q \in Q : p.key = q.key => p = q
    <3> SUFFICES ASSUME NEW i \in part, NEW k \in part, reqs[i].key = reqs[k].key
                 PROVE  reqs[i] = reqs[k]
      OBVIOUS
    <3> HIDE DEF reqs
    <3>1. CASE Len(reqs) = 1
      BY <2>1, <3>1
    <3>2. CASE Len(reqs) = 2
      BY <2>1, <3>2, <1>2 DEF Distinct
    <3> QED
      BY <1>2, <3>1, <3>2
  <2> HIDE DEF Q
  <2>4. AllPass(Q) /\ new = {}
    BY <2>2 DEF AllPass
  <2>5. wins' = wins \cup new
    BY <1>5, <2>4
  <2>6. Becomes(Effect(table, Q))
    BY <1>4 DEF Q
  <2> QED
    BY <2>2, <2>3, <2>4, <2>5, <2>6, WinsKept DEF IInv
<1>7. /\ IsFiniteSet(todo) /\ Cardinality(todo \ part) = Cardinality(todo) - Cardinality(part)
      /\ Cardinality(part) \in Nat /\ Cardinality(todo) \in Nat
  <2>1. IsFiniteSet(1..Len(reqs)) /\ todo \subseteq 1..Len(reqs)
    <3>1. 1 \in Int /\ Len(reqs) \in Int /\ DOMAIN reqs = 1..Len(reqs)
      BY <1>2
    <3> HIDE DEF reqs, todo
    <3> QED
      BY <1>3, <3>1, FS_Interval
  <2>2. IsFiniteSet(todo)
    BY <2>1, FS_Subset
  <2>3. todo \cap part = part /\ IsFiniteSet(part)
    BY <1>4, <2>2, FS_Subset
  <2> QED
    BY <2>2, <2>3, FS_Difference, FS_CardinalityType
<1> DEFINE a == IF todo \ part = {} THEN "done" ELSE None
           n == Written(job[w], todo \ part, job[w].applied + Cardinality(part), a)
<1>8. job' = [job EXCEPT ![w] = n]
  BY <1>4 DEF IInv, WritersOK, Written
<1>9. /\ n \in Jobs /\ n.op = "batch" /\ n.reqs = reqs /\ n.todo = todo \ part
      /\ n.applied = job[w].applied + Cardinality(part) /\ n.answer = a
  <2>1. todo \ part \in SUBSET (1..2)
    <3>1. todo \subseteq 1..2
      BY <1>1 DEF Jobs
    <3> QED
      BY <3>1
  <2>2. job[w].applied + Cardinality(part) \in Nat
    BY <1>1, <1>7
  <2>3. a \in Answers
    BY DEF Answers
  <2> HIDE DEF a
  <2> QED
    BY <1>1, <2>1, <2>2, <2>3, JobWritten
<1>10. Told(n)
  <2>1. n.applied = Len(n.reqs) - Cardinality(n.todo)
    <3>1. Len(reqs) \in Nat
      BY <1>2
    <3> HIDE DEF n, reqs, todo
    <3> QED
      BY <1>3, <1>7, <1>9, <3>1
  <2>2. n.todo \subseteq DOMAIN n.reqs
    BY <1>3, <1>9
  <2>3. n.answer # None => n.todo = {}
    BY <1>9
  <2> HIDE DEF n
  <2> QED
    BY <1>9, <2>1, <2>2, <2>3 DEF Told
<1> HIDE DEF n
<1> QED
  BY <1>1, <1>5, <1>6, <1>8, <1>9, <1>10, JobKept DEF IInv

-----------------------------------------------------------------------------
LEMMA InitIInv == Init => IInv
<1> SUFFICES ASSUME Init PROVE IInv
  OBVIOUS
<1>1. RowsOK
  <2>1. PICK S \in SUBSET RowKeys, on \in BOOLEAN :
          table = [k \in S |-> [counter |-> 0, active |-> on, made |-> 0]]
    BY DEF Init
  <2>2. [counter |-> 0, active |-> on, made |-> 0] \in Rows /\ births = 0
    BY DEF Init, Rows
  <2> QED
    BY <2>1, <2>2 DEF RowsOK
<1>2. WritersOK
  <2>1. /\ copy = [w \in Writers |-> None] /\ job = [w \in Writers |-> NoJob] /\ begun = 0
    BY DEF Init
  <2>2. NoJob \in Jobs /\ NoJob.op = "idle"
    BY NoJobFields
  <2> QED
    BY <2>1, <2>2 DEF WritersOK
<1>3. Advanced /\ OneWinner
  BY DEF Init, Advanced, OneWinner
<1>4. \A w \in Writers : Told(job[w])
  <2>1. \A w \in Writers : job[w].op = "idle" /\ job[w].todo = {}
    BY NoJobFields DEF Init
  <2> QED
    BY <2>1 DEF Told
<1> QED
  BY <1>1, <1>2, <1>3, <1>4 DEF IInv

LEMMA SpecIInv == Spec => []IInv
<1>1. ASSUME IInv, [Next]_vars PROVE IInv'
  <2>1. ASSUME NEW w \in Writers, Find(w) PROVE IInv'
    BY <1>1, <2>1, FindKept
  <2>2. ASSUME NEW w \in Writers, Submit(w) PROVE IInv'
    BY <1>1, <2>2, SubmitKept
  <2>3. ASSUME NEW w \in Writers, Single(w) PROVE IInv'
    BY <1>1, <2>3, SingleKept
  <2>4. ASSUME NEW w \in Writers, Transact(w) PROVE IInv'
    BY <1>1, <2>4, TransactKept
  <2>5. ASSUME NEW w \in Writers, BatchWrite(w) PROVE IInv'
    BY <1>1, <2>5, BatchKept
  <2>6. begun \in Nat
    BY <1>1 DEF IInv, WritersOK
  <2>7. ASSUME NEW r \in Readers, StartQuery(r) \/ StartGet(r) PROVE IInv'
    <3>1. UNCHANGED <<table, copy, job, births, wins>> /\ begun' = begun + 1
      BY <2>7 DEF StartQuery, StartGet
    <3> QED
      BY <1>1, <2>6, <3>1, ReaderKept
  <2>8. ASSUME NEW r \in Readers, ReaderStep(r) PROVE IInv'
    <3>1. UNCHANGED <<table, copy, job, births, wins, begun>>
      BY <2>8 DEF ReaderStep, FetchPage, FetchBatch
    <3> QED
      BY <1>1, <2>6, <3>1, ReaderKept
  <2>9. CASE UNCHANGED vars
    BY <1>1, <2>6, <2>9, ReaderKept DEF vars
  <2> QED
    BY <1>1, <2>1, <2>2, <2>3, <2>4, <2>5, <2>7, <2>8, <2>9 DEF Next, WriterStep
<1> QED
  BY InitIInv, <1>1, PTL DEF Spec

(* Of the writers that read a version of a row and write it back with a    *)
(* state check, alone or in a transaction, one succeeds: with any number   *)
(* of writers and of requests sent again because their answers were lost.  *)
THEOREM OneWinnerHolds == Spec => []OneWinner
<1>1. IInv => OneWinner
  BY DEF IInv
<1> QED
  BY SpecIInv, <1>1, PTL

(* A writer is told what happened: an answer says that the request was     *)
(* applied, a refusal that it was not unless an answer was lost, a         *)
(* cancelled transaction changed nothing and the request handed back       *)
(* stood in the way, and a batch that returned was written in full.        *)
THEOREM AnswersTrueHolds == Spec => []AnswersTrue
<1>1. ASSUME IInv PROVE AnswersTrue
  <2> SUFFICES ASSUME NEW w \in Writers
               PROVE  LET j == job[w] IN
                      /\ (j.op = "single" /\ j.answer = "done") => j.applied > 0
                      /\ (j.op = "single" /\ j.answer = "refused") => (j.applied = 0 \/ j.lost)
                      /\ (j.op = "transact" /\ j.answer # None) =>
                             IF j.answer = 0 THEN j.applied = 1 ELSE j.applied = 0 /\ j.answer \in j.failing
                      /\ (j.op = "batch" /\ j.answer # None) => j.applied = Len(j.reqs)
    BY DEF AnswersTrue
  <2> DEFINE j == job[w]
  <2>1. Told(j) /\ j \in Jobs /\ (j.op = "batch" => GoodJob(j.reqs))
    BY <1>1 DEF IInv, WritersOK
  <2> HIDE DEF j
  <2>2. (j.op = "single" /\ j.answer = "done") => j.applied > 0
    BY <2>1 DEF Told
  <2>3. (j.op = "single" /\ j.answer = "refused") => (j.applied = 0 \/ j.lost)
    BY <2>1 DEF Told
  <2>4. ASSUME j.op = "transact", j.answer # None
        PROVE  IF j.answer = 0 THEN j.applied = 1 ELSE j.applied = 0 /\ j.answer \in j.failing
    BY <2>1, <2>4 DEF Told
  <2>5. ASSUME j.op = "batch", j.answer # None PROVE j.applied = Len(j.reqs)
    <3>1. j.applied = Len(j.reqs) - Cardinality({})
      BY <2>1, <2>5 DEF Told
    <3> QED
      BY <2>1, <2>5, <3>1, FS_EmptySet DEF GoodJob
  <2> QED
    BY <2>2, <2>3, <2>4, <2>5 DEF j
<1> QED
  BY SpecIInv, <1>1, PTL
-----------------------------------------------------------------------------
(* Numbers and their digits.  A non-empty set of numbers has a least one.   *)
LEMMA Least ==
    ASSUME NEW S, S \subseteq Nat, S # {}
    PROVE  \E x \in S : \A y \in S : x <= y
<1>1. IsWellFoundedOn(OpToRel(<, Nat), Nat)
  BY NatLessThanWellFounded
<1> DEFINE R == OpToRel(<, Nat)
<1> HIDE DEF R
<1>2. IsWellFoundedOn(R, Nat)
  BY <1>1 DEF R
<1>3. PICK x \in S : \A y \in S : ~(<<y, x>> \in R)
  BY <1>2, WFMin
<1>4. \A y \in Nat, z \in Nat : y < z => <<y, z>> \in R
  BY DEF R, OpToRel
<1>5. ASSUME NEW y \in S PROVE x <= y
  <2>1. x \in Nat /\ y \in Nat /\ ~(<<y, x>> \in R)
    BY <1>3
  <2>2. ~(y < x)
    BY <1>4, <2>1
  <2> QED
    BY <2>1, <2>2
<1> QED
  BY <1>5

(* Induction over the numbers up to n, for a set of numbers. *)
LEMMA Climb ==
    ASSUME NEW n \in Nat, NEW S, 0 \in S, \A i \in 1..n : i - 1 \in S => i \in S
    PROVE  0..n \subseteq S /\ n \in S
<1> SUFFICES ASSUME ~(0..n \subseteq S) PROVE FALSE
  OBVIOUS
<1> DEFINE B == (0..n) \ S
<1>1. B \subseteq Nat /\ B # {}
  OBVIOUS
<1>2. PICK x \in B : \A y \in B : x <= y
  BY <1>1, Least
<1>3. x \in 1..n /\ x - 1 \notin B
  BY <1>2
<1> QED
  BY <1>2, <1>3

(* Values computed one from the other: a last digit is taken away, or the  *)
(* next digit of s is put behind.                                          *)
After(way, s, i, x) == IF way = "down" THEN x \div 10 ELSE 10 * x + (s[i] - Digit(0))

GoesOn(way, s, n) == \A i \in 1..n, x \in Nat : After(way, s, i, x) \in Nat
IsChain(f, n, a, way, s) ==
    /\ f \in [0..n -> Nat]
    /\ f[0] = a /\ \A i \in 1..n : f[i] = After(way, s, i, f[i - 1])

LEMMA Chain ==
    ASSUME NEW n \in Nat, NEW a \in Nat, NEW way, NEW s, GoesOn(way, s, n)
    PROVE  \E f : IsChain(f, n, a, way, s)
<1>0. \A i \in 1..n, x \in Nat : After(way, s, i, x) \in Nat
  BY DEF GoesOn
<1> DEFINE Reaches(m) == \E f \in [0..m -> Nat] : f[0] = a /\ \A i \in 1..m : f[i] = After(way, s, i, f[i - 1])
           S == {m \in 0..n : Reaches(m)}
<1>1. 0 \in S
  <2> DEFINE f == [i \in 0..0 |-> a]
  <2>1. f \in [0..0 -> Nat] /\ f[0] = a /\ \A i \in 1..0 : f[i] = After(way, s, i, f[i - 1])
    OBVIOUS
  <2> HIDE DEF f
  <2>2. Reaches(0)
    BY <2>1
  <2> QED
    BY <2>2
<1>2. ASSUME NEW m \in 1..n, m - 1 \in S PROVE m \in S
  <2>0. m \in Nat \ {0} /\ m - 1 \in Nat
    OBVIOUS
  <2>1. PICK f \in [0..(m - 1) -> Nat] : f[0] = a /\ \A i \in 1..(m - 1) : f[i] = After(way, s, i, f[i - 1])
    BY <1>2
  <2> DEFINE v == After(way, s, m, f[m - 1])
             g == [i \in 0..m |-> IF i = m THEN v ELSE f[i]]
  <2>2. v \in Nat
    <3>1. f[m - 1] \in Nat
      BY <2>0, <2>1
    <3> QED
      BY <1>0, <3>1
  <2> HIDE DEF v
  <2>3. \A i \in 0..(m - 1) : i \in 0..m /\ i # m /\ f[i] \in Nat
    BY <2>0, <2>1
  <2>4. g \in [0..m -> Nat]
    BY <2>0, <2>2, <2>3
  <2>5. g[m] = v /\ \A i \in 0..(m - 1) : g[i] = f[i]
    BY <2>0, <2>3
  <2> HIDE DEF g
  <2>6. ASSUME NEW i \in 1..m PROVE g[i] = After(way, s, i, g[i - 1])
    <3>1. CASE i = m
      BY <2>0, <2>5, <3>1 DEF v
    <3>2. CASE i # m
      <4>1. i \in 1..(m - 1) /\ i \in 0..(m - 1) /\ i - 1 \in 0..(m - 1)
        BY <2>0, <3>2
      <4> QED
        BY <2>1, <2>5, <4>1
    <3> QED
      BY <3>1, <3>2
  <2>7. g[0] = a
    BY <2>0, <2>1, <2>5
  <2>8. Reaches(m)
    BY <2>4, <2>6, <2>7
  <2> HIDE DEF Reaches
  <2> QED
    BY <2>8
<1> HIDE DEF S
<1>4. n \in S
  BY <1>1, <1>2, Climb
<1> QED
  BY <1>4 DEF S, IsChain

-----------------------------------------------------------------------------
(* Numbers and their digits. *)
LEMMA ShiftChain ==
    ASSUME NEW n \in Nat, NEW d \in Nat
    PROVE  \E f \in [0..d -> Nat] : /\ f[0] = n /\ \A i \in 1..d : f[i] = f[i - 1] \div 10
                                    /\ Shift(n, d) = f[d]
<1> DEFINE F(g) == [i \in 0..d |-> IF i = 0 THEN n ELSE g[i - 1] \div 10]
           left == CHOOSE g : g = F(g)
<1>1. PICK way, s : \A i \in Nat, x \in Nat : After(way, s, i, x) = x \div 10
  <2>1. \A i \in Nat, x \in Nat : After("down", 0, i, x) = x \div 10
    BY DEF After
  <2> QED
    BY <2>1
<1>2. PICK f \in [0..d -> Nat] : f[0] = n /\ \A i \in 1..d : f[i] = After(way, s, i, f[i - 1])
  <2>1. GoesOn(way, s, d)
    BY <1>1 DEF GoesOn
  <2>2. \E f : IsChain(f, d, n, way, s)
    BY <2>1, Chain
  <2> QED
    BY <2>2 DEF IsChain
<1>3. ASSUME NEW i \in 1..d PROVE f[i] = f[i - 1] \div 10
  BY <1>1, <1>2
<1>4. f = F(f)
  BY <1>2, <1>3
<1>5. left = F(left)
  <2> HIDE DEF F
  <2> QED
    BY <1>4
<1> HIDE DEF left
<1>6. left[0] = n /\ \A i \in 1..d : left[i] = left[i - 1] \div 10
  BY <1>5
<1> DEFINE S == {i \in 0..d : left[i] = f[i]}
<1>7. 0 \in S
  BY <1>2, <1>6
<1>8. ASSUME NEW i \in 1..d, i - 1 \in S PROVE i \in S
  BY <1>3, <1>6, <1>8
<1> HIDE DEF S
<1>9. d \in S
  BY <1>7, <1>8, Climb
<1>10. Shift(n, d) = left[d]
  BY DEF Shift, left
<1> QED
  BY <1>2, <1>3, <1>9, <1>10 DEF S

LEMMA ShiftValues ==
    ASSUME NEW n \in Nat
    PROVE  /\ Shift(n, 0) = n
           /\ \A d \in Nat : Shift(n, d) \in Nat /\ Shift(n, d + 1) = Shift(n, d) \div 10
<1>1. Shift(n, 0) = n
  BY ShiftChain
<1>2. ASSUME NEW d \in Nat PROVE Shift(n, d) \in Nat /\ Shift(n, d + 1) = Shift(n, d) \div 10
  <2>1. PICK f \in [0..d -> Nat] : f[0] = n /\ (\A i \in 1..d : f[i] = f[i - 1] \div 10) /\ Shift(n, d) = f[d]
    BY ShiftChain
  <2>2. PICK g \in [0..(d + 1) -> Nat] : /\ g[0] = n /\ (\A i \in 1..(d + 1) : g[i] = g[i - 1] \div 10)
                                         /\ Shift(n, d + 1) = g[d + 1]
    <3>1. d + 1 \in Nat
      OBVIOUS
    <3> QED
      BY <3>1, ShiftChain
  <2> DEFINE S == {i \in 0..d : g[i] = f[i]}
  <2>3. 0 \in S
    BY <2>1, <2>2
  <2>4. ASSUME NEW i \in 1..d, i - 1 \in S PROVE i \in S
    BY <2>1, <2>2, <2>4
  <2> HIDE DEF S
  <2>5. d \in S
    BY <2>3, <2>4, Climb
  <2>6. g[d] = f[d]
    BY <2>5 DEF S
  <2>7. g[d + 1] = g[d] \div 10
    BY <2>2
  <2> QED
    BY <2>1, <2>2, <2>6, <2>7
<1> QED
  BY <1>1, <1>2

(* The number of a sequence of digits. *)
DigitStrings(n) == [1..n -> Digit(0)..Digit(9)]

LEMMA NumberValues ==
    ASSUME NEW n \in Nat, NEW s \in DigitStrings(n)
    PROVE  \E f \in [0..n -> Nat] : /\ f[0] = 0 /\ \A i \in 1..n : f[i] = 10 * f[i - 1] + (s[i] - Digit(0))
                                    /\ Number(s) = f[n]
<1>1. Len(s) = n
  BY DEF DigitStrings, Digit
<1> DEFINE F(g) == [i \in 0..n |-> IF i = 0 THEN 0 ELSE 10 * g[i - 1] + (s[i] - Digit(0))]
           value == CHOOSE g : g = F(g)
<1>2. \A i \in 1..n : s[i] \in 1..10
  BY DEF DigitStrings, Digit
<1>3. PICK way : \A i \in 1..n, x \in Nat : After(way, s, i, x) = 10 * x + (s[i] - Digit(0))
  <2>1. \A i \in 1..n, x \in Nat : After("up", s, i, x) = 10 * x + (s[i] - Digit(0))
    BY DEF After
  <2> QED
    BY <2>1
<1>4. PICK f \in [0..n -> Nat] : f[0] = 0 /\ \A i \in 1..n : f[i] = After(way, s, i, f[i - 1])
  <2>1. GoesOn(way, s, n)
    BY <1>2, <1>3 DEF Digit, GoesOn
  <2>2. \E f : IsChain(f, n, 0, way, s)
    BY <2>1, Chain
  <2> QED
    BY <2>2 DEF IsChain
<1>5. ASSUME NEW i \in 1..n PROVE f[i] = 10 * f[i - 1] + (s[i] - Digit(0))
  <2>1. f[i - 1] \in Nat
    BY <1>4
  <2> QED
    BY <1>3, <1>4, <2>1
<1>6. f = F(f)
  BY <1>4, <1>5
<1>7. value = F(value)
  <2> HIDE DEF F
  <2> QED
    BY <1>6
<1>8. Number(s) = value[n]
  BY <1>1 DEF Number
<1> HIDE DEF value
<1>9. value[0] = 0 /\ \A i \in 1..n : value[i] = 10 * value[i - 1] + (s[i] - Digit(0))
  BY <1>7
<1> DEFINE S == {i \in 0..n : value[i] = f[i]}
<1>10. 0 \in S
  BY <1>4, <1>9
<1>11. ASSUME NEW i \in 1..n, i - 1 \in S PROVE i \in S
  BY <1>5, <1>9, <1>11
<1> HIDE DEF S
<1>12. n \in S
  BY <1>10, <1>11, Climb
<1> QED
  BY <1>4, <1>5, <1>8, <1>12 DEF S

LEMMA DecimalDigits ==
    ASSUME NEW n \in Nat, NEW w \in Nat
    PROVE  /\ Decimal(n, w) \in DigitStrings(w)
           /\ \A i \in 1..w : Decimal(n, w)[i] = Digit(Shift(n, w - i) % 10)
<1>1. ASSUME NEW i \in 1..w PROVE Digit(Shift(n, w - i) % 10) \in Digit(0)..Digit(9)
  <2>1. w - i \in Nat
    OBVIOUS
  <2>2. Shift(n, w - i) \in Nat
    BY <2>1, ShiftValues
  <2> QED
    BY <2>2 DEF Digit
<1> QED
  BY <1>1 DEF Decimal, DigitStrings

LEMMA NumberOfDecimal ==
    ASSUME NEW n \in Nat, NEW w \in Nat, Shift(n, w) = 0
    PROVE  Number(Decimal(n, w)) = n
<1> DEFINE s == Decimal(n, w)
<1>1. s \in DigitStrings(w) /\ \A i \in 1..w : s[i] - Digit(0) = Shift(n, w - i) % 10
  <2>1. ASSUME NEW i \in 1..w PROVE s[i] - Digit(0) = Shift(n, w - i) % 10
    <3>1. w - i \in Nat
      OBVIOUS
    <3>2. Shift(n, w - i) \in Nat
      BY <3>1, ShiftValues
    <3> QED
      BY <3>2, DecimalDigits DEF Digit
  <2> QED
    BY <2>1, DecimalDigits
<1> HIDE DEF s
<1>2. PICK f \in [0..w -> Nat] : /\ f[0] = 0 /\ \A i \in 1..w : f[i] = 10 * f[i - 1] + (s[i] - Digit(0))
                                 /\ Number(s) = f[w]
  BY <1>1, NumberValues
<1> DEFINE S == {i \in 0..w : f[i] = Shift(n, w - i)}
<1>3. 0 \in S
  BY <1>2
<1>4. ASSUME NEW i \in 1..w, i - 1 \in S PROVE i \in S
  <2> DEFINE x == Shift(n, w - i)
             y == Shift(n, w - i + 1)
  <2>1. w - i \in Nat /\ w - (i - 1) = w - i + 1
    OBVIOUS
  <2>2. x \in Nat /\ y = x \div 10
    BY <2>1, ShiftValues
  <2>3. f[i - 1] = y
    BY <1>4, <2>1
  <2>4. f[i] = 10 * f[i - 1] + (x % 10)
    BY <1>1, <1>2
  <2> HIDE DEF x, y
  <2>5. f[i] = x
    BY <2>2, <2>3, <2>4
  <2> QED
    BY <2>5 DEF x
<1> HIDE DEF S
<1>5. w \in S
  BY <1>3, <1>4, Climb
<1>6. f[w] = Shift(n, w - w) /\ w - w = 0
  BY <1>5 DEF S
<1> QED
  BY <1>2, <1>6, ShiftValues DEF s

LEMMA DecimalOfNumber ==
    ASSUME NEW w \in Nat, NEW s \in DigitStrings(w)
    PROVE  Number(s) \in Nat /\ Shift(Number(s), w) = 0 /\ Decimal(Number(s), w) = s
<1>1. PICK f \in [0..w -> Nat] : /\ f[0] = 0 /\ \A i \in 1..w : f[i] = 10 * f[i - 1] + (s[i] - Digit(0))
                                 /\ Number(s) = f[w]
  BY NumberValues
<1>2. \A i \in 1..w : s[i] \in 1..10
  BY DEF DigitStrings, Digit
<1> DEFINE n == Number(s)
<1>3. n \in Nat /\ n = f[w]
  BY <1>1
<1> HIDE DEF n
<1>4. ASSUME NEW i \in 1..w PROVE f[i] \div 10 = f[i - 1] /\ f[i] % 10 = s[i] - 1
  <2> DEFINE x == f[i]
             y == f[i - 1]
             c == s[i]
  <2>1. y \in Nat /\ c \in 1..10 /\ x = 10 * y + (c - 1)
    BY <1>1, <1>2 DEF Digit
  <2> HIDE DEF x, y, c
  <2>2. x \div 10 = y /\ x % 10 = c - 1
    BY <2>1
  <2> QED
    BY <2>2 DEF x, y, c
<1> DEFINE S == {j \in 0..w : Shift(n, j) = f[w - j]}
<1>5. 0 \in S
  BY <1>3, ShiftValues
<1>6. ASSUME NEW j \in 1..w, j - 1 \in S PROVE j \in S
  <2>1. j - 1 \in Nat /\ (j - 1) + 1 = j /\ w - (j - 1) \in 1..w /\ (w - (j - 1)) - 1 = w - j
    OBVIOUS
  <2>2. Shift(n, j) = Shift(n, j - 1) \div 10
    <3>1. Shift(n, (j - 1) + 1) = Shift(n, j - 1) \div 10
      BY <1>3, <2>1, ShiftValues
    <3> QED
      BY <2>1, <3>1
  <2>3. Shift(n, j - 1) = f[w - (j - 1)]
    BY <1>6
  <2>4. f[w - (j - 1)] \div 10 = f[(w - (j - 1)) - 1]
    BY <1>4, <2>1
  <2> QED
    BY <2>1, <2>2, <2>3, <2>4
<1>7. \A j \in 0..w : Shift(n, j) = f[w - j]
  <2>1. S = {j \in 0..w : Shift(n, j) = f[w - j]}
    OBVIOUS
  <2> HIDE DEF S
  <2>2. 0..w \subseteq S
    BY <1>5, <1>6, Climb
  <2> QED
    BY <2>1, <2>2
<1>8. Shift(n, w) = 0
  BY <1>1, <1>7
<1>9. ASSUME NEW i \in 1..w PROVE Decimal(n, w)[i] = s[i]
  <2>1. w - i \in 0..w /\ w - (w - i) = i
    OBVIOUS
  <2>2. Shift(n, w - i) = f[i]
    BY <1>7, <2>1
  <2>3. Decimal(n, w)[i] = Digit(f[i] % 10)
    BY <1>3, <2>2, DecimalDigits
  <2> DEFINE r == f[i] % 10
  <2>4. r = s[i] - 1 /\ s[i] \in 1..10
    BY <1>2, <1>4
  <2> HIDE DEF r
  <2>5. Digit(r) = s[i]
    BY <2>4 DEF Digit
  <2> QED
    BY <2>3, <2>5 DEF r
<1>10. Decimal(n, w) \in DigitStrings(w)
  BY <1>3, DecimalDigits
<1>11. Decimal(n, w) = s
  BY <1>9, <1>10 DEF DigitStrings
<1> QED
  BY <1>3, <1>8, <1>11 DEF n

(* Two strings agree before p, and the first is the smaller one there. *)
DifferAt(s, t, p) == (\A i \in 1..(p - 1) : s[i] = t[i]) /\ s[p] < t[p]

(* Digits that are the smaller ones at the first difference are a smaller  *)
(* number.                                                                 *)
LEMMA DigitOrder ==
    ASSUME NEW w \in Nat, NEW s \in DigitStrings(w), NEW t \in DigitStrings(w),
           NEW p \in 1..w, DifferAt(s, t, p)
    PROVE  Number(s) < Number(t)
<1>1. PICK f \in [0..w -> Nat] : /\ f[0] = 0 /\ \A i \in 1..w : f[i] = 10 * f[i - 1] + (s[i] - Digit(0))
                                 /\ Number(s) = f[w]
  BY NumberValues
<1>2. PICK g \in [0..w -> Nat] : /\ g[0] = 0 /\ \A i \in 1..w : g[i] = 10 * g[i - 1] + (t[i] - Digit(0))
                                 /\ Number(t) = g[w]
  BY NumberValues
<1>3. \A i \in 1..w : s[i] \in 1..10 /\ t[i] \in 1..10
  BY DEF DigitStrings, Digit
<1> DEFINE S == {i \in 0..w : (i < p => f[i] = g[i]) /\ (i >= p => f[i] < g[i])}
<1>4. 0 \in S
  BY <1>1, <1>2
<1>5. ASSUME NEW i \in 1..w, i - 1 \in S PROVE i \in S
  <2> DEFINE a == f[i]
             b == g[i]
             c == f[i - 1]
             d == g[i - 1]
             x == s[i]
             y == t[i]
  <2>1. c \in Nat /\ d \in Nat /\ x \in 1..10 /\ y \in 1..10 /\ a = 10 * c + (x - 1) /\ b = 10 * d + (y - 1)
    BY <1>1, <1>2, <1>3 DEF Digit
  <2>2. (i - 1 < p => c = d) /\ (i - 1 >= p => c < d)
    BY <1>5
  <2>3. (i < p => x = y) /\ (i = p => x < y)
    BY DEF DifferAt
  <2> HIDE DEF a, b, c, d, x, y
  <2>4. (i < p => a = b) /\ (i >= p => a < b)
    <3>1. CASE i < p
      BY <2>1, <2>2, <2>3, <3>1
    <3>2. CASE i = p
      <4>1. c = d /\ x < y
        BY <2>2, <2>3, <3>2
      <4> QED
        BY <2>1, <3>2, <4>1
    <3>3. CASE i > p
      <4>1. c < d
        BY <2>2, <3>3
      <4> QED
        BY <2>1, <3>3, <4>1
    <3> QED
      BY <3>1, <3>2, <3>3
  <2> QED
    BY <2>4 DEF a, b
<1>6. S = {i \in 0..w : (i < p => f[i] = g[i]) /\ (i >= p => f[i] < g[i])}
  OBVIOUS
<1> HIDE DEF S
<1>7. w \in S
  BY <1>4, <1>5, Climb
<1> QED
  BY <1>1, <1>2, <1>6, <1>7

(* A number that is smaller has the smaller digit where they first differ. *)
LEMMA DecimalOrder ==
    ASSUME NEW w \in Nat, NEW m \in Nat, NEW n \in Nat, Shift(m, w) = 0, Shift(n, w) = 0, m < n
    PROVE  \E p \in 1..w : DifferAt(Decimal(m, w), Decimal(n, w), p)
<1> DEFINE s == Decimal(m, w)
           t == Decimal(n, w)
           D == {p \in 1..w : s[p] # t[p]}
<1>1. s \in DigitStrings(w) /\ t \in DigitStrings(w) /\ Number(s) = m /\ Number(t) = n
  BY DecimalDigits, NumberOfDecimal
<1> HIDE DEF s, t
<1>2. D # {}
  BY <1>1 DEF DigitStrings
<1>3. PICK p \in D : \A q \in D : p <= q
  <2>1. D \subseteq Nat
    OBVIOUS
  <2> HIDE DEF D
  <2> QED
    BY <1>2, <2>1, Least
<1>4. p \in 1..w /\ s[p] # t[p] /\ \A i \in 1..(p - 1) : s[i] = t[i]
  BY <1>3
<1>5. s[p] \in 1..10 /\ t[p] \in 1..10
  BY <1>1, <1>4 DEF DigitStrings, Digit
<1>6. ~DifferAt(t, s, p)
  BY <1>1, <1>4, DigitOrder
<1>7. ~(t[p] < s[p])
  BY <1>4, <1>6 DEF DifferAt
<1>8. DifferAt(s, t, p)
  BY <1>4, <1>5, <1>7 DEF DifferAt
<1> QED
  BY <1>4, <1>8 DEF s, t

-----------------------------------------------------------------------------
(* The order of strings. *)
LEMMA DifferBefore ==
    ASSUME NEW s \in Strings, NEW t \in Strings, NEW p \in 1..Len(s), p <= Len(t), DifferAt(s, t, p)
    PROVE  StringBefore(s, t)
<1> DEFINE n == p - 1
<1>1. Len(s) \in Nat /\ Len(t) \in Nat
  BY DEF Strings
<1>2. n \in 0..Len(s) /\ n <= Len(t) /\ n < Len(t) /\ n + 1 = p
  BY <1>1
<1>3. (\A i \in 1..n : s[i] = t[i]) /\ s[n + 1] < t[n + 1]
  BY <1>2 DEF DifferAt
<1> HIDE DEF n
<1> QED
  BY <1>2, <1>3 DEF StringBefore

LEMMA BeforeTransitive ==
    ASSUME NEW s \in Strings, NEW t \in Strings, NEW u \in Strings, StringBefore(s, t), StringBefore(t, u)
    PROVE  StringBefore(s, u)
<1>1. /\ Len(s) \in Nat /\ Len(t) \in Nat /\ Len(u) \in Nat
      /\ \A i \in 1..Len(s) : s[i] \in Nat
      /\ \A i \in 1..Len(t) : t[i] \in Nat
      /\ \A i \in 1..Len(u) : u[i] \in Nat
  BY DEF Strings
<1>2. PICK n \in 0..Len(s) : /\ n <= Len(t) /\ \A i \in 1..n : s[i] = t[i]
                             /\ n < Len(t) /\ (n < Len(s) => s[n + 1] < t[n + 1])
  BY DEF StringBefore
<1>3. PICK m \in 0..Len(t) : /\ m <= Len(u) /\ \A i \in 1..m : t[i] = u[i]
                             /\ m < Len(u) /\ (m < Len(t) => t[m + 1] < u[m + 1])
  BY DEF StringBefore
<1>4. CASE n < m
  <2>1. n <= Len(u) /\ n < Len(u) /\ \A i \in 1..n : s[i] = u[i]
    BY <1>1, <1>2, <1>3, <1>4
  <2>2. t[n + 1] = u[n + 1]
    BY <1>2, <1>3, <1>4
  <2> QED
    BY <1>2, <2>1, <2>2 DEF StringBefore
<1>5. CASE n = m
  <2>1. n <= Len(u) /\ n < Len(u) /\ \A i \in 1..n : s[i] = u[i]
    BY <1>1, <1>2, <1>3, <1>5
  <2>2. n < Len(s) => s[n + 1] < u[n + 1]
    <3> SUFFICES ASSUME n < Len(s) PROVE s[n + 1] < u[n + 1]
      OBVIOUS
    <3>1. s[n + 1] \in Nat /\ t[n + 1] \in Nat /\ u[n + 1] \in Nat
      BY <1>1, <1>2, <1>3, <1>5
    <3>2. s[n + 1] < t[n + 1] /\ t[n + 1] < u[n + 1]
      BY <1>2, <1>3, <1>5
    <3> QED
      BY <3>1, <3>2
  <2> QED
    BY <2>1, <2>2 DEF StringBefore
<1>6. CASE n > m
  <2>1. m \in 0..Len(s) /\ m <= Len(u) /\ m < Len(u) /\ \A i \in 1..m : s[i] = u[i]
    BY <1>1, <1>2, <1>3, <1>6
  <2>2. s[m + 1] = t[m + 1] /\ t[m + 1] < u[m + 1]
    BY <1>1, <1>2, <1>3, <1>6
  <2> QED
    BY <2>1, <2>2 DEF StringBefore
<1> QED
  BY <1>2, <1>3, <1>4, <1>5, <1>6

LEMMA BeforeIrreflexive ==
    ASSUME NEW s \in Strings
    PROVE  ~StringBefore(s, s)
<1>1. Len(s) \in Nat /\ \A i \in 1..Len(s) : s[i] \in Nat
  BY DEF Strings
<1> SUFFICES ASSUME StringBefore(s, s) PROVE FALSE
  OBVIOUS
<1>2. PICK n \in 0..Len(s) : n < Len(s) /\ s[n + 1] < s[n + 1]
  BY DEF StringBefore
<1>3. s[n + 1] \in Nat
  BY <1>1, <1>2
<1> QED
  BY <1>2, <1>3

LEMMA AtMostTransitive ==
    ASSUME NEW s \in Strings, NEW t \in Strings, NEW u \in Strings, StringAtMost(s, t)
    PROVE  (StringBefore(t, u) => StringBefore(s, u)) /\ (StringAtMost(t, u) => StringAtMost(s, u))
BY BeforeTransitive DEF StringAtMost

LEMMA BeforeTotal ==
    ASSUME NEW s \in Strings, NEW t \in Strings
    PROVE  StringAtMost(s, t) \/ StringBefore(t, s)
<1>1. /\ Len(s) \in Nat /\ Len(t) \in Nat
      /\ \A i \in 1..Len(s) : s[i] \in Nat
      /\ \A i \in 1..Len(t) : t[i] \in Nat
  BY DEF Strings
<1> DEFINE D == {p \in 1..Len(s) : p <= Len(t) /\ s[p] # t[p]}
<1>2. CASE D # {}
  <2>1. D \subseteq Nat
    OBVIOUS
  <2>2. PICK p \in D : \A q \in D : p <= q
    <3> HIDE DEF D
    <3> QED
      BY <1>2, <2>1, Least
  <2>3. p \in 1..Len(s) /\ p <= Len(t) /\ s[p] # t[p] /\ \A i \in 1..(p - 1) : s[i] = t[i]
    BY <1>1, <2>2
  <2>4. s[p] \in Nat /\ t[p] \in Nat /\ p \in 1..Len(t)
    BY <1>1, <2>3
  <2>5. DifferAt(s, t, p) \/ DifferAt(t, s, p)
    BY <2>3, <2>4 DEF DifferAt
  <2> QED
    BY <1>1, <2>3, <2>4, <2>5, DifferBefore DEF StringAtMost
<1>3. CASE D = {}
  <2>1. CASE Len(s) = Len(t)
    <3>1. \A i \in 1..Len(s) : s[i] = t[i]
      BY <1>1, <1>3, <2>1
    <3>2. s = t
      BY <2>1, <3>1 DEF Strings
    <3> QED
      BY <3>2 DEF StringAtMost
  <2>2. CASE Len(s) < Len(t)
    <3> DEFINE n == Len(s)
    <3>1. n \in 0..Len(s) /\ n <= Len(t) /\ n < Len(t) /\ ~(n < Len(s)) /\ \A i \in 1..n : s[i] = t[i]
      BY <1>1, <1>3, <2>2
    <3> HIDE DEF n
    <3> QED
      BY <3>1 DEF StringAtMost, StringBefore
  <2>3. CASE Len(t) < Len(s)
    <3> DEFINE n == Len(t)
    <3>1. n \in 0..Len(t) /\ n <= Len(s) /\ n < Len(s) /\ ~(n < Len(t)) /\ \A i \in 1..n : t[i] = s[i]
      BY <1>1, <1>3, <2>3
    <3> HIDE DEF n
    <3> QED
      BY <3>1 DEF StringBefore
  <2> QED
    BY <1>1, <2>1, <2>2, <2>3
<1> QED
  BY <1>2, <1>3

-----------------------------------------------------------------------------
(* Range keys. *)
(* u is s, of length m, with t, of length n, behind it. *)
Concatenated(u, s, t, m, n) ==
    /\ u \in Seq(Nat) /\ Len(u) = m + n
    /\ \A i \in 1..m : u[i] = s[i]
    /\ \A i \in 1..n : u[m + i] = t[i]

LEMMA ConcatPlaces ==
    ASSUME NEW s \in Seq(Nat), NEW t \in Seq(Nat), NEW m \in Nat, NEW n \in Nat, Len(s) = m, Len(t) = n
    PROVE  Concatenated(s \o t, s, t, m, n)
<1> DEFINE u == s \o t
<1>1. u \in Seq(Nat) /\ Len(u) = m + n /\ \A i \in 1..(m + n) : u[i] = IF i <= m THEN s[i] ELSE t[i - m]
  BY ConcatProperties
<1> HIDE DEF u
<1>2. ASSUME NEW i \in 1..m PROVE u[i] = s[i]
  BY <1>1
<1>3. ASSUME NEW i \in 1..n PROVE u[m + i] = t[i]
  <2>1. m + i \in 1..(m + n) /\ ~(m + i <= m) /\ (m + i) - m = i
    OBVIOUS
  <2> QED
    BY <1>1, <2>1
<1>4. Concatenated(u, s, t, m, n)
  BY <1>1, <1>2, <1>3 DEF Concatenated
<1> QED
  BY <1>4 DEF u

LEMMA JoinedPlaces ==
    ASSUME NEW a \in DigitStrings(AtWidth), NEW b \in DigitStrings(TenantWidth), NEW c \in Strings
    PROVE  LET s == Joined(a, b, c) IN
           /\ s \in Strings /\ Len(s) = AtWidth + TenantWidth + 2 + Len(c)
           /\ \A i \in 1..AtWidth : s[i] = a[i]
           /\ s[AtWidth + 1] = Tab
           /\ \A i \in 1..TenantWidth : s[AtWidth + 1 + i] = b[i]
           /\ s[AtWidth + TenantWidth + 2] = Tab
           /\ \A i \in 1..Len(c) : s[AtWidth + TenantWidth + 2 + i] = c[i]
<1> DEFINE n == Len(c)
           f == AtWidth + 1
           g == f + TenantWidth
           h == g + 1
           x == <<Tab>>
           p == a \o x
           q == p \o b
           r == q \o x
           z == r \o c
<1>1. AtWidth \in Nat /\ TenantWidth \in Nat
  BY WidthAssumption DEF WidthAssumption
<1>2. a \in Seq(Nat) /\ Len(a) = AtWidth /\ b \in Seq(Nat) /\ Len(b) = TenantWidth
  BY <1>1 DEF DigitStrings, Digit
<1>3. c \in Seq(Nat) /\ n \in Nat /\ Len(c) = n
  BY DEF Strings
<1>4. f \in Nat /\ g \in Nat /\ h \in Nat
  BY <1>1
<1>5. x \in Seq(Nat) /\ Len(x) = 1 /\ x[1] = Tab /\ 1 \in Nat
  BY DEF Tab
<1>6. Joined(a, b, c) = z
  BY DEF Joined
<1> HIDE DEF n, f, g, h, x, p, q, r, z
<1>7. Concatenated(p, a, x, AtWidth, 1)
  BY <1>1, <1>2, <1>5, ConcatPlaces DEF p
<1>8. Concatenated(q, p, b, f, TenantWidth)
  <2>1. p \in Seq(Nat) /\ Len(p) = f
    BY <1>7 DEF Concatenated, f
  <2> QED
    BY <1>1, <1>2, <1>4, <2>1, ConcatPlaces DEF q
<1>9. Concatenated(r, q, x, g, 1)
  <2>1. q \in Seq(Nat) /\ Len(q) = g
    BY <1>8 DEF Concatenated, g
  <2> QED
    BY <1>4, <1>5, <2>1, ConcatPlaces DEF r
<1>10. Concatenated(z, r, c, h, n)
  <2>1. r \in Seq(Nat) /\ Len(r) = h
    BY <1>9 DEF Concatenated, h
  <2> QED
    BY <1>3, <1>4, <2>1, ConcatPlaces DEF z
<1>11. ASSUME NEW i \in 1..AtWidth PROVE z[i] = a[i]
  <2>1. i \in 1..f /\ i \in 1..g /\ i \in 1..h
    BY <1>1, <1>4 DEF f, g, h
  <2>2. z[i] = r[i] /\ r[i] = q[i] /\ q[i] = p[i] /\ p[i] = a[i]
    BY <1>7, <1>8, <1>9, <1>10, <2>1 DEF Concatenated
  <2> QED
    BY <2>2
<1>12. z[AtWidth + 1] = Tab
  <2>1. f \in 1..f /\ f \in 1..g /\ f \in 1..h /\ f = AtWidth + 1
    BY <1>1, <1>4 DEF f, g, h
  <2>2. p[AtWidth + 1] = Tab
    BY <1>5, <1>7 DEF Concatenated
  <2>3. z[f] = r[f] /\ r[f] = q[f] /\ q[f] = p[f]
    BY <1>8, <1>9, <1>10, <2>1 DEF Concatenated
  <2> QED
    BY <2>1, <2>2, <2>3
<1>13. ASSUME NEW i \in 1..TenantWidth PROVE z[AtWidth + 1 + i] = b[i]
  <2>1. f + i \in 1..g /\ f + i \in 1..h /\ AtWidth + 1 + i = f + i
    BY <1>1, <1>4 DEF f, g, h
  <2>2. z[f + i] = r[f + i] /\ r[f + i] = q[f + i] /\ q[f + i] = b[i]
    BY <1>8, <1>9, <1>10, <2>1 DEF Concatenated
  <2> QED
    BY <2>1, <2>2
<1>14. z[AtWidth + TenantWidth + 2] = Tab
  <2>1. h \in 1..h /\ AtWidth + TenantWidth + 2 = h /\ h = g + 1
    BY <1>1, <1>4 DEF f, g, h
  <2>2. r[g + 1] = Tab
    BY <1>5, <1>9 DEF Concatenated
  <2>3. z[h] = r[h]
    BY <1>10, <2>1 DEF Concatenated
  <2> QED
    BY <2>1, <2>2, <2>3
<1>15. z \in Strings /\ Len(z) = AtWidth + TenantWidth + 2 + Len(c)
  <2>1. h + n = AtWidth + TenantWidth + 2 + n
    BY <1>1, <1>3 DEF f, g, h
  <2> QED
    BY <1>3, <1>10, <2>1 DEF Strings, Concatenated
<1>16. ASSUME NEW i \in 1..Len(c) PROVE z[AtWidth + TenantWidth + 2 + i] = c[i]
  <2>1. AtWidth + TenantWidth + 2 + i = h + i /\ i \in 1..n
    BY <1>1, <1>3 DEF f, g, h
  <2> QED
    BY <1>10, <2>1 DEF Concatenated
<1> QED
  BY <1>6, <1>11, <1>12, <1>13, <1>14, <1>15, <1>16

(* Keys are ordered by time, then by tenant, then by session. *)
LEMMA TimeFirst ==
    ASSUME NEW a \in DigitStrings(AtWidth), NEW b \in DigitStrings(TenantWidth), NEW c \in Strings,
           NEW d \in DigitStrings(AtWidth), NEW e \in DigitStrings(TenantWidth), NEW f \in Strings,
           NEW p \in 1..AtWidth, DifferAt(a, d, p)
    PROVE  StringBefore(Joined(a, b, c), Joined(d, e, f))
<1> DEFINE s == Joined(a, b, c)
           t == Joined(d, e, f)
<1>1. AtWidth \in Nat /\ TenantWidth \in Nat /\ Len(c) \in Nat /\ Len(f) \in Nat
  BY WidthAssumption DEF WidthAssumption, Strings
<1>2. s \in Strings /\ Len(s) = AtWidth + TenantWidth + 2 + Len(c) /\ \A i \in 1..AtWidth : s[i] = a[i]
  BY JoinedPlaces
<1>3. t \in Strings /\ Len(t) = AtWidth + TenantWidth + 2 + Len(f) /\ \A i \in 1..AtWidth : t[i] = d[i]
  BY JoinedPlaces
<1> HIDE DEF s, t
<1>4. p \in 1..Len(s) /\ p <= Len(t)
  BY <1>1, <1>2, <1>3
<1>5. DifferAt(s, t, p)
  BY <1>1, <1>2, <1>3 DEF DifferAt
<1>6. StringBefore(s, t)
  BY <1>2, <1>3, <1>4, <1>5, DifferBefore
<1> QED
  BY <1>6 DEF s, t

LEMMA TenantNext ==
    ASSUME NEW a \in DigitStrings(AtWidth), NEW b \in DigitStrings(TenantWidth), NEW c \in Strings,
           NEW e \in DigitStrings(TenantWidth), NEW f \in Strings,
           NEW p \in 1..TenantWidth, DifferAt(b, e, p)
    PROVE  StringBefore(Joined(a, b, c), Joined(a, e, f))
<1> DEFINE s == Joined(a, b, c)
           t == Joined(a, e, f)
           w == AtWidth + 1
           q == w + p
<1>1. AtWidth \in Nat /\ TenantWidth \in Nat /\ Len(c) \in Nat /\ Len(f) \in Nat
  BY WidthAssumption DEF WidthAssumption, Strings
<1>2. /\ s \in Strings /\ Len(s) = AtWidth + TenantWidth + 2 + Len(c)
      /\ \A i \in 1..AtWidth : s[i] = a[i]
      /\ s[AtWidth + 1] = Tab /\ \A i \in 1..TenantWidth : s[AtWidth + 1 + i] = b[i]
  BY JoinedPlaces
<1>3. /\ t \in Strings /\ Len(t) = AtWidth + TenantWidth + 2 + Len(f)
      /\ \A i \in 1..AtWidth : t[i] = a[i]
      /\ t[AtWidth + 1] = Tab /\ \A i \in 1..TenantWidth : t[AtWidth + 1 + i] = e[i]
  BY JoinedPlaces
<1> HIDE DEF s, t
<1>4. w \in Nat /\ q \in Nat /\ p \in Nat /\ q \in 1..Len(s) /\ q <= Len(t)
  BY <1>1, <1>2, <1>3
<1>5. ASSUME NEW i \in 1..(q - 1) PROVE s[i] = t[i]
  <2>1. CASE i \in 1..AtWidth
    BY <1>2, <1>3, <2>1
  <2>2. CASE i = AtWidth + 1
    BY <1>2, <1>3, <2>2
  <2>3. CASE i > AtWidth + 1
    <3> DEFINE m == i - w
    <3>1. m \in 1..(p - 1) /\ m \in 1..TenantWidth /\ i = AtWidth + 1 + m
      BY <1>1, <2>3
    <3> HIDE DEF m
    <3>2. s[i] = b[m] /\ t[i] = e[m]
      BY <1>2, <1>3, <3>1
    <3>3. b[m] = e[m]
      BY <3>1 DEF DifferAt
    <3> QED
      BY <3>2, <3>3
  <2> QED
    BY <1>1, <2>1, <2>2, <2>3
<1>6. s[q] < t[q]
  <2>1. s[q] = b[p] /\ t[q] = e[p]
    BY <1>2, <1>3
  <2>2. b[p] < e[p]
    BY DEF DifferAt
  <2> QED
    BY <2>1, <2>2
<1> HIDE DEF q
<1>7. DifferAt(s, t, q)
  BY <1>5, <1>6 DEF DifferAt
<1>8. StringBefore(s, t)
  BY <1>2, <1>3, <1>4, <1>7, DifferBefore
<1> QED
  BY <1>8 DEF s, t

LEMMA SessionLast ==
    ASSUME NEW a \in DigitStrings(AtWidth), NEW b \in DigitStrings(TenantWidth), NEW c \in Strings,
           NEW f \in Strings, StringBefore(c, f)
    PROVE  StringBefore(Joined(a, b, c), Joined(a, b, f))
<1> DEFINE s == Joined(a, b, c)
           t == Joined(a, b, f)
           w == AtWidth + TenantWidth + 2
<1>1. AtWidth \in Nat /\ TenantWidth \in Nat /\ Len(c) \in Nat /\ Len(f) \in Nat /\ w \in Nat
  BY WidthAssumption DEF WidthAssumption, Strings
<1>2. /\ s \in Strings /\ Len(s) = w + Len(c)
      /\ \A i \in 1..AtWidth : s[i] = a[i]
      /\ s[AtWidth + 1] = Tab /\ \A i \in 1..TenantWidth : s[AtWidth + 1 + i] = b[i]
      /\ s[w] = Tab /\ \A i \in 1..Len(c) : s[w + i] = c[i]
  BY JoinedPlaces
<1>3. /\ t \in Strings /\ Len(t) = w + Len(f)
      /\ \A i \in 1..AtWidth : t[i] = a[i]
      /\ t[AtWidth + 1] = Tab /\ \A i \in 1..TenantWidth : t[AtWidth + 1 + i] = b[i]
      /\ t[w] = Tab /\ \A i \in 1..Len(f) : t[w + i] = f[i]
  BY JoinedPlaces
<1>4. ASSUME NEW i \in 1..w PROVE s[i] = t[i]
  <2> HIDE DEF s, t
  <2>1. CASE i \in 1..AtWidth
    BY <1>2, <1>3, <2>1
  <2>2. CASE i = AtWidth + 1 \/ i = w
    BY <1>2, <1>3, <2>2
  <2>3. CASE i > AtWidth + 1 /\ i # w
    <3> DEFINE m == i - (AtWidth + 1)
    <3>1. m \in 1..TenantWidth /\ i = AtWidth + 1 + m
      BY <1>1, <2>3
    <3> HIDE DEF m
    <3> QED
      BY <1>2, <1>3, <3>1
  <2> QED
    BY <1>1, <2>1, <2>2, <2>3
<1> HIDE DEF s, t, w
<1>5. PICK n \in 0..Len(c) : /\ n <= Len(f) /\ \A i \in 1..n : c[i] = f[i]
                             /\ n < Len(f) /\ (n < Len(c) => c[n + 1] < f[n + 1])
  BY DEF StringBefore
<1> DEFINE q == w + n
<1>6. q \in 0..Len(s) /\ q <= Len(t) /\ q < Len(t)
  BY <1>1, <1>2, <1>3, <1>5
<1>7. ASSUME NEW i \in 1..q PROVE s[i] = t[i]
  <2>1. CASE i \in 1..w
    BY <1>4, <2>1
  <2>2. CASE i > w
    <3> DEFINE m == i - w
    <3>1. m \in 1..n /\ m \in 1..Len(c) /\ m \in 1..Len(f) /\ i = w + m
      BY <1>1, <1>5, <2>2
    <3> HIDE DEF m
    <3> QED
      BY <1>2, <1>3, <1>5, <3>1
  <2> QED
    BY <1>1, <2>1, <2>2
<1>8. ASSUME q < Len(s) PROVE s[q + 1] < t[q + 1]
  <2>1. n < Len(c) /\ n + 1 \in 1..Len(c) /\ n + 1 \in 1..Len(f) /\ q + 1 = w + (n + 1)
    BY <1>1, <1>2, <1>5, <1>8
  <2>2. s[q + 1] = c[n + 1] /\ t[q + 1] = f[n + 1]
    BY <1>2, <1>3, <2>1
  <2> QED
    BY <1>5, <2>1, <2>2
<1> HIDE DEF q
<1>9. StringBefore(s, t)
  BY <1>6, <1>7, <1>8 DEF StringBefore
<1> QED
  BY <1>9 DEF s, t

(* The key of what fits its widths. *)
LEMMA KeyShape ==
    ASSUME NEW k, Fits(k)
    PROVE  /\ RangeKey(k) = Joined(Decimal(k.at, AtWidth), Decimal(k.tenant, TenantWidth), k.session)
           /\ Decimal(k.at, AtWidth) \in DigitStrings(AtWidth)
           /\ Decimal(k.tenant, TenantWidth) \in DigitStrings(TenantWidth)
           /\ RangeKey(k) \in Strings
<1>1. k.at \in Nat /\ k.tenant \in Nat /\ k.session \in Strings /\ Shift(k.at, AtWidth) = 0 /\ Shift(k.tenant, TenantWidth) = 0
  BY DEF Fits
<1>2. AtWidth \in Nat /\ TenantWidth \in Nat
  BY WidthAssumption DEF WidthAssumption
<1>3. Decimal(k.at, AtWidth) \in DigitStrings(AtWidth) /\ Decimal(k.tenant, TenantWidth) \in DigitStrings(TenantWidth)
  BY <1>1, <1>2, DecimalDigits
<1>4. RangeKey(k) = Joined(Decimal(k.at, AtWidth), Decimal(k.tenant, TenantWidth), k.session)
  BY <1>1 DEF RangeKey, FormatInt
<1> QED
  BY <1>1, <1>3, <1>4, JoinedPlaces

LEMMA BoundShape ==
    LET b == [at |-> Now, tenant |-> MaxTenant, session |-> <<LetterX>>] IN
    /\ Fits(b) /\ DueBound(Now) = RangeKey(b)
    /\ Decimal(MaxTenant, TenantWidth) = [i \in 1..TenantWidth |-> Digit(9)]
<1> DEFINE b == [at |-> Now, tenant |-> MaxTenant, session |-> <<LetterX>>]
           nines == [i \in 1..TenantWidth |-> Digit(9)]
<1>1. TenantWidth \in Nat
  BY WidthAssumption DEF WidthAssumption
<1>2. nines \in DigitStrings(TenantWidth)
  BY DEF DigitStrings, Digit
<1>3. MaxTenant = Number(nines)
  BY DEF MaxTenant
<1> HIDE DEF nines
<1>4. MaxTenant \in Nat /\ Shift(MaxTenant, TenantWidth) = 0 /\ Decimal(MaxTenant, TenantWidth) = nines
  BY <1>1, <1>2, <1>3, DecimalOfNumber
<1>5. <<LetterX>> \in Strings
  BY DEF Strings, LetterX
<1>6. Now \in Nat /\ Shift(Now, AtWidth) = 0
  BY DynamoDbAssumption DEF DynamoDbAssumption
<1>7. b.at = Now /\ b.tenant = MaxTenant /\ b.session = <<LetterX>>
  OBVIOUS
<1>8. DueBound(Now) = RangeKey(b)
  BY DEF DueBound
<1> HIDE DEF b
<1>9. Fits(b)
  BY <1>4, <1>5, <1>6, <1>7 DEF Fits, StringAtMost
<1> QED
  BY <1>4, <1>8, <1>9 DEF b, nines

(* The range of due events is told by their times. *)
LEMMA DueRange ==
    ASSUME NEW k, Fits(k)
    PROVE  StringAtMost(RangeKey(k), DueBound(Now)) <=> k.at <= Now
<1> DEFINE b == [at |-> Now, tenant |-> MaxTenant, session |-> <<LetterX>>]
           s == Decimal(k.at, AtWidth)
           t == Decimal(Now, AtWidth)
           u == Decimal(k.tenant, TenantWidth)
           v == Decimal(MaxTenant, TenantWidth)
           c == k.session
           x == <<LetterX>>
<1>1. Fits(b) /\ DueBound(Now) = RangeKey(b) /\ v = [i \in 1..TenantWidth |-> Digit(9)]
  BY BoundShape
<1>2. b.at = Now /\ b.tenant = MaxTenant /\ b.session = x
  OBVIOUS
<1>3. /\ AtWidth \in Nat /\ TenantWidth \in Nat
      /\ Now \in Nat /\ Shift(Now, AtWidth) = 0 /\ MaxTenant \in Nat /\ Shift(MaxTenant, TenantWidth) = 0
  BY <1>1, <1>2, WidthAssumption DEF WidthAssumption, Fits
<1>4. /\ k.at \in Nat /\ Shift(k.at, AtWidth) = 0 /\ k.tenant \in Nat /\ Shift(k.tenant, TenantWidth) = 0
      /\ c \in Strings /\ x \in Strings
  BY <1>1, <1>2 DEF Fits
<1>5. DueBound(Now) = Joined(t, v, x) /\ t \in DigitStrings(AtWidth) /\ v \in DigitStrings(TenantWidth) /\ DueBound(Now) \in Strings
  <2> HIDE DEF b
  <2> QED
    BY <1>1, <1>2, KeyShape
<1>6. RangeKey(k) = Joined(s, u, c) /\ s \in DigitStrings(AtWidth) /\ u \in DigitStrings(TenantWidth) /\ RangeKey(k) \in Strings
  BY KeyShape
<1>7. k.tenant = MaxTenant => StringAtMost(c, x)
  BY DEF Fits
<1> HIDE DEF b, c, x
<1>8. CASE k.at < Now
  <2>1. \E p \in 1..AtWidth : DifferAt(s, t, p)
    BY <1>3, <1>4, <1>8, DecimalOrder
  <2> HIDE DEF s, t, u, v
  <2>2. StringBefore(RangeKey(k), DueBound(Now))
    BY <1>4, <1>5, <1>6, <2>1, TimeFirst
  <2> QED
    BY <1>3, <1>4, <1>8, <2>2 DEF StringAtMost
<1>9. CASE k.at > Now
  <2>1. \E p \in 1..AtWidth : DifferAt(t, s, p)
    BY <1>3, <1>4, <1>9, DecimalOrder
  <2> HIDE DEF s, t, u, v
  <2>2. StringBefore(DueBound(Now), RangeKey(k))
    BY <1>4, <1>5, <1>6, <2>1, TimeFirst
  <2>3. ~StringAtMost(RangeKey(k), DueBound(Now))
    BY <1>5, <1>6, <2>2, AtMostTransitive, BeforeIrreflexive
  <2> QED
    BY <1>3, <1>4, <1>9, <2>3
<1>10. CASE k.at = Now
  <2>1. s = t
    BY <1>10
  <2>2. CASE k.tenant = MaxTenant
    <3>1. u = v
      BY <2>2
    <3> HIDE DEF s, t, u, v
    <3>2. CASE c = x
      BY <1>5, <1>6, <1>10, <1>3, <2>1, <3>1, <3>2 DEF StringAtMost
    <3>3. CASE StringBefore(c, x)
      <4>1. StringBefore(RangeKey(k), DueBound(Now))
        BY <1>4, <1>5, <1>6, <2>1, <3>1, <3>3, SessionLast
      <4> QED
        BY <1>3, <1>10, <4>1 DEF StringAtMost
    <3> QED
      BY <1>7, <2>2, <3>2, <3>3 DEF StringAtMost
  <2>3. CASE k.tenant # MaxTenant
    <3>1. k.tenant < MaxTenant
      <4> SUFFICES ASSUME MaxTenant < k.tenant PROVE FALSE
        BY <1>3, <1>4, <2>3
      <4>1. PICK p \in 1..TenantWidth : DifferAt(v, u, p)
        BY <1>3, <1>4, DecimalOrder
      <4>2. v[p] = 10
        BY <1>1 DEF Digit
      <4> HIDE DEF u, v
      <4>3. u[p] \in 1..10
        BY <1>6 DEF DigitStrings, Digit
      <4>4. v[p] < u[p]
        BY <4>1 DEF DifferAt
      <4> QED
        BY <4>2, <4>3, <4>4
    <3>2. \E p \in 1..TenantWidth : DifferAt(u, v, p)
      BY <1>3, <1>4, <3>1, DecimalOrder
    <3> HIDE DEF s, t, u, v
    <3>3. StringBefore(RangeKey(k), DueBound(Now))
      BY <1>4, <1>5, <1>6, <2>1, <3>2, TenantNext
    <3> QED
      BY <1>3, <1>10, <3>3 DEF StringAtMost
  <2> QED
    BY <2>2, <2>3
<1> QED
  BY <1>3, <1>4, <1>8, <1>9, <1>10

(* The time is read back from a key. *)
LEMMA KeyTime ==
    ASSUME NEW k, Fits(k)
    PROVE  Parts(RangeKey(k)).at = k.at
<1> DEFINE s == RangeKey(k)
           a == Decimal(k.at, AtWidth)
           w == AtWidth
           L == Len(s)
           C == Cuts(s)
           Lower(p) == {c \in C : c < p}
<1>1. w \in Nat \ {0} /\ TenantWidth \in Nat
  BY WidthAssumption DEF WidthAssumption
<1>2. /\ s \in Strings /\ L = w + TenantWidth + 2 + Len(k.session) /\ Len(k.session) \in Nat
      /\ a \in DigitStrings(w) /\ \A i \in 1..w : s[i] = a[i]
      /\ s[w + 1] = Tab
  <2>1. k.session \in Strings /\ Len(k.session) \in Nat
    BY DEF Fits, Strings
  <2> QED
    BY <2>1, KeyShape, JoinedPlaces
<1>3. Number(a) = k.at
  BY <1>1, NumberOfDecimal DEF Fits
<1> HIDE DEF a
<1>4. DOMAIN s = 1..L /\ L \in Nat /\ w + 1 \in 1..L
  BY <1>1, <1>2 DEF Strings
<1>5. \A i \in 1..w : s[i] # Tab
  BY <1>2 DEF DigitStrings, Digit, Tab
<1> HIDE DEF s, w
<1>6. /\ C \subseteq 0..(L + 1) /\ 0 \in C /\ w + 1 \in C
      /\ \A c \in C : c = 0 \/ c >= w + 1
  <2>1. C \subseteq 0..(L + 1) /\ 0 \in C /\ w + 1 \in C
    BY <1>2, <1>4 DEF Cuts
  <2>2. ASSUME NEW c \in C, c # 0, ~(c >= w + 1) PROVE FALSE
    <3>1. c \in 1..w
      BY <1>1, <1>4, <2>1, <2>2
    <3>2. c # L + 1 /\ s[c] # Tab
      BY <1>1, <1>4, <1>5, <3>1
    <3> QED
      BY <2>2, <3>2 DEF Cuts
  <2> QED
    BY <2>1, <2>2
<1> HIDE DEF C, L
<1>7. \A p : IsFiniteSet(Lower(p)) /\ Cardinality(Lower(p)) \in Nat
  <2>1. IsFiniteSet(0..(L + 1))
    BY <1>4, FS_Interval
  <2>2. \A p : Lower(p) \subseteq 0..(L + 1)
    BY <1>6
  <2> HIDE DEF Lower
  <2> QED
    BY <2>1, <2>2, FS_Subset, FS_CardinalityType
<1>8. Lower(0) = {} /\ Lower(w + 1) = {0}
  <2>1. \A c \in C : c \in Nat /\ ~(c < 0) /\ (c < w + 1 <=> c = 0)
    BY <1>1, <1>4, <1>6
  <2>2. Lower(0) = {}
    BY <2>1
  <2>3. \A c : c \in Lower(w + 1) <=> c = 0
    BY <1>6, <2>1
  <2> HIDE DEF Lower
  <2> QED
    BY <2>2, <2>3
<1>9. \A p \in C : /\ p # 0 => 0 \in Lower(p)
                   /\ p # 0 /\ p # w + 1 => {0, w + 1} \subseteq Lower(p)
  BY <1>1, <1>4, <1>6
<1> DEFINE n(p) == Cardinality(Lower(p))
<1>10. n(0) = 0 /\ n(w + 1) = 1
  <2> HIDE DEF Lower
  <2> QED
    BY <1>8, FS_EmptySet, FS_Singleton
<1>11. \A p \in C : p # 0 => n(p) # 0
  <2> HIDE DEF Lower
  <2> QED
    BY <1>7, <1>9, FS_EmptySet
<1>12. ASSUME NEW p \in C, p # 0, p # w + 1 PROVE n(p) # 1
  <2>1. {0, w + 1} \subseteq Lower(p)
    BY <1>9, <1>12
  <2> HIDE DEF Lower
  <2> SUFFICES ASSUME Cardinality(Lower(p)) = 1 PROVE FALSE
    OBVIOUS
  <2>2. PICK x : Lower(p) = {x}
    BY <1>7, FS_Singleton
  <2>3. 0 = w + 1
    BY <2>1, <2>2
  <2> QED
    BY <1>1, <2>3
<1>13. Cut(s, 0) = 0
  <2>1. Cut(s, 0) = CHOOSE p \in C : n(p) = 0
    BY DEF Cut, C
  <2> HIDE DEF n
  <2> QED
    BY <1>6, <1>10, <1>11, <2>1
<1>14. Cut(s, 1) = w + 1
  <2>1. Cut(s, 1) = CHOOSE p \in C : n(p) = 1
    BY DEF Cut, C
  <2>2. n(0) # 1
    BY <1>10
  <2> HIDE DEF n
  <2> QED
    BY <1>6, <1>10, <1>12, <2>1, <2>2
<1>15. Part(s, 1) = SubSeq(s, 1, w)
  <2>1. 1 - 1 = 0 /\ 0 + 1 = 1 /\ (w + 1) - 1 = w
    BY <1>1
  <2> QED
    BY <1>13, <1>14, <2>1 DEF Part
<1>16. SubSeq(s, 1, w) = a
  <2>0. w \in 1..L
    BY <1>1, <1>4
  <2>1. s \in Seq(Nat) /\ w \in 1..Len(s)
    BY <1>2, <2>0 DEF Strings, L
  <2>2. \A i \in 1..w : SubSeq(s, 1, w)[i] = s[i]
    BY <1>1, <2>1
  <2>3. SubSeq(s, 1, w) = [i \in 1..w |-> s[i]]
    BY <1>1, <2>1
  <2> QED
    BY <1>2, <2>3 DEF DigitStrings
<1>17. Parts(s).at = Number(Part(s, 1))
  BY DEF Parts
<1> QED
  BY <1>3, <1>15, <1>16, <1>17 DEF s

-----------------------------------------------------------------------------
(* Rows and pages. *)
LEMMA RowKeysAre ==
    /\ IsFiniteSet(RowKeys) /\ RowKeys \subseteq Strings /\ None \notin RowKeys
    /\ \A x \in RowKeys : StringAtMost(x, DueBound(Now)) <=> Parts(x).at <= Now
    /\ DueBound(Now) \in Strings
<1>1. /\ IsFiniteSet(Keys) /\ \A k \in Keys : Fits(k)
      /\ None \notin Strings
  BY DynamoDbAssumption DEF DynamoDbAssumption
<1>2. IsFiniteSet(RowKeys)
  <2> DEFINE f == [k \in Keys |-> RangeKey(k)]
  <2>1. f \in Surjection(Keys, RowKeys)
    BY DEF Surjection, RowKeys
  <2> HIDE DEF f
  <2> QED
    BY <1>1, <2>1, FS_Surjection
<1>3. RowKeys \subseteq Strings
  BY <1>1, KeyShape DEF RowKeys
<1>4. ASSUME NEW x \in RowKeys PROVE StringAtMost(x, DueBound(Now)) <=> Parts(x).at <= Now
  <2>1. PICK k \in Keys : x = RangeKey(k)
    BY DEF RowKeys
  <2>2. Fits(k)
    BY <1>1
  <2>3. Parts(x).at = k.at
    BY <2>1, <2>2, KeyTime
  <2>4. StringAtMost(x, DueBound(Now)) <=> k.at <= Now
    BY <2>1, <2>2, DueRange
  <2> QED
    BY <2>3, <2>4
<1>5. DueBound(Now) \in Strings
  <2> DEFINE b == [at |-> Now, tenant |-> MaxTenant, session |-> <<LetterX>>]
  <2>1. Fits(b) /\ DueBound(Now) = RangeKey(b)
    BY BoundShape
  <2> HIDE DEF b
  <2> QED
    BY <2>1, KeyShape
<1> QED
  BY <1>1, <1>2, <1>3, <1>4, <1>5

(* A set put into any sequence without repetition. *)
LEMMA Sequenced ==
    ASSUME NEW S, IsFiniteSet(S), NEW s \in SetToSeqs(S)
    PROVE  s \in Seq(S) /\ Len(s) = Cardinality(S) /\ ToSet(s) = S
<1> DEFINE n == Cardinality(S)
<1>1. n \in Nat
  BY FS_CardinalityType
<1>2. s \in [1..n -> S] /\ \A i, j \in 1..n : i # j => s[i] # s[j]
  BY DEF SetToSeqs
<1>3. IsFiniteSet(1..n) /\ Cardinality(1..n) = n
  BY <1>1, FS_Interval
<1> HIDE DEF n
<1>4. s \in Injection(1..n, S)
  BY <1>2 DEF Injection, IsInjective
<1>5. n = Cardinality(S)
  BY DEF n
<1>6. s \in Surjection(1..n, S)
  BY <1>3, <1>4, <1>5, FS_Injection
<1>7. \A x \in S : \E i \in 1..n : s[i] = x
  BY <1>6 DEF Surjection
<1>8. DOMAIN s = 1..n /\ s \in Seq(S) /\ Len(s) = n
  BY <1>1, <1>2
<1>9. ToSet(s) = S
  BY <1>2, <1>7, <1>8 DEF ToSet
<1> QED
  BY <1>5, <1>8, <1>9

Ascending(s) == \A i, j \in DOMAIN s : i < j => Before(s[i], s[j])

(* What a page holds. *)
GoodPage(q, page) ==
    /\ page.items \in Seq(RowKeys) /\ Ascending(page.items) /\ page.key \in RowKeys \cup {None}
    /\ \A i \in DOMAIN page.items : /\ page.items[i] \in Ahead(q)
                                    /\ page.key # None => StringAtMost(page.items[i], page.key)
    /\ page.key # None => page.key \in Ahead(q)
    /\ \A k \in Ahead(q) : (Matches(q, k) /\ (page.key = None \/ StringAtMost(k, page.key))) => k \in ToSet(page.items)
    /\ q.limit # None => /\ Len(page.items) <= q.limit
                         /\ (page.key = None /\ q.limit # 0) => Len(page.items) # q.limit

LEMMA PagesGood ==
    ASSUME DOMAIN table \subseteq RowKeys, NEW q, q.limit \in Nat \cup {None}, NEW page \in Pages(q)
    PROVE  GoodPage(q, page)
<1>1. IsFiniteSet(RowKeys) /\ None \notin RowKeys /\ Ahead(q) \subseteq RowKeys
  BY RowKeysAre DEF Ahead
<1>2. CASE Ahead(q) = {}
  <2>1. page.items = <<>> /\ page.key = None
    BY <1>2 DEF Pages
  <2>2. <<>> \in Seq(RowKeys) /\ DOMAIN <<>> = {} /\ Len(<<>>) = 0
    OBVIOUS
  <2>3. None \notin Nat
    BY DynamoDbAssumption DEF DynamoDbAssumption
  <2> QED
    BY <1>2, <2>1, <2>2, <2>3 DEF GoodPage, Ascending
<1>3. CASE Ahead(q) # {}
  <2>1. PICK last \in Ahead(q) : page \in PagesUpTo(q, last)
    BY <1>3 DEF Pages
  <2> DEFINE seen == {k \in Ahead(q) : StringAtMost(k, last)}
             most == q.limit = None \/ Cardinality(seen) <= q.limit
             m == {k \in seen : Matches(q, k)}
             named == seen # Ahead(q) \/ Cardinality(seen) = q.limit
  <2>2. PICK rows \in IF most THEN InOrder(m) ELSE {} :
            page = [items |-> rows, key |-> IF named THEN last ELSE None]
    BY <2>1 DEF PagesUpTo
  <2>3. /\ most /\ rows \in InOrder(m) /\ page.items = rows
        /\ named => page.key = last
        /\ ~named => page.key = None
    BY <2>2
  <2>4. seen \subseteq Ahead(q) /\ m \subseteq seen /\ m \subseteq RowKeys
    BY <1>1
  <2>5. \A k : k \in m <=> k \in Ahead(q) /\ StringAtMost(k, last) /\ Matches(q, k)
    OBVIOUS
  <2>6. seen = Ahead(q) => \A k \in Ahead(q) : StringAtMost(k, last)
    OBVIOUS
  <2> HIDE DEF seen, m
  <2>7. IsFiniteSet(seen) /\ IsFiniteSet(m) /\ Cardinality(m) <= Cardinality(seen)
        /\ Cardinality(m) \in Nat /\ Cardinality(seen) \in Nat
    <3>1. IsFiniteSet(Ahead(q))
      BY <1>1, FS_Subset
    <3>2. IsFiniteSet(seen)
      BY <2>4, <3>1, FS_Subset
    <3> QED
      BY <2>4, <3>2, FS_Subset, FS_CardinalityType
  <2>8. rows \in SetToSeqs(m) /\ Ascending(rows)
    BY <2>3 DEF InOrder, Ascending
  <2>9. rows \in Seq(m) /\ Len(rows) = Cardinality(m) /\ ToSet(rows) = m
    BY <2>7, <2>8, Sequenced
  <2>10. rows \in Seq(RowKeys) /\ \A i \in DOMAIN rows : rows[i] \in m
    BY <2>4, <2>9
  <2>11. page.key \in RowKeys \cup {None} /\ (page.key # None => page.key = last) /\ (page.key = None => ~named)
    BY <1>1, <2>3
  <2>12. ASSUME NEW i \in DOMAIN page.items
         PROVE  page.items[i] \in Ahead(q) /\ (page.key # None => StringAtMost(page.items[i], page.key))
    BY <2>3, <2>5, <2>10, <2>11
  <2>13. ASSUME NEW k \in Ahead(q), Matches(q, k), page.key = None \/ StringAtMost(k, page.key)
         PROVE  k \in ToSet(page.items)
    <3>1. StringAtMost(k, last)
      BY <2>6, <2>11, <2>13
    <3> QED
      BY <2>3, <2>5, <2>9, <2>13, <3>1
  <2>14. ASSUME q.limit # None
         PROVE  /\ Len(page.items) <= q.limit
                /\ (page.key = None /\ q.limit # 0) => Len(page.items) # q.limit
    <3>1. q.limit \in Nat /\ Cardinality(seen) <= q.limit /\ Len(page.items) = Cardinality(m)
      BY <2>3, <2>9, <2>14
    <3>2. page.key = None => Cardinality(seen) # q.limit
      BY <2>11
    <3> QED
      BY <2>7, <3>1, <3>2
  <2> QED
    BY <2>3, <2>8, <2>10, <2>11, <2>12, <2>13, <2>14 DEF GoodPage
<1> QED
  BY <1>2, <1>3

-----------------------------------------------------------------------------
(* The readers.  Queries and counts, and rows fetched by key. *)
Places == RowKeys \cup {None}
Scans == [op : {"idle", "query", "loop", "count"}, token : Places, start : Places, next : Places,
          limit : Nat \cup {None}, filter : BOOLEAN, due : BOOLEAN, items : Seq(RowKeys), count : Nat,
          todo : {{}}, status : {"paging", "done", "error"}]
Gets == [op : {"get"}, token : RowKeys \X RowKeys, start : {None}, next : {None}, limit : {None},
         filter : {FALSE}, due : {FALSE}, items : Seq(RowKeys), count : {0},
         todo : SUBSET RowKeys, status : {"paging", "done"}]

(* What a query has got lies up to the place it has reached; what is there *)
(* throughout and lies up to that place, it has got; and once it asks for  *)
(* no more rows it has a token to hand back.                               *)
UpTo(q, still, place) ==
    /\ \A i \in DOMAIN q.items : place # None => StringAtMost(q.items[i], place)
    /\ \A k \in still : (place = None \/ StringAtMost(k, place)) => k \in ToSet(q.items)

Scanning(q, still) ==
    /\ Ascending(q.items)
    /\ q.due => \A i \in DOMAIN q.items : Parts(q.items[i]).at <= Now
    /\ \A k \in still : k \in DOMAIN table /\ Wanted(q, k)
    /\ q.status = "paging" =>
           /\ IF StartAfter(q) = None THEN q.items = <<>> ELSE UpTo(q, still, StartAfter(q))
           /\ q.limit = 0 => q.next # None
    /\ q.status = "done" => UpTo(q, still, q.next)

(* A key asked for is still to be asked for, or its row was found, or the  *)
(* row was not there throughout.                                           *)
Fetching(q, still) ==
    /\ still \subseteq DOMAIN table
    /\ \A i \in 1..2 : q.token[i] \in still => q.token[i] \in q.todo \cup ToSet(q.items)
    /\ q.status = "done" => q.todo = {}

Reading(r) ==
    /\ steady[r] \subseteq RowKeys
    /\ query[r] \in Scans \cup Gets
    /\ query[r].op \in {"query", "loop"} => Scanning(query[r], steady[r])
    /\ query[r].op = "get" => Fetching(query[r], steady[r])

ReadersOK == /\ query \in [Readers -> Scans \cup Gets] /\ steady \in [Readers -> SUBSET RowKeys]
             /\ \A r \in Readers : Reading(r)

(* What the steps of a query leave. *)
Took(q, key, rows, n) == [q EXCEPT !.next = key, !.items = @ \o rows, !.count = n,
                                   !.limit = IF @ = None THEN None ELSE @ - Len(rows)]

LEMMA TookFields ==
    ASSUME NEW q \in Scans, NEW key \in Places, NEW rows \in Seq(RowKeys), NEW n \in Nat,
           q.limit # None => Len(rows) <= q.limit
    PROVE  LET t == Took(q, key, rows, n)
           IN  /\ t \in Scans /\ t.op = q.op /\ t.token = q.token /\ t.start = q.start /\ t.next = key
               /\ t.filter = q.filter /\ t.due = q.due /\ t.items = q.items \o rows /\ t.status = q.status
               /\ t.limit = IF q.limit = None THEN None ELSE q.limit - Len(rows)
<1> DEFINE l == IF q.limit = None THEN None ELSE q.limit - Len(rows)
           s == q.items \o rows
<1>1. l \in Nat \cup {None}
  <2>1. q.limit \in Nat \cup {None}
    BY DEF Scans
  <2>2. Len(rows) \in Nat
    OBVIOUS
  <2> HIDE DEF l
  <2> QED
    BY <2>1, <2>2 DEF l
<1>2. s \in Seq(RowKeys)
  <2>1. q.items \in Seq(RowKeys)
    BY DEF Scans
  <2> QED
    BY <2>1
<1>3. Took(q, key, rows, n) = [q EXCEPT !.next = key, !.items = s, !.count = n, !.limit = l]
  BY DEF Took, Scans
<1> HIDE DEF l, s
<1> DEFINE t == [q EXCEPT !.next = key, !.items = s, !.count = n, !.limit = l]
<1>4. /\ t \in Scans /\ t.op = q.op /\ t.token = q.token /\ t.start = q.start /\ t.next = key
      /\ t.filter = q.filter /\ t.due = q.due /\ t.items = s /\ t.status = q.status /\ t.limit = l
  BY <1>1, <1>2 DEF Scans
<1> QED
  BY <1>3, <1>4 DEF l, s

With(q, status) == [q EXCEPT !.status = status]
FromNext(q) == [q EXCEPT !.start = q.next, !.next = None]

LEMMA WithFields ==
    ASSUME NEW q \in Scans, NEW status \in {"paging", "done", "error"}
    PROVE  LET t == With(q, status)
           IN  /\ t \in Scans /\ t.op = q.op /\ t.token = q.token /\ t.start = q.start /\ t.next = q.next
               /\ t.filter = q.filter /\ t.due = q.due /\ t.items = q.items /\ t.status = status
               /\ t.limit = q.limit
BY DEF Scans, With

LEMMA FromNextFields ==
    ASSUME NEW q \in Scans
    PROVE  LET t == FromNext(q)
           IN  /\ t \in Scans /\ t.op = q.op /\ t.token = q.token /\ t.start = q.next /\ t.next = None
               /\ t.filter = q.filter /\ t.due = q.due /\ t.items = q.items /\ t.status = q.status
               /\ t.limit = q.limit
BY DEF Scans, FromNext, Places

(* Two queries that want the same rows. *)
Alike(p, q) == p.filter = q.filter /\ p.due = q.due /\ p.token = q.token

LEMMA AlikeWanted ==
    ASSUME NEW p, NEW q, Alike(p, q), NEW k
    PROVE  Wanted(p, k) <=> Wanted(q, k)
BY DEF Alike, Wanted, Matches

(* A result set at its end keeps what it has reached. *)
LEMMA EndedScanning ==
    ASSUME NEW q \in Scans, q.op \in {"query", "loop"}, NEW still, still \subseteq RowKeys,
           Ascending(q.items), q.due => \A i \in DOMAIN q.items : Parts(q.items[i]).at <= Now,
           \A k \in still : k \in DOMAIN table /\ Wanted(q, k),
           q.status = "paging", UpTo(q, still, q.next)
    PROVE  LET t == Ended(q) IN t \in Scans /\ t.op \in {"query", "loop"} /\ Scanning(t, still)
<1> DEFINE more == q.op = "loop" /\ q.next # None /\ q.limit # 0
<1>1. CASE more
  <2> DEFINE t == FromNext(q)
  <2>1. Ended(q) = t
    BY <1>1 DEF Ended, FromNext
  <2>2. /\ t \in Scans /\ t.op = q.op /\ t.token = q.token /\ t.start = q.next /\ t.next = None
        /\ t.filter = q.filter /\ t.due = q.due /\ t.items = q.items /\ t.status = q.status
        /\ t.limit = q.limit
    BY FromNextFields
  <2> HIDE DEF t
  <2>3. \A k \in still : Wanted(t, k)
    BY <2>2, AlikeWanted DEF Alike
  <2>4. StartAfter(t) = q.next /\ q.next # None
    BY <1>1, <2>2 DEF StartAfter
  <2>5. UpTo(t, still, StartAfter(t))
    BY <2>2, <2>4 DEF UpTo
  <2> QED
    BY <1>1, <2>1, <2>2, <2>3, <2>4, <2>5 DEF Scanning
<1>2. CASE ~more
  <2> DEFINE t == With(q, "done")
  <2>1. Ended(q) = t
    BY <1>2 DEF Ended, With
  <2>2. /\ t \in Scans /\ t.op = q.op /\ t.token = q.token /\ t.start = q.start /\ t.next = q.next
        /\ t.filter = q.filter /\ t.due = q.due /\ t.items = q.items /\ t.status = "done"
        /\ t.limit = q.limit
    BY WithFields
  <2> HIDE DEF t
  <2>3. \A k \in still : Wanted(t, k)
    BY <2>2, AlikeWanted DEF Alike
  <2>4. UpTo(t, still, t.next)
    BY <2>2 DEF UpTo
  <2> QED
    BY <2>1, <2>2, <2>3, <2>4 DEF Scanning
<1> QED
  BY <1>1, <1>2

(* What a query has when it has taken a page. *)
LEMMA PageTaken ==
    ASSUME DOMAIN table \subseteq RowKeys, NEW q \in Scans, q.op \in {"query", "loop"},
           NEW still, still \subseteq RowKeys, Scanning(q, still), q.status = "paging", q.limit # 0,
           NEW page, GoodPage(q, page)
    PROVE  LET t == Took(q, page.key, page.items, Len(page.items)) IN
           /\ t \in Scans /\ t.op = q.op /\ t.status = "paging" /\ t.next = page.key
           /\ Ascending(t.items) /\ (t.due => \A i \in DOMAIN t.items : Parts(t.items[i]).at <= Now)
           /\ \A k \in still : k \in DOMAIN table /\ Wanted(t, k)
           /\ UpTo(t, still, page.key)
           /\ (t.limit = 0 => page.key # None)
<1> DEFINE rows == page.items
           key == page.key
           from == StartAfter(q)
           s == q.items \o rows
           t == Took(q, key, rows, Len(rows))
<1>1. /\ rows \in Seq(RowKeys) /\ Ascending(rows) /\ key \in Places
      /\ \A i \in DOMAIN rows : rows[i] \in Ahead(q) /\ (key # None => StringAtMost(rows[i], key))
      /\ key # None => key \in Ahead(q)
      /\ \A k \in Ahead(q) : (Matches(q, k) /\ (key = None \/ StringAtMost(k, key))) => k \in ToSet(rows)
      /\ q.limit # None => Len(rows) <= q.limit /\ ((key = None /\ q.limit # 0) => Len(rows) # q.limit)
  BY DEF GoodPage, Places
<1>2. /\ Ascending(q.items) /\ (q.due => \A i \in DOMAIN q.items : Parts(q.items[i]).at <= Now)
      /\ \A k \in still : k \in DOMAIN table /\ Wanted(q, k)
      /\ IF from = None THEN q.items = <<>> ELSE UpTo(q, still, from)
  BY DEF Scanning
<1>3. /\ q.items \in Seq(RowKeys) /\ from \in Places /\ q.limit \in Nat \cup {None} /\ Len(rows) \in Nat
  BY <1>1 DEF Scans, StartAfter
<1> HIDE DEF rows, key, from
<1>4. /\ t \in Scans /\ t.op = q.op /\ t.token = q.token /\ t.start = q.start /\ t.next = key
      /\ t.filter = q.filter /\ t.due = q.due /\ t.items = s /\ t.status = q.status
      /\ t.limit = IF q.limit = None THEN None ELSE q.limit - Len(rows)
  BY <1>1, <1>3, TookFields
<1> HIDE DEF t
<1>5. /\ RowKeys \subseteq Strings /\ None \notin RowKeys
      /\ \A x \in RowKeys : StringAtMost(x, DueBound(Now)) <=> Parts(x).at <= Now
  BY RowKeysAre
<1>6. \A k : k \in Ahead(q) <=> /\ k \in DOMAIN table /\ (from = None \/ Before(from, k))
                                /\ q.due => StringAtMost(k, DueBound(Now))
  BY DEF Ahead, from
<1> DEFINE m == Len(q.items)
           n == Len(rows)
<1>7. /\ m \in Nat /\ n \in Nat /\ DOMAIN q.items = 1..m /\ DOMAIN rows = 1..n
      /\ s \in Seq(RowKeys) /\ DOMAIN s = 1..(m + n)
      /\ \A i \in 1..m : s[i] = q.items[i]
      /\ \A i \in 1..n : s[m + i] = rows[i]
  <2>1. s \in Seq(RowKeys) /\ Len(s) = m + n /\ \A i \in 1..(m + n) : s[i] = IF i <= m THEN q.items[i] ELSE rows[i - m]
    BY <1>1, <1>3, ConcatProperties
  <2>2. m \in Nat /\ n \in Nat /\ DOMAIN q.items = 1..m /\ DOMAIN rows = 1..n /\ DOMAIN s = 1..(m + n)
    BY <1>1, <1>3, <2>1
  <2> HIDE DEF m, n, s
  <2>3. ASSUME NEW i \in 1..m PROVE s[i] = q.items[i]
    BY <2>1, <2>2
  <2>4. ASSUME NEW i \in 1..n PROVE s[m + i] = rows[i]
    <3>1. m + i \in 1..(m + n) /\ ~(m + i <= m) /\ (m + i) - m = i
      BY <2>2
    <3> QED
      BY <2>1, <3>1
  <2> QED
    BY <2>1, <2>2, <2>3, <2>4
<1> HIDE DEF m, n, s
<1>8. \A i \in 1..(m + n) : i \in 1..m \/ \E j \in 1..n : i = m + j
  <2> SUFFICES ASSUME NEW i \in 1..(m + n), i \notin 1..m PROVE \E j \in 1..n : i = m + j
    OBVIOUS
  <2>1. i - m \in 1..n /\ i = m + (i - m)
    BY <1>7
  <2> QED
    BY <2>1
<1>9. \A k \in ToSet(q.items) \cup ToSet(rows) : k \in ToSet(s)
  <2>1. ASSUME NEW i \in 1..m PROVE q.items[i] \in ToSet(s)
    <3>1. i \in 1..(m + n)
      BY <1>7
    <3> QED
      BY <1>7, <3>1 DEF ToSet
  <2>2. ASSUME NEW i \in 1..n PROVE rows[i] \in ToSet(s)
    <3>1. m + i \in 1..(m + n)
      BY <1>7
    <3> QED
      BY <1>7, <3>1 DEF ToSet
  <2> QED
    BY <1>7, <2>1, <2>2 DEF ToSet
<1>10. \A i \in 1..m : q.items[i] \in Strings /\ (from # None /\ StringAtMost(q.items[i], from))
  <2> SUFFICES ASSUME NEW i \in 1..m PROVE q.items[i] \in Strings /\ from # None /\ StringAtMost(q.items[i], from)
    OBVIOUS
  <2>1. q.items[i] \in Strings
    BY <1>3, <1>5, <1>7
  <2>2. from # None
    <3> SUFFICES ASSUME from = None PROVE FALSE
      OBVIOUS
    <3>1. m = 0
      BY <1>2 DEF m
    <3> QED
      BY <1>7, <3>1
  <2> QED
    BY <1>2, <1>7, <2>1, <2>2 DEF UpTo
<1>11. \A i \in 1..n : rows[i] \in Strings /\ rows[i] \in RowKeys /\ (from # None => Before(from, rows[i]))
  <2> SUFFICES ASSUME NEW i \in 1..n PROVE rows[i] \in Strings /\ rows[i] \in RowKeys /\ (from # None => Before(from, rows[i]))
    OBVIOUS
  <2>1. rows[i] \in RowKeys /\ rows[i] \in Ahead(q)
    BY <1>1, <1>7
  <2> QED
    BY <1>5, <1>6, <2>1
<1>12. from # None => from \in Strings
  BY <1>3, <1>5 DEF Places
<1>13. Ascending(s)
  <2> SUFFICES ASSUME NEW i \in 1..(m + n), NEW j \in 1..(m + n), i < j PROVE Before(s[i], s[j])
    BY <1>7 DEF Ascending
  <2>1. CASE j \in 1..m
    <3>1. i \in 1..m
      BY <1>7, <2>1
    <3> QED
      BY <1>2, <1>7, <2>1, <3>1 DEF Ascending
  <2>2. CASE j \notin 1..m
    <3>1. PICK y \in 1..n : j = m + y
      BY <1>8, <2>2
    <3>2. CASE i \in 1..m
      <4>1. StringAtMost(q.items[i], from) /\ Before(from, rows[y]) /\ from \in Strings
            /\ q.items[i] \in Strings /\ rows[y] \in Strings
        BY <1>10, <1>11, <1>12, <3>2
      <4>2. Before(q.items[i], rows[y])
        BY <4>1, AtMostTransitive DEF Before
      <4> QED
        BY <1>7, <3>1, <3>2, <4>2
    <3>3. CASE i \notin 1..m
      <4>1. PICK x \in 1..n : i = m + x
        BY <1>8, <3>3
      <4>2. x < y
        BY <1>7, <3>1, <4>1
      <4> QED
        BY <1>1, <1>7, <3>1, <4>1, <4>2 DEF Ascending
    <3> QED
      BY <3>2, <3>3
  <2> QED
    BY <2>1, <2>2
<1>14. ASSUME q.due, NEW i \in 1..(m + n) PROVE Parts(s[i]).at <= Now
  <2>1. CASE i \in 1..m
    BY <1>2, <1>7, <1>14, <2>1
  <2>2. CASE i \notin 1..m
    <3>1. PICK x \in 1..n : i = m + x
      BY <1>8, <2>2
    <3>2. rows[x] \in RowKeys /\ StringAtMost(rows[x], DueBound(Now))
      BY <1>1, <1>6, <1>7, <1>11, <1>14
    <3> QED
      BY <1>5, <1>7, <3>1, <3>2
  <2> QED
    BY <2>1, <2>2
<1>15. \A k \in still : k \in DOMAIN table /\ Wanted(t, k)
  BY <1>2, <1>4, AlikeWanted DEF Alike
<1>16. ASSUME NEW i \in 1..(m + n), key # None PROVE StringAtMost(s[i], key)
  <2>1. CASE i \in 1..m
    <3>1. /\ StringAtMost(q.items[i], from) /\ Before(from, key) /\ from \in Strings
          /\ q.items[i] \in Strings /\ key \in Strings
      BY <1>1, <1>5, <1>6, <1>10, <1>12, <1>16, <2>1 DEF Places
    <3>2. StringAtMost(q.items[i], key)
      BY <3>1, AtMostTransitive DEF Before, StringAtMost
    <3> QED
      BY <1>7, <2>1, <3>2
  <2>2. CASE i \notin 1..m
    <3>1. PICK x \in 1..n : i = m + x
      BY <1>8, <2>2
    <3> QED
      BY <1>1, <1>7, <1>16, <3>1
  <2> QED
    BY <2>1, <2>2
<1>17. ASSUME NEW k \in still, key = None \/ StringAtMost(k, key) PROVE k \in ToSet(s)
  <2>1. k \in DOMAIN table /\ Wanted(q, k) /\ k \in RowKeys /\ k \in Strings
    BY <1>2, <1>5
  <2>2. CASE from # None /\ ~Before(from, k)
    <3>1. StringAtMost(k, from)
      BY <1>12, <2>1, <2>2, BeforeTotal DEF Before
    <3> QED
      BY <1>2, <1>9, <2>2, <3>1 DEF UpTo
  <2>3. CASE from = None \/ Before(from, k)
    <3>1. Matches(q, k) /\ (q.due => Parts(k).at <= Now)
      BY <2>1 DEF Wanted
    <3>2. k \in Ahead(q)
      BY <1>5, <1>6, <2>1, <2>3, <3>1
    <3>3. k \in ToSet(rows)
      BY <1>1, <1>17, <3>1, <3>2
    <3> QED
      BY <1>9, <3>3
  <2> QED
    BY <2>2, <2>3
<1>18. UpTo(t, still, key)
  BY <1>4, <1>7, <1>16, <1>17 DEF UpTo
<1>19. t.limit = 0 => key # None
  <2>1. None \notin Nat
    BY DynamoDbAssumption DEF DynamoDbAssumption
  <2> SUFFICES ASSUME t.limit = 0, key = None PROVE FALSE
    OBVIOUS
  <2>2. q.limit \in Nat /\ Len(rows) = q.limit /\ q.limit # None /\ q.limit # 0
    BY <1>3, <1>4, <2>1
  <2> QED
    BY <1>1, <2>2
<1>20. Ascending(t.items) /\ (t.due => \A i \in DOMAIN t.items : Parts(t.items[i]).at <= Now)
  BY <1>4, <1>7, <1>13, <1>14
<1> QED
  BY <1>4, <1>15, <1>18, <1>19, <1>20 DEF t, rows, key


-----------------------------------------------------------------------------
(* What the steps of a reader keep. *)
LEMMA ReaderMoved ==
    ASSUME ReadersOK, UNCHANGED table, NEW r \in Readers, NEW q \in Scans \cup Gets, NEW still \in SUBSET RowKeys,
           q.op \in {"query", "loop"} => Scanning(q, still), q.op = "get" => Fetching(q, still),
           query' = [query EXCEPT ![r] = q], steady' = [steady EXCEPT ![r] = still]
    PROVE  ReadersOK'
<1>1. /\ query' \in [Readers -> Scans \cup Gets] /\ steady' \in [Readers -> SUBSET RowKeys]
      /\ query'[r] = q /\ steady'[r] = still
      /\ \A p \in Readers \ {r} : query'[p] = query[p] /\ steady'[p] = steady[p]
  BY DEF ReadersOK
<1>2. ASSUME NEW p, NEW s PROVE /\ Scanning(p, s) => Scanning(p, s)'
                                /\ Fetching(p, s) => Fetching(p, s)'
  BY DEF Scanning, Fetching, Wanted, Matches, UpTo, StartAfter
<1>3. ASSUME NEW p \in Readers
      PROVE  /\ query'[p].op \in {"query", "loop"} => Scanning(query'[p], steady'[p])
             /\ query'[p].op = "get" => Fetching(query'[p], steady'[p])
  BY <1>1 DEF ReadersOK, Reading
<1>4. ASSUME NEW p \in Readers PROVE Reading(p)'
  <2>1. /\ query'[p].op \in {"query", "loop"} => Scanning(query[p], steady[p])'
        /\ query'[p].op = "get" => Fetching(query[p], steady[p])'
    BY <1>2, <1>3
  <2> QED
    BY <1>1, <2>1 DEF Reading
<1> QED
  BY <1>1, <1>4 DEF ReadersOK

(* A reader that does not fetch rows by key. *)
LEMMA ScansKind ==
    ASSUME ReadersOK, NEW r \in Readers, query[r].op # "get"
    PROVE  query[r] \in Scans /\ steady[r] \in SUBSET RowKeys
BY DEF ReadersOK, Gets

(* A result set, or a count, taken to an end. *)
LEMMA EndedScans ==
    ASSUME NEW q \in Scans
    PROVE  LET t == Ended(q) IN t \in Scans /\ t.op = q.op
<1>1. CASE q.op = "loop" /\ q.next # None /\ q.limit # 0
  <2>1. Ended(q) = FromNext(q)
    BY <1>1 DEF Ended, FromNext
  <2> QED
    BY <2>1, FromNextFields
<1>2. CASE ~(q.op = "loop" /\ q.next # None /\ q.limit # 0)
  <2>1. Ended(q) = With(q, "done")
    BY <1>2 DEF Ended, With
  <2> QED
    BY <2>1, WithFields
<1> QED
  BY <1>1, <1>2

(* A page taken by a count: no rows are. *)
LEMMA CountPage ==
    ASSUME NEW q \in Scans, NEW page, GoodPage(q, page), q.limit # None => q.limit \in Nat
    PROVE  LET t == Took(q, page.key, <<>>, Len(page.items)) IN t \in Scans /\ t.op = q.op
<1>1. /\ page.key \in Places /\ Len(page.items) \in Nat
  BY DEF GoodPage, Places
<1>2. <<>> \in Seq(RowKeys) /\ Len(<<>>) = 0 /\ (q.limit # None => 0 <= q.limit)
  OBVIOUS
<1> QED
  BY <1>1, <1>2, TookFields

LEMMA FetchPageKept ==
    ASSUME ReadersOK, DOMAIN table \subseteq RowKeys, NEW r \in Readers, FetchPage(r)
    PROVE  ReadersOK'
<1> DEFINE q == query[r]
           still == steady[r]
<1>1. /\ q \in Scans /\ still \in SUBSET RowKeys /\ q.op \in {"query", "loop", "count"} /\ q.status = "paging"
      /\ q.op \in {"query", "loop"} => Scanning(q, still)
  <2>1. q.op \in {"query", "loop", "count"} /\ q.status = "paging"
    BY DEF FetchPage
  <2>2. Reading(r)
    BY DEF ReadersOK
  <2> QED
    BY <2>1, <2>2, ScansKind DEF Reading
<1>2. UNCHANGED table /\ steady' = [steady EXCEPT ![r] = still]
  BY DEF FetchPage, ReadersOK
<1>3. ASSUME NEW t \in Scans, t.op = q.op, q.op \in {"query", "loop"} => Scanning(t, still),
             query' = [query EXCEPT ![r] = t]
      PROVE  ReadersOK'
  <2> HIDE DEF q, still
  <2>1. t.op # "get"
    BY <1>1, <1>3
  <2> QED
    BY <1>1, <1>2, <1>3, <2>1, ReaderMoved
<1>4. CASE q.limit = 0 /\ query' = [query EXCEPT ![r] = Ended(q)]
  <2> HIDE DEF q, still
  <2>1. Ended(q) \in Scans /\ Ended(q).op = q.op
    BY <1>1, EndedScans
  <2>2. ASSUME q.op \in {"query", "loop"} PROVE Scanning(Ended(q), still)
    <3>1. q.next # None
      BY <1>1, <1>4, <2>2 DEF Scanning
    <3>2. StartAfter(q) = q.next
      BY <3>1 DEF StartAfter
    <3>3. /\ Ascending(q.items) /\ (q.due => \A i \in DOMAIN q.items : Parts(q.items[i]).at <= Now)
          /\ (\A k \in still : k \in DOMAIN table /\ Wanted(q, k)) /\ UpTo(q, still, q.next)
      BY <1>1, <2>2, <3>1, <3>2 DEF Scanning
    <3> QED
      BY <1>1, <2>2, <3>3, EndedScanning
  <2> QED
    BY <1>3, <1>4, <2>1, <2>2
<1>5. CASE q.limit # 0 /\ query' = [query EXCEPT ![r].status = "error"]
  <2> DEFINE t == With(q, "error")
  <2>1. query' = [query EXCEPT ![r] = t]
    BY <1>5 DEF With, ReadersOK
  <2> HIDE DEF q, still
  <2>2. /\ t \in Scans /\ t.op = q.op /\ t.token = q.token /\ t.status = "error"
        /\ t.filter = q.filter /\ t.due = q.due /\ t.items = q.items
    BY <1>1, WithFields
  <2> HIDE DEF t
  <2>3. ASSUME q.op \in {"query", "loop"} PROVE Scanning(t, still)
    <3>1. /\ Ascending(q.items) /\ (q.due => \A i \in DOMAIN q.items : Parts(q.items[i]).at <= Now)
          /\ \A k \in still : k \in DOMAIN table /\ Wanted(q, k)
      BY <1>1, <2>3 DEF Scanning
    <3>2. \A k \in still : Wanted(t, k)
      BY <2>2, <3>1, AlikeWanted DEF Alike
    <3> QED
      BY <2>2, <3>1, <3>2 DEF Scanning
  <2> QED
    BY <1>3, <2>1, <2>2, <2>3
<1>6. ASSUME q.limit # 0, NEW page \in Pages(q), GoodPage(q, page),
             LET rows == IF q.op = "count" THEN <<>> ELSE page.items
                 got == Took(q, page.key, rows, Len(page.items))
             IN  query' = [query EXCEPT ![r] =
                     IF rows = <<>> /\ (page.key = None \/ page.items = <<>>) THEN Ended(got)
                     ELSE IF rows = <<>> THEN [got EXCEPT !.status = "error"]
                     ELSE IF page.key = None THEN Ended(got) ELSE got]
      PROVE  ReadersOK'
  <2> HIDE DEF q, still
  <2>1. CASE q.op = "count"
    <3> DEFINE got == Took(q, page.key, <<>>, Len(page.items))
    <3>1. \/ query' = [query EXCEPT ![r] = Ended(got)]
          \/ query' = [query EXCEPT ![r] = With(got, "error")]
      BY <1>6, <2>1 DEF With
    <3>2. got \in Scans /\ got.op = q.op
      <4>1. q.limit # None => q.limit \in Nat
        BY <1>1 DEF Scans
      <4> QED
        BY <1>1, <1>6, <4>1, CountPage
    <3> HIDE DEF got
    <3>3. /\ Ended(got) \in Scans /\ Ended(got).op = q.op
          /\ With(got, "error") \in Scans /\ With(got, "error").op = q.op
      BY <3>2, EndedScans, WithFields
    <3> QED
      BY <1>3, <2>1, <3>1, <3>3
  <2>2. CASE q.op \in {"query", "loop"}
    <3> DEFINE got == Took(q, page.key, page.items, Len(page.items))
    <3>1. \/ (page.key = None \/ page.items = <<>>) /\ query' = [query EXCEPT ![r] = Ended(got)]
          \/ page.key # None /\ query' = [query EXCEPT ![r] = got]
      BY <1>6, <2>2
    <3>2. /\ got \in Scans /\ got.op = q.op /\ got.status = "paging" /\ got.next = page.key
          /\ Ascending(got.items) /\ (got.due => \A i \in DOMAIN got.items : Parts(got.items[i]).at <= Now)
          /\ \A k \in still : k \in DOMAIN table /\ Wanted(got, k)
          /\ UpTo(got, still, page.key)
          /\ (got.limit = 0 => page.key # None)
      BY <1>1, <1>6, <2>2, PageTaken
    <3> HIDE DEF got
    <3>3. CASE query' = [query EXCEPT ![r] = Ended(got)]
      <4>1. UpTo(got, still, got.next)
        BY <3>2
      <4>2. Ended(got) \in Scans /\ Scanning(Ended(got), still)
        BY <1>1, <2>2, <3>2, <4>1, EndedScanning
      <4>3. Ended(got).op = q.op
        BY <3>2, EndedScans
      <4> QED
        BY <1>3, <3>3, <4>2, <4>3
    <3>4. CASE page.key # None /\ query' = [query EXCEPT ![r] = got]
      <4>1. StartAfter(got) = page.key
        BY <3>2, <3>4 DEF StartAfter
      <4>2. Scanning(got, still)
        BY <3>2, <3>4, <4>1 DEF Scanning
      <4> QED
        BY <1>3, <3>2, <3>4, <4>2
    <3> QED
      BY <3>1, <3>3, <3>4
  <2> QED
    BY <1>1, <2>1, <2>2
<1>7. ASSUME NEW page \in Pages(q) PROVE GoodPage(q, page)
  <2>1. q.limit \in Nat \cup {None}
    BY <1>1 DEF Scans
  <2> HIDE DEF q
  <2> QED
    BY <2>1, PagesGood
<1>8. \/ q.limit = 0 /\ query' = [query EXCEPT ![r] = Ended(q)]
      \/ q.limit # 0 /\ query' = [query EXCEPT ![r].status = "error"]
      \/ q.limit # 0 /\ \E page \in Pages(q) :
            LET rows == IF q.op = "count" THEN <<>> ELSE page.items
                got == Took(q, page.key, rows, Len(page.items))
            IN  query' = [query EXCEPT ![r] =
                    IF rows = <<>> /\ (page.key = None \/ page.items = <<>>) THEN Ended(got)
                    ELSE IF rows = <<>> THEN [got EXCEPT !.status = "error"]
                    ELSE IF page.key = None THEN Ended(got) ELSE got]
  BY DEF FetchPage, Took
<1> HIDE DEF q
<1> QED
  BY <1>4, <1>5, <1>6, <1>7, <1>8

(* A part of the keys has been asked for. *)
Fetched(q, rows, part) ==
    [q EXCEPT !.items = @ \o rows, !.todo = @ \ part, !.status = IF part = q.todo THEN "done" ELSE @]

LEMMA FetchedFields ==
    ASSUME NEW q \in Gets, NEW rows \in Seq(RowKeys), NEW part
    PROVE  LET t == Fetched(q, rows, part)
           IN  /\ t \in Gets /\ t.op = "get" /\ t.token = q.token /\ t.items = q.items \o rows
               /\ t.todo = q.todo \ part /\ t.status = IF part = q.todo THEN "done" ELSE q.status
<1> DEFINE s == q.items \o rows
           d == q.todo \ part
           e == IF part = q.todo THEN "done" ELSE q.status
<1>1. s \in Seq(RowKeys) /\ d \in SUBSET RowKeys /\ e \in {"paging", "done"}
  <2>1. q.items \in Seq(RowKeys) /\ q.todo \in SUBSET RowKeys /\ q.status \in {"paging", "done"}
    BY DEF Gets
  <2> QED
    BY <2>1
<1>2. Fetched(q, rows, part) = [q EXCEPT !.items = s, !.todo = d, !.status = e]
  BY DEF Fetched, Gets
<1> HIDE DEF s, d, e
<1> DEFINE t == [q EXCEPT !.items = s, !.todo = d, !.status = e]
<1>3. t \in Gets /\ t.op = "get" /\ t.token = q.token /\ t.items = s /\ t.todo = d /\ t.status = e
  BY <1>1 DEF Gets
<1> QED
  BY <1>2, <1>3 DEF s, d, e

LEMMA ToSetConcat ==
    ASSUME NEW S, NEW s \in Seq(S), NEW t \in Seq(S)
    PROVE  ToSet(s \o t) = ToSet(s) \cup ToSet(t)
<1> DEFINE c == s \o t
           m == Len(s)
           n == Len(t)
<1>1. /\ m \in Nat /\ n \in Nat /\ DOMAIN s = 1..m /\ DOMAIN t = 1..n /\ DOMAIN c = 1..(m + n)
      /\ \A i \in 1..(m + n) : c[i] = IF i <= m THEN s[i] ELSE t[i - m]
  BY ConcatProperties
<1> HIDE DEF c, m, n
<1>2. ASSUME NEW i \in 1..m PROVE i \in 1..(m + n) /\ c[i] = s[i]
  BY <1>1
<1>3. ASSUME NEW i \in 1..n PROVE m + i \in 1..(m + n) /\ c[m + i] = t[i]
  <2>1. m + i \in 1..(m + n) /\ ~(m + i <= m) /\ (m + i) - m = i
    BY <1>1
  <2> QED
    BY <1>1, <2>1
<1>4. ASSUME NEW i \in 1..(m + n), i \notin 1..m PROVE i - m \in 1..n /\ c[i] = t[i - m]
  BY <1>1, <1>4
<1>5. ToSet(c) \subseteq ToSet(s) \cup ToSet(t)
  BY <1>1, <1>2, <1>4 DEF ToSet
<1>6. ToSet(s) \subseteq ToSet(c) /\ ToSet(t) \subseteq ToSet(c)
  BY <1>1, <1>2, <1>3 DEF ToSet
<1> QED
  BY <1>5, <1>6 DEF c

LEMMA FetchBatchKept ==
    ASSUME ReadersOK, DOMAIN table \subseteq RowKeys, NEW r \in Readers, FetchBatch(r)
    PROVE  ReadersOK'
<1> DEFINE q == query[r]
           still == steady[r]
<1>1. /\ q \in Gets /\ still \in SUBSET RowKeys /\ q.op = "get" /\ q.status = "paging" /\ Fetching(q, still)
  <2>1. q.op = "get" /\ q.status = "paging"
    BY DEF FetchBatch
  <2>2. Reading(r)
    BY DEF ReadersOK
  <2>3. q \in Scans \cup Gets
    BY <2>2 DEF Reading
  <2> QED
    BY <2>1, <2>2, <2>3 DEF Reading, Scans
<1>2. UNCHANGED table /\ steady' = [steady EXCEPT ![r] = still]
  BY DEF FetchBatch, ReadersOK
<1>3. PICK part \in (SUBSET q.todo) \ {{}} : \E rows \in SetToSeqs(part \cap DOMAIN table) :
          query' = [query EXCEPT ![r] = Fetched(q, rows, part)]
  BY DEF FetchBatch, Fetched
<1>4. PICK rows \in SetToSeqs(part \cap DOMAIN table) : query' = [query EXCEPT ![r] = Fetched(q, rows, part)]
  BY <1>3
<1> HIDE DEF q, still
<1>5. rows \in Seq(RowKeys) /\ ToSet(rows) = part \cap DOMAIN table
  <2>1. part \cap DOMAIN table \subseteq RowKeys /\ IsFiniteSet(part \cap DOMAIN table)
    BY RowKeysAre, FS_Subset
  <2>2. rows \in Seq(part \cap DOMAIN table) /\ ToSet(rows) = part \cap DOMAIN table
    BY <2>1, Sequenced
  <2> QED
    BY <2>1, <2>2
<1> DEFINE t == Fetched(q, rows, part)
<1>6. /\ t \in Gets /\ t.op = "get" /\ t.token = q.token /\ t.items = q.items \o rows
      /\ t.todo = q.todo \ part /\ t.status = IF part = q.todo THEN "done" ELSE q.status
  BY <1>1, <1>5, FetchedFields
<1>7. ToSet(t.items) = ToSet(q.items) \cup (part \cap DOMAIN table)
  <2>1. q.items \in Seq(RowKeys)
    BY <1>1 DEF Gets
  <2> QED
    BY <1>5, <1>6, <2>1, ToSetConcat
<1> HIDE DEF t
<1>8. Fetching(t, still)
  <2>1. still \subseteq DOMAIN table /\ \A i \in 1..2 : q.token[i] \in still => q.token[i] \in q.todo \cup ToSet(q.items)
    BY <1>1 DEF Fetching
  <2>2. t.status = "done" => t.todo = {}
    BY <1>1, <1>3, <1>6
  <2>3. ASSUME NEW i \in 1..2, t.token[i] \in still PROVE t.token[i] \in t.todo \cup ToSet(t.items)
    BY <1>6, <1>7, <2>1, <2>3
  <2> QED
    BY <2>1, <2>2, <2>3 DEF Fetching
<1> QED
  BY <1>1, <1>2, <1>4, <1>6, <1>8, ReaderMoved DEF t

(* A query begins with no rows, at the token it is given. *)
LEMMA NoQueryFields ==
    /\ NoQuery \in Scans /\ NoQuery.op = "idle" /\ NoQuery.token = None /\ NoQuery.start = None
    /\ NoQuery.next = None /\ NoQuery.limit = None /\ NoQuery.filter = FALSE /\ NoQuery.due = FALSE
    /\ NoQuery.items = <<>> /\ NoQuery.count = 0 /\ NoQuery.todo = {} /\ NoQuery.status = "done"
<1>1. <<>> \in Seq(RowKeys) /\ {} \in {{}} /\ FALSE \in BOOLEAN /\ 0 \in Nat /\ None \in Places
  BY DEF Places
<1> QED
  BY <1>1 DEF NoQuery, Scans

LEMMA QueriesStart ==
    ASSUME NEW q \in Queries
    PROVE  /\ q \in Scans /\ q.items = <<>> /\ q.next = None /\ q.limit # 0 /\ q.op # "get"
           /\ q.start = q.token
<1>1. /\ Limits \subseteq Nat \ {0} /\ None \notin Nat /\ None \in Places /\ RowKeys \subseteq Places
      /\ \A n \in Limits \cup {None} : n \in Nat \cup {None} /\ n # 0
  BY DynamoDbAssumption DEF DynamoDbAssumption, Places
<1>2. CASE \E k \in RowKeys \cup {None}, n \in Limits \cup {None}, due \in BOOLEAN : q = PageQuery(k, n, due)
  <2>1. PICK k \in RowKeys \cup {None}, n \in Limits \cup {None}, due \in BOOLEAN : q = PageQuery(k, n, due)
    BY <1>2
  <2>2. k \in Places /\ n \in Nat \cup {None} /\ n # 0 /\ (~due) \in BOOLEAN
    BY <1>1
  <2> QED
    BY <2>1, <2>2, NoQueryFields DEF Scans, PageQuery
<1>3. CASE \E n \in Limits : q = LoopQuery(n)
  <2>1. PICK n \in Limits : q = LoopQuery(n)
    BY <1>3
  <2>2. n \in Nat /\ n # 0
    BY <1>1
  <2> QED
    BY <2>1, <2>2, NoQueryFields DEF Scans, LoopQuery
<1>4. CASE q = CountQuery
  <2>1. None # 0
    BY <1>1
  <2> QED
    BY <1>4, <2>1, NoQueryFields DEF Scans, CountQuery
<1> QED
  BY <1>2, <1>3, <1>4 DEF Queries

LEMMA StartQueryKept ==
    ASSUME ReadersOK, DOMAIN table \subseteq RowKeys, NEW r \in Readers, StartQuery(r)
    PROVE  ReadersOK'
<1>1. PICK q \in Queries : /\ query' = [query EXCEPT ![r] = With(q, "paging")]
                           /\ steady' = [steady EXCEPT ![r] = {k \in DOMAIN table : Wanted(q, k)}]
  BY DEF StartQuery, With
<1>2. UNCHANGED table
  BY DEF StartQuery
<1> DEFINE t == With(q, "paging")
           still == {k \in DOMAIN table : Wanted(q, k)}
<1>3. /\ q \in Scans /\ q.items = <<>> /\ q.next = None /\ q.limit # 0 /\ q.op # "get"
      /\ q.start = q.token
  BY QueriesStart
<1>4. /\ t \in Scans /\ t.op = q.op /\ t.token = q.token /\ t.start = q.token /\ t.next = None
      /\ t.filter = q.filter /\ t.due = q.due /\ t.items = <<>> /\ t.status = "paging"
      /\ t.limit # 0
  BY <1>3, WithFields
<1>5. \A k : k \in still <=> k \in DOMAIN table /\ Wanted(q, k)
  OBVIOUS
<1>6. still \in SUBSET RowKeys
  OBVIOUS
<1> HIDE DEF t, still
<1>7. Scanning(t, still)
  <2>1. DOMAIN <<>> = {}
    OBVIOUS
  <2>2. Ascending(t.items) /\ (t.due => \A i \in DOMAIN t.items : Parts(t.items[i]).at <= Now)
    BY <1>4, <2>1 DEF Ascending
  <2>3. \A k \in still : k \in DOMAIN table /\ Wanted(t, k)
    BY <1>4, <1>5, AlikeWanted DEF Alike
  <2>4. StartAfter(t) = q.token
    BY <1>4 DEF StartAfter
  <2>5. ASSUME q.token # None PROVE UpTo(t, still, q.token)
    <3>1. q.token \in RowKeys /\ RowKeys \subseteq Strings
      BY <1>3, <2>5, RowKeysAre DEF Scans, Places
    <3>2. ASSUME NEW k \in still PROVE ~StringAtMost(k, q.token)
      <4>1. Before(q.token, k) /\ k \in Strings
        BY <1>5, <1>6, <2>5, <3>1 DEF Wanted
      <4> QED
        BY <3>1, <4>1, AtMostTransitive, BeforeIrreflexive DEF Before
    <3> QED
      BY <1>4, <2>1, <2>5, <3>2 DEF UpTo
  <2> QED
    BY <1>4, <2>2, <2>3, <2>4, <2>5 DEF Scanning
<1> QED
  BY <1>1, <1>2, <1>3, <1>4, <1>6, <1>7, ReaderMoved DEF t, still

LEMMA StartGetKept ==
    ASSUME ReadersOK, DOMAIN table \subseteq RowKeys, NEW r \in Readers, StartGet(r)
    PROVE  ReadersOK'
<1>1. PICK k \in RowKeys, l \in RowKeys :
          /\ query' = [query EXCEPT ![r] = [NoQuery EXCEPT !.op = "get", !.token = <<k, l>>, !.todo = {k, l},
                                                           !.status = "paging"]]
          /\ steady' = [steady EXCEPT ![r] = {k, l} \cap DOMAIN table]
  BY DEF StartGet
<1>2. UNCHANGED table
  BY DEF StartGet
<1> DEFINE t == [NoQuery EXCEPT !.op = "get", !.token = <<k, l>>, !.todo = {k, l}, !.status = "paging"]
           still == {k, l} \cap DOMAIN table
<1>3. t \in Gets /\ t.op = "get" /\ t.token = <<k, l>> /\ t.todo = {k, l} /\ t.status = "paging"
  <2>1. <<k, l>> \in RowKeys \X RowKeys /\ {k, l} \in SUBSET RowKeys /\ <<>> \in Seq(RowKeys)
    OBVIOUS
  <2> QED
    BY <2>1 DEF NoQuery, Gets
<1>4. Fetching(t, still)
  <2>1. \A i \in 1..2 : <<k, l>>[i] \in {k, l}
    OBVIOUS
  <2> HIDE DEF t
  <2> QED
    BY <1>3, <2>1 DEF Fetching
<1>5. still \in SUBSET RowKeys
  OBVIOUS
<1> HIDE DEF t, still
<1> QED
  BY <1>1, <1>2, <1>3, <1>4, <1>5, ReaderMoved DEF t, still

(* A writer changes no query; what it changed is no longer to be found. *)
LEMMA SteadyKept ==
    ASSUME ReadersOK, NEW t, Becomes(t), UNCHANGED query
    PROVE  ReadersOK'
<1>1. /\ steady' = [r \in Readers |-> {k \in steady[r] : k \in DOMAIN table' /\ table'[k] = table[k]}]
  BY DEF Becomes
<1>2. ASSUME NEW r \in Readers PROVE /\ steady'[r] \subseteq steady[r] /\ steady[r] \subseteq RowKeys
                                     /\ \A k \in steady'[r] : k \in DOMAIN table' /\ table'[k] = table[k]
  BY <1>1 DEF ReadersOK
<1>3. query' \in [Readers -> Scans \cup Gets] /\ steady' \in [Readers -> SUBSET RowKeys]
  BY <1>1, <1>2 DEF ReadersOK
<1>4. ASSUME NEW r \in Readers PROVE Reading(r)'
  <2>1. Reading(r)
    BY DEF ReadersOK
  <2>2. ASSUME query[r].op \in {"query", "loop"} PROVE Scanning(query[r], steady[r])'
    <3> DEFINE q == query[r]
    <3>1. Scanning(q, steady[r])
      BY <2>1, <2>2 DEF Reading
    <3>2. \A k \in steady'[r] : Wanted(q, k)'
      <4> SUFFICES ASSUME NEW k \in steady'[r] PROVE Wanted(q, k)'
        OBVIOUS
      <4>1. Wanted(q, k) /\ table'[k] = table[k] /\ query' = query
        BY <1>2, <3>1 DEF Scanning
      <4> QED
        BY <4>1 DEF Wanted, Matches
    <3>3. \A place : UpTo(q, steady[r], place) => UpTo(q, steady'[r], place)
      BY <1>2 DEF UpTo
    <3>4. query' = query
      OBVIOUS
    <3> QED
      BY <1>2, <3>1, <3>2, <3>3, <3>4 DEF Scanning, StartAfter
  <2>3. ASSUME query[r].op = "get" PROVE Fetching(query[r], steady[r])'
    BY <1>2, <2>1, <2>3 DEF Reading, Fetching
  <2> QED
    BY <1>2, <2>1, <2>2, <2>3 DEF Reading
<1> QED
  BY <1>3, <1>4 DEF ReadersOK

-----------------------------------------------------------------------------
LEMMA InitReaders == Init => ReadersOK
<1> SUFFICES ASSUME Init PROVE ReadersOK
  OBVIOUS
<1>1. query = [r \in Readers |-> NoQuery] /\ steady = [r \in Readers |-> {}]
  BY DEF Init
<1>2. NoQuery \in Scans /\ NoQuery.op = "idle"
  BY NoQueryFields
<1>3. \A r \in Readers : query[r] = NoQuery /\ steady[r] = {}
  BY <1>1
<1>4. \A r \in Readers : Reading(r)
  BY <1>2, <1>3 DEF Reading
<1>5. query \in [Readers -> Scans \cup Gets] /\ steady \in [Readers -> SUBSET RowKeys]
  BY <1>1, <1>2
<1> QED
  BY <1>4, <1>5 DEF ReadersOK

LEMMA UntouchedReaders ==
    ASSUME ReadersOK, UNCHANGED <<table, steady, query>>
    PROVE  ReadersOK'
<1>1. ASSUME NEW q, NEW still PROVE /\ Scanning(q, still) => Scanning(q, still)'
                                    /\ Fetching(q, still) => Fetching(q, still)'
  BY DEF Scanning, Fetching, Wanted, Matches, UpTo, StartAfter
<1>2. ASSUME NEW r \in Readers PROVE Reading(r)'
  BY <1>1 DEF ReadersOK, Reading
<1> QED
  BY <1>2 DEF ReadersOK

LEMMA WriterKeepsReaders ==
    ASSUME ReadersOK, NEW w \in Writers, WriterStep(w)
    PROVE  ReadersOK'
<1>1. UNCHANGED query
  BY DEF WriterStep, Single, Transact, BatchWrite
<1>2. (\E t : Becomes(t)) \/ Untouched
  <2>1. CASE Single(w)
    BY <2>1 DEF Single
  <2>2. CASE Transact(w)
    BY <2>2 DEF Transact
  <2>3. CASE BatchWrite(w)
    BY <2>3 DEF BatchWrite
  <2> QED
    BY <2>1, <2>2, <2>3 DEF WriterStep
<1>3. ASSUME NEW t, Becomes(t) PROVE ReadersOK'
  BY <1>1, <1>3, SteadyKept
<1>4. CASE Untouched
  BY <1>1, <1>4, UntouchedReaders DEF Untouched
<1> QED
  BY <1>2, <1>3, <1>4

LEMMA SpecReaders == Spec => []ReadersOK
<1>1. ASSUME ReadersOK, IInv, [Next]_vars PROVE ReadersOK'
  <2>1. DOMAIN table \subseteq RowKeys
    BY <1>1 DEF IInv, RowsOK
  <2>2. ASSUME NEW w \in Writers, Find(w) \/ Submit(w) PROVE ReadersOK'
    <3>1. UNCHANGED <<table, steady, query>>
      BY <2>2 DEF Find, Submit
    <3> QED
      BY <1>1, <3>1, UntouchedReaders
  <2>3. ASSUME NEW w \in Writers, WriterStep(w) PROVE ReadersOK'
    BY <1>1, <2>3, WriterKeepsReaders
  <2>4. ASSUME NEW r \in Readers, StartQuery(r) PROVE ReadersOK'
    BY <1>1, <2>1, <2>4, StartQueryKept
  <2>5. ASSUME NEW r \in Readers, StartGet(r) PROVE ReadersOK'
    BY <1>1, <2>1, <2>5, StartGetKept
  <2>6. ASSUME NEW r \in Readers, FetchPage(r) PROVE ReadersOK'
    BY <1>1, <2>1, <2>6, FetchPageKept
  <2>7. ASSUME NEW r \in Readers, FetchBatch(r) PROVE ReadersOK'
    BY <1>1, <2>1, <2>7, FetchBatchKept
  <2>8. CASE UNCHANGED vars
    BY <1>1, <2>8, UntouchedReaders DEF vars
  <2> QED
    BY <1>1, <2>2, <2>3, <2>4, <2>5, <2>6, <2>7, <2>8 DEF Next, ReaderStep
<1> QED
  BY SpecIInv, InitReaders, <1>1, PTL DEF Spec

(* Lost answers and conflicts are counted. *)
FaultsOK == faults \in 0..MaxFaults

LEMMA SpecFaults == Spec => []FaultsOK
<1>1. Init => FaultsOK
  BY DynamoDbAssumption DEF Init, FaultsOK, DynamoDbAssumption
<1>2. ASSUME FaultsOK, [Next]_vars PROVE FaultsOK'
  <2>1. ASSUME NEW w \in Writers, Find(w) \/ Submit(w) \/ BatchWrite(w) PROVE UNCHANGED faults
    BY <2>1 DEF Find, Submit, BatchWrite
  <2>2. ASSUME NEW w \in Writers, Single(w) \/ Transact(w)
        PROVE  UNCHANGED faults \/ (faults < MaxFaults /\ faults' = faults + 1)
    <3>1. CASE Single(w)
      BY <3>1 DEF Single
    <3>2. CASE Transact(w)
      BY <3>2 DEF Transact
    <3> QED
      BY <2>2, <3>1, <3>2
  <2>3. ASSUME NEW r \in Readers, StartQuery(r) \/ StartGet(r) \/ ReaderStep(r) PROVE UNCHANGED faults
    BY <2>3 DEF StartQuery, StartGet, ReaderStep, FetchPage, FetchBatch
  <2>4. UNCHANGED faults \/ (faults < MaxFaults /\ faults' = faults + 1)
    BY <1>2, <2>1, <2>2, <2>3 DEF Next, WriterStep, vars
  <2>5. MaxFaults \in Nat
    BY DynamoDbAssumption DEF DynamoDbAssumption
  <2> QED
    BY <1>2, <2>4, <2>5 DEF FaultsOK
<1> QED
  BY <1>1, <1>2, PTL DEF Spec

LEMMA InvTypeOK ==
    ASSUME IInv, ReadersOK, FaultsOK
    PROVE  TypeOK
<1>1. DOMAIN table \subseteq RowKeys /\ \A k \in DOMAIN table : table[k] \in Rows
  BY DEF IInv, RowsOK
<1>2. ASSUME NEW w \in Writers PROVE copy[w] = None \/ (copy[w].key \in RowKeys /\ copy[w].row \in Rows)
  BY DEF IInv, WritersOK, Copies
<1>3. ASSUME NEW w \in Writers
      PROVE  (\A i \in DOMAIN job[w].reqs : job[w].reqs[i] \in Requests) /\ job[w].todo \subseteq DOMAIN job[w].reqs
  <2>1. job[w].reqs \in Seq(GoodRequests)
    BY DEF IInv, WritersOK, Jobs
  <2>2. \A i \in DOMAIN job[w].reqs : job[w].reqs[i] \in Requests
    BY <2>1 DEF GoodRequests
  <2>3. Told(job[w])
    BY DEF IInv
  <2> QED
    BY <2>2, <2>3 DEF Told
<1>4. ASSUME NEW r \in Readers
      PROVE  /\ query[r].status \in {"paging", "done", "error"} /\ steady[r] \subseteq RowKeys
             /\ query[r].limit \in Nat \cup {None}
  <2>1. query[r] \in Scans \cup Gets /\ steady[r] \subseteq RowKeys
    BY DEF ReadersOK, Reading
  <2> QED
    BY <2>1 DEF Scans, Gets
<1> QED
  BY <1>1, <1>2, <1>3, <1>4 DEF TypeOK, FaultsOK

(* A query that ends without an error has returned, once and in the order  *)
(* of their keys, all the rows that were there throughout and lie before   *)
(* the token it hands back, and a due query only rows that are due: for    *)
(* any rows, limits and pages and whatever is written while it goes from   *)
(* page to page.  Rows fetched by key stand where their requests stood,    *)
(* and none that was there throughout is missing.                          *)
THEOREM ReadsCoverHolds == Spec => []ReadsCover
<1>1. ASSUME IInv, ReadersOK, FaultsOK PROVE ReadsCover
  <2>1. TypeOK
    BY <1>1, InvTypeOK
  <2>2. ASSUME NEW r \in Readers, query[r].op \in {"query", "loop"}, query[r].status = "done"
        PROVE  /\ \A k \in steady[r] : (query[r].next = None \/ ~Before(query[r].next, k)) => k \in ToSet(query[r].items)
               /\ \A i, j \in DOMAIN query[r].items : i < j => Before(query[r].items[i], query[r].items[j])
               /\ query[r].due => \A i \in DOMAIN query[r].items : Parts(query[r].items[i]).at <= Now
    <3> DEFINE q == query[r]
               still == steady[r]
    <3>1. q \in Scans /\ still \subseteq RowKeys /\ Scanning(q, still)
      BY <1>1, <2>2, ScansKind DEF ReadersOK, Reading
    <3> HIDE DEF q, still
    <3>2. UpTo(q, still, q.next) /\ Ascending(q.items)
          /\ (q.due => \A i \in DOMAIN q.items : Parts(q.items[i]).at <= Now)
      BY <2>2, <3>1 DEF Scanning, q
    <3>3. ASSUME NEW k \in still, q.next = None \/ ~Before(q.next, k) PROVE k \in ToSet(q.items)
      <4>1. CASE q.next = None
        BY <3>2, <4>1 DEF UpTo
      <4>2. CASE q.next # None
        <5>1. q.next \in Strings /\ k \in Strings
          BY <3>1, <4>2, RowKeysAre DEF Scans, Places
        <5>2. StringAtMost(k, q.next)
          BY <3>3, <4>2, <5>1, BeforeTotal DEF Before
        <5> QED
          BY <3>2, <5>2 DEF UpTo
      <4> QED
        BY <4>1, <4>2
    <3> QED
      BY <3>2, <3>3 DEF Ascending, q, still
  <2>3. ASSUME NEW r \in Readers, query[r].op = "get", query[r].status = "done", NEW i \in 1..2
        PROVE  /\ EntryAt(query[r], i) \in {query[r].token[i], None}
               /\ query[r].token[i] \in steady[r] => EntryAt(query[r], i) = query[r].token[i]
    <3>1. Fetching(query[r], steady[r])
      BY <1>1, <2>3 DEF ReadersOK, Reading
    <3> QED
      BY <2>3, <3>1 DEF Fetching, EntryAt
  <2> QED
    BY <2>1, <2>2, <2>3 DEF ReadsCover
<1> QED
  BY SpecIInv, SpecReaders, SpecFaults, <1>1, PTL
=============================================================================
