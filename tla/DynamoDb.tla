------------------------------ MODULE DynamoDb ------------------------------
(***************************************************************************)
(* Access to DynamoDB (aws/dynamodb.py) and the operations repositories    *)
(* are built from (repos/aws/abstract_repo.py), on one partition of one    *)
(* table.  Writers write single rows, transactions and batches; readers    *)
(* query the partition page by page and fetch rows by key, while it        *)
(* changes under them.  DynamoDB itself is external: it applies a request  *)
(* atomically, may put off part of a batch, cuts a result into pages where *)
(* it likes, may cancel a transaction that meets another one, and its      *)
(* client library sends a request again when the answer was lost.          *)
(***************************************************************************)
EXTENDS DynamoKeys, FiniteSetsExt, SequencesExt

CONSTANTS
    Writers, Readers,
    Keys,           \* range keys: [at, tenant, session]
    Limits,         \* limits queries are given
    Now,            \* the time of due queries
    MaxJobs,        \* bound on jobs and queries begun
    MaxFaults,      \* bound on lost answers and transaction conflicts
    None

(* The numbers fit the widths of the key, and no session of the largest    *)
(* tenant id comes after the "X" that ends the range of due events.        *)
Fits(k) ==
    /\ k.at \in Nat /\ Shift(k.at, AtWidth) = 0
    /\ k.tenant \in Nat /\ Shift(k.tenant, TenantWidth) = 0
    /\ k.session \in Strings
    /\ k.tenant = MaxTenant => StringAtMost(k.session, <<LetterX>>)

ASSUME DynamoDbAssumption ==
    /\ IsFiniteSet(Keys) /\ \A k \in Keys : Fits(k)
    /\ Limits \subseteq Nat \ {0}
    /\ Now \in Nat /\ Shift(Now, AtWidth) = 0
    /\ MaxJobs \in Nat /\ MaxFaults \in Nat
    /\ None \notin Nat \cup {"done", "refused"} /\ None \notin Strings

VARIABLES
    table,          \* the rows, by RangeKey
    copy,           \* what each writer has read: a key and its row, or None
    job,            \* what each writer is executing
    query,          \* what each reader is executing
    begun,          \* jobs and queries begun
    births,         \* history: rows put
    wins,           \* history: state checks passed: <<key, made, counter, job>>
    steady,         \* history: keys whose rows a reader's query has found unchanged
    faults          \* history

vars == <<table, copy, job, query, begun, births, wins, steady, faults>>

RowKeys == {RangeKey(k) : k \in Keys}

(* counter is stateCounter, None in a row that an update made; active      *)
(* stands for the attribute filters look at; made tells re-created rows    *)
(* apart (history).                                                        *)
Rows == [counter : Nat \cup {None}, active : BOOLEAN, made : Nat]

Kinds == {"create", "replace", "update", "upsert", "update_if", "delete", "delete_present", "delete_if"}
Requests == [kind : Kinds, key : RowKeys, active : BOOLEAN, counter : Nat \cup {None}]

NoJob == [op |-> "idle", id |-> 0, reqs |-> <<>>, todo |-> {}, answer |-> None, applied |-> 0, lost |-> FALSE, failing |-> {}]
NoQuery == [op |-> "idle", token |-> None, start |-> None, next |-> None, limit |-> None, filter |-> FALSE,
            due |-> FALSE, items |-> <<>>, count |-> 0, todo |-> {}, status |-> "done"]

TypeOK ==
    /\ DOMAIN table \subseteq RowKeys /\ \A k \in DOMAIN table : table[k] \in Rows
    /\ \A w \in Writers : copy[w] = None \/ (copy[w].key \in RowKeys /\ copy[w].row \in Rows)
    /\ \A w \in Writers : \A i \in DOMAIN job[w].reqs : job[w].reqs[i] \in Requests
    /\ \A w \in Writers : job[w].todo \subseteq DOMAIN job[w].reqs
    /\ \A r \in Readers : query[r].status \in {"paging", "done", "error"} /\ steady[r] \subseteq RowKeys
    /\ \A r \in Readers : query[r].limit \in Nat \cup {None}
    /\ faults \in 0..MaxFaults

Init ==
    /\ \E S \in SUBSET RowKeys, on \in BOOLEAN :
           table = [k \in S |-> [counter |-> 0, active |-> on, made |-> 0]]
    /\ copy = [w \in Writers |-> None] /\ job = [w \in Writers |-> NoJob]
    /\ query = [r \in Readers |-> NoQuery]
    /\ begun = 0 /\ births = 0 /\ wins = {} /\ steady = [r \in Readers |-> {}] /\ faults = 0

-----------------------------------------------------------------------------
(* Requests *)

(* A fault for Passes: the state counter is not in the condition. *)
PassesUnchecked(t, q) ==
    CASE q.kind = "create" -> q.key \notin DOMAIN t
      [] q.kind \in {"replace", "upsert", "delete"} -> TRUE
      [] OTHER -> q.key \in DOMAIN t

(* The condition of a request: attribute_not_exists, key = :k or           *)
(* attribute_exists, stateCounter = :c1.                                   *)
Passes(t, q) ==
    CASE q.kind = "create" -> q.key \notin DOMAIN t
      [] q.kind \in {"replace", "upsert", "delete"} -> TRUE
      [] q.kind \in {"update", "delete_present"} -> q.key \in DOMAIN t
      [] OTHER -> q.key \in DOMAIN t /\ t[q.key].counter = q.counter

(* The row it leaves: a put replaces the row, an update sets the           *)
(* attributes it names, with the counter where there is a state check.     *)
RowAfter(t, q) ==
    CASE q.kind \in {"create", "replace"} -> [counter |-> 0, active |-> q.active, made |-> births + 1]
      [] q.kind = "update_if" -> [t[q.key] EXCEPT !.active = q.active, !.counter = q.counter + 1]
      [] OTHER -> IF q.key \in DOMAIN t THEN [t[q.key] EXCEPT !.active = q.active]
                  ELSE [counter |-> None, active |-> q.active, made |-> births + 1]

Removes(q) == q.kind \in {"delete", "delete_present", "delete_if"}

(* What requests, each for another row, do to the table. *)
Effect(t, reqs) ==
    LET about(k) == {q \in reqs : q.key = k}
        keys == {q.key : q \in reqs}
    IN  [k \in (DOMAIN t \cup keys) \ {q.key : q \in {q \in reqs : Removes(q)}} |->
            IF k \in keys THEN RowAfter(t, CHOOSE q \in about(k) : TRUE) ELSE t[k]]

(* The table has become t: the rows readers were to find unchanged. *)
Becomes(t) ==
    /\ table' = t /\ births' = births + 1
    /\ steady' = [r \in Readers |-> {k \in steady[r] : k \in DOMAIN t /\ t[k] = table[k]}]

Untouched == UNCHANGED <<table, births, steady>>

Req(kind, k, on, c) == [kind |-> kind, key |-> k, active |-> on, counter |-> c]

(* A request without a state check; an upsert fails the session (set_failed). *)
Plain(kind, k) == Req(kind, k, kind # "upsert", None)

-----------------------------------------------------------------------------
(* Writers *)

(* A writer or reader that has its answer may go on to the next thing. *)
Idle(w) == job[w].op = "idle" \/ job[w].answer # None

(* find, by a writer that goes on to write the row it finds.  A read that  *)
(* is not consistent is one made earlier.                                  *)
Find(w) ==
    /\ Idle(w) /\ copy[w] = None /\ begun < MaxJobs
    /\ \E k \in DOMAIN table : copy' = [copy EXCEPT ![w] = [key |-> k, row |-> table[k]]]
    /\ UNCHANGED <<table, job, query, begun, births, wins, steady, faults>>

(* The entry a state check is made for is one that was read. *)
Checked(w) ==
    IF copy[w] = None \/ copy[w].row.counter = None THEN {}
    ELSE {Req(kind, copy[w].key, ~copy[w].row.active, copy[w].row.counter) : kind \in {"update_if", "delete_if"}}

(* create, replace, patch, delete_entry, update_with_state_check,          *)
(* patch_with_condition, delete_with_condition                             *)
Singles(w) ==
    IF copy[w] # None THEN {<<q>> : q \in Checked(w)}
    ELSE {<<Plain(kind, k)>> : kind \in {"create", "replace", "update", "delete"}, k \in RowKeys}

(* The transactions of the repositories: an event moved to another due     *)
(* time (update_action_time), rows touched together, a session set to      *)
(* failed with its contexts gone, a checked update with a new row.         *)
Transactions(w) ==
    IF copy[w] # None THEN {<<q, Plain("create", k)>> : q \in Checked(w), k \in RowKeys}
    ELSE
    {<<Plain("delete_present", p[1]), Plain("create", p[2])>> : p \in RowKeys \X RowKeys}
    \cup {<<Plain("update", p[1]), Plain("update", p[2])>> :
              p \in {p \in RowKeys \X RowKeys : StringBefore(p[1], p[2])}}
    \cup {<<Plain("upsert", p[1]), Plain("delete", p[2])>> : p \in RowKeys \X RowKeys}

Batches == {<<Plain(kind, p[1]), Plain("delete", p[2])>> :
                kind \in {"replace", "delete"}, p \in RowKeys \X RowKeys}

Distinct(reqs) == Len(reqs) = 2 => reqs[1].key # reqs[2].key

Submit(w) ==
    /\ Idle(w) /\ begun < MaxJobs
    /\ \E op \in {"single", "transact", "batch"} :
           \E reqs \in CASE op = "single" -> Singles(w) [] op = "transact" -> Transactions(w) [] OTHER -> Batches :
               /\ Distinct(reqs)
               /\ job' = [job EXCEPT ![w] = [NoJob EXCEPT !.op = op, !.id = begun + 1, !.reqs = reqs, !.todo = DOMAIN reqs]]
    /\ begun' = begun + 1 /\ copy' = [copy EXCEPT ![w] = None]
    /\ UNCHANGED <<table, query, births, wins, steady, faults>>

Running(w, op) == job[w].op = op /\ job[w].answer = None

Won(w, q) == {<<q.key, table[q.key].made, q.counter, job[w].id>>}

(* The answer of a single request or a batch. *)
Answer(ok) == IF ok THEN "done" ELSE "refused"

(* One request, tried until DynamoDB does not throttle it; when its answer *)
(* is lost it is sent again, and applied again if its condition holds.     *)
Single(w) ==
    LET q == job[w].reqs[1]
        ok == Passes(table, q)
    IN
    /\ Running(w, "single")
    /\ IF ok THEN Becomes(Effect(table, {q})) ELSE Untouched
    /\ wins' = IF ok /\ q.kind = "update_if" THEN wins \cup Won(w, q) ELSE wins
    /\ \/ /\ job' = [job EXCEPT ![w].answer = Answer(ok), ![w].applied = @ + (IF ok THEN 1 ELSE 0)]
          /\ UNCHANGED faults
       \/ /\ ok /\ faults < MaxFaults /\ faults' = faults + 1
          /\ job' = [job EXCEPT ![w].lost = TRUE, ![w].applied = @ + 1]
    /\ UNCHANGED <<copy, query, begun>>

(* A fault for FirstReason: the index is not advanced with the reasons. *)
FirstReasonStuck(reqs, failing) == 1

(* transact_write: the first request whose cancellation reason has a code. *)
FirstReason(reqs, failing) == Min(failing)

(* All of the requests or none.  Another transaction on one of the rows    *)
(* cancels it too, and the reason stands at that request.  The library's   *)
(* request token makes a repeated transaction harmless.                    *)
Transact(w) ==
    LET reqs == job[w].reqs
        bad == {i \in DOMAIN reqs : ~Passes(table, reqs[i])}
    IN
    /\ Running(w, "transact")
    /\ \/ /\ bad = {}
          /\ Becomes(Effect(table, ToSet(reqs)))
          /\ wins' = wins \cup UNION {Won(w, reqs[i]) : i \in {i \in DOMAIN reqs : reqs[i].kind = "update_if"}}
          /\ job' = [job EXCEPT ![w].answer = 0, ![w].applied = 1]
          /\ UNCHANGED faults
       \/ /\ bad # {}
          /\ job' = [job EXCEPT ![w].answer = FirstReason(reqs, bad), ![w].failing = bad]
          /\ Untouched /\ UNCHANGED <<wins, faults>>
       \/ /\ bad = {} /\ faults < MaxFaults /\ faults' = faults + 1
          /\ \E i \in DOMAIN reqs :
                 job' = [job EXCEPT ![w].answer = FirstReason(reqs, {i}), ![w].failing = {i}]
          /\ Untouched /\ UNCHANGED wins
    /\ UNCHANGED <<copy, query, begun>>

(* resp['UnprocessedItems'] *)
Unprocessed(todo, part) == todo \ part

(* __process_batch_write: DynamoDB writes a part of the batch, the rest is *)
(* sent again.                                                             *)
BatchWrite(w) ==
    LET reqs == job[w].reqs IN
    /\ Running(w, "batch")
    /\ \E part \in (SUBSET job[w].todo) \ {{}} :
           LET left == Unprocessed(job[w].todo, part) IN
           /\ Becomes(Effect(table, {reqs[i] : i \in part}))
           /\ job' = [job EXCEPT ![w].todo = left, ![w].applied = @ + Cardinality(part),
                                 ![w].answer = IF left = {} THEN "done" ELSE None]
    /\ UNCHANGED <<copy, query, begun, wins, faults>>

-----------------------------------------------------------------------------
(* Readers *)

Before(k, l) == StringBefore(k, l)

(* The rows of a set, each once, in the order of their keys. *)
InOrder(S) == {s \in SetToSeqs(S) : \A i, j \in DOMAIN s : i < j => Before(s[i], s[j])}

(* Whether a query's filter lets the row of k through. *)
Matches(q, k) == q.filter => table[k].active

(* The rows a caller may expect: the range told by the times, not by keys. *)
Wanted(q, k) ==
    /\ q.due => Parts(k).at <= Now
    /\ q.token = None \/ Before(q.token, k)
    /\ Matches(q, k)

(* The queries of the repositories: events due, in the range (pending      *)
(* events) or by a filter and in a loop (tenant events); events or         *)
(* notifications after a token; and a count (has_sessions).                *)
PageQuery(k, n, due) ==
    [NoQuery EXCEPT !.op = "query", !.token = k, !.start = k, !.limit = n, !.due = due, !.filter = ~due]
LoopQuery(n) == [NoQuery EXCEPT !.op = "loop", !.limit = n, !.filter = TRUE]
CountQuery == [NoQuery EXCEPT !.op = "count", !.filter = TRUE]

Queries ==
    {PageQuery(k, n, due) : k \in RowKeys \cup {None}, n \in Limits \cup {None}, due \in BOOLEAN}
    \cup {LoopQuery(n) : n \in Limits} \cup {CountQuery}

StartQuery(r) ==
    /\ query[r].status # "paging" /\ begun < MaxJobs
    /\ \E q \in Queries :
           /\ query' = [query EXCEPT ![r] = [q EXCEPT !.status = "paging"]]
           /\ steady' = [steady EXCEPT ![r] = {k \in DOMAIN table : Wanted(q, k)}]
    /\ begun' = begun + 1
    /\ UNCHANGED <<table, copy, job, births, wins, faults>>

(* A fault for StartAfter: the second page begins where the first did. *)
StartAfterAgain(q) == q.start

(* ExclusiveStartKey *)
StartAfter(q) == IF q.next # None THEN q.next ELSE q.start

(* The rows of the query's range from there on. *)
Ahead(q) == {k \in DOMAIN table : /\ StartAfter(q) = None \/ Before(StartAfter(q), k)
                                  /\ q.due => StringAtMost(k, DueBound(Now))}

(* A page that looks at the rows up to one of them, in key order. *)
PagesUpTo(q, last) ==
    LET seen == {k \in Ahead(q) : StringAtMost(k, last)} IN
    {[items |-> rows, key |-> IF seen # Ahead(q) \/ Cardinality(seen) = q.limit THEN last ELSE None] :
        rows \in IF q.limit = None \/ Cardinality(seen) <= q.limit
                 THEN InOrder({k \in seen : Matches(q, k)}) ELSE {}}

(* The pages DynamoDB may answer with: it looks at a row at least and no   *)
(* more than Limit or than fit, and names the last one unless it came to   *)
(* the end of the range.                                                   *)
Pages(q) ==
    IF Ahead(q) = {} THEN {[items |-> <<>>, key |-> None]}
    ELSE UNION {PagesUpTo(q, last) : last \in Ahead(q)}

(* The result set is at its end.  query_events of tenant events goes on    *)
(* from the token as long as it has not got what it asked for.             *)
Ended(q) ==
    IF q.op = "loop" /\ q.next # None /\ q.limit # 0
    THEN [q EXCEPT !.start = q.next, !.next = None]
    ELSE [q EXCEPT !.status = "done"]

(* query_function is to pass the token it was given and that of a page. *)
KeyTwice(q) == q.next # None /\ q.start # None

(* ResultSet.has_next and query_function.  A page without rows ends the    *)
(* result set even when there is a token; a query that was given a token   *)
(* fails when it needs a second page, for it passes ExclusiveStartKey      *)
(* twice; a count whose first page is not the only one fails in next().    *)
FetchPage(r) ==
    LET q == query[r] IN
    /\ q.op \in {"query", "loop", "count"} /\ q.status = "paging"
    /\ \/ /\ q.limit = 0
          /\ query' = [query EXCEPT ![r] = Ended(q)]
       \/ /\ q.limit # 0
          /\ KeyTwice(q)
          /\ query' = [query EXCEPT ![r].status = "error"]
       \/ /\ q.limit # 0
          /\ ~KeyTwice(q)
          /\ \E page \in Pages(q) :
                 LET rows == IF q.op = "count" THEN <<>> ELSE page.items
                     got == [q EXCEPT !.next = page.key, !.items = @ \o rows,
                                      !.count = Len(page.items),
                                      !.limit = IF @ = None THEN None ELSE @ - Len(rows)]
                 IN  query' = [query EXCEPT ![r] =
                         IF rows = <<>> /\ (page.key = None \/ page.items = <<>>) THEN Ended(got)
                         ELSE IF rows = <<>> THEN [got EXCEPT !.status = "error"]
                         ELSE IF page.key = None THEN Ended(got) ELSE got]
    /\ UNCHANGED <<table, copy, job, begun, births, wins, steady, faults>>

(* batch_get of two rows *)
StartGet(r) ==
    /\ query[r].status # "paging" /\ begun < MaxJobs
    /\ \E k, l \in RowKeys :
           /\ k # l
           /\ query' = [query EXCEPT ![r] = [NoQuery EXCEPT !.op = "get", !.token = <<k, l>>, !.todo = {k, l},
                                                            !.status = "paging"]]
           /\ steady' = [steady EXCEPT ![r] = {k, l} \cap DOMAIN table]
    /\ begun' = begun + 1
    /\ UNCHANGED <<table, copy, job, births, wins, faults>>

(* DynamoDB.batch_get: rows come in any order, keys left unprocessed are   *)
(* asked for again.                                                        *)
FetchBatch(r) ==
    LET q == query[r] IN
    /\ q.op = "get" /\ q.status = "paging"
    /\ \E part \in (SUBSET q.todo) \ {{}} :
           \E rows \in SetToSeqs(part \cap DOMAIN table) :
               query' = [query EXCEPT ![r] = [q EXCEPT !.items = @ \o rows, !.todo = @ \ part,
                                                       !.status = IF part = q.todo THEN "done" ELSE @]]
    /\ UNCHANGED <<table, copy, job, begun, births, wins, steady, faults>>

(* AbstractAwsRepo.batch_get, find_match: each row goes to the position of *)
(* the request with its key.                                               *)
EntryAt(q, i) == IF q.token[i] \in ToSet(q.items) THEN q.token[i] ELSE None

-----------------------------------------------------------------------------
WriterStep(w) == Single(w) \/ Transact(w) \/ BatchWrite(w)
ReaderStep(r) == FetchPage(r) \/ FetchBatch(r)

Next ==
    \/ \E w \in Writers : Find(w) \/ Submit(w) \/ WriterStep(w)
    \/ \E r \in Readers : StartQuery(r) \/ StartGet(r) \/ ReaderStep(r)

Spec == Init /\ [][Next]_vars

-----------------------------------------------------------------------------
(* Of all writers that read a version of a row and write it back with a    *)
(* state check, alone or in a transaction, stale reads and repeated        *)
(* requests included, one succeeds.                                        *)
OneWinner == \A x, y \in wins : (x[1] = y[1] /\ x[2] = y[2] /\ x[3] = y[3]) => x = y

(* What a writer is told is what happened: success means that its request  *)
(* took effect, a refusal that it did not, unless an answer was lost; a    *)
(* transaction that was cancelled changed nothing and the request that is  *)
(* handed back is one that stood in the way; a batch that has returned has *)
(* written everything once, however DynamoDB divided it.                   *)
AnswersTrue ==
    \A w \in Writers :
        LET j == job[w] IN
        /\ (j.op = "single" /\ j.answer = "done") => j.applied > 0
        /\ (j.op = "single" /\ j.answer = "refused") => (j.applied = 0 \/ j.lost)
        /\ (j.op = "transact" /\ j.answer # None) =>
               IF j.answer = 0 THEN j.applied = 1 ELSE j.applied = 0 /\ j.answer \in j.failing
        /\ (j.op = "batch" /\ j.answer # None) => j.applied = Len(j.reqs)

(* A query that ends without an error has returned, once and in the order  *)
(* of their keys, all the rows that were there throughout and lie before   *)
(* the token it hands back: whatever the pages, the limit, the filter and  *)
(* what is written meanwhile.  A due query returns rows by their times.    *)
(* Rows fetched by key stand where their requests stood, and none that was *)
(* there throughout is missing.                                            *)
ReadsCover ==
    /\ TypeOK
    /\ \A r \in Readers :
        LET q == query[r] IN
        (q.op \in {"query", "loop"} /\ q.status = "done") =>
            /\ \A k \in steady[r] : (q.next = None \/ ~Before(q.next, k)) => k \in ToSet(q.items)
            /\ \A i, j \in DOMAIN q.items : i < j => Before(q.items[i], q.items[j])
            /\ q.due => \A i \in DOMAIN q.items : Parts(q.items[i]).at <= Now
    /\ \A r \in Readers :
        LET q == query[r] IN
        (q.op = "get" /\ q.status = "done") =>
            \A i \in 1..2 : /\ EntryAt(q, i) \in {q.token[i], None}
                            /\ q.token[i] \in steady[r] => EntryAt(q, i) = q.token[i]
=============================================================================
