------------------------------- MODULE ModelRows -------------------------------
(***************************************************************************)
(* cot::db::Database and Transaction: insert, save, update, delete and the *)
(* two bulk inserts of a model, statement by statement.  A bulk insert     *)
(* that does not fit into one statement opens a transaction of its own, or *)
(* a savepoint inside the caller's; MySQL, which has no RETURNING, is      *)
(* asked for the keys afterwards.                                          *)
(*                                                                         *)
(* External: the databases.  A statement is atomic; a row that another     *)
(* transaction has written is waited for; the counter that draws keys      *)
(* belongs to the transaction in SQLite and to nobody elsewhere, and only  *)
(* PostgreSQL does not move it for keys that programs write.               *)
(***************************************************************************)
EXTENDS Columns, Executors

CONSTANTS
    Client,     \* callers that share the database
    MaxKey,     \* bound on primary keys
    MaxBatch,   \* bound on the length of a slice
    MaxCalls,   \* bound on the calls of a behaviour
    Backend,    \* databases and models to choose from: the kind of database, the
                \* limit of parameters, the number of columns besides the key
    Inventive,  \* kinds on which programs write keys that nobody has drawn
    Absent,     \* no row
    Untouched   \* a row that a transaction has not written

Key  == 1 .. MaxKey
Data == 1 .. MaxBatch

ASSUME BoundsAssumption == MaxKey \in Nat \ {0} /\ MaxBatch \in Nat \ {0}
ASSUME BackendAssumption ==
    Backend \subseteq [kind : {"sqlite", "postgres", "mysql"}, limit : Nat \ {0}, fields : Nat]
ASSUME NamesAssumption == Automatic \notin Key /\ Absent \notin Data /\ Untouched \notin Data \union {Absent}

VARIABLES
    backend,    \* the database and the model; they never change
    rows,       \* rows[k]: what is committed
    next,       \* the key the database draws next
    call,       \* call[c]: where the call of client c is
    calls       \* how many calls were made

vars == <<backend, rows, next, call, calls>>

Nothing == [k \in Key |-> Untouched]

\* on: the executor; a transaction of the caller's makes one of these calls.
\* done: how many instances are written; nested: does the call run in a
\* transaction of its own; mine: what the transaction has written.  wrote: the
\* keys of the rows the database has written, which the instances learn later.
Idle == [at |-> "idle", on |-> "database", op |-> "none", batch |-> <<>>, done |-> 0,
         nested |-> FALSE, mine |-> Nothing, wrote |-> <<>>, keys |-> <<>>]

Upserts == {"save", "bulkSave"}
Bulk    == {"bulkInsert", "bulkSave"}

Over(new, old) == [k \in Key |-> IF new[k] = Untouched THEN old[k] ELSE new[k]]

InTransaction(c) == call[c].on = "transaction" \/ call[c].nested
View(c)          == Over(call[c].mine, rows)
Held(c)          == {k \in Key : \E d \in Client \ {c} : call[d].mine[k] # Untouched}

SupportsReturning == DatabaseReturning(backend.kind)

\* The first instance decides which columns the database fills.
DrawsKeys(batch) == batch[1].key = Automatic
NumValues(batch) == backend.fields + (IF DrawsKeys(batch) THEN 0 ELSE 1)
\* Mutant: the limit is taken for a limit of rows.
BatchSizeOfRows(batch) == backend.limit

BatchSize(batch) == backend.limit \div NumValues(batch)

Smaller(a, b) == IF a < b THEN a ELSE b
Larger(a, b)  == IF a < b THEN b ELSE a

\* data.chunks_mut(batch_size), or the whole slice.
Chunk(l) ==
    LET size == IF l.nested THEN BatchSize(l.batch) ELSE Len(l.batch)
    IN  l.done + 1 .. Smaller(l.done + size, Len(l.batch))

\* SQLite's counter is a row like others, and there is one writer.
NextKey(c) ==
    IF backend.kind # "sqlite" THEN next
    ELSE CHOOSE k \in next .. MaxKey + 1 :
             /\ \A j \in Key : j >= k => call[c].mine[j] = Untouched
             /\ k > next => call[c].mine[k - 1] # Untouched

NextAfter(keys, drawn) ==
    IF keys = {} \/ (backend.kind = "postgres" /\ ~drawn) THEN next
    ELSE Larger(next, 1 + CHOOSE k \in keys : \A j \in keys : j <= k)

MayWrite(c, keys) ==
    /\ keys \intersect Held(c) = {}
    /\ backend.kind = "sqlite" => Held(c) = {}

\* The operation returns Ok; in a transaction of the caller's nothing has
\* happened yet.
Succeeded(l) == [l EXCEPT !.at = IF l.on = "database" THEN "effected" ELSE "opDone"]

\* Mutant: the savepoint is kept.
FailedKept(l) ==
    IF l.on = "database" THEN Idle ELSE [l EXCEPT !.at = "opFailed", !.nested = FALSE]

\* It returns Err, and drops the transaction or the savepoint it made.
Failed(l) ==
    IF l.on = "database" THEN Idle
    ELSE [l EXCEPT !.at = "opFailed", !.nested = FALSE, !.mine = Nothing]

\* Mutant: the rows are given to the first instances of the slice.
LearnedFromStart(l, ks) ==
    [l EXCEPT !.keys = [i \in DOMAIN @ |-> IF l.done + i \in DOMAIN ks THEN ks[l.done + i] ELSE @[i]]]

\* update_from_db: the instances of the chunk take the keys that were read.
Learned(l, ks) ==
    [l EXCEPT !.keys = [i \in DOMAIN @ |-> IF i \in DOMAIN ks THEN ks[i] ELSE @[i]]]

Moved(c, l) == call' = [call EXCEPT ![c] = l]

\* The statement of c writes `new`, into its transaction or for good.
Writes(c, new, l) ==
    IF InTransaction(c)
    THEN /\ Moved(c, [l EXCEPT !.mine = Over(new, @)])
         /\ UNCHANGED rows
    ELSE /\ rows' = Over(new, rows)
         /\ Moved(c, l)

-----------------------------------------------------------------------------
Init ==
    /\ backend \in Backend
    /\ rows = [k \in Key |-> Absent]
    /\ next = 1
    /\ call = [c \in Client |-> Idle]
    /\ calls = 0

\* Instances that a program may hand over.  Their keys are distinct; either
\* the first one has a key, or none has, as bulk_insert_generic expects; a
\* model without other columns is only ever inserted.
LegalKeys(op, ks) ==
    LET fixed == {i \in DOMAIN ks : ks[i] # Automatic} IN
    /\ \A i \in fixed : backend.kind \in Inventive \/ ks[i] < next
    /\ \A i, j \in fixed : ks[i] = ks[j] => i = j
    /\ fixed # {} => 1 \in fixed
    /\ op \in {"update", "delete"} => fixed = DOMAIN ks
    /\ backend.fields = 0 => fixed = {} /\ op \notin {"update", "delete"}

\* bulk_insert_generic up to its first statement: nothing to do, too many
\* columns or none at all, one statement, or a transaction of many.
Planned(l) ==
    LET whole == /\ Len(l.batch) <= BatchSize(l.batch)
                 /\ ~DrawsKeys(l.batch) \/ SupportsReturning
    IN  IF l.batch = <<>> THEN Succeeded(l)
        ELSE IF NumValues(l.batch) > backend.limit \/ NumValues(l.batch) = 0 THEN Failed(l)
        ELSE [l EXCEPT !.nested = ~whole]

Invoke(c) ==
    /\ call[c].at = "idle"
    /\ calls < MaxCalls /\ calls' = calls + 1
    /\ \E on \in {"database", "transaction"},
          op \in Bulk \union {"insert", "save", "update", "delete"},
          n \in 0 .. MaxBatch :
          /\ op \in Bulk \/ n = 1
          /\ \E ks \in [1 .. n -> Key \union {Automatic}] :
                LET l == [Idle EXCEPT
                      !.at = "statement", !.on = on, !.op = op, !.keys = ks,
                      !.batch = [i \in 1 .. n |-> [key |-> ks[i], data |-> i]]]
                IN  /\ LegalKeys(op, ks)
                    /\ Moved(c, IF op \in Bulk THEN Planned(l) ELSE l)
    /\ UNCHANGED <<backend, rows, next>>

\* The instances of the chunk are written: the next chunk, or the end.
Advanced(l) ==
    IF \E i \in Chunk(l) : i = Len(l.batch)
    THEN IF l.nested THEN [l EXCEPT !.at = "release"] ELSE Succeeded(l)
    ELSE [l EXCEPT !.at = "statement", !.done = l.done + Cardinality(Chunk(l))]

Inserting(c) ==
    /\ call[c].at = "statement"
    /\ call[c].op \in Bulk \union {"insert", "save"}

\* The keys that the rows of the chunk get.
NewKeys(c) ==
    LET l == call[c] IN
    [i \in Chunk(l) |-> IF DrawsKeys(l.batch) THEN NextKey(c) + i - l.done - 1 ELSE l.batch[i].key]

\* The statement cannot be built: an instance without a key where the first
\* one has one.  unreachable!() unwinds and drops all transactions.
Unreachable(c) ==
    /\ Inserting(c)
    /\ ~DrawsKeys(call[c].batch)
    /\ \E i \in Chunk(call[c]) : call[c].batch[i].key = Automatic
    /\ Moved(c, Idle)
    /\ UNCHANGED <<backend, rows, next, calls>>

\* INSERT meets a row.  A key that was drawn is used up.
Collide(c) ==
    LET ks == NewKeys(c) IN
    /\ Inserting(c)
    /\ call[c].op \notin Upserts
    /\ Range(ks) \subseteq Key /\ MayWrite(c, Range(ks))
    /\ \E i \in DOMAIN ks : View(c)[ks[i]] # Absent
    /\ next' = IF DrawsKeys(call[c].batch) /\ backend.kind # "sqlite" THEN next + 1 ELSE next
    /\ Moved(c, Failed(call[c]))
    /\ UNCHANGED <<backend, rows, calls>>

\* INSERT, with ON CONFLICT (pk) DO UPDATE for a save; RETURNING fills in the
\* keys, where there is RETURNING.
Insert(c) ==
    LET l     == call[c]
        ks    == NewKeys(c)
        drawn == DrawsKeys(l.batch)
        new   == [k \in Key |-> IF k \in Range(ks)
                                THEN l.batch[CHOOSE i \in DOMAIN ks : ks[i] = k].data
                                ELSE Untouched]
        wrote == [l EXCEPT !.wrote = @ \o [i \in 1 .. Cardinality(DOMAIN ks) |-> ks[l.done + i]]]
    IN
    /\ Inserting(c)
    /\ Range(ks) \subseteq Key /\ MayWrite(c, Range(ks))
    /\ l.op \in Upserts \/ \A i \in DOMAIN ks : View(c)[ks[i]] = Absent
    /\ next' = IF backend.kind = "sqlite" /\ InTransaction(c) THEN next
               ELSE NextAfter(Range(ks), drawn)
    /\ Writes(c, new,
              IF ~drawn THEN Advanced(wrote)
              ELSE IF SupportsReturning
              THEN Advanced(Learned(wrote, ks))
              ELSE [wrote EXCEPT !.at = "select"])
    /\ UNCHANGED <<backend, calls>>

\* MySQL: SELECT the rows from last_inserted_row_id on, as many as there are
\* instances, in the order of their keys.
Select(c) ==
    LET l     == call[c]
        first == l.wrote[l.done + 1]
        found == {k \in Key : /\ first <= k /\ k < first + Cardinality(Chunk(l))
                              /\ View(c)[k] # Absent}
        nth(i) == CHOOSE k \in found : Cardinality({j \in found : j < k}) = i - l.done - 1
    IN
    /\ l.at = "select"
    /\ Moved(c, IF Cardinality(found) # Cardinality(Chunk(l))
                THEN Failed(l)      \* an error, or the expect of a single insert
                ELSE Advanced(Learned(l, [i \in Chunk(l) |-> nth(i)])))
    /\ UNCHANGED <<backend, rows, next, calls>>

\* UPDATE ... WHERE pk = ?; no row is RecordNotFound.
Update(c) ==
    LET l == call[c]
        k == l.batch[1].key
    IN
    /\ l.at = "statement" /\ l.op = "update"
    /\ MayWrite(c, {k})
    /\ IF View(c)[k] = Absent
       THEN Moved(c, Failed(l)) /\ UNCHANGED rows
       ELSE Writes(c, [Nothing EXCEPT ![k] = l.batch[1].data], Succeeded([l EXCEPT !.wrote = <<k>>]))
    /\ UNCHANGED <<backend, next, calls>>

\* DELETE ... WHERE pk = ?
Delete(c) ==
    LET l == call[c]
        k == l.batch[1].key
    IN
    /\ l.at = "statement" /\ l.op = "delete"
    /\ MayWrite(c, {k})
    /\ Writes(c, IF View(c)[k] = Absent THEN Nothing ELSE [Nothing EXCEPT ![k] = Absent],
              Succeeded([l EXCEPT !.wrote = <<k>>]))
    /\ UNCHANGED <<backend, next, calls>>

\* A transaction is committed.
Commits(c, l) ==
    LET keys == {k \in Key : call[c].mine[k] \notin {Untouched, Absent}} IN
    /\ rows' = Over(call[c].mine, rows)
    /\ next' = IF backend.kind = "sqlite" THEN NextAfter(keys, TRUE) ELSE next
    /\ Moved(c, [l EXCEPT !.mine = Nothing])

\* transaction.commit() of bulk_insert_generic
Release(c) ==
    LET l == call[c] IN
    /\ l.at = "release"
    /\ IF l.on = "database"
       THEN Commits(c, Succeeded([l EXCEPT !.nested = FALSE]))
       ELSE /\ Moved(c, Succeeded([l EXCEPT !.nested = FALSE]))
            /\ UNCHANGED <<rows, next>>
    /\ UNCHANGED <<backend, calls>>

\* Transaction::commit of the caller, who may commit after an error, too.
Commit(c) ==
    /\ call[c].at \in {"opDone", "opFailed"}
    /\ Commits(c, IF call[c].at = "opDone" THEN [call[c] EXCEPT !.at = "effected"] ELSE Idle)
    /\ UNCHANGED <<backend, calls>>

\* A statement fails: the connection, a time-out, a deadlock.
Break(c) ==
    /\ call[c].at \in {"statement", "select", "release"}
    /\ Moved(c, Failed(call[c]))
    /\ UNCHANGED <<backend, rows, next, calls>>

\* The caller has its answer; or it rolls back, or is dropped, or the answer
\* is lost.
End(c) ==
    /\ call[c].at # "idle"
    /\ Moved(c, Idle)
    /\ UNCHANGED <<backend, rows, next, calls>>

Step(c) ==
    \/ Unreachable(c) \/ Collide(c) \/ Insert(c) \/ Select(c)
    \/ Update(c) \/ Delete(c) \/ Release(c) \/ Commit(c)

Next == \E c \in Client : Invoke(c) \/ Step(c) \/ Break(c) \/ End(c)

Spec == Init /\ [][Next]_vars

-----------------------------------------------------------------------------
(* Properties                                                              *)

At == {"idle", "statement", "select", "release", "opDone", "opFailed", "effected"}

Overlay == [Key -> Data \union {Absent, Untouched}]

\* The shapes of rows and calls; what is written and not committed is in a
\* transaction that is open.
TypeOK ==
    /\ backend \in Backend
    /\ rows \in [Key -> Data \union {Absent}]
    /\ next \in 1 .. MaxKey + 1
    /\ \A c \in Client :
          LET l == call[c] IN
          /\ l.at \in At /\ l.on \in {"database", "transaction"}
          /\ l.batch \in Seq([key : Key \union {Automatic}, data : Data])
          /\ l.mine \in Overlay
          /\ DOMAIN l.keys = DOMAIN l.batch
          /\ Len(l.wrote) <= Len(l.batch)
          /\ l.done \in 0 .. Len(l.batch)
          /\ l.mine = Nothing \/ InTransaction(c)

\* No statement of a bulk insert has more parameters than the database takes,
\* and the rows, transactions and calls keep to their shapes.
StatementsFit ==
    TypeOK /\ \A c \in Client :
        call[c].at = "statement" /\ call[c].op \in Bulk
            => Cardinality(Chunk(call[c])) * NumValues(call[c].batch) <= backend.limit

\* When a call has succeeded, every instance has the key of the row that was
\* written for it, whoever else draws keys at the same time.
KeysAreOwn ==
    \A c \in Client : call[c].at \in {"opDone", "effected"} => call[c].keys = call[c].wrote

\* What any model of any database is given, it gives back, in transactions as
\* outside; and only the models of a migration are used in one.
ColumnsFit ==
    calls = 0 => /\ DefinitionsHold /\ ValuesReturn(backend.kind)
                 /\ ContextsKept /\ TransactionsAlike

\* A call has had its effect when nothing can undo it any more; to delete a
\* row that is not there has none.
Effected(c) ==
    \/ call[c].at = "effected" /\ call[c].batch # <<>>
    \/ call[c].at = "select" /\ ~InTransaction(c)
    \/ call[c].at = "opDone" /\ call[c].op = "delete" /\ call[c].mine = Nothing

Table == INSTANCE ModelTable WITH
    rows <- rows,
    call <- [c \in Client |->
        [op    |-> call[c].op,
         batch |-> call[c].batch,
         keys  |-> IF Effected(c) THEN call[c].wrote ELSE Absent]]

\* All or nothing for every slice, and at once for everybody who reads.
ImplementsTable == Table!Spec

=============================================================================
