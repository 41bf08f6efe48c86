------------------------------ MODULE Executors ------------------------------
(***************************************************************************)
(* On what the calls of cot::db run: a Database, of the application or of  *)
(* a migration, or a Transaction on one, or on another as a savepoint.     *)
(* Each of the methods of DatabaseBackend is one function that is generic  *)
(* in the executor, and asks it for the statement to fit the kind of       *)
(* database, and whether the model may be used: the models of the          *)
(* application change while migrations do not, and migrations have models  *)
(* of their own.                                                           *)
(***************************************************************************)
EXTENDS Naturals

Kinds     == {"sqlite", "postgres", "mysql"}
ModelType == {"Application", "Migration", "Internal"}

-----------------------------------------------------------------------------
(* Executors.                                                              *)

NewDatabase(kind) == [kind |-> kind, context |-> "Default", savepoints |-> 0, on |-> "pool"]

\* Database::for_migration, for forwards and backwards of a custom operation.
ForMigration(database) == [database EXCEPT !.context = "InMigration"]

\* Database::begin and Transaction::begin: the context stays what it is.
Begin(executor) ==
    [executor EXCEPT !.on = "transaction", !.savepoints = IF executor.on = "pool" THEN 0 ELSE @ + 1]

\* Whether RETURNING fills in the keys, and how many parameters a statement
\* may have; a transaction answers for itself.
DatabaseReturning(kind)    == kind # "mysql"
TransactionReturning(kind) == kind \in {"sqlite", "postgres"}

DatabaseMaxParams    == [sqlite |-> 32766, postgres |-> 65535, mysql |-> 65535]
TransactionMaxParams == [sqlite |-> 32766, postgres |-> 65535, mysql |-> 65535]

\* fetch_option, fetch_all and execute_statement of a transaction: none of
\* them goes around it to the pool.
Connection(executor) == executor.on

CheckModelAllowed(context, type) ==
    /\ context = "InMigration" => type # "Application"
    /\ context = "Default"     => type # "Migration"

-----------------------------------------------------------------------------
(* Operations.  `count` does not ask whether its model is allowed, nor     *)
(* does Transaction::raw_as_with.                                          *)

Generic(function, update) == [function |-> function, update |-> update]

Operations ==
    [insert                |-> Generic("insert_or_update", FALSE),
     insert_or_update      |-> Generic("insert_or_update", TRUE),
     update                |-> Generic("update", TRUE),
     bulk_insert           |-> Generic("bulk_insert", FALSE),
     bulk_insert_or_update |-> Generic("bulk_insert", TRUE),
     query                 |-> Generic("query", FALSE),
     get                   |-> Generic("get", FALSE),
     exists                |-> Generic("exists", FALSE),
     count                 |-> Generic("count", FALSE),
     delete                |-> Generic("delete", TRUE)]

\* The statement is refused before anything is sent, or it is sent: what it
\* does, in which words, and where.
Sent(executor, op, type) ==
    LET asks == Operations[op].function # "count" IN
    IF asks /\ ~CheckModelAllowed(executor.context, type) THEN [refused |-> TRUE]
    ELSE [refused |-> FALSE, does |-> Operations[op], on |-> Connection(executor),
          limit |-> IF executor.on = "pool" THEN DatabaseMaxParams[executor.kind]
                    ELSE TransactionMaxParams[executor.kind],
          returning |-> IF executor.on = "pool" THEN DatabaseReturning(executor.kind)
                        ELSE TransactionReturning(executor.kind)]

\* SQL of the caller's own; what comes back becomes a model in raw_as.
RawStatement(executor) == [refused |-> FALSE, does |-> "raw", on |-> Connection(executor)]

DatabaseRawAs(executor, type) ==
    IF CheckModelAllowed(executor.context, type) THEN RawStatement(executor) ELSE [refused |-> TRUE]

TransactionRawAs(executor, type) == RawStatement(executor)

RawAs(executor, type) ==
    IF executor.on = "pool" THEN DatabaseRawAs(executor, type) ELSE TransactionRawAs(executor, type)

-----------------------------------------------------------------------------
(* Properties                                                              *)

Databases == {NewDatabase(k) : k \in Kinds} \union {ForMigration(NewDatabase(k)) : k \in Kinds}

\* What a program gets hold of, down to a savepoint in a savepoint.
Executor ==
    LET begun == {Begin(d) : d \in Databases}
        saved == {Begin(t) : t \in begun}
    IN  Databases \union begun \union saved \union {Begin(s) : s \in saved}

\* The code of a migration reads and writes no model of the application, and
\* the application none of a migration, however deep in transactions either
\* is: but for count, and raw_as in a transaction, which do not ask.
ContextsKept ==
    \A e \in Executor, type \in ModelType :
        LET foreign == type = (IF e.context = "InMigration" THEN "Application" ELSE "Migration")
        IN  /\ \A op \in DOMAIN Operations \ {"count"} : Sent(e, op, type).refused = foreign
            /\ e.on = "pool" => RawAs(e, type).refused = foreign

\* A transaction, and a savepoint in it, say the same to the database as the
\* database itself does, and say it inside.
TransactionsAlike ==
    \A e \in Executor, op \in DOMAIN Operations, type \in ModelType :
        LET outside == Sent(e, op, type)
            inside  == Sent(Begin(e), op, type)
        IN  /\ inside.refused = outside.refused
            /\ ~inside.refused => inside = [outside EXCEPT !.on = "transaction"]

=============================================================================
