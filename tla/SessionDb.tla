------------------------------ MODULE SessionDb ------------------------------
(***************************************************************************)
(* cot::session::store::db::DbStore: session records as rows of the table  *)
(* of the model Session, whose column `key` is unique.  `save` is a        *)
(* transaction of several statements: read the row; update it by primary   *)
(* key, or insert a new row inside a savepoint and, when another writer    *)
(* was faster, roll the savepoint back, read again and update.             *)
(*                                                                         *)
(* The database is external.  A write locks its key until the transaction  *)
(* ends.  What a SELECT of a transaction sees is a constant: the committed *)
(* row (PostgreSQL's READ COMMITTED) or, again and again, what its first   *)
(* SELECT saw (InnoDB's REPEATABLE READ, MySQL's default; cot does not     *)
(* choose a level).  Any statement may fail (deadlock, SQLITE_BUSY, a lost *)
(* connection), any answer may be lost, and any call may be dropped by its *)
(* caller: client c then stands for its connection, until the database is  *)
(* done with what was sent.                                                *)
(***************************************************************************)
EXTENDS Integers

CONSTANTS
    Client, Id, Data, Absent, Operation,
    Pk,         \* primary keys; enough that a new one is always left
    Isolation,  \* "read committed" or "consistent reads"
    MaxRetries  \* MAX_COLLISION_RETRIES of store.rs

VARIABLES
    table,  \* table[i]: the committed row whose key is i
    own,    \* own[c]: the row client c's transaction wrote and did not commit
    call    \* call[c]: the call of client c

vars == <<table, own, call>>

NoRow == [pk |-> Absent, data |-> Absent]
Row   == [pk : Pk, data : Data]

Idle == [at |-> "idle", op |-> "none", id |-> Absent, data |-> Absent,
         seen |-> NoRow, tries |-> 0]

\* The first step of each operation.
Start == [create |-> "create", save |-> "get", load |-> "select", delete |-> "delete"]

Invoked(op, i, d) ==
    [Idle EXCEPT !.at = Start[op], !.op = op, !.id = i,
                 !.data = IF op \in {"create", "save"} THEN d ELSE Absent]

Running(c) == call[c].at \notin {"idle", "done", "failed", "panicked"}

\* Another transaction wrote the row with this key and has not ended yet.
Locked(c, i) == \E o \in Client \ {c} : own[o] # NoRow /\ call[o].id = i

UsedPks == {table[i].pk : i \in Id} \union {own[c].pk : c \in Client}
              \union {call[c].seen.pk : c \in Client}

\* AUTO_INCREMENT: some key that nobody knows yet.
NewRow(c) == [pk |-> CHOOSE pk \in Pk : pk \notin UsedPks, data |-> call[c].data]

To(c, step) == [call EXCEPT ![c].at = step]

\* The statement that makes a call's effect last: an answer that does not
\* arrive fails the call although it took effect.
Answered(c) == call' \in {To(c, "done"), To(c, "failed")}

-----------------------------------------------------------------------------
Init == /\ table = [i \in Id |-> NoRow]
        /\ own = [c \in Client |-> NoRow]
        /\ call = [c \in Client |-> Idle]

Invoke(c) ==
    /\ call[c].at = "idle"
    /\ \E op \in Operation, i \in Id, d \in Data :
            call' = [call EXCEPT ![c] = Invoked(op, i, d)]
    /\ UNCHANGED <<table, own>>

\* create_in_executor: one attempt of its loop, an INSERT outside of a
\* transaction.  A taken key costs an attempt and brings a new random id.
\* (On MySQL a SELECT reads the new primary key back before the call returns;
\* when it fails, the row stays, as it does when an answer is lost.)
Create(c) ==
    LET i == call[c].id IN
    /\ call[c].at = "create"
    /\ ~Locked(c, i)
    /\ \/ /\ table[i] = NoRow
          /\ table' = [table EXCEPT ![i] = NewRow(c)]
          /\ Answered(c)
       \/ /\ table[i] # NoRow
          /\ \E fresh \in Id :
                call' = IF call[c].tries < MaxRetries
                        THEN [call EXCEPT ![c].id = fresh, ![c].tries = @ + 1]
                        ELSE To(c, "failed")
          /\ UNCHANGED table
    /\ UNCHANGED own

\* The first SELECT of save's transaction.
Get(c) ==
    LET row == table[call[c].id] IN
    /\ call[c].at = "get"
    /\ call' = [call EXCEPT ![c].at = IF row = NoRow THEN "insert" ELSE "update",
                            ![c].seen = row]
    /\ UNCHANGED <<table, own>>

\* Mutant: the row is written and nothing asks whether the key is taken.
InsertUnchecked(c) ==
    /\ call[c].at = "insert"
    /\ own' = [own EXCEPT ![c] = NewRow(c)]
    /\ call' = To(c, "commit")
    /\ UNCHANGED table

\* The INSERT in the savepoint.  It waits for the transaction that holds the
\* key; a unique violation rolls the savepoint back.
Insert(c) ==
    /\ call[c].at = "insert"
    /\ ~Locked(c, call[c].id)
    /\ \/ /\ table[call[c].id] = NoRow
          /\ own' = [own EXCEPT ![c] = NewRow(c)]
          /\ call' = To(c, "commit")
       \/ /\ table[call[c].id] # NoRow
          /\ call' = To(c, "reget")
          /\ UNCHANGED own
    /\ UNCHANGED table

\* What a later SELECT of the same transaction sees.
Reread(c) ==
    IF Isolation = "consistent reads" THEN call[c].seen ELSE table[call[c].id]

\* The SELECT after a unique violation; a missing row panics (`expect`).
GetAgain(c) ==
    /\ call[c].at = "reget"
    /\ call' = IF Reread(c) = NoRow THEN To(c, "panicked")
               ELSE [call EXCEPT ![c].at = "update", ![c].seen = Reread(c)]
    /\ UNCHANGED <<table, own>>

\* update_session_model: an UPDATE by primary key; RecordNotFound when the row
\* is gone or was replaced by another one since it was read.
Update(c) ==
    /\ call[c].at = "update"
    /\ ~Locked(c, call[c].id)
    /\ \/ /\ table[call[c].id].pk = call[c].seen.pk
          /\ own' = [own EXCEPT ![c] = [pk |-> call[c].seen.pk, data |-> call[c].data]]
          /\ call' = To(c, "commit")
       \/ /\ table[call[c].id].pk # call[c].seen.pk
          /\ call' = To(c, "failed")
          /\ UNCHANGED own
    /\ UNCHANGED table

Commit(c) ==
    /\ call[c].at = "commit"
    /\ table' = [table EXCEPT ![call[c].id] = own[c]]
    /\ own' = [own EXCEPT ![c] = NoRow]
    /\ Answered(c)

Load(c) ==
    /\ call[c].at = "select"
    /\ call' = [call EXCEPT ![c].at = "done", ![c].data = table[call[c].id].data]
    /\ UNCHANGED <<table, own>>

\* One DELETE statement: all rows with the key, no error when there is none.
Delete(c) ==
    /\ call[c].at = "delete"
    /\ ~Locked(c, call[c].id)
    /\ table' = [table EXCEPT ![call[c].id] = NoRow]
    /\ Answered(c)
    /\ UNCHANGED own

\* A statement fails, or the future of the request is dropped, with nothing
\* done: sqlx rolls back a transaction that is dropped before its commit.
Interrupt(c) ==
    /\ Running(c)
    /\ own' = [own EXCEPT ![c] = NoRow]
    /\ call' = To(c, "failed")
    /\ UNCHANGED table

Return(c) ==
    /\ call[c].at \in {"done", "failed", "panicked"}
    /\ call' = [call EXCEPT ![c] = Idle]
    /\ UNCHANGED <<table, own>>

Step(c) ==
    \/ Create(c) \/ Get(c) \/ Insert(c) \/ GetAgain(c) \/ Update(c) \/ Commit(c)
    \/ Load(c) \/ Delete(c)

Next == \E c \in Client : Invoke(c) \/ Step(c) \/ Interrupt(c) \/ Return(c)

Spec == Init /\ [][Next]_vars

-----------------------------------------------------------------------------
(* Properties                                                              *)

CallAt == {"idle", "create", "get", "insert", "reget", "update", "commit",
           "select", "delete", "done", "failed", "panicked"}

\* Rows, uncommitted rows and calls have the shapes the store gives them.
TypeOK ==
    /\ table \in [Id -> Row \union {NoRow}]
    /\ own \in [Client -> Row \union {NoRow}]
    /\ call \in [Client -> [at : CallAt, op : {"none", "create", "save", "load", "delete"},
                            id : Id \union {Absent}, data : Data \union {Absent},
                            seen : Row \union {NoRow}, tries : 0 .. MaxRetries]]

\* The expectation written into save: "row must exist after a unique key
\* violation on insert with the same key".
NoPanic == \A c \in Client : call[c].at # "panicked"

\* No two transactions hold an uncommitted row for one key, and an update
\* never gives a row another primary key: the row a transaction is about to
\* commit is the committed row's successor or the first row with its key.
CommitsInPlace ==
    \A c \in Client : call[c].at = "commit" =>
        /\ own[c] # NoRow
        /\ ~Locked(c, call[c].id)
        /\ table[call[c].id] = NoRow \/ table[call[c].id].pk = own[c].pk

\* What SessionStores compares with SessionMap: a running call has not taken
\* effect, and create's id is not settled before it has; nobody learns the id
\* of a create that failed.
AbstractCall(c) ==
    LET l == call[c]
        before == Running(c) \/ l.at \in {"failed", "panicked"}
    IN  [at |-> IF Running(c) THEN "pending"
                ELSE IF l.at = "panicked" THEN "failed" ELSE l.at,
         op |-> l.op,
         id |-> IF l.op = "create" /\ before THEN Absent ELSE l.id,
         data |-> l.data]

=============================================================================
