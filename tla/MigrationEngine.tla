--------------------------- MODULE MigrationEngine ---------------------------
(***************************************************************************)
(* cot::db::migrations::MigrationEngine: `run` applies every migration     *)
(* that is not recorded in cot__migrations, `rollback` reverses a planned  *)
(* set of them.  Neither takes a lock or opens a transaction, so every     *)
(* statement sent to the database is an action of its own here: server     *)
(* processes that start together, an operator's rollback and a process     *)
(* that dies between two statements interleave between them.               *)
(*                                                                         *)
(* The engine has already sorted its migrations (MigrationSorter): they    *)
(* are the numbers 1..N, and a dependency is smaller than its dependents.  *)
(* The database is external: the effect and the errors of a statement are  *)
(* those of the engines cot talks to.                                      *)
(***************************************************************************)
EXTENDS Integers, Sequences

CONSTANTS
    Proc,        \* processes that call `run` or `rollback`
    N,           \* how many migrations there are
    App,         \* App[m]: the app of migration m
    Deps,        \* <<d, m>>: m depends on d (an edge of generate_graph)
    Ops,         \* Ops[m]: the sequence of operations of m
    Table,       \* tables of the models
    Absent,      \* the contents of a table that does not exist
    Custom,      \* Operation::custom operations, by name
    ForeignKeys, \* <<t, f, u>>: column f of table t references table u
    FkStrict,    \* does the database refuse dangling references in DDL?
    Alone,       \* which calls run with no other: {}, {"rollback"} or both
    MaxCalls,    \* the count of a custom operation saturates there
    MaxFaults    \* bound on interrupted calls

Migrations == 1 .. N
Apps == {App[m] : m \in Migrations}

\* The columns that migrations speak of, and their operations.
Fields == UNION {UNION {Ops[m][k].fields : k \in DOMAIN Ops[m]} : m \in Migrations}

Operations ==
    {op \in [kind : {"create", "drop", "add", "remove", "call"}, table : Table \union Custom,
             fields : SUBSET Fields, ifNotExists : BOOLEAN, reversible : BOOLEAN] :
        op.table \in IF op.kind = "call" THEN Custom ELSE Table}

ASSUME SizeAssumption == N \in Nat
ASSUME AppAssumption == DOMAIN App = Migrations
ASSUME DepsAssumption ==
    \A e \in Deps : e \in Migrations \X Migrations /\ e[1] < e[2]
ASSUME OpsAssumption ==
    /\ DOMAIN Ops = Migrations
    /\ \A m \in Migrations : Ops[m] \in Seq(Operations)
    /\ ForeignKeys \subseteq Table \X Fields \X Table
    /\ \A S \in SUBSET Fields : S # Absent
ASSUME AloneAssumption == Alone \subseteq {"run", "rollback"}
ASSUME BoundsAssumption == MaxCalls \in Nat /\ MaxFaults \in Nat

VARIABLES
    db,          \* the database: its tables' columns, the custom calls in effect
    ledger,      \* does the table cot__migrations exist?
    rows,        \* rows[m]: how many of its rows name migration m
    loc,         \* loc[p]: where the call of process p is
    faults       \* how many calls were interrupted

vars == <<db, ledger, rows, loc, faults>>

applied == {m \in Migrations : rows[m] > 0}

(***************************************************************************)
(* Operations and the statements they send.  `backwards` of an operation   *)
(* is the statement of the inverse kind.                                   *)
(***************************************************************************)
Forwards(op)  == op
Backwards(op) ==
    LET inverse == [create |-> "drop", drop |-> "create", add |-> "remove",
                    remove |-> "add", call |-> "uncall"]
    IN  [op EXCEPT !.kind = inverse[op.kind], !.ifNotExists = FALSE]

Exists(d, t) == d.tables[t] # Absent

ReferencesOk(d, t, fields) ==
    FkStrict => \A fk \in ForeignKeys :
                    (fk[1] = t /\ fk[2] \in fields) => fk[3] = t \/ Exists(d, fk[3])

Unreferenced(d, t) ==
    FkStrict => \A fk \in ForeignKeys :
                    (fk[3] = t /\ fk[1] # t /\ Exists(d, fk[1]))
                        => fk[2] \notin d.tables[fk[1]]

\* Does the database accept statement st?
Accepts(d, st) ==
    CASE st.kind = "create" -> \/ Exists(d, st.table) /\ st.ifNotExists
                               \/ ~Exists(d, st.table)
                                    /\ ReferencesOk(d, st.table, st.fields)
      [] st.kind = "drop"   -> Exists(d, st.table) /\ Unreferenced(d, st.table)
      [] st.kind = "add"    -> /\ Exists(d, st.table)
                               /\ st.fields \intersect d.tables[st.table] = {}
                               /\ ReferencesOk(d, st.table, st.fields)
      [] st.kind = "remove" -> Exists(d, st.table) /\ st.fields \subseteq d.tables[st.table]
      [] st.kind = "call"   -> TRUE
      [] st.kind = "uncall" -> st.reversible

\* What an accepted statement does.  Interrupted or overlapping calls can run
\* custom code any number of times more or less often than they should, so
\* its count saturates; it stays exact in the fault-free runs that look at it.
Execute(d, st) ==
    CASE st.kind = "create" -> IF Exists(d, st.table) THEN d
                               ELSE [d EXCEPT !.tables[st.table] = st.fields]
      [] st.kind = "drop"   -> [d EXCEPT !.tables[st.table] = Absent]
      [] st.kind = "add"    -> [d EXCEPT !.tables[st.table] = @ \union st.fields]
      [] st.kind = "remove" -> [d EXCEPT !.tables[st.table] = @ \ st.fields]
      [] st.kind = "call"   -> [d EXCEPT !.calls[st.table] = IF @ < MaxCalls THEN @ + 1 ELSE @]
      [] st.kind = "uncall" -> [d EXCEPT !.calls[st.table] = IF @ > -MaxCalls THEN @ - 1 ELSE @]

EmptyDb == [tables |-> [t \in Table |-> Absent], calls |-> [c \in Custom |-> 0]]

(***************************************************************************)
(* rollback_plan: the later migrations of the app and everything that      *)
(* depends on one of them, the least set with the two properties.  The     *)
(* worklist that computes it is modelled in MigrationGraph.                *)
(***************************************************************************)
DependentsClosed(S) == \A e \in Deps : e[1] \in S => e[2] \in S

Seed(app, target) == {m \in Migrations : App[m] = app /\ m > target}

\* Mutant: the dependents are forgotten.
RollbackPlanSeedOnly(app, target) == Seed(app, target)

RollbackPlan(app, target) ==
    {m \in Migrations : \A S \in SUBSET Migrations :
        Seed(app, target) \subseteq S /\ DependentsClosed(S) => m \in S}

(***************************************************************************)
(* Where a call is: what is left of its list of migrations, the migration  *)
(* it works on and how many of its operations are done.                    *)
(***************************************************************************)
Idle == [phase |-> "idle", kind |-> "none", plan |-> {}, todo |-> {}, cur |-> 0, done |-> 0]

Begin(kind, phase, plan) ==
    [phase |-> phase, kind |-> kind, plan |-> plan, todo |-> plan, cur |-> 0, done |-> 0]

\* The call moves on to the next migration of its list, or returns Ok.
Advance(l, m) ==
    IF l.todo \ {m} = {} THEN Idle
    ELSE [l EXCEPT !.phase = "check", !.todo = @ \ {m}, !.cur = 0, !.done = 0]

\* The call returns the error.
Fail(l) == [l EXCEPT !.phase = "failed"]

\* Mutants: `rollback` forgets .rev(); `run` goes backwards.
IsNextUnreversed(l, m) == m \in l.todo /\ \A x \in l.todo : m <= x
IsNextReversed(l, m) == m \in l.todo /\ \A x \in l.todo : x <= m

\* `run` goes through its list forwards, `rollback` in reverse.
IsNext(l, m) ==
    /\ m \in l.todo
    /\ \A x \in l.todo : IF l.kind = "run" THEN m <= x ELSE x <= m

Active(p) == loc[p].phase \notin {"idle", "failed"}

\* Deployment discipline, not code: who may call while others are calling.
MayBegin(p, kind) ==
    /\ ~Active(p)
    /\ kind \in Alone => \A q \in Proc : ~Active(q)
    /\ \A q \in Proc : Active(q) => loc[q].kind \notin Alone

------------------------------------------------------------------------------
Init ==
    /\ db = EmptyDb
    /\ ledger = FALSE
    /\ rows = [m \in Migrations |-> 0]
    /\ loc = [p \in Proc |-> Idle]
    /\ faults = 0

\* A server process starts: MigrationEngine::run.
BeginRun(p) ==
    /\ MayBegin(p, "run")
    /\ loc' = [loc EXCEPT ![p] = Begin("run", "create", Migrations)]
    /\ UNCHANGED <<db, ledger, rows, faults>>

\* CREATE TABLE IF NOT EXISTS cot__migrations
CreateLedger(p) ==
    /\ loc[p].phase = "create"
    /\ ledger' = TRUE
    /\ loc' = [loc EXCEPT ![p] = IF Migrations = {} THEN Idle ELSE [@ EXCEPT !.phase = "check"]]
    /\ UNCHANGED <<db, rows, faults>>

\* The operator's command: MigrationEngine::rollback to migration `target`
\* of `app`, or to "zero".  A name that resolves to nothing returns an error
\* before anything is read or written.
BeginRollback(p, app, target) ==
    LET plan == RollbackPlan(app, target)
    IN  /\ MayBegin(p, "rollback")
        /\ target # 0 => App[target] = app
        /\ loc' = [loc EXCEPT ![p] = IF plan = {} THEN Idle ELSE Begin("rollback", "check", plan)]
        /\ UNCHANGED <<db, ledger, rows, faults>>

\* Mutant: an applied migration ends `run` instead of being skipped.
CheckReturns(p) ==
    /\ loc[p].phase = "check"
    /\ \E m \in Migrations :
        /\ IsNext(loc[p], m)
        /\ loc' = [loc EXCEPT ![p] =
              IF ~ledger THEN Fail(@)
              ELSE IF (rows[m] > 0) = (@.kind = "run") THEN Idle
              ELSE [@ EXCEPT !.phase = "ops", !.cur = m]]
    /\ UNCHANGED <<db, ledger, rows, faults>>

\* is_migration_applied; a query on a table that does not exist is an error.
Check(p) ==
    /\ loc[p].phase = "check"
    /\ \E m \in Migrations :
        /\ IsNext(loc[p], m)
        /\ loc' = [loc EXCEPT ![p] =
              IF ~ledger THEN Fail(@)
              ELSE IF (rows[m] > 0) = (@.kind = "run") THEN Advance(@, m)
              ELSE [@ EXCEPT !.phase = "ops", !.cur = m]]
    /\ UNCHANGED <<db, ledger, rows, faults>>

\* The operation a call executes next: in order for `run`, reversed for
\* `rollback`.
Statement(l) ==
    IF l.kind = "run" THEN Forwards(Ops[l.cur][l.done + 1])
    ELSE Backwards(Ops[l.cur][Len(Ops[l.cur]) - l.done])

\* operation.forwards(database).await? / operation.backwards(database).await?
Operation(p) ==
    /\ loc[p].phase = "ops"
    /\ loc[p].done < Len(Ops[loc[p].cur])
    /\ LET st == Statement(loc[p])
       IN  IF Accepts(db, st)
           THEN /\ db' = Execute(db, st)
                /\ loc' = [loc EXCEPT ![p].done = @ + 1]
           ELSE /\ loc' = [loc EXCEPT ![p] = Fail(@)]
                /\ UNCHANGED db
    /\ UNCHANGED <<ledger, rows, faults>>

OperationsDone(p, kind) ==
    /\ loc[p].phase = "ops"
    /\ loc[p].kind = kind
    /\ loc[p].done = Len(Ops[loc[p].cur])

\* mark_migration_applied: the row has a key of its own, nothing makes
\* (app, name) unique.
MarkApplied(p) ==
    /\ OperationsDone(p, "run")
    /\ rows' = [rows EXCEPT ![loc[p].cur] = @ + 1]
    /\ loc' = [loc EXCEPT ![p] = Advance(@, @.cur)]
    /\ UNCHANGED <<db, ledger, faults>>

\* rollback asks once more whether the migration is applied.
Recheck(p) ==
    /\ OperationsDone(p, "rollback")
    /\ loc' = [loc EXCEPT ![p] = IF rows[@.cur] > 0 THEN [@ EXCEPT !.phase = "unmark"]
                                 ELSE Advance(@, @.cur)]
    /\ UNCHANGED <<db, ledger, rows, faults>>

\* Mutant: the rows are deleted by app, whatever their migration.
MarkUnappliedApp(p) ==
    /\ loc[p].phase = "unmark"
    /\ rows' = [m \in Migrations |-> IF App[m] = App[loc[p].cur] THEN 0 ELSE rows[m]]
    /\ loc' = [loc EXCEPT ![p] = Advance(@, @.cur)]
    /\ UNCHANGED <<db, ledger, faults>>

\* mark_migration_unapplied deletes every row of the migration.
MarkUnapplied(p) ==
    /\ loc[p].phase = "unmark"
    /\ rows' = [rows EXCEPT ![loc[p].cur] = 0]
    /\ loc' = [loc EXCEPT ![p] = Advance(@, @.cur)]
    /\ UNCHANGED <<db, ledger, faults>>

\* The process dies or loses its connection between two statements.
Interrupt(p) ==
    /\ Active(p)
    /\ faults < MaxFaults
    /\ faults' = faults + 1
    /\ loc' = [loc EXCEPT ![p] = Idle]
    /\ UNCHANGED <<db, ledger, rows>>

\* A step of the engine's own, once a call has begun.
Step(p) ==
    \/ CreateLedger(p) \/ Check(p) \/ Operation(p)
    \/ MarkApplied(p) \/ Recheck(p) \/ MarkUnapplied(p)

Next == \E p \in Proc :
    \/ BeginRun(p)
    \/ \E app \in Apps, target \in {0} \union Migrations : BeginRollback(p, app, target)
    \/ Step(p)
    \/ Interrupt(p)

Spec == Init /\ [][Next]_vars

(***************************************************************************)
(* A call that has begun is scheduled until it returns (every await in it  *)
(* is on a database that answers), and a server that stopped is started    *)
(* again by whoever supervises it.                                         *)
(***************************************************************************)
FairSpec ==
    /\ Spec
    /\ \A p \in Proc : WF_vars(Step(p)) /\ WF_vars(BeginRun(p))

------------------------------------------------------------------------------
\* The values of every variable; `run` lists every migration.
Phases == {"idle", "create", "check", "ops", "unmark", "failed"}

LocType ==
    [phase : Phases, kind : {"none", "run", "rollback"}, plan : SUBSET Migrations,
     todo : SUBSET Migrations, cur : {0} \union Migrations, done : Nat]

TypeOK ==
    /\ ledger \in BOOLEAN
    /\ rows \in [Migrations -> Nat]
    /\ loc \in [Proc -> LocType]
    /\ faults \in 0 .. MaxFaults

(***************************************************************************)
(* Whatever is recorded as applied has its dependencies recorded too, at   *)
(* every statement of every call, across crashes and restarts: `run` marks *)
(* in dependency order and `rollback` unmarks dependents first.            *)
(***************************************************************************)
DependenciesApplied ==
    \A e \in Deps : e[2] \in applied => e[1] \in applied

(***************************************************************************)
(* The rows of cot__migrations implement MigrationLedger.                  *)
(***************************************************************************)
Ledger == INSTANCE MigrationLedger
ImplementsLedger == Ledger!Spec

(***************************************************************************)
(* A call changes the rows of its own plan only: `rollback` never forgets  *)
(* a migration that is neither later in its app nor dependent on one that  *)
(* is, and never records one; `run` never forgets one.                     *)
(***************************************************************************)
LedgerScope ==
    [][\A p \in Proc : loc'[p] # loc[p] => \A m \in Migrations :
          /\ rows'[m] < rows[m] => loc[p].kind = "rollback" /\ m \in loc[p].plan
          /\ rows'[m] > rows[m] => loc[p].kind = "run" ]_vars

(***************************************************************************)
(* When a call returns Ok with nobody else calling, its work is complete:  *)
(* after `run` everything is applied, after `rollback` nothing of the plan *)
(* is, and no migration has two rows.                                      *)
(***************************************************************************)
Returns(p) == Active(p) /\ loc'[p].phase = "idle" /\ faults' = faults

CallsComplete ==
    [][\A p \in Proc : Returns(p) =>
          /\ loc[p].kind = "run" => applied' = Migrations
          /\ loc[p].kind = "rollback" => applied' \intersect loc[p].plan = {}
          /\ \A m \in Migrations : rows'[m] <= 1]_vars

(***************************************************************************)
(* The database that results from applying some of the migrations, in      *)
(* order, to an empty one, and the states in between.                      *)
(***************************************************************************)
Performed(before, m) ==
    LET upTo[k \in 0 .. Len(Ops[m])] ==
            IF k = 0 THEN before ELSE Execute(upTo[k - 1], Ops[m][k])
    IN  upTo

ReplayOf(recorded) ==
    LET after[m \in 0 .. N] ==
            IF m = 0 THEN EmptyDb
            ELSE IF m \in recorded THEN Performed(after[m - 1], m)[Len(Ops[m])]
            ELSE after[m - 1]
    IN  after

Replayed == ReplayOf(applied)[N]

(***************************************************************************)
(* As long as no call was interrupted, whenever no call is active the      *)
(* schema is the one the recorded migrations describe, whatever sequence   *)
(* of runs and rollbacks led there, and no call has failed at an operation *)
(* (a rollback fails before it comes to one when there is no ledger).  The *)
(* rows, the schema and the calls keep to their shapes in any case.        *)
(***************************************************************************)
SchemaMatchesLedger ==
    /\ TypeOK
    /\ faults = 0 => /\ \A p \in Proc : loc[p].phase = "failed" => loc[p].cur = 0
                     /\ (\A p \in Proc : ~Active(p)) => db = Replayed

(***************************************************************************)
(* What that asks of the migrations.  They can be executed on an empty     *)
(* database, and each operation can be undone where it was done.           *)
(***************************************************************************)
CleanHistory ==
    LET after == ReplayOf(Migrations) IN
    \A m \in Migrations :
        LET upTo == Performed(after[m - 1], m) IN
        \A k \in 1 .. Len(Ops[m]) :
            /\ Accepts(upTo[k - 1], Ops[m][k])
            /\ Accepts(upTo[k], Backwards(Ops[m][k]))
            /\ Execute(upTo[k], Backwards(Ops[m][k])) = upTo[k - 1]

(***************************************************************************)
(* And of two that touch one thing the later depends on the earlier one,   *)
(* if only through others.  The things are tables, whether they are there, *)
(* their columns, and what custom code is about.                           *)
(***************************************************************************)
Whole(t)     == [kind |-> "table", name |-> t, column |-> Absent]
Presence(t)  == [kind |-> "presence", name |-> t, column |-> Absent]
Column(t, f) == [kind |-> "column", name |-> t, column |-> f]
Code(c)      == [kind |-> "code", name |-> c, column |-> Absent]

\* What a statement may change, and what else decides whether it is accepted.
Writes(st) ==
    IF st.kind \in {"call", "uncall"} THEN {Code(st.table)}
    ELSE {Whole(st.table)} \union {Column(st.table, f) : f \in st.fields}
            \union (IF st.kind \in {"create", "drop"} THEN {Presence(st.table)} ELSE {})

Reads(st) ==
    CASE st.kind \in {"create", "add"} ->
            {Presence(fk[3]) : fk \in {r \in ForeignKeys :
                                          r[1] = st.table /\ r[2] \in st.fields /\ r[3] # st.table}}
      [] st.kind = "drop" ->
            {Column(fk[1], fk[2]) : fk \in {r \in ForeignKeys : r[3] = st.table /\ r[1] # st.table}}
      [] OTHER -> {}

Changed(m) == UNION {Writes(Ops[m][k]) : k \in DOMAIN Ops[m]}
Used(m)    == UNION {Reads(Ops[m][k]) \union Reads(Backwards(Ops[m][k])) : k \in DOMAIN Ops[m]}

Follows(n, m) == \A S \in SUBSET Migrations : m \in S /\ DependentsClosed(S) => n \in S

Linked ==
    \A m, n \in Migrations :
        /\ m < n
        /\ \/ Changed(m) \intersect (Changed(n) \union Used(n)) # {}
           \/ Used(m) \intersect Changed(n) # {}
        => Follows(n, m)

(***************************************************************************)
(* A migration that is not recorded and whose first statement the database *)
(* refuses: what an interrupted call leaves when its DDL was executed and  *)
(* its row was not written.                                                *)
(***************************************************************************)
Wedged == \E m \in Migrations : rows[m] = 0 /\ Ops[m] # <<>> /\ ~Accepts(db, Ops[m][1])

(***************************************************************************)
(* If the operators stop rolling back, restarts bring the database up to   *)
(* date, unless some interrupted call left a half executed migration whose *)
(* first statement the database now refuses; then no restart gets past it. *)
(***************************************************************************)
RollingBack == \E p \in Proc : Active(p) /\ loc[p].kind = "rollback"

EventuallyMigrated ==
    <>[]~RollingBack => <>[](applied = Migrations) \/ <>[](faults > 0 /\ Wedged)
==============================================================================
