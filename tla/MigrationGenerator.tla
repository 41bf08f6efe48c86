-------------------------- MODULE MigrationGenerator --------------------------
(***************************************************************************)
(* `cot migration make` and `cot migration new`: the models in the source  *)
(* of an app are compared with the models of the migrations written so     *)
(* far, and the difference becomes a migration.  Foreign keys that form a  *)
(* cycle are taken out of the statements that create the tables and added  *)
(* afterwards, the operations are sorted, the migration is written to a    *)
(* file, and the list of migrations to another.                            *)
(*                                                                         *)
(* A model is the set of its fields and a field is what it refers to: a    *)
(* model of the app, one of another app, or nothing.  A field that changes *)
(* its type is todo!() in the code and writes nothing, as is a source that *)
(* cannot be parsed.  External: petgraph, which finds the feedback arcs    *)
(* and a topological order.                                                *)
(***************************************************************************)
EXTENDS Integers, FiniteSets

CONSTANTS
    Plain,       \* the field that refers to nothing
    Absent,      \* no such model, no such table
    Model,       \* models of the app
    Foreign,     \* models of other apps
    Suffix,      \* names for custom migrations
    Time,        \* seconds in which automatic migrations are made
    MaxFields,   \* bound on the fields of a model
    MaxEdits,    \* bound on the edits of the source
    MaxNumber,   \* bound on the numbers of migrations
    MaxCrashes   \* bound on calls that die

ASSUME NamesAssumption ==
    /\ IsFiniteSet(Model) /\ IsFiniteSet(Foreign)
    /\ Plain \notin Model \union Foreign /\ Model \intersect Foreign = {}
    /\ \A fs, ks \in SUBSET (Model \union Foreign \union {Plain}) :
          Absent \notin {fs, [columns |-> fs, constraints |-> ks]}
    /\ Time \intersect (Suffix \union {"initial"}) = {}
ASSUME BoundsAssumption ==
    /\ {MaxFields, MaxEdits, MaxNumber, MaxCrashes} \subseteq Nat

Field == Model \union Foreign \union {Plain}

Source == INSTANCE ModelSource

-----------------------------------------------------------------------------
(* The operations of a migration and what they do to the tables, forwards  *)
(* and backwards: the builders of cot::db::migrations and Operation.  A    *)
(* table is its columns and those among them that have a foreign key       *)
(* constraint.  External: the databases; PostgreSQL drops a constraint     *)
(* with its column.                                                        *)

CreateModel(t, fs) == [inner |-> "CreateModel", table |-> t, fields |-> fs]
AddField(t, f)     == [inner |-> "AddField", table |-> t, field |-> f]
RemoveField(t, f)  == [inner |-> "RemoveField", table |-> t, field |-> f]
RemoveModel(t, fs) == [inner |-> "RemoveModel", table |-> t, fields |-> fs]

References(fs) == fs \ {Plain}

With(tables, t, table) == [u \in DOMAIN tables |-> IF u = t THEN table ELSE tables[u]]

\* CREATE TABLE has the foreign keys of its columns, ALTER TABLE ADD COLUMN
\* has none.
CreateTable(tables, t, fs) ==
    With(tables, t, [columns |-> fs, constraints |-> References(fs)])

AddColumn(tables, t, f) ==
    With(tables, t, [columns |-> tables[t].columns \union {f}, constraints |-> tables[t].constraints])

DropColumn(tables, t, f) ==
    With(tables, t, [columns |-> tables[t].columns \ {f}, constraints |-> tables[t].constraints \ {f}])

DropTable(tables, t) == With(tables, t, Absent)

Forwards(op, tables) ==
    CASE op.inner = "CreateModel" -> CreateTable(tables, op.table, op.fields)
      [] op.inner = "AddField"    -> AddColumn(tables, op.table, op.field)
      [] op.inner = "RemoveField" -> DropColumn(tables, op.table, op.field)
      [] OTHER                    -> DropTable(tables, op.table)

Backwards(op, tables) ==
    CASE op.inner = "CreateModel" -> DropTable(tables, op.table)
      [] op.inner = "AddField"    -> DropColumn(tables, op.table, op.field)
      [] op.inner = "RemoveField" -> AddColumn(tables, op.table, op.field)
      [] OTHER                    -> CreateTable(tables, op.table, op.fields)

\* All of a migration: the models are created first, and the order of the
\* others makes no difference to what is there in the end.
Migrated(ops, tables) ==
    LET creates == {op \in ops : op.inner = "CreateModel"}
        run[S \in SUBSET ops] ==
            LET op == CHOOSE o \in S : S \subseteq creates \/ o \notin creates
            IN  IF S = {} THEN tables ELSE Forwards(op, run[S \ {op}])
    IN  run[ops]

-----------------------------------------------------------------------------
(* The state of an app and of the command.                                 *)

VARIABLES
    models,    \* models[m]: the fields of m in the source
    files,     \* the migrations in the directory, by name
    listed,    \* the migrations that migrations.rs lists
    call,      \* the call of the command
    edits, crashes

vars == <<models, files, listed, call, edits, crashes>>

NoModels == [m \in Model |-> Absent]
Idle     == [at |-> "idle", ops |-> {}, sorted |-> {}]

Create(t, fs) == [kind |-> "createModel", table |-> t, fields |-> fs]
Add(t, f)     == [kind |-> "addField", table |-> t, fields |-> {f}]
Take(t, f)    == [kind |-> "removeField", table |-> t, fields |-> {f}]
Remove(t, fs) == [kind |-> "removeModel", table |-> t, fields |-> fs]

\* What is written to the file: a builder of cot::db::migrations each.
Repr(op) ==
    LET field == CHOOSE f \in op.fields : TRUE IN
    CASE op.kind = "createModel" -> CreateModel(op.table, op.fields)
      [] op.kind = "addField"    -> AddField(op.table, field)
      [] op.kind = "removeField" -> RemoveField(op.table, field)
      [] OTHER                   -> RemoveModel(op.table, op.fields)

-----------------------------------------------------------------------------
(* What is there: MigrationProcessor.  A file without models does not      *)
(* count as a migration: a custom migration, or one that only removes      *)
(* models, whose number is therefore given again.  Automatic migrations    *)
(* with one number differ in the time at which they were made; one made in *)
(* the same second is overwritten.                                         *)

Processed == {n \in DOMAIN files : files[n].models # NoModels}

LastNumber ==
    IF Processed = {} THEN 0
    ELSE CHOOSE k \in {n.number : n \in Processed} : \A n \in Processed : n.number <= k

NextAutoName(time) ==
    [number |-> LastNumber + 1, suffix |-> IF Processed = {} THEN "initial" ELSE time]

BaseDependencies == {n \in Processed : n.number = LastNumber}

\* The version of each model in the last migration that has one.
LatestModels ==
    [m \in Model |->
        LET versions == {n \in Processed : files[n].models[m] # Absent} IN
        IF versions = {} THEN Absent
        ELSE files[CHOOSE n \in versions : \A v \in versions : v.number <= n.number].models[m]]

ModifiedModels(latest) ==
    [m \in Model |-> IF models[m] # latest[m] THEN models[m] ELSE Absent]

GenerateOperations(latest) ==
    UNION { IF models[m] = latest[m] THEN {}
            ELSE IF latest[m] = Absent THEN {Create(m, models[m])}
            ELSE IF models[m] = Absent THEN {Remove(m, latest[m])}
            ELSE {Add(m, f) : f \in models[m] \ latest[m]}
                     \union {Take(m, f) : f \in latest[m] \ models[m]}
            : m \in Model }

-----------------------------------------------------------------------------
(* GeneratedMigration: cycles, order, dependencies.                        *)

\* Mutant: what a new field refers to is forgotten.
RefersToTableOnly(op) ==
    CASE op.kind = "createModel" -> op.fields \ {Plain}
      [] op.kind = "addField"    -> {op.table}
      [] OTHER                   -> {}

\* The models that must be there when the operation is executed.
RefersTo(op) ==
    CASE op.kind = "createModel" -> op.fields \ {Plain}
      [] op.kind = "addField"    -> {op.table} \union (op.fields \ {Plain})
      [] OTHER                   -> {}

Created(ops) == {op.table : op \in {o \in ops : o.kind = "createModel"}}

\* Edges lead from a CreateModel to the operations that refer to its model.
\* Only these among the models created can lie on a cycle.
Arcs(ops) ==
    {<<e[1].table, e[2].table>> :
        e \in {p \in ops \X ops : /\ p[1].kind = "createModel" /\ p[2].kind = "createModel"
                                  /\ p[1].table \in RefersTo(p[2])}}

\* greedy_feedback_arc_set: sinks and sources are peeled off, and when there
\* is neither, a node with the most outgoing over incoming edges goes first;
\* the edges that lead back to it are feedback, and so is every loop.
FeedbackArcs(nodes, arcs) ==
    LET Out(v, S) == Cardinality({u \in S \ {v} : <<v, u>> \in arcs})
        In(v, S)  == Cardinality({u \in S \ {v} : <<u, v>> \in arcs})
        peel[S \in SUBSET nodes] ==
            LET ends == {v \in S : Out(v, S) = 0 \/ In(v, S) = 0}
                best == {v \in S : \A u \in S : Out(u, S) - In(u, S) <= Out(v, S) - In(v, S)}
            IN  IF S = {} THEN {{}}
                ELSE IF ends # {} THEN peel[S \ {CHOOSE v \in ends : TRUE}]
                ELSE UNION {{back \union {<<u, v>> : u \in {w \in S : <<w, v>> \in arcs}}
                                : back \in peel[S \ {v}]} : v \in best}
        loops == {a \in arcs : a[1] = a[2]}
    IN  {back \union loops : back \in peel[nodes]}

\* remove_dependency, for every feedback arc: the foreign keys from the model
\* that is created to the one at the other end of the arc.
RemovedFields(op, feedback) ==
    IF op.kind = "createModel" THEN {f \in op.fields : <<op.table, f>> \in feedback} ELSE {}

\* Mutant: the foreign keys that were taken out are forgotten.
RemoveCyclesForgets(ops, feedback) ==
    {[op EXCEPT !.fields = @ \ RemovedFields(op, feedback)] : op \in ops}

\* They get operations of their own.
RemoveCycles(ops, feedback) ==
    {[op EXCEPT !.fields = @ \ RemovedFields(op, feedback)] : op \in ops}
        \union UNION {{Add(op.table, f) : f \in RemovedFields(op, feedback)} : op \in ops}

\* Mutant: only tables that are created may refer to others.
ForeignKeyDependenciesCreated(ops) ==
    (UNION {RefersTo(op) : op \in {o \in ops : o.kind = "createModel"}}) \ Created(ops)

ForeignKeyDependencies(ops) == (UNION {RefersTo(op) : op \in ops}) \ Created(ops)

\* Every operation after those that create what it refers to.
Ready(remaining) ==
    {op \in remaining : \A t \in RefersTo(op) : t \notin Created(remaining)}

-----------------------------------------------------------------------------
\* Models that compile: what they refer to is there.
Legal(ms) ==
    \A m \in Model : ms[m] # Absent =>
        /\ Cardinality(ms[m]) <= MaxFields
        /\ \A f \in ms[m] \intersect Model : ms[f] # Absent

Init ==
    /\ models \in [Model -> {fs \in SUBSET Field : Cardinality(fs) <= MaxFields} \union {Absent}]
    /\ Legal(models)
    /\ files = <<>> /\ listed = {}
    /\ call = Idle
    /\ edits = 0 /\ crashes = 0

Toggled(fs, f) == IF f \in fs THEN fs \ {f} ELSE fs \union {f}

\* The developer adds a model, adds or removes a field, or removes a model.
Edit ==
    /\ call.at \in {"idle", "made"}
    /\ edits < MaxEdits /\ edits' = edits + 1
    /\ \E m \in Model :
          IF models[m] = Absent
          THEN \E f \in Field : models' = [models EXCEPT ![m] = {f}]
          ELSE \/ \E f \in Field : models' = [models EXCEPT ![m] = Toggled(@, f)]
               \/ models' = [models EXCEPT ![m] = Absent]
    /\ Legal(models')
    /\ call' = Idle
    /\ UNCHANGED <<files, listed, crashes>>

\* generate_migrations_as_generated_from_files; when nothing has changed the
\* command ends here, without writing the list.
Make ==
    LET latest == LatestModels
        ops    == GenerateOperations(latest)
    IN
    /\ call.at \in {"idle", "made"}
    /\ LastNumber < MaxNumber
    /\ \/ /\ ops = {}
          /\ call' = [Idle EXCEPT !.at = "made"]
       \/ /\ ops # {}
          /\ \E feedback \in FeedbackArcs(Created(ops), Arcs(ops)) :
                call' = [at |-> "sort", ops |-> RemoveCycles(ops, feedback), sorted |-> {}]
    /\ UNCHANGED <<models, files, listed, edits, crashes>>

\* petgraph::algo::toposort: the next operation.  Which ones went before is
\* all that matters of their order.
Sort ==
    /\ call.at = "sort"
    /\ \E op \in Ready(call.ops) :
          call' = [call EXCEPT !.ops = @ \ {op}, !.sorted = @ \union {op}]
    /\ UNCHANGED <<models, files, listed, edits, crashes>>

\* "cycles shouldn't exist after removing them"
Panic ==
    /\ call.at = "sort" /\ call.ops # {} /\ Ready(call.ops) = {}
    /\ call' = [call EXCEPT !.at = "panicked"]
    /\ UNCHANGED <<models, files, listed, edits, crashes>>

\* generate_migration_file_content: Migration, and below it its models.
MigrationFile(modified, operations, modelDependencies) ==
    [models |-> modified, operations |-> operations,
     dependencies |-> BaseDependencies, modelDependencies |-> modelDependencies]

Write(name, migration) ==
    files' = [n \in DOMAIN files \union {name} |-> IF n = name THEN migration ELSE files[n]]

\* write_migrations
WriteMigration ==
    /\ call.at = "sort" /\ call.ops = {}
    /\ \E time \in Time :
          Write(NextAutoName(time),
                MigrationFile(ModifiedModels(LatestModels), {Repr(op) : op \in call.sorted},
                              ForeignKeyDependencies(call.sorted)))
    /\ call' = [Idle EXCEPT !.at = "list"]
    /\ UNCHANGED <<models, listed, edits, crashes>>

\* generate_custom_migration: create_new_migration writes it at once.
WriteCustom ==
    /\ call.at \in {"idle", "made"}
    /\ \E s \in Suffix :
          Write([number |-> LastNumber + 1, suffix |-> s], MigrationFile(NoModels, {}, {}))
    /\ call' = [Idle EXCEPT !.at = "listCustom"]
    /\ UNCHANGED <<models, listed, edits, crashes>>

\* get_migration_list: every m_*.rs in the directory, whether it has models
\* or not.
MigrationList == DOMAIN files

\* write_migrations_module
WriteModule ==
    /\ call.at \in {"list", "listCustom"}
    /\ listed' = MigrationList
    /\ call' = [Idle EXCEPT !.at = IF call.at = "list" THEN "made" ELSE "idle"]
    /\ UNCHANGED <<models, files, edits, crashes>>

\* The command is killed.
Crash ==
    /\ call.at \in {"sort", "list", "listCustom"}
    /\ crashes < MaxCrashes /\ crashes' = crashes + 1
    /\ call' = Idle
    /\ UNCHANGED <<models, files, listed, edits>>

Next ==
    \/ Edit \/ Make \/ Sort \/ Panic
    \/ WriteMigration \/ WriteCustom \/ WriteModule \/ Crash

Spec == Init /\ [][Next]_vars

-----------------------------------------------------------------------------
(* Properties                                                              *)

Name == [number : 1 .. MaxNumber + 1, suffix : {"initial"} \union Time \union Suffix]

\* Models and seconds differ by name only: any two may be swapped.
Swaps(S)  == {[v \in S |-> IF v = p THEN q ELSE IF v = q THEN p ELSE v] : p, q \in S}
Symmetric == Swaps(Model) \union Swaps(Time)

\* The shapes of the source and the files; what a migration depends on is
\* there, and what is listed is there: the app compiles and starts.
TypeOK ==
    /\ models \in [Model -> (SUBSET Field) \union {Absent}]
    /\ DOMAIN files \subseteq Name
    /\ \A n \in DOMAIN files :
          /\ files[n].models \in [Model -> (SUBSET Field) \union {Absent}]
          /\ files[n].dependencies \subseteq DOMAIN files
          /\ files[n].modelDependencies \subseteq Model \union Foreign
    /\ listed \subseteq DOMAIN files
    /\ call.at \in {"idle", "sort", "panicked", "list", "listCustom", "made"}

\* One of the operations of a migration removes the model.
RemovesModel(n, t) == \E op \in files[n].operations : op.inner = "RemoveModel" /\ op.table = t

NothingRemoved == \A n \in DOMAIN files, t \in Model : ~RemovesModel(n, t)

\* A model that some migration has removed is still what LatestModels says it
\* was: when the command is called once more, it removes the model again, and
\* a model that is back in the source is never created again.  Until then:
\* whoever removes a model is the last to do something, and the model is gone.
RemovedLast ==
    \A n \in DOMAIN files, t \in Model : RemovesModel(n, t) =>
        /\ models[t] = Absent
        /\ \A o \in DOMAIN files \ {n} : files[o].operations # {} => o.number < n.number

\* So the number of a migration that does something is its own, though not
\* that of its file.
OnePerNumber ==
    \A n, o \in DOMAIN files :
        n.number = o.number /\ files[n].operations # {} /\ files[o].operations # {} => n = o

\* The tables after some migrations were run, in the order of their numbers.
Replayed(number) ==
    LET after[k \in 0 .. MaxNumber] ==
            IF k = 0 THEN [t \in Model |-> Absent]
            ELSE LET now == {n \in DOMAIN files : n.number = k /\ files[n].operations # {}} IN
                 IF now = {} THEN after[k - 1]
                 ELSE Migrated(files[CHOOSE n \in now : TRUE].operations, after[k - 1])
    IN  after[number]

ColumnsOf(tables) ==
    [t \in DOMAIN tables |-> IF tables[t] = Absent THEN Absent ELSE tables[t].columns]

\* What the database asks for: the table that is altered and the tables that
\* foreign keys refer to.
Needs(op) ==
    (IF op.kind = "createModel" THEN {} ELSE {op.table})
        \union (IF op.kind \in {"createModel", "addField"} THEN References(op.fields) ELSE {})

\* The operation can be undone: the columns are those from before, and no
\* constraint of a table that stays refers to one that goes.  A foreign key
\* that was removed comes back without its constraint.
Undone(op, before, after) ==
    LET back == Backwards(op, after)
        gone == {t \in Model : after[t] # Absent /\ back[t] = Absent}
    IN  /\ ColumnsOf(back) = ColumnsOf(before)
        /\ op.inner \in {"CreateModel", "AddField"} => back = before
        /\ \A t \in Model \ gone : after[t] # Absent => after[t].constraints \intersect gone = {}

\* The operations of a migration can be run one after the other on what the
\* migrations before have left, and back in the opposite order: a table is
\* created once, and before a column or a foreign key needs it.  So it is up
\* to the first migration that removes a model; the next one removes the model
\* again, from tables that are gone.
OperationsRun ==
    [][call.at = "sort" /\ call'.at = "sort" /\ NothingRemoved =>
          LET before == Replayed(LastNumber)
              here   == {t \in Model : before[t] # Absent} \union Created(call.sorted)
          IN  \A op \in call'.sorted \ call.sorted :
                  /\ Needs(op) \intersect Model \subseteq here
                  /\ op.kind = "createModel" => op.table \notin here
                  /\ LET now == Migrated({Repr(o) : o \in call.sorted}, before)
                     IN  Undone(Repr(op), now, Forwards(Repr(op), now))]_vars

\* What was before is what a migration depends on: the migration made before
\* it, and the models of other apps that it refers to.
DependenciesCover ==
    \A n \in Processed :
        /\ \A op \in files[n].operations :
              LET referred == IF op.inner = "CreateModel" THEN op.fields
                              ELSE IF op.inner = "AddField" THEN {op.field} ELSE {}
              IN  referred \intersect Foreign \subseteq files[n].modelDependencies
        /\ \A d \in Processed : d.number = n.number - 1 => d \in files[n].dependencies

\* When the command has ended, the migrations in the directory, of which no
\* two have one number, lead from nothing to the models of the source, whatever
\* edits, custom migrations and calls that died lie between, until a model was
\* removed and something else was done since.  The files keep to their shapes
\* throughout.
UpToDate ==
    /\ TypeOK
    /\ RemovedLast => OnePerNumber
    /\ RemovedLast /\ call.at = "made" => ColumnsOf(Replayed(MaxNumber)) = models

\* When the command has ended and it is called again on the same source, there
\* should be nothing left to do ("No changes in models detected").  It does not
\* hold, and no run checks it: a model that was removed is removed again.
MakeSettles == call.at = "made" => GenerateOperations(LatestModels) = {}

\* The models that the command compares are those of the source: the package
\* Cargo builds, the fields as rustc knows their types, the tables as #[model]
\* names them.  Asked once, of the crate that ModelSource describes.
SourceMeant == models = NoModels /\ files = <<>> /\ call = Idle => Source!SourceUnderstood

=============================================================================
