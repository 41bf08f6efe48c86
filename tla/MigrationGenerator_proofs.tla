----------------------- MODULE MigrationGenerator_proofs -----------------------
(***************************************************************************)
(* Proofs about MigrationGenerator, for all models, whatever their number, *)
(* fields and names, and for any number of edits and migrations.           *)
(***************************************************************************)
EXTENDS MigrationGenerator, FiniteSetTheorems, TLAPS

ModelSets  == [Model -> (SUBSET Field) \union {Absent}]
Creates  == {Create(m, fs) : m \in Model, fs \in SUBSET Field}
Adds     == {Add(m, f) : m \in Model, f \in Field}
Takes    == {Take(m, f) : m \in Model, f \in Field}
Removes  == {Remove(m, fs) : m \in Model, fs \in SUBSET Field}
Generated == Creates \union Adds \union Takes \union Removes
Statements  == {Repr(op) : op \in Generated}

Calls ==
    [at : {"idle", "sort", "panicked", "list", "listCustom", "made"},
     ops : SUBSET Generated, sorted : SUBSET Generated]

FilesInv ==
    /\ files = [n \in DOMAIN files |-> files[n]]
    /\ DOMAIN files \subseteq Name
    /\ \A n \in DOMAIN files :
          files[n] \in [models : ModelSets, operations : SUBSET Statements, dependencies : SUBSET DOMAIN files,
                        modelDependencies : SUBSET (Model \union Foreign)]

\* What the files say, and that a migration is made for the next number only.
GeneratorInv ==
    /\ models \in ModelSets /\ call \in Calls
    /\ FilesInv
    /\ listed \subseteq DOMAIN files
    /\ LastNumber <= MaxNumber
    /\ call.at = "sort" => LastNumber < MaxNumber
    /\ DependenciesCover

-----------------------------------------------------------------------------
(* Numbers                                                                 *)

LEMMA LeastNumber ==
    ASSUME NEW S \in SUBSET Nat, S # {}
    PROVE  \E m \in S : \A k \in S : m <= k
<1>. DEFINE R == {ss \in Nat \X Nat : ss[1] < ss[2]}
<1>1. IsWellFoundedOn(R, Nat)
  BY NatLessThanWellFounded DEF OpToRel
<1>. HIDE DEF R
<1>2. PICK m \in S : \A k \in S : ~(<<k, m>> \in R)
  BY <1>1, WFMin
<1>3. ASSUME NEW k \in S, k < m PROVE FALSE
  <2>1. <<k, m>> \in R
    BY <1>3 DEF R
  <2>. QED BY <1>2, <2>1
<1>. QED BY <1>3

LEMMA LargestNumber ==
    ASSUME NEW n \in Nat, NEW S \in SUBSET (0 .. n), S # {}
    PROVE  \E m \in S : \A k \in S : k <= m
<1>. DEFINE T == {n - k : k \in S}
<1>1. T \in SUBSET Nat /\ T # {}
  OBVIOUS
<1>2. PICK t \in T : \A u \in T : t <= u
  BY <1>1, LeastNumber
<1>3. PICK m \in S : t = n - m
  BY <1>2
<1>4. ASSUME NEW k \in S PROVE k <= m
  <2>1. n - m <= n - k
    BY <1>2, <1>3
  <2>. QED BY <2>1
<1>. QED BY <1>4

\* Of some migrations one has the largest number.
LEMMA LastOf ==
    ASSUME NEW S \in SUBSET Name, S # {}
    PROVE  \E n \in S : \A k \in S : k.number <= n.number
<1>. DEFINE T == {n.number : n \in S}
<1>1. \A n \in S : n.number \in 1 .. MaxNumber + 1
  BY DEF Name
<1>2. MaxNumber + 1 \in Nat
  BY BoundsAssumption
<1>3. T \in SUBSET (0 .. MaxNumber + 1) /\ T # {}
  BY <1>1, <1>2
<1>4. PICK t \in T : \A u \in T : u <= t
  BY <1>2, <1>3, LargestNumber
<1>. QED BY <1>4

\* LastNumber is the largest of the migrations that count.
LastLargest ==
    /\ LastNumber \in Nat /\ Processed \subseteq Name
    /\ Processed = {} => LastNumber = 0
    /\ Processed # {} => \E n \in Processed : n.number = LastNumber
    /\ \A n \in Processed : n.number \in Nat /\ n.number <= LastNumber

LEMMA LastIsLargest == FilesInv => LastLargest
<1>. SUFFICES ASSUME FilesInv PROVE LastLargest
  OBVIOUS
<1>1. Processed \subseteq Name
  BY DEF FilesInv, Processed
<1>2. \A n \in Processed : n.number \in Nat
  BY <1>1, BoundsAssumption DEF Name
<1>3. CASE Processed = {}
  BY <1>1, <1>3 DEF LastNumber, LastLargest
<1>4. CASE Processed # {}
  <2>1. PICK n \in Processed : \A k \in Processed : k.number <= n.number
    BY <1>1, <1>4, LastOf
  <2>2. \E k \in {x.number : x \in Processed} : \A x \in Processed : x.number <= k
    BY <2>1
  <2>3. /\ LastNumber \in {x.number : x \in Processed}
        /\ \A x \in Processed : x.number <= LastNumber
    BY <1>4, <2>2 DEF LastNumber
  <2>. QED BY <1>1, <1>2, <1>4, <2>3 DEF LastLargest
<1>. QED BY <1>3, <1>4

\* The latest version of a model is that of the last migration with one.
LEMMA LatestIsLast ==
    FilesInv => \A m \in Model :
        \/ LatestModels[m] = Absent /\ \A n \in Processed : files[n].models[m] = Absent
        \/ \E n \in Processed :
              /\ files[n].models[m] # Absent /\ LatestModels[m] = files[n].models[m]
              /\ \A v \in Processed : files[v].models[m] # Absent => v.number <= n.number
<1>. SUFFICES ASSUME FilesInv, NEW m \in Model PROVE
        \/ LatestModels[m] = Absent /\ \A n \in Processed : files[n].models[m] = Absent
        \/ \E n \in Processed :
              /\ files[n].models[m] # Absent /\ LatestModels[m] = files[n].models[m]
              /\ \A v \in Processed : files[v].models[m] # Absent => v.number <= n.number
  OBVIOUS
<1>. DEFINE versions == {n \in Processed : files[n].models[m] # Absent}
            last == CHOOSE n \in versions : \A v \in versions : v.number <= n.number
<1>1. versions \in SUBSET Name
  BY DEF FilesInv, Processed
<1>2. LatestModels[m] = IF versions = {} THEN Absent ELSE files[last].models[m]
  BY DEF LatestModels
<1>3. CASE versions = {}
  BY <1>2, <1>3
<1>4. CASE versions # {}
  <2>1. \E n \in versions : \A v \in versions : v.number <= n.number
    BY <1>1, <1>4, LastOf
  <2>2. last \in versions /\ \A v \in versions : v.number <= last.number
    BY <2>1
  <2>. QED BY <1>2, <1>4, <2>2
<1>. QED BY <1>3, <1>4

LEMMA LatestType == FilesInv => LatestModels \in ModelSets
<1>. SUFFICES ASSUME FilesInv PROVE LatestModels \in ModelSets
  OBVIOUS
<1>1. \A n \in Processed : files[n].models \in ModelSets
  BY DEF FilesInv, Processed
<1>2. \A m \in Model : LatestModels[m] \in (SUBSET Field) \union {Absent}
  BY <1>1, LatestIsLast DEF ModelSets
<1>3. LatestModels = [m \in Model |-> LatestModels[m]]
  BY DEF LatestModels
<1>. QED BY <1>2, <1>3 DEF ModelSets

-----------------------------------------------------------------------------
(* What is generated, and what is written                                  *)

LEMMA GeneratedType ==
    models \in ModelSets /\ FilesInv => GenerateOperations(LatestModels) \subseteq Generated
<1>. SUFFICES ASSUME models \in ModelSets, FilesInv, NEW op \in GenerateOperations(LatestModels)
              PROVE  op \in Generated
  OBVIOUS
<1>1. LatestModels \in ModelSets
  BY LatestType
<1>2. PICK m \in Model : op \in IF models[m] = LatestModels[m] THEN {}
            ELSE IF LatestModels[m] = Absent THEN {Create(m, models[m])}
            ELSE IF models[m] = Absent THEN {Remove(m, LatestModels[m])}
            ELSE {Add(m, f) : f \in models[m] \ LatestModels[m]}
                     \union {Take(m, f) : f \in LatestModels[m] \ models[m]}
  BY DEF GenerateOperations
<1>3. /\ models[m] # Absent => models[m] \in SUBSET Field
      /\ LatestModels[m] # Absent => LatestModels[m] \in SUBSET Field
  BY <1>1 DEF ModelSets
<1>. QED BY <1>2, <1>3 DEF Generated, Creates, Adds, Takes, Removes

LEMMA KindsApart ==
    ASSUME NEW op \in Generated
    PROVE  /\ op.kind = "createModel" <=> op \in Creates
           /\ op.kind = "addField" <=> op \in Adds
           /\ op.kind = "removeField" <=> op \in Takes
           /\ op.kind = "removeModel" <=> op \in Removes
BY DEF Generated, Creates, Adds, Takes, Removes, Create, Add, Take, Remove

LEMMA CutOperations ==
    ASSUME NEW op \in Generated, NEW feedback
    PROVE  [op EXCEPT !.fields = @ \ RemovedFields(op, feedback)]
               = IF op.kind = "createModel" THEN Create(op.table, op.fields \ RemovedFields(op, feedback))
                 ELSE op
<1>1. CASE op \in Creates
  BY <1>1 DEF Creates, Create
<1>2. CASE op \notin Creates
  <2>1. op.kind # "createModel" /\ RemovedFields(op, feedback) = {}
    BY <1>2, KindsApart DEF RemovedFields
  <2>2. op = [kind |-> op.kind, table |-> op.table, fields |-> op.fields]
    BY DEF Generated, Creates, Adds, Takes, Removes, Create, Add, Take, Remove
  <2>3. op.fields \ {} = op.fields
    OBVIOUS
  <2>4. [op EXCEPT !.fields = @ \ {}] = op
    BY <2>2, <2>3
  <2>. QED BY <2>1, <2>4
<1>. QED BY <1>1, <1>2

LEMMA CyclesType ==
    ASSUME NEW ops \in SUBSET Generated, NEW feedback
    PROVE  RemoveCycles(ops, feedback) \subseteq Generated
<1>1. ASSUME NEW op \in ops PROVE [op EXCEPT !.fields = @ \ RemovedFields(op, feedback)] \in Generated
  <2>1. CASE op \in Creates
    BY <2>1, CutOperations, KindsApart DEF Creates, Create, Generated
  <2>2. CASE op \notin Creates
    BY <2>2, CutOperations, KindsApart
  <2>. QED BY <2>1, <2>2
<1>2. ASSUME NEW op \in ops, NEW f \in RemovedFields(op, feedback) PROVE Add(op.table, f) \in Generated
  <2>1. op \in Creates
    BY KindsApart DEF RemovedFields
  <2>2. op.table \in Model /\ f \in Field
    BY <2>1 DEF Creates, Create, RemovedFields
  <2>. QED BY <2>2 DEF Generated, Adds
<1>. QED BY <1>1, <1>2 DEF RemoveCycles

\* The files after one is written for the next number: it is no longer one
\* that counts, and it counts if it has models.
LEMMA FilesWritten ==
    ASSUME FilesInv, LastNumber <= MaxNumber,
           NEW name \in Name, name.number = LastNumber + 1,
           NEW migration \in [models : ModelSets, operations : SUBSET Statements, dependencies : SUBSET Processed,
                              modelDependencies : SUBSET (Model \union Foreign)],
           Write(name, migration)
    PROVE  /\ FilesInv'
           /\ DOMAIN files \subseteq DOMAIN files'
           /\ name \notin Processed /\ name \in DOMAIN files' /\ files'[name] = migration
           /\ \A n \in DOMAIN files \ {name} : files'[n] = files[n]
           /\ DOMAIN files' = DOMAIN files \union {name}
           /\ Processed' = Processed \union (IF migration.models = NoModels THEN {} ELSE {name})
           /\ LastNumber' = IF migration.models = NoModels THEN LastNumber ELSE LastNumber + 1
<1>1. /\ LastNumber \in Nat /\ Processed \subseteq Name
      /\ Processed = {} => LastNumber = 0
      /\ Processed # {} => \E n \in Processed : n.number = LastNumber
      /\ \A n \in Processed : n.number \in Nat /\ n.number <= LastNumber
  BY LastIsLargest DEF LastLargest
<1>2. name \notin Processed
  BY <1>1
<1>3. /\ DOMAIN files' = DOMAIN files \union {name} /\ files'[name] = migration
      /\ files' = [n \in DOMAIN files' |-> files'[n]]
      /\ \A n \in DOMAIN files \ {name} : files'[n] = files[n]
  BY DEF Write
<1>4. NoModels' = NoModels
  BY DEF NoModels
<1>5. Processed' = Processed \union (IF migration.models = NoModels THEN {} ELSE {name})
  <2>1. ASSUME NEW n PROVE n \in Processed' <=> n \in Processed \/ (n = name /\ migration.models # NoModels)
    <3>1. CASE n = name
      BY <1>2, <1>3, <1>4, <3>1 DEF Processed
    <3>2. CASE n # name
      BY <1>3, <1>4, <3>2 DEF Processed
    <3>. QED BY <3>1, <3>2
  <2>. QED BY <2>1
<1>6. FilesInv'
  <2>1. DOMAIN files' \subseteq Name'
    BY <1>3 DEF FilesInv, Name
  <2>2. Processed \subseteq DOMAIN files'
    BY <1>3 DEF Processed
  <2>3. ASSUME NEW n \in DOMAIN files'
        PROVE files'[n] \in [models : ModelSets, operations : SUBSET Statements, dependencies : SUBSET DOMAIN files',
                             modelDependencies : SUBSET (Model \union Foreign)]
    <3>1. CASE n = name
      BY <1>3, <2>2, <3>1
    <3>2. CASE n # name
      <4>1. n \in DOMAIN files /\ files'[n] = files[n]
        BY <1>3, <3>2
      <4>. QED BY <1>3, <4>1 DEF FilesInv
    <3>. QED BY <3>1, <3>2
  <2>4. ModelSets' = ModelSets /\ Statements' = Statements
    BY DEF ModelSets, Statements, Generated, Creates, Adds, Takes, Removes, Field
  <2>. QED BY <1>3, <2>1, <2>3, <2>4 DEF FilesInv
<1>7. /\ LastNumber' \in Nat
      /\ Processed' = {} => LastNumber' = 0
      /\ Processed' # {} => \E n \in Processed' : n.number = LastNumber'
      /\ \A n \in Processed' : n.number \in Nat /\ n.number <= LastNumber'
  <2>1. LastLargest'
    BY <1>6, LastIsLargest, PTL
  <2>. QED BY <2>1 DEF LastLargest
<1>8. LastNumber' = IF migration.models = NoModels THEN LastNumber ELSE LastNumber + 1
  <2>1. CASE migration.models = NoModels
    <3>1. Processed' = Processed
      BY <1>5, <2>1
    <3>2. CASE Processed = {}
      BY <1>1, <1>7, <2>1, <3>1, <3>2
    <3>3. CASE Processed # {}
      BY <1>1, <1>7, <2>1, <3>1, <3>3
    <3>. QED BY <3>2, <3>3
  <2>2. CASE migration.models # NoModels
    <3>1. name \in Processed'
      BY <1>5, <2>2
    <3>2. \A n \in Processed' : n.number <= LastNumber + 1
      BY <1>1, <1>5, <2>2
    <3>. QED BY <1>1, <1>7, <2>2, <3>1, <3>2
  <2>. QED BY <2>1, <2>2
<1>. QED BY <1>2, <1>3, <1>5, <1>6, <1>8

-----------------------------------------------------------------------------
(* The shapes of everything, and the dependencies                          *)

LEMMA ReprShapes ==
    ASSUME NEW op \in Generated
    PROVE  /\ op \in Creates => Repr(op) = CreateModel(op.table, op.fields)
           /\ \A m \in Model, f \in Field : op = Add(m, f) => Repr(op) = AddField(m, f)
           /\ \A m \in Model, f \in Field : op = Take(m, f) => Repr(op) = RemoveField(m, f)
           /\ op \in Removes => Repr(op) = RemoveModel(op.table, op.fields)
<1>1. \A f : (CHOOSE g \in {f} : TRUE) = f
  OBVIOUS
<1>2. CASE op \in Creates \/ op \in Removes
  BY <1>2, KindsApart DEF Creates, Removes, Create, Remove, Add, Take, Repr
<1>3. ASSUME NEW m \in Model, NEW f \in Field, op = Add(m, f)
      PROVE  Repr(op) = AddField(m, f)
  <2>1. op.kind = "addField" /\ op.table = m /\ op.fields = {f}
    BY <1>3 DEF Add
  <2>. QED BY <1>1, <2>1 DEF Repr
<1>4. ASSUME NEW m \in Model, NEW f \in Field, op = Take(m, f)
      PROVE  Repr(op) = RemoveField(m, f)
  <2>1. op.kind = "removeField" /\ op.table = m /\ op.fields = {f}
    BY <1>4 DEF Take
  <2>. QED BY <1>1, <2>1 DEF Repr
<1>5. op \in Creates \/ op \in Removes \/ (\E m \in Model, f \in Field : op = Add(m, f))
         \/ (\E m \in Model, f \in Field : op = Take(m, f))
  BY DEF Generated, Adds, Takes
<1>6. /\ op \in Creates => Repr(op) = CreateModel(op.table, op.fields)
      /\ op \in Removes => Repr(op) = RemoveModel(op.table, op.fields)
  <2>1. op \in Creates => op.kind = "createModel"
    BY KindsApart
  <2>2. op \in Removes => op.kind = "removeModel"
    BY KindsApart
  <2>. QED BY <2>1, <2>2 DEF Repr
<1>. QED BY <1>3, <1>4, <1>6

LEMMA CreatedModels ==
    ASSUME NEW ops \in SUBSET Generated
    PROVE  Created(ops) \subseteq Model
BY KindsApart DEF Created, Creates, Create

LEMMA Referred ==
    ASSUME NEW op \in Generated
    PROVE  RefersTo(op) \subseteq Model \union Foreign
<1>1. CASE op \in Creates
  BY <1>1, KindsApart DEF RefersTo, Creates, Create, Field
<1>2. CASE op \in Adds
  BY <1>2, KindsApart DEF RefersTo, Adds, Add, Field
<1>3. CASE op \notin Creates /\ op \notin Adds
  BY <1>3, KindsApart DEF RefersTo
<1>. QED BY <1>1, <1>2, <1>3

\* What a migration that is about to be written depends on.
LEMMA WrittenDepends ==
    ASSUME NEW ops \in SUBSET Generated
    PROVE  /\ ForeignKeyDependencies(ops) \subseteq Model \union Foreign
           /\ \A op \in {Repr(o) : o \in ops} :
                LET referred == IF op.inner = "CreateModel" THEN op.fields
                                ELSE IF op.inner = "AddField" THEN {op.field} ELSE {}
                IN  referred \intersect Foreign \subseteq ForeignKeyDependencies(ops)
<1>1. ForeignKeyDependencies(ops) \subseteq Model \union Foreign
  BY Referred DEF ForeignKeyDependencies
<1>2. Created(ops) \intersect Foreign = {}
  BY CreatedModels, NamesAssumption
<1>3. ASSUME NEW o \in ops
      PROVE  LET op == Repr(o)
                 referred == IF op.inner = "CreateModel" THEN op.fields
                             ELSE IF op.inner = "AddField" THEN {op.field} ELSE {}
             IN  referred \intersect Foreign \subseteq RefersTo(o)
  <2>1. CASE o \in Creates
    BY <2>1, ReprShapes, KindsApart, NamesAssumption DEF CreateModel, RefersTo
  <2>2. CASE o \in Adds
    <3>1. PICK m \in Model, f \in Field : o = Add(m, f)
      BY <2>2 DEF Adds
    <3>2. Repr(o) = AddField(m, f) /\ RefersTo(o) = {m} \union ({f} \ {Plain})
      BY <3>1, ReprShapes DEF RefersTo, Add
    <3>. QED BY <3>2, NamesAssumption DEF AddField
  <2>3. CASE o \in Takes
    <3>1. PICK m \in Model, f \in Field : o = Take(m, f)
      BY <2>3 DEF Takes
    <3>2. Repr(o) = RemoveField(m, f)
      BY <3>1, ReprShapes
    <3>. QED BY <3>2 DEF RemoveField
  <2>4. CASE o \in Removes
    BY <2>4, ReprShapes DEF RemoveModel
  <2>. QED BY <2>1, <2>2, <2>3, <2>4 DEF Generated
<1>4. ASSUME NEW o \in ops, NEW t \in RefersTo(o), t \in Foreign PROVE t \in ForeignKeyDependencies(ops)
  <2>1. t \notin Created(ops)
    BY <1>2, <1>4
  <2>. QED BY <2>1 DEF ForeignKeyDependencies
<1>. QED BY <1>1, <1>3, <1>4

LEMMA InitGenerator == Init => GeneratorInv
<1>. SUFFICES ASSUME Init PROVE GeneratorInv
  OBVIOUS
<1>1. models \in ModelSets
  BY DEF Init, ModelSets
<1>2. call \in Calls /\ call.at = "idle"
  BY DEF Init, Idle, Calls
<1>3. DOMAIN files = {} /\ files = [n \in DOMAIN files |-> files[n]]
  BY DEF Init
<1>4. Processed = {} /\ LastNumber = 0
  BY <1>3 DEF Processed, LastNumber
<1>5. FilesInv
  BY <1>3 DEF FilesInv
<1>. QED BY <1>1, <1>2, <1>4, <1>5, BoundsAssumption DEF GeneratorInv, Init, DependenciesCover

\* A step that leaves the files alone.
LEMMA FilesStay ==
    files' = files =>
        /\ Processed' = Processed /\ LastNumber' = LastNumber /\ LatestModels' = LatestModels
        /\ FilesInv => FilesInv'
        /\ DependenciesCover => DependenciesCover'
<1>. SUFFICES ASSUME files' = files
     PROVE  /\ Processed' = Processed /\ LastNumber' = LastNumber /\ LatestModels' = LatestModels
            /\ FilesInv => FilesInv'
            /\ DependenciesCover => DependenciesCover'
  OBVIOUS
<1>1. Processed' = Processed
  BY DEF Processed, NoModels
<1>2. LastNumber' = LastNumber
  BY <1>1 DEF LastNumber
<1>3. LatestModels' = LatestModels
  BY <1>1 DEF LatestModels
<1>4. FilesInv => FilesInv'
  BY DEF FilesInv, Name, ModelSets, Statements, Generated, Creates, Adds, Takes, Removes, Field
<1>5. DependenciesCover => DependenciesCover'
  BY <1>1 DEF DependenciesCover
<1>. QED BY <1>1, <1>2, <1>3, <1>4, <1>5

LEMMA SetsStay == ModelSets' = ModelSets /\ Calls' = Calls
BY DEF ModelSets, Calls, Generated, Creates, Adds, Takes, Removes, Field

LEMMA EditType == models \in ModelSets /\ Edit => models' \in ModelSets
<1>. SUFFICES ASSUME models \in ModelSets, Edit PROVE models' \in ModelSets
  OBVIOUS
<1>1. PICK m \in Model :
          IF models[m] = Absent
          THEN \E f \in Field : models' = [models EXCEPT ![m] = {f}]
          ELSE \/ \E f \in Field : models' = [models EXCEPT ![m] = Toggled(@, f)]
               \/ models' = [models EXCEPT ![m] = Absent]
  BY DEF Edit
<1>2. models[m] # Absent => \A f \in Field : Toggled(models[m], f) \in SUBSET Field
  BY DEF ModelSets, Toggled
<1>. QED BY <1>1, <1>2 DEF ModelSets

LEMMA NewName ==
    ASSUME GeneratorInv, NEW s \in {"initial"} \union Time \union Suffix
    PROVE  [number |-> LastNumber + 1, suffix |-> s] \in Name
BY LastIsLargest, BoundsAssumption DEF GeneratorInv, LastLargest, Name

\* The migration of the models, and the file it becomes.
LEMMA WriteMigrationKeeps == GeneratorInv /\ WriteMigration => GeneratorInv'
<1>. SUFFICES ASSUME GeneratorInv, WriteMigration PROVE GeneratorInv'
  OBVIOUS
<1>1. FilesInv /\ LastNumber \in Nat /\ LastNumber < MaxNumber /\ call.sorted \in SUBSET Generated
  BY LastIsLargest DEF GeneratorInv, LastLargest, WriteMigration, Calls
<1>t. PICK time \in Time :
          Write(NextAutoName(time),
                MigrationFile(ModifiedModels(LatestModels), {Repr(op) : op \in call.sorted},
                              ForeignKeyDependencies(call.sorted)))
  BY DEF WriteMigration
<1>2. PICK name \in Name : name = NextAutoName(time)
  BY NewName DEF NextAutoName
<1>3. name.number = LastNumber + 1
  BY <1>2 DEF NextAutoName
<1>4. ModifiedModels(LatestModels) \in ModelSets
  BY DEF ModifiedModels, GeneratorInv, ModelSets
<1>5. PICK migration \in [models : ModelSets, operations : SUBSET Statements,
                          dependencies : SUBSET Processed,
                          modelDependencies : SUBSET (Model \union Foreign)] :
           migration = MigrationFile(ModifiedModels(LatestModels), {Repr(op) : op \in call.sorted},
                                     ForeignKeyDependencies(call.sorted))
  BY <1>1, <1>4, WrittenDepends DEF MigrationFile, Statements, BaseDependencies
<1>6. Write(name, migration)
  BY <1>t, <1>2, <1>5
<1>7. /\ FilesInv' /\ DOMAIN files \subseteq DOMAIN files'
      /\ name \notin Processed /\ files'[name] = migration
      /\ \A n \in DOMAIN files \ {name} : files'[n] = files[n]
      /\ Processed' \subseteq Processed \union {name}
      /\ LastNumber' \in {LastNumber, LastNumber + 1}
  BY <1>1, <1>3, <1>6, FilesWritten, ZenonT(60) DEF GeneratorInv
<1>8. DependenciesCover'
  <2>1. ASSUME NEW n \in Processed', NEW op \in files'[n].operations
        PROVE  LET referred == IF op.inner = "CreateModel" THEN op.fields
                               ELSE IF op.inner = "AddField" THEN {op.field} ELSE {}
               IN  referred \intersect Foreign \subseteq files'[n].modelDependencies
    <3>1. CASE n = name
      BY <1>1, <1>5, <1>7, <2>1, <3>1, WrittenDepends DEF MigrationFile
    <3>2. CASE n # name
      <4>1. n \in Processed /\ files'[n] = files[n]
        BY <1>7, <3>2 DEF Processed
      <4>. QED BY <2>1, <4>1 DEF GeneratorInv, DependenciesCover
    <3>. QED BY <3>1, <3>2
  <2>2. ASSUME NEW n \in Processed', NEW d \in Processed', d.number = n.number - 1
        PROVE  d \in files'[n].dependencies
    <3>1. \A k \in Processed : k.number \in Nat /\ k.number <= LastNumber
      BY <1>1, LastIsLargest DEF LastLargest
    <3>2. d \in Processed
      BY <1>1, <1>3, <1>7, <2>2, <3>1
    <3>3. CASE n = name
      <4>1. d.number = LastNumber
        BY <1>1, <1>3, <2>2, <3>3
      <4>. QED BY <1>5, <1>7, <3>2, <3>3, <4>1 DEF MigrationFile, BaseDependencies
    <3>4. CASE n # name
      <4>1. n \in Processed /\ files'[n] = files[n]
        BY <1>7, <3>4 DEF Processed
      <4>. QED BY <2>2, <3>2, <4>1 DEF GeneratorInv, DependenciesCover
    <3>. QED BY <3>3, <3>4
  <2>. QED BY <2>1, <2>2 DEF DependenciesCover
<1>9. call' \in Calls /\ call'.at = "list" /\ models' = models /\ listed' = listed
  BY DEF WriteMigration, Calls, Idle
<1>. QED BY <1>1, <1>7, <1>8, <1>9, SetsStay, BoundsAssumption DEF GeneratorInv

\* A custom migration has no models and does not count.
LEMMA WriteCustomKeeps == GeneratorInv /\ WriteCustom => GeneratorInv'
<1>. SUFFICES ASSUME GeneratorInv, WriteCustom PROVE GeneratorInv'
  OBVIOUS
<1>1. FilesInv /\ LastNumber \in Nat
  BY LastIsLargest DEF GeneratorInv, LastLargest
<1>2. PICK s \in Suffix :
          Write([number |-> LastNumber + 1, suffix |-> s], MigrationFile(NoModels, {}, {}))
  BY DEF WriteCustom
<1>3. PICK name \in Name : name = [number |-> LastNumber + 1, suffix |-> s]
  BY NewName
<1>4. PICK migration \in [models : ModelSets, operations : SUBSET Statements,
                          dependencies : SUBSET Processed,
                          modelDependencies : SUBSET (Model \union Foreign)] :
           migration = MigrationFile(NoModels, {}, {})
  BY DEF MigrationFile, NoModels, ModelSets, BaseDependencies
<1>5. Write(name, migration) /\ name.number = LastNumber + 1 /\ migration.models = NoModels
  BY <1>2, <1>3, <1>4 DEF MigrationFile
<1>6. /\ FilesInv' /\ DOMAIN files \subseteq DOMAIN files' /\ name \notin Processed
      /\ \A n \in DOMAIN files \ {name} : files'[n] = files[n]
      /\ Processed' = Processed /\ LastNumber' = LastNumber
  BY <1>1, <1>5, FilesWritten, ZenonT(60) DEF GeneratorInv
<1>7. \A n \in Processed : files'[n] = files[n]
  BY <1>6 DEF Processed
<1>8. DependenciesCover'
  BY <1>6, <1>7 DEF GeneratorInv, DependenciesCover
<1>9. call' \in Calls /\ call'.at = "listCustom" /\ models' = models /\ listed' = listed
  BY DEF WriteCustom, Calls, Idle
<1>. QED BY <1>6, <1>8, <1>9, SetsStay DEF GeneratorInv

\* A step of the command that writes no migration.
LEMMA GeneratorStays ==
    ASSUME GeneratorInv, files' = files, models' \in ModelSets, call' \in Calls,
           call'.at = "sort" => LastNumber < MaxNumber, listed' \subseteq DOMAIN files
    PROVE  GeneratorInv'
<1>1. /\ LastNumber' = LastNumber /\ FilesInv' /\ DependenciesCover'
  BY FilesStay DEF GeneratorInv
<1>2. LastNumber' <= MaxNumber /\ (call'.at = "sort" => LastNumber' < MaxNumber)
  BY <1>1 DEF GeneratorInv
<1>3. models' \in ModelSets' /\ call' \in Calls' /\ listed' \subseteq DOMAIN files'
  BY SetsStay
<1>. QED BY <1>1, <1>2, <1>3 DEF GeneratorInv

LEMMA GeneratorStep == GeneratorInv /\ [Next]_vars => GeneratorInv'
<1>. SUFFICES ASSUME GeneratorInv, [Next]_vars PROVE GeneratorInv'
  OBVIOUS
<1>. USE DEF GeneratorInv
<1>1. CASE Edit
  <2>1. /\ files' = files /\ listed' = listed /\ call' = Idle
    BY <1>1 DEF Edit
  <2>2. models' \in ModelSets /\ call' \in Calls /\ call'.at # "sort"
    BY <1>1, <2>1, EditType DEF Calls, Idle
  <2>. QED BY <2>1, <2>2, GeneratorStays
<1>2. CASE Make
  <2>1. files' = files /\ models' = models /\ listed' = listed /\ LastNumber < MaxNumber
    BY <1>2 DEF Make
  <2>2. call' \in Calls
    <3>1. \A feedback : RemoveCycles(GenerateOperations(LatestModels), feedback) \in SUBSET Generated
      BY GeneratedType, CyclesType
    <3>. QED BY <1>2, <3>1 DEF Make, Calls, Idle
  <2>. QED BY <2>1, <2>2, GeneratorStays
<1>3. CASE Sort
  <2>1. files' = files /\ models' = models /\ listed' = listed /\ call.at = "sort"
    BY <1>3 DEF Sort
  <2>2. call' \in Calls
    <3>1. PICK op \in call.ops : call' = [call EXCEPT !.ops = @ \ {op}, !.sorted = @ \union {op}]
      BY <1>3 DEF Sort, Ready
    <3>. QED BY <3>1 DEF Calls
  <2>. QED BY <2>1, <2>2, GeneratorStays
<1>4. CASE Panic
  <2>1. files' = files /\ models' = models /\ listed' = listed /\ call.at = "sort"
    BY <1>4 DEF Panic
  <2>2. call' \in Calls
    BY <1>4 DEF Panic, Calls
  <2>. QED BY <2>1, <2>2, GeneratorStays
<1>5. CASE WriteMigration
  BY <1>5, WriteMigrationKeeps
<1>6. CASE WriteCustom
  BY <1>6, WriteCustomKeeps
<1>7. CASE WriteModule
  <2>1. files' = files /\ models' = models /\ listed' = DOMAIN files
    BY <1>7 DEF WriteModule, MigrationList
  <2>2. call' \in Calls /\ call'.at # "sort"
    BY <1>7 DEF WriteModule, Calls, Idle
  <2>. QED BY <2>1, <2>2, GeneratorStays
<1>8. CASE Crash
  <2>1. files' = files /\ models' = models /\ listed' = listed /\ call' = Idle
    BY <1>8 DEF Crash
  <2>2. call' \in Calls /\ call'.at # "sort"
    BY <2>1 DEF Calls, Idle
  <2>. QED BY <2>1, <2>2, GeneratorStays
<1>9. CASE UNCHANGED vars
  <2>1. files' = files /\ models' = models /\ listed' = listed /\ call' = call
    BY <1>9 DEF vars
  <2>. QED BY <2>1, GeneratorStays
<1>. QED BY <1>1, <1>2, <1>3, <1>4, <1>5, <1>6, <1>7, <1>8, <1>9 DEF Next

\* A migration depends on the one made before it, and on every model of
\* another app that its operations refer to: whatever is edited, made and
\* interrupted, the engine finds what an operation needs in front of it.
THEOREM MigrationsDepend == Spec => []DependenciesCover
<1>1. GeneratorInv => DependenciesCover
  BY DEF GeneratorInv
<1>. QED BY <1>1, InitGenerator, GeneratorStep, PTL DEF Spec

-----------------------------------------------------------------------------
(* What the operations of a migration do to the tables, all in all         *)

Makes(S, t)     == \E o \in S : o.inner = "CreateModel" /\ o.table = t
MadeBy(S, t)    == UNION {o.fields : o \in {p \in S : p.inner = "CreateModel" /\ p.table = t}}
AddedBy(S, t)   == {f \in Field : AddField(t, f) \in S}
RemovedBy(S, t) == {f \in Field : RemoveField(t, f) \in S}

NewTable(fs) == [columns |-> fs, constraints |-> References(fs)]

Base(S, tables, t) == IF Makes(S, t) THEN NewTable(MadeBy(S, t)) ELSE tables[t]

Outcome(S, tables) ==
    [t \in Model |->
        IF AddedBy(S, t) \union RemovedBy(S, t) = {} THEN Base(S, tables, t)
        ELSE [columns     |-> (Base(S, tables, t).columns \ RemovedBy(S, t)) \union AddedBy(S, t),
              constraints |-> Base(S, tables, t).constraints \ RemovedBy(S, t)]]

MakeStatements   == {CreateModel(m, fs) : m \in Model, fs \in SUBSET Field}
AddStatements    == {AddField(m, f) : m \in Model, f \in Field}
RemoveStatements == {RemoveField(m, f) : m \in Model, f \in Field}

\* No table is created twice or removed, and no field is added and removed.
Consistent(ops) ==
    /\ ops \subseteq MakeStatements \union AddStatements \union RemoveStatements
    /\ \A o, p \in ops : o.inner = "CreateModel" /\ p.inner = "CreateModel" /\ o.table = p.table => o = p
    /\ \A m \in Model, f \in Field : ~(AddField(m, f) \in ops /\ RemoveField(m, f) \in ops)

LEMMA StatementShapes ==
    ASSUME NEW op \in MakeStatements \union AddStatements \union RemoveStatements
    PROVE  /\ op.inner = "CreateModel" <=> op \in MakeStatements
           /\ op.table \in Model
           /\ \A m \in Model, f \in Field : op = AddField(m, f) <=> op \in AddStatements /\ op.table = m /\ op.field = f
           /\ \A m \in Model, f \in Field : op = RemoveField(m, f) <=> op \in RemoveStatements /\ op.table = m /\ op.field = f
           /\ op \in MakeStatements => op.inner = "CreateModel" /\ op.fields \in SUBSET Field
           /\ op \in AddStatements => op.inner = "AddField" /\ op.field \in Field
           /\ op \in RemoveStatements => op.inner = "RemoveField" /\ op.field \in Field
<1>1. CASE op \in MakeStatements
  BY <1>1 DEF MakeStatements, AddStatements, RemoveStatements, CreateModel, AddField, RemoveField
<1>2. CASE op \in AddStatements
  BY <1>2 DEF MakeStatements, AddStatements, RemoveStatements, CreateModel, AddField, RemoveField
<1>3. CASE op \in RemoveStatements
  BY <1>3 DEF MakeStatements, AddStatements, RemoveStatements, CreateModel, AddField, RemoveField
<1>. QED BY <1>1, <1>2, <1>3

\* One more table, of which nothing was said before.
LEMMA OutcomeMakes ==
    ASSUME NEW ops, Consistent(ops), NEW S \in SUBSET ops, NEW tables, DOMAIN tables = Model,
           NEW op \in S, op \in MakeStatements,
           AddedBy(S, op.table) = {}, RemovedBy(S, op.table) = {}
    PROVE  Outcome(S, tables) = Forwards(op, Outcome(S \ {op}, tables))
<1>. DEFINE R == S \ {op}
<1>1. op.inner = "CreateModel" /\ op.table \in Model
  BY StatementShapes
<1>2. \A t \in Model : AddedBy(S, t) = AddedBy(R, t) /\ RemovedBy(S, t) = RemovedBy(R, t)
  BY <1>1 DEF AddedBy, RemovedBy, AddField, RemoveField
<1>3. Forwards(op, Outcome(R, tables)) =
          [t \in Model |-> IF t = op.table THEN NewTable(op.fields) ELSE Outcome(R, tables)[t]]
  BY <1>1 DEF Forwards, CreateTable, With, NewTable, Outcome
<1>4. ASSUME NEW t \in Model
      PROVE  Outcome(S, tables)[t] = IF t = op.table THEN NewTable(op.fields) ELSE Outcome(R, tables)[t]
  <2>1. CASE t = op.table
    <3>1. {p \in S : p.inner = "CreateModel" /\ p.table = t} = {op}
      BY <1>1, <2>1 DEF Consistent
    <3>2. MadeBy(S, t) = op.fields /\ Makes(S, t)
      BY <1>1, <2>1, <3>1 DEF MadeBy, Makes
    <3>3. Base(S, tables, t) = NewTable(op.fields)
      BY <3>2 DEF Base
    <3>4. AddedBy(S, t) \union RemovedBy(S, t) = {}
      BY <2>1
    <3>5. Outcome(S, tables)[t] = Base(S, tables, t)
      BY <3>4 DEF Outcome
    <3>. QED BY <2>1, <3>3, <3>5
  <2>2. CASE t # op.table
    <3>1. {p \in S : p.inner = "CreateModel" /\ p.table = t} = {p \in R : p.inner = "CreateModel" /\ p.table = t}
      BY <2>2
    <3>2. MadeBy(S, t) = MadeBy(R, t) /\ (Makes(S, t) <=> Makes(R, t))
      BY <2>2, <3>1 DEF MadeBy, Makes
    <3>3. AddedBy(S, t) = AddedBy(R, t) /\ RemovedBy(S, t) = RemovedBy(R, t) /\ Base(S, tables, t) = Base(R, tables, t)
      BY <1>2, <3>2 DEF Base
    <3>4. Outcome(S, tables)[t] = Outcome(R, tables)[t]
      BY <3>3 DEF Outcome
    <3>. QED BY <2>2, <3>4
  <2>. QED BY <2>1, <2>2
<1>5. Outcome(S, tables) = [t \in Model |-> Outcome(S, tables)[t]]
  BY DEF Outcome
<1>. QED BY <1>3, <1>4, <1>5

\* A statement that makes no table leaves open what was there before.
LEMMA SameBase ==
    ASSUME NEW S, NEW tables, NEW op, op.inner # "CreateModel", NEW t \in Model
    PROVE  Base(S, tables, t) = Base(S \ {op}, tables, t)
<1>1. {p \in S : p.inner = "CreateModel" /\ p.table = t} = {p \in S \ {op} : p.inner = "CreateModel" /\ p.table = t}
  OBVIOUS
<1>. QED BY <1>1 DEF Base, MadeBy, Makes

\* One more column.
LEMMA OutcomeAdds ==
    ASSUME NEW ops, Consistent(ops), NEW S \in SUBSET ops, NEW tables, DOMAIN tables = Model,
           NEW op \in S, op \in AddStatements
    PROVE  Outcome(S, tables) = Forwards(op, Outcome(S \ {op}, tables))
<1>. DEFINE R == S \ {op}
            B(t) == Base(R, tables, t)
<1>1. PICK m \in Model, f \in Field : op = AddField(m, f)
  BY DEF AddStatements
<1>2. op.inner = "AddField" /\ op.table = m /\ op.field = f
  BY <1>1 DEF AddField
<1>3. \A t \in Model : Base(S, tables, t) = B(t)
  BY <1>2, SameBase
<1>4. \A t \in Model : /\ RemovedBy(S, t) = RemovedBy(R, t)
                       /\ AddedBy(S, t) = IF t = m THEN AddedBy(R, t) \union {f} ELSE AddedBy(R, t)
  BY <1>1 DEF RemovedBy, AddedBy, RemoveField, AddField
<1>5. Forwards(op, Outcome(R, tables)) =
          [t \in Model |-> IF t = m THEN [columns     |-> Outcome(R, tables)[t].columns \union {f},
                                          constraints |-> Outcome(R, tables)[t].constraints]
                           ELSE Outcome(R, tables)[t]]
  BY <1>2 DEF Forwards, AddColumn, With, Outcome
<1>6. ASSUME NEW t \in Model
      PROVE  Outcome(S, tables)[t] = IF t = m THEN [columns     |-> Outcome(R, tables)[t].columns \union {f},
                                                    constraints |-> Outcome(R, tables)[t].constraints]
                                     ELSE Outcome(R, tables)[t]
  <2>1. CASE t # m
    <3>1. AddedBy(S, t) = AddedBy(R, t) /\ RemovedBy(S, t) = RemovedBy(R, t) /\ Base(S, tables, t) = Base(R, tables, t)
      BY <1>3, <1>4, <2>1
    <3>2. Outcome(S, tables)[t] = Outcome(R, tables)[t]
      BY <3>1 DEF Outcome
    <3>. HIDE DEF R
    <3>. QED BY <2>1, <3>2
  <2>2. CASE t = m /\ AddedBy(R, t) \union RemovedBy(R, t) = {}
    <3>1. Outcome(R, tables)[t] = B(t)
      BY <2>2 DEF Outcome
    <3>2. AddedBy(S, t) = {f} /\ RemovedBy(S, t) = {}
      BY <1>4, <2>2
    <3>3. Outcome(S, tables)[t] = [columns |-> (B(t).columns \ {}) \union {f}, constraints |-> B(t).constraints \ {}]
      BY <1>3, <3>2 DEF Outcome
    <3>4. B(t).columns \ {} = B(t).columns /\ B(t).constraints \ {} = B(t).constraints
      OBVIOUS
    <3>. QED BY <2>2, <3>1, <3>3, <3>4
  <2>3. CASE t = m /\ AddedBy(R, t) \union RemovedBy(R, t) # {}
    <3>1. Outcome(R, tables)[t] = [columns     |-> (B(t).columns \ RemovedBy(R, t)) \union AddedBy(R, t),
                                   constraints |-> B(t).constraints \ RemovedBy(R, t)]
      BY <2>3 DEF Outcome
    <3>2. Outcome(S, tables)[t] = [columns     |-> (B(t).columns \ RemovedBy(R, t)) \union (AddedBy(R, t) \union {f}),
                                   constraints |-> B(t).constraints \ RemovedBy(R, t)]
      BY <1>3, <1>4, <2>3 DEF Outcome
    <3>3. /\ Outcome(R, tables)[t].columns = (B(t).columns \ RemovedBy(R, t)) \union AddedBy(R, t)
          /\ Outcome(R, tables)[t].constraints = B(t).constraints \ RemovedBy(R, t)
      BY <3>1
    <3>4. (B(t).columns \ RemovedBy(R, t)) \union (AddedBy(R, t) \union {f})
              = ((B(t).columns \ RemovedBy(R, t)) \union AddedBy(R, t)) \union {f}
      OBVIOUS
    <3>. HIDE DEF R, B
    <3>. QED BY <2>3, <3>2, <3>3, <3>4
  <2>. QED BY <2>1, <2>2, <2>3
<1>7. Outcome(S, tables) = [t \in Model |-> Outcome(S, tables)[t]]
  BY DEF Outcome
<1>. QED BY <1>5, <1>6, <1>7

\* One column less.
LEMMA OutcomeRemoves ==
    ASSUME NEW ops, Consistent(ops), NEW S \in SUBSET ops, NEW tables, DOMAIN tables = Model,
           NEW op \in S, op \in RemoveStatements
    PROVE  Outcome(S, tables) = Forwards(op, Outcome(S \ {op}, tables))
<1>. DEFINE R == S \ {op}
            B(t) == Base(R, tables, t)
<1>1. PICK m \in Model, f \in Field : op = RemoveField(m, f)
  BY DEF RemoveStatements
<1>2. op.inner = "RemoveField" /\ op.table = m /\ op.field = f
  BY <1>1 DEF RemoveField
<1>3. \A t \in Model : Base(S, tables, t) = B(t)
  BY <1>2, SameBase
<1>4. \A t \in Model : /\ AddedBy(S, t) = AddedBy(R, t)
                       /\ RemovedBy(S, t) = IF t = m THEN RemovedBy(R, t) \union {f} ELSE RemovedBy(R, t)
  BY <1>1 DEF RemovedBy, AddedBy, RemoveField, AddField
<1>5. Forwards(op, Outcome(R, tables)) =
          [t \in Model |-> IF t = m THEN [columns     |-> Outcome(R, tables)[t].columns \ {f},
                                          constraints |-> Outcome(R, tables)[t].constraints \ {f}]
                           ELSE Outcome(R, tables)[t]]
  BY <1>2 DEF Forwards, DropColumn, With, Outcome
<1>6. f \notin AddedBy(R, m)
  BY <1>1 DEF Consistent, AddedBy
<1>7. ASSUME NEW t \in Model
      PROVE  Outcome(S, tables)[t] = IF t = m THEN [columns     |-> Outcome(R, tables)[t].columns \ {f},
                                                    constraints |-> Outcome(R, tables)[t].constraints \ {f}]
                                     ELSE Outcome(R, tables)[t]
  <2>1. CASE t # m
    <3>1. AddedBy(S, t) = AddedBy(R, t) /\ RemovedBy(S, t) = RemovedBy(R, t) /\ Base(S, tables, t) = Base(R, tables, t)
      BY <1>3, <1>4, <2>1
    <3>2. Outcome(S, tables)[t] = Outcome(R, tables)[t]
      BY <3>1 DEF Outcome
    <3>. HIDE DEF R
    <3>. QED BY <2>1, <3>2
  <2>2. CASE t = m /\ AddedBy(R, t) \union RemovedBy(R, t) = {}
    <3>1. Outcome(R, tables)[t] = B(t)
      BY <2>2 DEF Outcome
    <3>2. AddedBy(S, t) = {} /\ RemovedBy(S, t) = {f}
      BY <1>4, <2>2
    <3>3. Outcome(S, tables)[t] = [columns |-> (B(t).columns \ {f}) \union {}, constraints |-> B(t).constraints \ {f}]
      BY <1>3, <3>2 DEF Outcome
    <3>4. (B(t).columns \ {f}) \union {} = B(t).columns \ {f}
      OBVIOUS
    <3>. QED BY <2>2, <3>1, <3>3, <3>4
  <2>3. CASE t = m /\ AddedBy(R, t) \union RemovedBy(R, t) # {}
    <3>1. Outcome(R, tables)[t] = [columns     |-> (B(t).columns \ RemovedBy(R, t)) \union AddedBy(R, t),
                                   constraints |-> B(t).constraints \ RemovedBy(R, t)]
      BY <2>3 DEF Outcome
    <3>2. Outcome(S, tables)[t] = [columns     |-> (B(t).columns \ (RemovedBy(R, t) \union {f})) \union AddedBy(R, t),
                                   constraints |-> B(t).constraints \ (RemovedBy(R, t) \union {f})]
      BY <1>3, <1>4, <2>3 DEF Outcome
    <3>3. /\ (B(t).columns \ (RemovedBy(R, t) \union {f})) \union AddedBy(R, t)
               = ((B(t).columns \ RemovedBy(R, t)) \union AddedBy(R, t)) \ {f}
          /\ B(t).constraints \ (RemovedBy(R, t) \union {f}) = (B(t).constraints \ RemovedBy(R, t)) \ {f}
      BY <1>6, <2>3
    <3>4. /\ Outcome(R, tables)[t].columns = (B(t).columns \ RemovedBy(R, t)) \union AddedBy(R, t)
          /\ Outcome(R, tables)[t].constraints = B(t).constraints \ RemovedBy(R, t)
      BY <3>1
    <3>. HIDE DEF R, B
    <3>. QED BY <2>3, <3>2, <3>3, <3>4
  <2>. QED BY <2>1, <2>2, <2>3
<1>8. Outcome(S, tables) = [t \in Model |-> Outcome(S, tables)[t]]
  BY DEF Outcome
<1>. QED BY <1>5, <1>7, <1>8

\* The recursion of Migrated comes to the outcome.
LEMMA MigratedIsOutcome ==
    ASSUME NEW ops, IsFiniteSet(ops), Consistent(ops),
           NEW tables, tables = [t \in Model |-> tables[t]]
    PROVE  Migrated(ops, tables) = Outcome(ops, tables)
<1>. DEFINE creates == {op \in ops : op.inner = "CreateModel"}
            Next1(S) == CHOOSE o \in S : S \subseteq creates \/ o \notin creates
            Body(g, S) == IF S = {} THEN tables ELSE Forwards(Next1(S), g[S \ {Next1(S)}])
            run == CHOOSE g : g = [S \in SUBSET ops |-> Body(g, S)]
            closed == [S \in SUBSET ops |-> Outcome(S, tables)]
<1>1. ASSUME NEW S \in SUBSET ops, S # {} PROVE Next1(S) \in S /\ (S \subseteq creates \/ Next1(S) \notin creates)
  <2>1. \E o \in S : S \subseteq creates \/ o \notin creates
    BY <1>1
  <2>. QED BY <2>1
<1>2. creates = ops \intersect MakeStatements
  BY StatementShapes DEF Consistent
<1>3. ASSUME NEW S \in SUBSET ops PROVE Outcome(S, tables) = Body(closed, S)
  <2>1. CASE S = {}
    <3>1. \A t \in Model : AddedBy({}, t) = {} /\ RemovedBy({}, t) = {} /\ Base({}, tables, t) = tables[t]
      BY DEF AddedBy, RemovedBy, Base, Makes
    <3>2. Outcome({}, tables) = [t \in Model |-> tables[t]]
      BY <3>1 DEF Outcome
    <3>. QED BY <2>1, <3>2
  <2>2. CASE S # {}
    <3>. DEFINE op == Next1(S)
    <3>1. op \in S /\ (S \subseteq creates \/ op \notin creates)
      BY <1>1, <2>2
    <3>2. Body(closed, S) = Forwards(op, Outcome(S \ {op}, tables))
      BY <2>2
    <3>. HIDE DEF op
    <3>3. op \in MakeStatements \union AddStatements \union RemoveStatements
      BY <3>1 DEF Consistent
    <3>4. DOMAIN tables = Model
      OBVIOUS
    <3>5. CASE op \in MakeStatements
      <4>1. \A o \in S : o.inner = "CreateModel"
        BY <1>2, <3>1, <3>5
      <4>2. AddedBy(S, op.table) = {} /\ RemovedBy(S, op.table) = {}
        BY <4>1 DEF AddedBy, RemovedBy, AddField, RemoveField
      <4>. QED BY <3>1, <3>2, <3>4, <3>5, <4>2, OutcomeMakes
    <3>6. CASE op \in AddStatements
      BY <3>1, <3>2, <3>4, <3>6, OutcomeAdds
    <3>7. CASE op \in RemoveStatements
      BY <3>1, <3>2, <3>4, <3>7, OutcomeRemoves
    <3>. QED BY <3>3, <3>5, <3>6, <3>7
  <2>. QED BY <2>1, <2>2
<1>4. closed = [S \in SUBSET ops |-> Body(closed, S)]
  BY <1>3
<1>. HIDE DEF closed
<1>5. run = [S \in SUBSET ops |-> Body(run, S)]
  BY <1>4, ZenonT(60)
<1>6. Migrated(ops, tables) = run[ops]
  BY DEF Migrated
<1>. HIDE DEF run
<1>7. \A S \in SUBSET ops : run[S] = closed[S]
  <2>1. SUFFICES ASSUME {S \in SUBSET ops : run[S] # closed[S]} # {} PROVE FALSE
    OBVIOUS
  <2>. DEFINE Wrong == {S \in SUBSET ops : run[S] # closed[S]}
  <2>2. IsWellFoundedOn(StrictSubsetOrdering(ops), FiniteSubsetsOf(ops)) /\ Wrong \subseteq FiniteSubsetsOf(ops)
    BY FS_StrictSubsetOrderingWellFounded, FS_FiniteSubsetsOfFinite
  <2>3. PICK S \in Wrong : \A T \in Wrong : ~(<<T, S>> \in StrictSubsetOrdering(ops))
    BY <2>1, <2>2, WFMin
  <2>4. S # {}
    BY <1>4, <1>5, <2>3
  <2>5. Next1(S) \in S
    BY <1>1, <2>3, <2>4
  <2>6. <<S \ {Next1(S)}, S>> \in StrictSubsetOrdering(ops)
    BY <2>3, <2>5 DEF StrictSubsetOrdering
  <2>7. run[S \ {Next1(S)}] = closed[S \ {Next1(S)}]
    BY <2>3, <2>6
  <2>8. run[S] = Forwards(Next1(S), run[S \ {Next1(S)}]) /\ closed[S] = Forwards(Next1(S), closed[S \ {Next1(S)}])
    BY <1>4, <1>5, <2>3, <2>4
  <2>. QED BY <2>3, <2>7, <2>8
<1>8. closed[ops] = Outcome(ops, tables)
  BY DEF closed
<1>. QED BY <1>6, <1>7, <1>8

-----------------------------------------------------------------------------
(* The tables after the migrations, one after the other                    *)

Nothing == [t \in Model |-> Absent]

\* The files of a number that do something.
Ran(k) == {n \in DOMAIN files : n.number = k /\ files[n].operations # {}}

Stage(k, tables) ==
    IF Ran(k) = {} THEN tables
    ELSE Migrated(files[CHOOSE n \in Ran(k) : TRUE].operations, tables)

ReplaysInOrder ==
    /\ Replayed(0) = Nothing
    /\ \A k \in 1 .. MaxNumber : Replayed(k) = Stage(k, Replayed(k - 1))

LEMMA Replays == ReplaysInOrder
<1>. DEFINE Body(g, k) == IF k = 0 THEN Nothing ELSE Stage(k, g[k - 1])
            P(n) == \E g : g = [k \in 0 .. n |-> Body(g, k)]
            after == CHOOSE g : g = [k \in 0 .. MaxNumber |-> Body(g, k)]
<1>1. P(0)
  <2>. DEFINE g == [k \in 0 .. 0 |-> Nothing]
  <2>1. g = [k \in 0 .. 0 |-> Body(g, k)]
    OBVIOUS
  <2>. QED BY <2>1
<1>2. ASSUME NEW n \in Nat, P(n) PROVE P(n + 1)
  <2>1. PICK g : g = [k \in 0 .. n |-> Body(g, k)]
    BY <1>2
  <2>. DEFINE h == [k \in 0 .. n + 1 |-> IF k = n + 1 THEN Stage(n + 1, g[n]) ELSE g[k]]
  <2>2. ASSUME NEW k \in 0 .. n + 1 PROVE h[k] = Body(h, k)
    <3>1. CASE k = n + 1
      BY <3>1
    <3>2. CASE k # n + 1
      <4>1. k \in 0 .. n /\ h[k] = g[k] /\ (k # 0 => k - 1 \in 0 .. n /\ h[k - 1] = g[k - 1])
        BY <3>2
      <4>2. g[k] = Body(g, k)
        BY <2>1, <4>1
      <4>. QED BY <4>1, <4>2
    <3>. QED BY <3>1, <3>2
  <2>3. h = [k \in 0 .. n + 1 |-> h[k]]
    OBVIOUS
  <2>. HIDE DEF h
  <2>4. h = [k \in 0 .. n + 1 |-> Body(h, k)]
    BY <2>2, <2>3
  <2>. QED BY <2>4
<1>. HIDE DEF P
<1>3. \A n \in Nat : P(n)
  <2>1. SUFFICES ASSUME {n \in Nat : ~P(n)} # {} PROVE FALSE
    OBVIOUS
  <2>2. PICK n \in {k \in Nat : ~P(k)} : \A k \in {j \in Nat : ~P(j)} : n <= k
    BY <2>1, LeastNumber
  <2>3. n # 0
    BY <1>1, <2>2
  <2>4. n - 1 \in Nat /\ P(n - 1)
    BY <2>2, <2>3
  <2>. QED BY <1>2, <2>2, <2>4
<1>4. MaxNumber \in Nat
  BY BoundsAssumption
<1>5. after = [k \in 0 .. MaxNumber |-> Body(after, k)]
  BY <1>3, <1>4 DEF P
<1>6. \A k : Replayed(k) = after[k]
  BY DEF Replayed, Stage, Ran, Nothing
<1>. HIDE DEF after
<1>7. ASSUME NEW k \in 1 .. MaxNumber PROVE after[k] = Stage(k, after[k - 1])
  BY <1>4, <1>5
<1>8. after[0] = Nothing
  BY <1>4, <1>5
<1>. QED BY <1>6, <1>7, <1>8 DEF ReplaysInOrder

\* Where nothing is new, the tables are those from before.
SameUpTo(K) ==
    \A k \in 1 .. MaxNumber : k <= K =>
        /\ Ran(k)' = Ran(k)
        /\ \A n \in Ran(k) : files'[n].operations = files[n].operations

LEMMA ReplaysSame ==
    \A K \in Nat : SameUpTo(K) => \A k \in 0 .. MaxNumber : k <= K => Replayed(k)' = Replayed(k)
<1>. SUFFICES ASSUME NEW K \in Nat, SameUpTo(K)
              PROVE  \A k \in 0 .. MaxNumber : k <= K => Replayed(k)' = Replayed(k)
  OBVIOUS
<1>. DEFINE Wrong == {k \in 0 .. MaxNumber : k <= K /\ Replayed(k)' # Replayed(k)}
<1>1. SUFFICES ASSUME Wrong # {} PROVE FALSE
  OBVIOUS
<1>2. PICK k \in Wrong : \A j \in Wrong : k <= j
  <2>1. Wrong \in SUBSET Nat
    BY BoundsAssumption
  <2>. HIDE DEF Wrong
  <2>. QED BY <1>1, <2>1, LeastNumber
<1>3. k \in 0 .. MaxNumber /\ k <= K /\ MaxNumber \in Nat
  BY BoundsAssumption
<1>4. ReplaysInOrder'
  BY Replays, PTL
<1>5. CASE k = 0
  BY <1>2, <1>4, <1>5, Replays DEF ReplaysInOrder, Nothing
<1>6. CASE k # 0
  <2>1. k \in 1 .. MaxNumber /\ k - 1 \in 0 .. MaxNumber /\ k - 1 <= K /\ ~(k <= k - 1)
    BY <1>3, <1>6
  <2>2. Replayed(k - 1)' = Replayed(k - 1)
    BY <1>2, <2>1
  <2>3. Ran(k)' = Ran(k) /\ \A n \in Ran(k) : files'[n].operations = files[n].operations
    BY <1>3, <2>1 DEF SameUpTo
  <2>4. Replayed(k) = Stage(k, Replayed(k - 1)) /\ Replayed(k)' = Stage(k, Replayed(k - 1))'
    BY <1>4, <2>1, Replays DEF ReplaysInOrder
  <2>5. Stage(k, Replayed(k - 1))' = Stage(k, Replayed(k - 1))
    <3>1. CASE Ran(k) = {}
      BY <2>2, <2>3, <3>1 DEF Stage
    <3>2. CASE Ran(k) # {}
      <4>1. (CHOOSE n \in Ran(k) : TRUE) \in Ran(k)
        BY <3>2
      <4>2. files'[CHOOSE n \in Ran(k)' : TRUE].operations = files[CHOOSE n \in Ran(k) : TRUE].operations
        BY <2>3, <4>1
      <4>3. Stage(k, Replayed(k - 1)) = Migrated(files[CHOOSE n \in Ran(k) : TRUE].operations, Replayed(k - 1))
        BY <3>2 DEF Stage
      <4>4. Stage(k, Replayed(k - 1))'
                = Migrated(files'[CHOOSE n \in Ran(k)' : TRUE].operations, Replayed(k - 1)')
        BY <2>3, <3>2 DEF Stage
      <4>. QED BY <2>2, <4>2, <4>3, <4>4
    <3>. QED BY <3>1, <3>2
  <2>. QED BY <1>2, <2>4, <2>5
<1>. QED BY <1>5, <1>6

-----------------------------------------------------------------------------
(* One operation more: what is pending leads from the tables that are      *)
(* there to the models of the source, and every operation brings them      *)
(* closer.                                                                 *)

AddsTo(ops, m)    == {f \in Field : Add(m, f) \in ops}
TakesFrom(ops, m) == {f \in Field : Take(m, f) \in ops}
Tabled(tables)    == {t \in Model : tables[t] # Absent}

Tables == [columns : SUBSET Field, constraints : SUBSET Field]

\* Foreign keys are columns, and what they refer to is there.
TablesOk(tables) ==
    /\ tables \in [Model -> Tables \union {Absent}]
    /\ \A t \in Tabled(tables) :
          /\ tables[t].constraints \subseteq tables[t].columns
          /\ tables[t].constraints \intersect Model \subseteq Tabled(tables)

\* The models refer to models that are there.
Closed(ms) == \A m \in Model : ms[m] # Absent => \A f \in ms[m] \intersect Model : ms[f] # Absent

Pending(tables, ops, ms) ==
    /\ ops \subseteq Creates \union Adds \union Takes
    /\ \A o, p \in ops : o.kind = "createModel" /\ p.kind = "createModel" /\ o.table = p.table => o = p
    /\ \A m \in Model, fs \in SUBSET Field : Create(m, fs) \in ops =>
          /\ tables[m] = Absent /\ ms[m] # Absent
          /\ fs \union AddsTo(ops, m) = ms[m] /\ fs \intersect AddsTo(ops, m) = {} /\ TakesFrom(ops, m) = {}
    /\ \A m \in Model \ Created(ops) : tables[m] = Absent =>
          ms[m] = Absent /\ AddsTo(ops, m) = {} /\ TakesFrom(ops, m) = {}
    /\ \A m \in Tabled(tables) :
          /\ ms[m] # Absent
          /\ TakesFrom(ops, m) \subseteq tables[m].columns /\ AddsTo(ops, m) \intersect tables[m].columns = {}
          /\ (tables[m].columns \ TakesFrom(ops, m)) \union AddsTo(ops, m) = ms[m]

LEMMA NotAbsent ==
    /\ \A fs \in SUBSET Field : fs # Absent
    /\ Absent \notin Tables
<1>1. \A fs, ks \in SUBSET Field : Absent \notin {fs, [columns |-> fs, constraints |-> ks]}
  BY NamesAssumption DEF Field
<1>2. \A table \in Tables : table = [columns |-> table.columns, constraints |-> table.constraints]
  BY DEF Tables
<1>. QED BY <1>1, <1>2 DEF Tables

LEMMA CreatedBy ==
    ASSUME NEW ops, ops \subseteq Creates \union Adds \union Takes, NEW m
    PROVE  m \in Created(ops) <=> m \in Model /\ \E fs \in SUBSET Field : Create(m, fs) \in ops
<1>1. \A op \in ops : op \in Generated
  BY DEF Generated
<1>2. \A op \in ops : op.kind = "createModel" => \E fs \in SUBSET Field : op = Create(op.table, fs) /\ op.table \in Model
  BY <1>1, KindsApart DEF Creates, Create
<1>3. \A t, fs : Create(t, fs).kind = "createModel" /\ Create(t, fs).table = t
  BY DEF Create
<1>. QED BY <1>2, <1>3 DEF Created

\* What an operation refers to is there when its turn comes.
LEMMA ReadyRuns ==
    ASSUME NEW ms, ms \in ModelSets, Closed(ms), NEW tables, NEW ops, Pending(tables, ops, ms),
           NEW op \in Ready(ops)
    PROVE  /\ op \in ops
           /\ RefersTo(op) \intersect Model \subseteq Tabled(tables)
           /\ \A m \in Model, f \in Field : op \in {Add(m, f), Take(m, f)} => m \in Tabled(tables)
<1>1. op \in ops /\ \A t \in RefersTo(op) : t \notin Created(ops)
  BY DEF Ready
<1>2. \A t \in RefersTo(op) \intersect Model : ms[t] # Absent => t \in Tabled(tables)
  BY <1>1 DEF Pending, Tabled
<1>3. ASSUME NEW m \in Model, NEW fs \in SUBSET Field, op = Create(m, fs)
      PROVE  RefersTo(op) \intersect Model \subseteq Tabled(tables)
  <2>1. fs \subseteq ms[m] /\ ms[m] # Absent /\ RefersTo(op) = fs \ {Plain}
    BY <1>1, <1>3 DEF Pending, Create, RefersTo
  <2>. QED BY <1>2, <2>1 DEF Closed
<1>4. ASSUME NEW m \in Model, NEW f \in Field, op = Add(m, f)
      PROVE  m \in Tabled(tables) /\ RefersTo(op) \intersect Model \subseteq Tabled(tables)
  <2>1. RefersTo(op) = {m} \union ({f} \ {Plain}) /\ f \in AddsTo(ops, m)
    BY <1>1, <1>4 DEF Add, RefersTo, AddsTo
  <2>2. m \in Tabled(tables)
    BY <1>1, <2>1 DEF Pending, Tabled
  <2>3. f \in ms[m] /\ ms[m] # Absent
    BY <2>1, <2>2 DEF Pending
  <2>. QED BY <1>2, <2>1, <2>2, <2>3 DEF Closed
<1>5. ASSUME NEW m \in Model, NEW f \in Field, op = Take(m, f)
      PROVE  m \in Tabled(tables) /\ RefersTo(op) = {}
  <2>1. f \in TakesFrom(ops, m)
    BY <1>1, <1>5 DEF TakesFrom
  <2>2. m \notin Created(ops)
    BY <2>1, CreatedBy DEF Pending
  <2>. QED BY <1>5, <2>1, <2>2 DEF Pending, Tabled, RefersTo, Take
<1>6. \A m, n \in Model, f, g \in Field : Add(m, f) # Take(n, g) /\ (Add(m, f) = Add(n, g) => m = n) /\ (Take(m, f) = Take(n, g) => m = n)
  BY DEF Add, Take
<1>7. \A m, n \in Model, f \in Field : \A fs : Create(m, fs) # Add(n, f) /\ Create(m, fs) # Take(n, f)
  BY DEF Create, Add, Take
<1>8. \/ \E m \in Model, fs \in SUBSET Field : op = Create(m, fs)
      \/ \E m \in Model, f \in Field : op = Add(m, f)
      \/ \E m \in Model, f \in Field : op = Take(m, f)
  BY <1>1 DEF Pending, Creates, Adds, Takes
<1>. QED BY <1>1, <1>3, <1>4, <1>5, <1>6, <1>7, <1>8

Leads(op, tables, after, ops, ms) ==
    /\ TablesOk(after) /\ Pending(after, ops \ {op}, ms)
    /\ Tabled(after) = Tabled(tables) \union Created({op})
    /\ op.kind = "createModel" => op.table \notin Tabled(tables)
    /\ Needs(op) \intersect Model \subseteq Tabled(tables)
    /\ Undone(Repr(op), tables, after)

LEMMA MakeLeads ==
    ASSUME NEW ms, ms \in ModelSets, Closed(ms), NEW tables, TablesOk(tables), NEW ops, Pending(tables, ops, ms),
           NEW op \in Ready(ops), op \in Creates
    PROVE  Leads(op, tables, Forwards(Repr(op), tables), ops, ms)
<1>. DEFINE after == Forwards(Repr(op), tables)
            left == ops \ {op}
<1>1. PICK m \in Model, fs \in SUBSET Field : op = Create(m, fs)
  BY DEF Creates
<1>2. op.kind = "createModel" /\ op.table = m /\ op.fields = fs /\ op \in Generated /\ Repr(op) = CreateModel(m, fs)
  BY <1>1, ReprShapes DEF Create, Generated
<1>3. /\ op \in ops /\ tables[m] = Absent /\ ms[m] # Absent
      /\ fs \union AddsTo(ops, m) = ms[m] /\ fs \intersect AddsTo(ops, m) = {} /\ TakesFrom(ops, m) = {}
  BY <1>1, ReadyRuns DEF Pending
<1>4. after = [t \in Model |-> IF t = m THEN NewTable(fs) ELSE tables[t]]
  BY <1>2 DEF TablesOk, Forwards, CreateModel, CreateTable, With, NewTable
<1>. HIDE DEF after
<1>5. NewTable(fs) \in Tables /\ NewTable(fs) # Absent /\ NewTable(fs).columns = fs /\ NewTable(fs).constraints = fs \ {Plain}
  <2>1. NewTable(fs) \in Tables
    BY DEF NewTable, References, Tables
  <2>. QED BY <2>1, NotAbsent DEF NewTable, References
<1>6. Tabled(after) = Tabled(tables) \union {m} /\ m \notin Tabled(tables) /\ Created({op}) = {m}
  BY <1>2, <1>3, <1>4, <1>5 DEF Tabled, Created
<1>7. fs \intersect Model \subseteq Tabled(tables)
  BY <1>2, ReadyRuns, NamesAssumption DEF RefersTo
<1>8. TablesOk(after)
  <2>1. after \in [Model -> Tables \union {Absent}]
    BY <1>4, <1>5 DEF TablesOk
  <2>2. ASSUME NEW t \in Tabled(after)
        PROVE  after[t].constraints \subseteq after[t].columns /\ after[t].constraints \intersect Model \subseteq Tabled(after)
    BY <1>4, <1>5, <1>6, <1>7 DEF TablesOk, Tabled
  <2>. QED BY <2>1, <2>2 DEF TablesOk
<1>9. \A t \in Model : AddsTo(left, t) = AddsTo(ops, t) /\ TakesFrom(left, t) = TakesFrom(ops, t)
  BY <1>1 DEF AddsTo, TakesFrom, Create, Add, Take
<1>10. Created(left) = Created(ops) \ {m}
  <2>1. m \notin Created(left)
    BY <1>2, <1>3 DEF Pending, Created
  <2>2. Created(ops) = Created(left) \union {m}
    BY <1>2, <1>3 DEF Created
  <2>. QED BY <2>1, <2>2
<1>11. Pending(after, left, ms)
  <2>1. /\ left \subseteq Creates \union Adds \union Takes
        /\ \A o, p \in left : o.kind = "createModel" /\ p.kind = "createModel" /\ o.table = p.table => o = p
    BY DEF Pending
  <2>2. ASSUME NEW t \in Model, NEW gs \in SUBSET Field, Create(t, gs) \in left
        PROVE  /\ after[t] = Absent /\ ms[t] # Absent
               /\ gs \union AddsTo(left, t) = ms[t] /\ gs \intersect AddsTo(left, t) = {} /\ TakesFrom(left, t) = {}
    <3>1. t \in Created(left)
      BY <2>1, <2>2, CreatedBy
    <3>2. t # m /\ Create(t, gs) \in ops
      BY <1>10, <2>2, <3>1
    <3>. QED BY <1>4, <1>9, <3>2 DEF Pending
  <2>3. ASSUME NEW t \in Model \ Created(left), after[t] = Absent
        PROVE  ms[t] = Absent /\ AddsTo(left, t) = {} /\ TakesFrom(left, t) = {}
    <3>1. t # m
      BY <1>4, <1>5, <2>3
    <3>2. t \notin Created(ops) /\ tables[t] = Absent
      BY <1>4, <1>10, <2>3, <3>1
    <3>. QED BY <1>9, <3>2 DEF Pending
  <2>4. ASSUME NEW t \in Tabled(after)
        PROVE  /\ ms[t] # Absent
               /\ TakesFrom(left, t) \subseteq after[t].columns /\ AddsTo(left, t) \intersect after[t].columns = {}
               /\ (after[t].columns \ TakesFrom(left, t)) \union AddsTo(left, t) = ms[t]
    <3>1. CASE t = m
      BY <1>3, <1>4, <1>5, <1>9, <3>1
    <3>2. CASE t # m
      <4>1. t \in Tabled(tables) /\ t \in Model /\ after[t] = tables[t]
        BY <1>4, <1>6, <3>2 DEF Tabled
      <4>. QED BY <1>9, <4>1 DEF Pending
    <3>. QED BY <3>1, <3>2
  <2>. HIDE DEF left
  <2>. QED BY <2>1, <2>2, <2>3, <2>4 DEF Pending
<1>12. Undone(Repr(op), tables, after)
  <2>1. Backwards(Repr(op), after) = [t \in Model |-> IF t = m THEN Absent ELSE after[t]]
    BY <1>2, <1>4 DEF Backwards, CreateModel, DropTable, With
  <2>2. Backwards(Repr(op), after) = tables
    BY <1>3, <1>4, <2>1 DEF TablesOk
  <2>3. {t \in Model : after[t] # Absent /\ tables[t] = Absent} = {m}
    BY <1>4, <1>6 DEF Tabled
  <2>4. \A t \in Model \ {m} : after[t] # Absent => after[t].constraints \intersect {m} = {}
    BY <1>4, <1>6 DEF TablesOk, Tabled
  <2>. QED BY <2>2, <2>3, <2>4 DEF Undone
<1>13. Needs(op) \intersect Model \subseteq Tabled(tables)
  BY <1>2, <1>7 DEF Needs, References
<1>. QED BY <1>2, <1>6, <1>8, <1>11, <1>12, <1>13 DEF Leads, after

\* An operation is done and is about one table, which is then another.
Altered(tables, m, table, after) == \A t \in Model : after[t] = IF t = m THEN table ELSE tables[t]

Done(ops, left, m, table, ms) ==
    /\ \A t \in Model \ {m} : AddsTo(left, t) = AddsTo(ops, t) /\ TakesFrom(left, t) = TakesFrom(ops, t)
    /\ TakesFrom(left, m) \subseteq table.columns /\ AddsTo(left, m) \intersect table.columns = {}
    /\ (table.columns \ TakesFrom(left, m)) \union AddsTo(left, m) = ms[m]

LEMMA PendingKeeps ==
    ASSUME NEW ms, NEW tables, NEW ops, Pending(tables, ops, ms), NEW op \in ops, op \notin Creates,
           NEW m \in Tabled(tables), NEW table \in Tables, Done(ops, ops \ {op}, m, table, ms),
           NEW after, Altered(tables, m, table, after)
    PROVE  Pending(after, ops \ {op}, ms)
<1>. USE DEF Done, Altered
<1>. DEFINE left == ops \ {op}
<1>1. op \in Generated /\ op.kind # "createModel"
  BY KindsApart DEF Pending, Generated
<1>2. Created(left) = Created(ops)
  BY <1>1 DEF Created
<1>3. table # Absent /\ m \in Model /\ tables[m] # Absent
  BY NotAbsent DEF Tabled
<1>4. /\ left \subseteq Creates \union Adds \union Takes
      /\ \A o, p \in left : o.kind = "createModel" /\ p.kind = "createModel" /\ o.table = p.table => o = p
  BY DEF Pending
<1>5. ASSUME NEW t \in Model, NEW gs \in SUBSET Field, Create(t, gs) \in left
      PROVE  /\ after[t] = Absent /\ ms[t] # Absent
             /\ gs \union AddsTo(left, t) = ms[t] /\ gs \intersect AddsTo(left, t) = {} /\ TakesFrom(left, t) = {}
  <2>1. t # m
    BY <1>3, <1>5 DEF Pending
  <2>. QED BY <1>5, <2>1, ZenonT(60) DEF Pending
<1>6. ASSUME NEW t \in Model \ Created(left), after[t] = Absent
      PROVE  ms[t] = Absent /\ AddsTo(left, t) = {} /\ TakesFrom(left, t) = {}
  <2>1. t # m
    BY <1>3, <1>6
  <2>2. tables[t] = Absent /\ t \in Model \ Created(ops)
    BY <1>2, <1>6, <2>1
  <2>. QED BY <2>1, <2>2 DEF Pending
<1>7. ASSUME NEW t \in Tabled(after)
      PROVE  /\ ms[t] # Absent
             /\ TakesFrom(left, t) \subseteq after[t].columns /\ AddsTo(left, t) \intersect after[t].columns = {}
             /\ (after[t].columns \ TakesFrom(left, t)) \union AddsTo(left, t) = ms[t]
  <2>1. CASE t = m
    BY <1>3, <2>1 DEF Pending
  <2>2. CASE t # m
    <3>1. t \in Tabled(tables) /\ t \in Model \ {m} /\ after[t] = tables[t]
      BY <1>7, <2>2 DEF Tabled
    <3>. QED BY <3>1 DEF Pending
  <2>. QED BY <2>1, <2>2
<1>. QED BY <1>4, <1>5, <1>6, <1>7 DEF Pending

LEMMA AddLeads ==
    ASSUME NEW ms, ms \in ModelSets, Closed(ms), NEW tables, TablesOk(tables), NEW ops, Pending(tables, ops, ms),
           NEW op \in Ready(ops), op \in Adds
    PROVE  Leads(op, tables, Forwards(Repr(op), tables), ops, ms)
<1>. DEFINE after == Forwards(Repr(op), tables)
            left == ops \ {op}
<1>1. PICK m \in Model, f \in Field : op = Add(m, f)
  BY DEF Adds
<1>2. /\ op.kind = "addField" /\ op.table = m /\ op.fields = {f} /\ Repr(op) = AddField(m, f)
      /\ op \notin Creates
  BY <1>1, ReprShapes, KindsApart DEF Add, Generated, Adds
<1>3. op \in ops /\ m \in Tabled(tables) /\ {f} \intersect Model \subseteq Tabled(tables)
  BY <1>1, <1>2, ReadyRuns, NamesAssumption DEF RefersTo
<1>. DEFINE before == tables[m]
            table == [columns |-> before.columns \union {f}, constraints |-> before.constraints]
<1>4. /\ before \in Tables /\ table \in Tables /\ table # Absent /\ before # Absent
      /\ before = [columns |-> before.columns, constraints |-> before.constraints]
      /\ before.constraints \subseteq before.columns /\ before.constraints \intersect Model \subseteq Tabled(tables)
  <2>1. before \in Tables
    BY <1>3 DEF TablesOk, Tabled
  <2>. QED BY <1>3, <2>1, NotAbsent DEF TablesOk, Tables
<1>5. after = [t \in Model |-> IF t = m THEN table ELSE tables[t]]
  BY <1>2 DEF TablesOk, Forwards, AddField, AddColumn, With
<1>6. f \notin before.columns /\ ms[m] # Absent
  BY <1>1, <1>3 DEF Pending, AddsTo
<1>. HIDE DEF after, before, table
<1>7. Tabled(after) = Tabled(tables) /\ Created({op}) = {}
  BY <1>2, <1>3, <1>4, <1>5 DEF Tabled, Created
<1>8. table.constraints = before.constraints /\ table.columns = before.columns \union {f}
  BY DEF table
<1>9. TablesOk(after)
  <2>1. after \in [Model -> Tables \union {Absent}]
    BY <1>4, <1>5 DEF TablesOk
  <2>2. ASSUME NEW t \in Tabled(after)
        PROVE  after[t].constraints \subseteq after[t].columns /\ after[t].constraints \intersect Model \subseteq Tabled(after)
    <3>1. CASE t = m
      BY <1>3, <1>4, <1>5, <1>7, <1>8, <3>1 DEF Tabled
    <3>2. CASE t # m
      BY <1>5, <1>7, <3>2 DEF TablesOk, Tabled
    <3>. QED BY <3>1, <3>2
  <2>. QED BY <2>1, <2>2 DEF TablesOk
<1>10. /\ \A t \in Model \ {m} : AddsTo(left, t) = AddsTo(ops, t) /\ TakesFrom(left, t) = TakesFrom(ops, t)
       /\ AddsTo(left, m) = AddsTo(ops, m) \ {f} /\ TakesFrom(left, m) = TakesFrom(ops, m) /\ f \in AddsTo(ops, m)
  BY <1>1, <1>3 DEF AddsTo, TakesFrom, Add, Take
<1>11. /\ TakesFrom(ops, m) \subseteq before.columns /\ AddsTo(ops, m) \intersect before.columns = {}
       /\ (before.columns \ TakesFrom(ops, m)) \union AddsTo(ops, m) = ms[m]
  BY <1>3 DEF Pending, before
<1>12. Pending(after, left, ms)
  <2>1. TakesFrom(left, m) \subseteq table.columns /\ AddsTo(left, m) \intersect table.columns = {}
    BY <1>8, <1>10, <1>11
  <2>2. (table.columns \ TakesFrom(left, m)) \union AddsTo(left, m) = ms[m]
    BY <1>6, <1>8, <1>10, <1>11
  <2>3. Altered(tables, m, table, after)
    BY <1>5 DEF Altered
  <2>4. Done(ops, left, m, table, ms)
    BY <1>10, <2>1, <2>2 DEF Done
  <2>. QED BY <1>2, <1>3, <1>4, <2>3, <2>4, PendingKeeps
<1>13. Undone(Repr(op), tables, after)
  <2>1. Backwards(Repr(op), after) = [t \in Model |-> IF t = m THEN [columns     |-> after[m].columns \ {f},
                                                                     constraints |-> after[m].constraints \ {f}]
                                                      ELSE after[t]]
    BY <1>2, <1>5 DEF Backwards, AddField, DropColumn, With
  <2>2. after[m].columns \ {f} = before.columns /\ after[m].constraints \ {f} = before.constraints
    BY <1>3, <1>4, <1>5, <1>6, <1>8 DEF Tabled
  <2>3. Backwards(Repr(op), after) = [t \in Model |-> IF t = m THEN before ELSE tables[t]]
    BY <1>4, <1>5, <2>1, <2>2
  <2>4. Backwards(Repr(op), after) = tables
    BY <2>3 DEF TablesOk, before
  <2>5. {t \in Model : after[t] # Absent /\ tables[t] = Absent} = {}
    BY <1>7 DEF Tabled
  <2>. QED BY <2>4, <2>5 DEF Undone
<1>14. Needs(op) \intersect Model \subseteq Tabled(tables)
  BY <1>2, <1>3 DEF Needs, References
<1>. QED BY <1>2, <1>7, <1>9, <1>12, <1>13, <1>14 DEF Leads, after

LEMMA TakeLeads ==
    ASSUME NEW ms, ms \in ModelSets, Closed(ms), NEW tables, TablesOk(tables), NEW ops, Pending(tables, ops, ms),
           NEW op \in Ready(ops), op \in Takes
    PROVE  Leads(op, tables, Forwards(Repr(op), tables), ops, ms)
<1>. DEFINE after == Forwards(Repr(op), tables)
            left == ops \ {op}
<1>1. PICK m \in Model, f \in Field : op = Take(m, f)
  BY DEF Takes
<1>2. /\ op.kind = "removeField" /\ op.table = m /\ op.fields = {f} /\ Repr(op) = RemoveField(m, f)
      /\ op \notin Creates
  BY <1>1, ReprShapes, KindsApart DEF Take, Generated, Takes
<1>3. op \in ops /\ m \in Tabled(tables)
  BY <1>1, ReadyRuns
<1>. DEFINE before == tables[m]
            table == [columns |-> before.columns \ {f}, constraints |-> before.constraints \ {f}]
<1>4. /\ before \in Tables /\ table \in Tables /\ table # Absent /\ before # Absent
      /\ before.constraints \subseteq before.columns /\ before.constraints \intersect Model \subseteq Tabled(tables)
  <2>1. before \in Tables
    BY <1>3 DEF TablesOk, Tabled
  <2>. QED BY <1>3, <2>1, NotAbsent DEF TablesOk, Tables
<1>5. after = [t \in Model |-> IF t = m THEN table ELSE tables[t]]
  BY <1>2 DEF TablesOk, Forwards, RemoveField, DropColumn, With
<1>6. f \in TakesFrom(ops, m)
  BY <1>1, <1>3 DEF TakesFrom
<1>. HIDE DEF after, before, table
<1>7. Tabled(after) = Tabled(tables) /\ Created({op}) = {}
  BY <1>2, <1>3, <1>4, <1>5 DEF Tabled, Created
<1>8. table.constraints = before.constraints \ {f} /\ table.columns = before.columns \ {f}
  BY DEF table
<1>9. TablesOk(after)
  <2>1. after \in [Model -> Tables \union {Absent}]
    BY <1>4, <1>5 DEF TablesOk
  <2>2. ASSUME NEW t \in Tabled(after)
        PROVE  after[t].constraints \subseteq after[t].columns /\ after[t].constraints \intersect Model \subseteq Tabled(after)
    <3>1. CASE t = m
      BY <1>3, <1>4, <1>5, <1>7, <1>8, <3>1 DEF Tabled
    <3>2. CASE t # m
      BY <1>5, <1>7, <3>2 DEF TablesOk, Tabled
    <3>. QED BY <3>1, <3>2
  <2>. QED BY <2>1, <2>2 DEF TablesOk
<1>10. /\ \A t \in Model \ {m} : AddsTo(left, t) = AddsTo(ops, t) /\ TakesFrom(left, t) = TakesFrom(ops, t)
       /\ AddsTo(left, m) = AddsTo(ops, m) /\ TakesFrom(left, m) = TakesFrom(ops, m) \ {f}
  BY <1>1 DEF AddsTo, TakesFrom, Add, Take
<1>11. /\ TakesFrom(ops, m) \subseteq before.columns /\ AddsTo(ops, m) \intersect before.columns = {}
       /\ (before.columns \ TakesFrom(ops, m)) \union AddsTo(ops, m) = ms[m]
  BY <1>3 DEF Pending, before
<1>12. Pending(after, left, ms)
  <2>1. TakesFrom(left, m) \subseteq table.columns /\ AddsTo(left, m) \intersect table.columns = {}
    BY <1>8, <1>10, <1>11
  <2>2. (table.columns \ TakesFrom(left, m)) \union AddsTo(left, m) = ms[m]
    BY <1>6, <1>8, <1>10, <1>11
  <2>3. Altered(tables, m, table, after)
    BY <1>5 DEF Altered
  <2>4. Done(ops, left, m, table, ms)
    BY <1>10, <2>1, <2>2 DEF Done
  <2>. QED BY <1>2, <1>3, <1>4, <2>3, <2>4, PendingKeeps
<1>13. Undone(Repr(op), tables, after)
  <2>. DEFINE back == [columns |-> after[m].columns \union {f}, constraints |-> after[m].constraints]
  <2>1. Backwards(Repr(op), after) = [t \in Model |-> IF t = m THEN back ELSE after[t]]
    BY <1>2, <1>5 DEF Backwards, RemoveField, AddColumn, With
  <2>2. after[m].columns \union {f} = before.columns
    BY <1>3, <1>5, <1>6, <1>8, <1>11 DEF Tabled
  <2>3. back.columns = before.columns /\ back \in Tables
    BY <1>3, <1>4, <1>5, <1>8, <2>2 DEF Tabled, Tables
  <2>. HIDE DEF back
  <2>4. back # Absent
    BY <2>3, NotAbsent
  <2>5. DOMAIN tables = Model /\ DOMAIN Backwards(Repr(op), after) = Model
    BY <2>1 DEF TablesOk
  <2>6. \A t \in Model : Backwards(Repr(op), after)[t] = IF t = m THEN back ELSE tables[t]
    BY <1>5, <2>1
  <2>7. ColumnsOf(Backwards(Repr(op), after)) = ColumnsOf(tables)
    BY <1>3, <1>4, <2>3, <2>4, <2>5, <2>6 DEF ColumnsOf, before
  <2>8. {t \in Model : after[t] # Absent /\ Backwards(Repr(op), after)[t] = Absent} = {}
    BY <1>3, <1>7, <2>4, <2>6 DEF Tabled
  <2>9. Repr(op).inner = "RemoveField"
    BY <1>2 DEF RemoveField
  <2>. QED BY <2>7, <2>8, <2>9 DEF Undone
<1>14. Needs(op) \intersect Model \subseteq Tabled(tables)
  BY <1>2, <1>3 DEF Needs, References
<1>. QED BY <1>2, <1>7, <1>9, <1>12, <1>13, <1>14 DEF Leads, after

\* Whichever operation comes next.
LEMMA Nearer ==
    ASSUME NEW ms, ms \in ModelSets, Closed(ms), NEW tables, TablesOk(tables), NEW ops, Pending(tables, ops, ms),
           NEW op \in Ready(ops)
    PROVE  Leads(op, tables, Forwards(Repr(op), tables), ops, ms)
<1>1. op \in Creates \union Adds \union Takes
  BY DEF Ready, Pending
<1>. QED BY <1>1, MakeLeads, AddLeads, TakeLeads

-----------------------------------------------------------------------------
(* What a call of the command sets out to do                               *)

LEMMA ImageFinite ==
    ASSUME NEW S, IsFiniteSet(S), NEW f, NEW T, \A y \in T : \E x \in S : f[x] = y
    PROVE  IsFiniteSet(T)
<1>. DEFINE R == {x \in S : f[x] \in T}
            g == [x \in R |-> f[x]]
<1>1. g \in Surjection(R, T)
  BY DEF Surjection
<1>2. IsFiniteSet(R)
  BY FS_Subset
<1>. QED BY <1>1, <1>2, FS_Surjection

LEMMA StatementsFinite == IsFiniteSet(MakeStatements \union AddStatements \union RemoveStatements)
<1>1. IsFiniteSet(Field) /\ IsFiniteSet(SUBSET Field) /\ IsFiniteSet(Model)
  BY NamesAssumption, FS_Singleton, FS_Union, FS_SUBSET DEF Field
<1>2. IsFiniteSet(Model \X SUBSET Field) /\ IsFiniteSet(Model \X Field)
  BY <1>1, FS_Product
<1>3. IsFiniteSet(MakeStatements)
  <2>. DEFINE D == Model \X SUBSET Field
              f == [p \in D |-> CreateModel(p[1], p[2])]
  <2>1. \A m \in Model, fs \in SUBSET Field : <<m, fs>> \in D /\ f[<<m, fs>>] = CreateModel(m, fs)
    OBVIOUS
  <2>2. IsFiniteSet(D)
    BY <1>2
  <2>. HIDE DEF f, D
  <2>3. ASSUME NEW y \in MakeStatements PROVE \E p \in D : f[p] = y
    <3>1. PICK m \in Model, fs \in SUBSET Field : y = CreateModel(m, fs)
      BY DEF MakeStatements
    <3>. QED BY <2>1, <3>1
  <2>. QED BY <2>2, <2>3, ImageFinite
<1>4. IsFiniteSet(AddStatements)
  <2>. DEFINE D == Model \X Field
              f == [p \in D |-> AddField(p[1], p[2])]
  <2>1. \A m \in Model, g \in Field : <<m, g>> \in D /\ f[<<m, g>>] = AddField(m, g)
    OBVIOUS
  <2>2. IsFiniteSet(D)
    BY <1>2
  <2>. HIDE DEF f, D
  <2>3. ASSUME NEW y \in AddStatements PROVE \E p \in D : f[p] = y
    <3>1. PICK m \in Model, g \in Field : y = AddField(m, g)
      BY DEF AddStatements
    <3>. QED BY <2>1, <3>1
  <2>. QED BY <2>2, <2>3, ImageFinite
<1>5. IsFiniteSet(RemoveStatements)
  <2>. DEFINE D == Model \X Field
              f == [p \in D |-> RemoveField(p[1], p[2])]
  <2>1. \A m \in Model, g \in Field : <<m, g>> \in D /\ f[<<m, g>>] = RemoveField(m, g)
    OBVIOUS
  <2>2. IsFiniteSet(D)
    BY <1>2
  <2>. HIDE DEF f, D
  <2>3. ASSUME NEW y \in RemoveStatements PROVE \E p \in D : f[p] = y
    <3>1. PICK m \in Model, g \in Field : y = RemoveField(m, g)
      BY DEF RemoveStatements
    <3>. QED BY <2>1, <3>1
  <2>. QED BY <2>2, <2>3, ImageFinite
<1>. QED BY <1>3, <1>4, <1>5, FS_Union

\* Every operation is written in its own way.
LEMMA ReprApart ==
    ASSUME NEW o \in Creates \union Adds \union Takes, NEW p \in Creates \union Adds \union Takes, Repr(o) = Repr(p)
    PROVE  o = p
<1>1. o \in Generated /\ p \in Generated
  BY DEF Generated
<1>2. \A q \in Generated :
         /\ \A m \in Model, fs \in SUBSET Field : q = Create(m, fs) => Repr(q) = CreateModel(m, fs)
         /\ \A m \in Model, f \in Field : q = Add(m, f) => Repr(q) = AddField(m, f)
         /\ \A m \in Model, f \in Field : q = Take(m, f) => Repr(q) = RemoveField(m, f)
  BY ReprShapes DEF Create, Creates
<1>3. \A q \in Creates \union Adds \union Takes :
         \/ \E m \in Model, fs \in SUBSET Field : q = Create(m, fs) /\ Repr(q) = CreateModel(m, fs)
         \/ \E m \in Model, f \in Field : q = Add(m, f) /\ Repr(q) = AddField(m, f)
         \/ \E m \in Model, f \in Field : q = Take(m, f) /\ Repr(q) = RemoveField(m, f)
  BY <1>2 DEF Creates, Adds, Takes, Generated
<1>. QED BY <1>3 DEF CreateModel, AddField, RemoveField

Written(ops) == {Repr(op) : op \in ops}

LEMMA WrittenShapes ==
    ASSUME NEW ops, ops \subseteq Creates \union Adds \union Takes
    PROVE  /\ Written(ops) \subseteq MakeStatements \union AddStatements \union RemoveStatements
           /\ IsFiniteSet(Written(ops))
           /\ \A m \in Model, fs \in SUBSET Field : CreateModel(m, fs) \in Written(ops) => Create(m, fs) \in ops
           /\ \A m \in Model, f \in Field : AddField(m, f) \in Written(ops) => Add(m, f) \in ops
           /\ \A m \in Model, f \in Field : RemoveField(m, f) \in Written(ops) => Take(m, f) \in ops
<1>1. \A q \in Creates \union Adds \union Takes :
         \/ \E m \in Model, fs \in SUBSET Field : q = Create(m, fs) /\ Repr(q) = CreateModel(m, fs)
         \/ \E m \in Model, f \in Field : q = Add(m, f) /\ Repr(q) = AddField(m, f)
         \/ \E m \in Model, f \in Field : q = Take(m, f) /\ Repr(q) = RemoveField(m, f)
  <2>1. \A q \in Generated :
           /\ \A m \in Model, fs \in SUBSET Field : q = Create(m, fs) => Repr(q) = CreateModel(m, fs)
           /\ \A m \in Model, f \in Field : q = Add(m, f) => Repr(q) = AddField(m, f)
           /\ \A m \in Model, f \in Field : q = Take(m, f) => Repr(q) = RemoveField(m, f)
    BY ReprShapes DEF Create, Creates
  <2>. QED BY <2>1 DEF Creates, Adds, Takes, Generated
<1>2. Written(ops) \subseteq MakeStatements \union AddStatements \union RemoveStatements
  BY <1>1 DEF Written, MakeStatements, AddStatements, RemoveStatements
<1>3. IsFiniteSet(Written(ops))
  BY <1>2, StatementsFinite, FS_Subset
<1>4. \A m \in Model, fs \in SUBSET Field : CreateModel(m, fs) \in Written(ops) => Create(m, fs) \in ops
  BY <1>1 DEF Written, CreateModel, AddField, RemoveField
<1>5. \A m \in Model, f \in Field : AddField(m, f) \in Written(ops) => Add(m, f) \in ops
  BY <1>1 DEF Written, CreateModel, AddField, RemoveField
<1>6. \A m \in Model, f \in Field : RemoveField(m, f) \in Written(ops) => Take(m, f) \in ops
  BY <1>1 DEF Written, CreateModel, AddField, RemoveField
<1>. QED BY <1>2, <1>3, <1>4, <1>5, <1>6

LEMMA PendingConsistent ==
    ASSUME NEW tables, NEW ops, NEW ms, Pending(tables, ops, ms)
    PROVE  Consistent(Written(ops))
<1>1. ops \subseteq Creates \union Adds \union Takes
  BY DEF Pending
<1>2. ASSUME NEW o \in Written(ops), NEW p \in Written(ops), o.inner = "CreateModel", p.inner = "CreateModel", o.table = p.table
      PROVE  o = p
  <2>1. o \in MakeStatements /\ p \in MakeStatements
    BY <1>1, <1>2, WrittenShapes, StatementShapes
  <2>2. PICK m \in Model, fs \in SUBSET Field, gs \in SUBSET Field : o = CreateModel(m, fs) /\ p = CreateModel(m, gs)
    BY <1>2, <2>1 DEF MakeStatements, CreateModel
  <2>3. Create(m, fs) \in ops /\ Create(m, gs) \in ops
    BY <1>1, <2>2, WrittenShapes
  <2>4. Create(m, fs) = Create(m, gs)
    BY <2>3 DEF Pending, Create
  <2>. QED BY <2>2, <2>4 DEF Create
<1>3. ASSUME NEW m \in Model, NEW f \in Field, AddField(m, f) \in Written(ops), RemoveField(m, f) \in Written(ops)
      PROVE  FALSE
  <2>1. f \in AddsTo(ops, m) /\ f \in TakesFrom(ops, m)
    BY <1>1, <1>3, WrittenShapes DEF AddsTo, TakesFrom
  <2>2. m \notin Created(ops)
    BY <1>1, <2>1, CreatedBy DEF Pending
  <2>3. m \in Tabled(tables)
    BY <2>1, <2>2 DEF Pending, Tabled
  <2>. QED BY <2>1, <2>3 DEF Pending
<1>. QED BY <1>1, <1>2, <1>3, WrittenShapes DEF Consistent

\* The operations that are generated when no model is to be removed.
LEMMA GeneratedWhich ==
    ASSUME FilesInv, models \in ModelSets, \A m \in Model : LatestModels[m] # Absent => models[m] # Absent
    PROVE  /\ GenerateOperations(LatestModels) \subseteq Creates \union Adds \union Takes
           /\ \A m \in Model, fs \in SUBSET Field : Create(m, fs) \in GenerateOperations(LatestModels) <=>
                 LatestModels[m] = Absent /\ models[m] # Absent /\ fs = models[m]
           /\ \A m \in Model, f \in Field : Add(m, f) \in GenerateOperations(LatestModels) <=>
                 LatestModels[m] # Absent /\ f \in models[m] \ LatestModels[m]
           /\ \A m \in Model, f \in Field : Take(m, f) \in GenerateOperations(LatestModels) <=>
                 LatestModels[m] # Absent /\ f \in LatestModels[m] \ models[m]
<1>. DEFINE latest == LatestModels
            Of(m) == IF models[m] = latest[m] THEN {}
                     ELSE IF latest[m] = Absent THEN {Create(m, models[m])}
                     ELSE {Add(m, f) : f \in models[m] \ latest[m]} \union {Take(m, f) : f \in latest[m] \ models[m]}
<1>1. latest \in ModelSets
  BY LatestType
<1>2. \A m \in Model : models[m] # latest[m] => models[m] # Absent
  OBVIOUS
<1>3. \A m \in Model : (models[m] # Absent => models[m] \in SUBSET Field) /\ (latest[m] # Absent => latest[m] \in SUBSET Field)
  BY <1>1 DEF ModelSets
<1>4. GenerateOperations(latest) = UNION {Of(m) : m \in Model}
  <2>1. GenerateOperations(latest) =
          UNION {IF models[m] = latest[m] THEN {}
                 ELSE IF latest[m] = Absent THEN {Create(m, models[m])}
                 ELSE IF models[m] = Absent THEN {Remove(m, latest[m])}
                 ELSE {Add(m, f) : f \in models[m] \ latest[m]} \union {Take(m, f) : f \in latest[m] \ models[m]} : m \in Model}
    BY DEF GenerateOperations
  <2>. HIDE DEF latest
  <2>. QED BY <1>2, <2>1
<1>5. \A op : op \in GenerateOperations(latest) <=> \E m \in Model : op \in Of(m)
  BY <1>4
<1>. HIDE DEF latest
<1>6. \A m \in Model : \A op : op \in Of(m) <=>
         /\ models[m] # latest[m]
         /\ \/ latest[m] = Absent /\ op = Create(m, models[m])
            \/ latest[m] # Absent /\ \E f \in models[m] \ latest[m] : op = Add(m, f)
            \/ latest[m] # Absent /\ \E f \in latest[m] \ models[m] : op = Take(m, f)
  OBVIOUS
<1>. HIDE DEF Of
<1>7. /\ \A m, n, fs, gs : Create(m, fs) = Create(n, gs) => m = n /\ fs = gs
      /\ \A m, n, f, g : Add(m, f) = Add(n, g) => m = n /\ f = g
      /\ \A m, n, f, g : Take(m, f) = Take(n, g) => m = n /\ f = g
      /\ \A m, n, fs, g : Create(m, fs) # Add(n, g)
      /\ \A m, n, fs, g : Create(m, fs) # Take(n, g)
      /\ \A m, n, f, g : Add(m, f) # Take(n, g)
  BY DEF Create, Add, Take
<1>8. GenerateOperations(latest) \subseteq Creates \union Adds \union Takes
  BY <1>2, <1>3, <1>5, <1>6 DEF Creates, Adds, Takes
<1>9. ASSUME NEW m \in Model, NEW fs \in SUBSET Field
      PROVE  Create(m, fs) \in GenerateOperations(latest) <=> latest[m] = Absent /\ models[m] # Absent /\ fs = models[m]
  <2>1. ASSUME NEW n \in Model, Create(m, fs) \in Of(n)
        PROVE  latest[m] = Absent /\ models[m] # Absent /\ fs = models[m]
    <3>1. latest[n] = Absent /\ Create(m, fs) = Create(n, models[n]) /\ models[n] # latest[n]
      BY <1>6, <1>7, <2>1
    <3>. QED BY <1>2, <1>7, <3>1
  <2>2. ASSUME latest[m] = Absent, models[m] # Absent, fs = models[m]
        PROVE  Create(m, fs) \in Of(m)
    BY <1>6, <2>2
  <2>. QED BY <1>5, <2>1, <2>2
<1>10. ASSUME NEW m \in Model, NEW f \in Field
       PROVE  Add(m, f) \in GenerateOperations(latest) <=> latest[m] # Absent /\ f \in models[m] \ latest[m]
  <2>1. ASSUME NEW n \in Model, Add(m, f) \in Of(n)
        PROVE  latest[m] # Absent /\ f \in models[m] \ latest[m]
    <3>1. latest[n] # Absent /\ \E g \in models[n] \ latest[n] : Add(m, f) = Add(n, g)
      BY <1>6, <1>7, <2>1
    <3>. QED BY <1>7, <3>1
  <2>2. ASSUME latest[m] # Absent, f \in models[m] \ latest[m]
        PROVE  Add(m, f) \in Of(m)
    <3>1. models[m] # latest[m]
      BY <2>2
    <3>. QED BY <1>6, <2>2, <3>1
  <2>. QED BY <1>5, <2>1, <2>2
<1>11. ASSUME NEW m \in Model, NEW f \in Field
       PROVE  Take(m, f) \in GenerateOperations(latest) <=> latest[m] # Absent /\ f \in latest[m] \ models[m]
  <2>1. ASSUME NEW n \in Model, Take(m, f) \in Of(n)
        PROVE  latest[m] # Absent /\ f \in latest[m] \ models[m]
    <3>1. latest[n] # Absent /\ \E g \in latest[n] \ models[n] : Take(m, f) = Take(n, g)
      BY <1>6, <1>7, <2>1
    <3>. QED BY <1>7, <3>1
  <2>2. ASSUME latest[m] # Absent, f \in latest[m] \ models[m]
        PROVE  Take(m, f) \in Of(m)
    <3>1. models[m] # latest[m]
      BY <2>2
    <3>. QED BY <1>6, <2>2, <3>1
  <2>. QED BY <1>5, <2>1, <2>2
<1>. QED BY <1>8, <1>9, <1>10, <1>11 DEF latest

\* They remain when the cycles are gone: a field is part of the statement
\* that makes the table, or it is added to it.
LEMMA CyclesGone ==
    ASSUME NEW ops, ops \subseteq Creates \union Adds \union Takes, NEW feedback
    PROVE  LET left == RemoveCycles(ops, feedback)
               cut(m, fs) == {f \in fs : <<m, f>> \in feedback}
           IN  /\ left \subseteq Creates \union Adds \union Takes
               /\ \A m \in Model, gs \in SUBSET Field : Create(m, gs) \in left <=>
                     \E fs \in SUBSET Field : Create(m, fs) \in ops /\ gs = fs \ cut(m, fs)
               /\ \A m \in Model, f \in Field : Add(m, f) \in left <=>
                     \/ Add(m, f) \in ops
                     \/ \E fs \in SUBSET Field : Create(m, fs) \in ops /\ f \in cut(m, fs)
               /\ \A m \in Model, f \in Field : Take(m, f) \in left <=> Take(m, f) \in ops
<1>. DEFINE left == RemoveCycles(ops, feedback)
            cut(m, fs) == {f \in fs : <<m, f>> \in feedback}
            Cut(op) == [op EXCEPT !.fields = @ \ RemovedFields(op, feedback)]
<1>1. /\ \A m, n, fs, gs : Create(m, fs) = Create(n, gs) => m = n /\ fs = gs
      /\ \A m, n, f, g : Add(m, f) = Add(n, g) => m = n /\ f = g
      /\ \A m, n, f, g : Take(m, f) = Take(n, g) => m = n /\ f = g
      /\ \A m, n, fs, g : Create(m, fs) # Add(n, g)
      /\ \A m, n, fs, g : Create(m, fs) # Take(n, g)
      /\ \A m, n, f, g : Add(m, f) # Take(n, g)
  BY DEF Create, Add, Take
<1>2. \A op \in ops : op \in Generated
  BY DEF Generated
<1>3. \A m \in Model, fs \in SUBSET Field : Create(m, fs) \in ops =>
         /\ RemovedFields(Create(m, fs), feedback) = cut(m, fs)
         /\ Cut(Create(m, fs)) = Create(m, fs \ cut(m, fs))
  <2>1. \A m, fs : Create(m, fs).kind = "createModel" /\ Create(m, fs).table = m /\ Create(m, fs).fields = fs
    BY DEF Create
  <2>2. \A m, fs : RemovedFields(Create(m, fs), feedback) = cut(m, fs)
    BY <2>1 DEF RemovedFields
  <2>3. ASSUME NEW m \in Model, NEW fs \in SUBSET Field, Create(m, fs) \in ops
        PROVE  Cut(Create(m, fs)) = Create(m, fs \ cut(m, fs))
    <3>1. Create(m, fs) \in Generated
      BY <1>2, <2>3
    <3>. HIDE DEF cut
    <3>. QED BY <2>1, <2>2, <3>1, CutOperations
  <2>. HIDE DEF Cut, cut
  <2>. QED BY <2>2, <2>3
<1>4. \A op \in ops \ Creates : Cut(op) = op /\ RemovedFields(op, feedback) = {}
  BY <1>2, KindsApart, CutOperations DEF RemovedFields
<1>5. \A op : op \in left <=>
         \/ \E o \in ops : op = Cut(o)
         \/ \E o \in ops : \E f \in RemovedFields(o, feedback) : op = Add(o.table, f)
  BY DEF RemoveCycles
<1>. HIDE DEF left, Cut, cut
<1>6. \A m, fs : Create(m, fs).table = m
  BY DEF Create
<1>7. \A op : op \in left <=>
         \/ op \in ops \ Creates
         \/ \E m \in Model, fs \in SUBSET Field : Create(m, fs) \in ops /\ op = Create(m, fs \ cut(m, fs))
         \/ \E m \in Model, fs \in SUBSET Field : Create(m, fs) \in ops /\ \E f \in cut(m, fs) : op = Add(m, f)
  <2>1. \A o \in ops : o \in Creates <=> \E m \in Model, fs \in SUBSET Field : o = Create(m, fs)
    BY DEF Creates
  <2>2. ASSUME NEW op, op \in left
        PROVE  \/ op \in ops \ Creates
               \/ \E m \in Model, fs \in SUBSET Field : Create(m, fs) \in ops /\ op = Create(m, fs \ cut(m, fs))
               \/ \E m \in Model, fs \in SUBSET Field : Create(m, fs) \in ops /\ \E f \in cut(m, fs) : op = Add(m, f)
    <3>1. PICK o \in ops : op = Cut(o) \/ \E f \in RemovedFields(o, feedback) : op = Add(o.table, f)
      BY <1>5, <2>2
    <3>2. CASE o \in Creates
      BY <1>3, <1>6, <2>1, <3>1, <3>2
    <3>3. CASE o \notin Creates
      BY <1>4, <3>1, <3>3
    <3>. QED BY <3>2, <3>3
  <2>3. ASSUME NEW op,
               \/ op \in ops \ Creates
               \/ \E m \in Model, fs \in SUBSET Field : Create(m, fs) \in ops /\ op = Create(m, fs \ cut(m, fs))
               \/ \E m \in Model, fs \in SUBSET Field : Create(m, fs) \in ops /\ \E f \in cut(m, fs) : op = Add(m, f)
        PROVE  op \in left
    <3>1. CASE op \in ops \ Creates
      BY <1>4, <1>5, <3>1
    <3>2. ASSUME NEW m \in Model, NEW fs \in SUBSET Field, Create(m, fs) \in ops, op = Create(m, fs \ cut(m, fs))
          PROVE  op \in left
      BY <1>3, <1>5, <3>2
    <3>3. ASSUME NEW m \in Model, NEW fs \in SUBSET Field, Create(m, fs) \in ops, NEW f \in cut(m, fs), op = Add(m, f)
          PROVE  op \in left
      BY <1>3, <1>5, <1>6, <3>3
    <3>. QED BY <2>3, <3>1, <3>2, <3>3
  <2>. QED BY <2>2, <2>3
<1>8. \A m, fs : cut(m, fs) \subseteq fs
  BY DEF cut
<1>9. /\ \A m \in Model, fs \in SUBSET Field : Create(m, fs) \in Creates
      /\ \A m \in Model, f \in Field : Add(m, f) \in Adds /\ Add(m, f) \notin Creates /\ Take(m, f) \notin Creates
  BY <1>1 DEF Creates, Adds
<1>10. left \subseteq Creates \union Adds \union Takes
  <2>1. \A m \in Model, fs \in SUBSET Field : fs \ cut(m, fs) \in SUBSET Field
    OBVIOUS
  <2>2. \A m \in Model, fs \in SUBSET Field : \A f \in cut(m, fs) : f \in Field
    BY <1>8
  <2>3. SUFFICES ASSUME NEW op \in left PROVE op \in Creates \union Adds \union Takes
    OBVIOUS
  <2>4. CASE op \in ops
    BY <2>4
  <2>5. ASSUME NEW m \in Model, NEW fs \in SUBSET Field, op = Create(m, fs \ cut(m, fs)) PROVE op \in Creates
    BY <1>9, <2>1, <2>5
  <2>6. ASSUME NEW m \in Model, NEW fs \in SUBSET Field, NEW f \in cut(m, fs), op = Add(m, f) PROVE op \in Adds
    BY <1>9, <2>2, <2>6
  <2>. QED BY <1>7, <2>4, <2>5, <2>6
<1>11. ASSUME NEW m \in Model, NEW gs \in SUBSET Field
       PROVE  Create(m, gs) \in left <=> \E fs \in SUBSET Field : Create(m, fs) \in ops /\ gs = fs \ cut(m, fs)
  <2>1. ASSUME NEW n \in Model, NEW fs \in SUBSET Field, Create(n, fs) \in ops, Create(m, gs) = Create(n, fs \ cut(n, fs))
        PROVE  Create(m, fs) \in ops /\ gs = fs \ cut(m, fs)
    BY <1>1, <2>1
  <2>2. Create(m, gs) \in left => \E fs \in SUBSET Field : Create(m, fs) \in ops /\ gs = fs \ cut(m, fs)
    <3>1. SUFFICES ASSUME Create(m, gs) \in left PROVE \E fs \in SUBSET Field : Create(m, fs) \in ops /\ gs = fs \ cut(m, fs)
      OBVIOUS
    <3>2. \E n \in Model, fs \in SUBSET Field : Create(n, fs) \in ops /\ Create(m, gs) = Create(n, fs \ cut(n, fs))
      BY <1>1, <1>7, <1>9, <3>1
    <3>. QED BY <2>1, <3>2
  <2>3. ASSUME NEW fs \in SUBSET Field, Create(m, fs) \in ops, gs = fs \ cut(m, fs) PROVE Create(m, gs) \in left
    BY <1>7, <2>3
  <2>. QED BY <2>2, <2>3
<1>12. ASSUME NEW m \in Model, NEW f \in Field
       PROVE  Add(m, f) \in left <=> \/ Add(m, f) \in ops
                                     \/ \E fs \in SUBSET Field : Create(m, fs) \in ops /\ f \in cut(m, fs)
  <2>1. ASSUME Add(m, f) \in left
        PROVE  \/ Add(m, f) \in ops
               \/ \E fs \in SUBSET Field : Create(m, fs) \in ops /\ f \in cut(m, fs)
    <3>1. CASE Add(m, f) \in ops \ Creates
      BY <3>1
    <3>2. ASSUME NEW n \in Model, NEW fs \in SUBSET Field, Create(n, fs) \in ops, NEW g \in cut(n, fs), Add(m, f) = Add(n, g)
          PROVE  Create(m, fs) \in ops /\ f \in cut(m, fs)
      BY <1>1, <3>2
    <3>3. \A n \in Model, fs \in SUBSET Field : Add(m, f) # Create(n, fs \ cut(n, fs))
      BY <1>1
    <3>4. \/ Add(m, f) \in ops \ Creates
          \/ \E n \in Model, fs \in SUBSET Field : Create(n, fs) \in ops /\ \E g \in cut(n, fs) : Add(m, f) = Add(n, g)
      BY <1>7, <2>1, <3>3
    <3>. QED BY <3>1, <3>2, <3>4
  <2>2. Add(m, f) \in ops => Add(m, f) \in left
    BY <1>7, <1>9
  <2>3. ASSUME NEW fs \in SUBSET Field, Create(m, fs) \in ops, f \in cut(m, fs) PROVE Add(m, f) \in left
    BY <1>7, <2>3
  <2>. QED BY <2>1, <2>2, <2>3
<1>13. ASSUME NEW m \in Model, NEW f \in Field
       PROVE  Take(m, f) \in left <=> Take(m, f) \in ops
  <2>1. \A n \in Model, fs \in SUBSET Field : Take(m, f) # Create(n, fs \ cut(n, fs))
    BY <1>1
  <2>2. \A n, g : Take(m, f) # Add(n, g)
    BY <1>1
  <2>. QED BY <1>7, <1>9, <2>1, <2>2
<1>. QED BY <1>10, <1>11, <1>12, <1>13 DEF left, cut

LEMMA Starts ==
    ASSUME FilesInv, models \in ModelSets, \A m \in Model : LatestModels[m] # Absent => models[m] # Absent,
           NEW tables, TablesOk(tables), ColumnsOf(tables) = LatestModels, NEW feedback
    PROVE  Pending(tables, RemoveCycles(GenerateOperations(LatestModels), feedback), models)
<1>. DEFINE ops == GenerateOperations(LatestModels)
            left == RemoveCycles(ops, feedback)
            cut(m, fs) == {f \in fs : <<m, f>> \in feedback}
<1>1. /\ ops \subseteq Creates \union Adds \union Takes
      /\ \A m \in Model, fs \in SUBSET Field : Create(m, fs) \in ops <=>
            LatestModels[m] = Absent /\ models[m] # Absent /\ fs = models[m]
      /\ \A m \in Model, f \in Field : Add(m, f) \in ops <=> LatestModels[m] # Absent /\ f \in models[m] \ LatestModels[m]
      /\ \A m \in Model, f \in Field : Take(m, f) \in ops <=> LatestModels[m] # Absent /\ f \in LatestModels[m] \ models[m]
  BY GeneratedWhich
<1>. HIDE DEF ops
<1>2. /\ left \subseteq Creates \union Adds \union Takes
      /\ \A m \in Model, gs \in SUBSET Field : Create(m, gs) \in left <=>
            \E fs \in SUBSET Field : Create(m, fs) \in ops /\ gs = fs \ cut(m, fs)
      /\ \A m \in Model, f \in Field : Add(m, f) \in left <=>
            \/ Add(m, f) \in ops
            \/ \E fs \in SUBSET Field : Create(m, fs) \in ops /\ f \in cut(m, fs)
      /\ \A m \in Model, f \in Field : Take(m, f) \in left <=> Take(m, f) \in ops
  BY <1>1, CyclesGone
<1>. HIDE DEF left
<1>3. \A m \in Model : models[m] # Absent => models[m] \in SUBSET Field
  BY DEF ModelSets
<1>4. \A m \in Model : /\ LatestModels[m] = Absent <=> tables[m] = Absent
                       /\ tables[m] # Absent => LatestModels[m] = tables[m].columns
  <2>1. \A m \in Model : tables[m] # Absent => tables[m].columns # Absent
    BY NotAbsent DEF TablesOk, Tables
  <2>. QED BY <2>1 DEF ColumnsOf, TablesOk
<1>5. \A m \in Model : LatestModels[m] # Absent => LatestModels[m] \in SUBSET Field
  BY LatestType DEF ModelSets
<1>6. \A m \in Model : m \in Created(left) <=> tables[m] = Absent /\ models[m] # Absent
  <2>1. \A m \in Model : m \in Created(left) <=> \E gs \in SUBSET Field : Create(m, gs) \in left
    BY <1>2, CreatedBy
  <2>2. ASSUME NEW m \in Model
        PROVE  (\E gs \in SUBSET Field : Create(m, gs) \in left) <=> \E fs \in SUBSET Field : Create(m, fs) \in ops
    <3>1. \A fs \in SUBSET Field : fs \ cut(m, fs) \in SUBSET Field
      OBVIOUS
    <3>. HIDE DEF cut
    <3>2. ASSUME NEW gs \in SUBSET Field, Create(m, gs) \in left PROVE \E fs \in SUBSET Field : Create(m, fs) \in ops
      BY <1>2, <3>2
    <3>3. ASSUME NEW fs \in SUBSET Field, Create(m, fs) \in ops PROVE \E gs \in SUBSET Field : Create(m, gs) \in left
      <4>1. Create(m, fs \ cut(m, fs)) \in left
        BY <1>2, <3>1, <3>3
      <4>. QED BY <3>1, <4>1
    <3>. QED BY <3>2, <3>3
  <2>. QED BY <1>1, <1>3, <1>4, <2>1, <2>2
<1>7. ASSUME NEW m \in Model, tables[m] = Absent, models[m] # Absent
      PROVE  /\ \A gs \in SUBSET Field : Create(m, gs) \in left <=> gs = models[m] \ cut(m, models[m])
             /\ AddsTo(left, m) = cut(m, models[m])
             /\ TakesFrom(left, m) = {}
  BY <1>1, <1>2, <1>3, <1>4, <1>7 DEF AddsTo, TakesFrom
<1>8. ASSUME NEW m \in Model, tables[m] = Absent, models[m] = Absent
      PROVE  AddsTo(left, m) = {} /\ TakesFrom(left, m) = {}
  <2>1. \A fs \in SUBSET Field : Create(m, fs) \notin ops
    BY <1>1, <1>8
  <2>2. \A f \in Field : Add(m, f) \notin ops /\ Take(m, f) \notin ops
    BY <1>1, <1>4, <1>8
  <2>3. \A f \in Field : Add(m, f) \notin left /\ Take(m, f) \notin left
    BY <1>2, <2>1, <2>2
  <2>. QED BY <2>3 DEF AddsTo, TakesFrom
<1>9. ASSUME NEW m \in Model, tables[m] # Absent
      PROVE  /\ models[m] # Absent
             /\ AddsTo(left, m) = models[m] \ tables[m].columns
             /\ TakesFrom(left, m) = tables[m].columns \ models[m]
  <2>1. LatestModels[m] # Absent /\ LatestModels[m] = tables[m].columns /\ models[m] # Absent
    BY <1>4, <1>9
  <2>2. \A fs \in SUBSET Field : Create(m, fs) \notin ops
    BY <1>1, <2>1
  <2>3. \A f \in Field : Add(m, f) \in left <=> f \in models[m] \ tables[m].columns
    BY <1>1, <1>2, <2>1, <2>2
  <2>4. \A f \in Field : Take(m, f) \in left <=> f \in tables[m].columns \ models[m]
    BY <1>1, <1>2, <2>1
  <2>5. models[m] \in SUBSET Field /\ tables[m].columns \in SUBSET Field
    BY <1>3, <1>5, <2>1
  <2>. QED BY <2>1, <2>3, <2>4, <2>5 DEF AddsTo, TakesFrom
<1>10. \A m, fs : cut(m, fs) \subseteq fs
  OBVIOUS
<1>. HIDE DEF cut
<1>11. ASSUME NEW o \in left, NEW p \in left, o.kind = "createModel", p.kind = "createModel", o.table = p.table PROVE o = p
  <2>1. o \in Creates /\ p \in Creates
    BY <1>2, <1>11, KindsApart DEF Generated
  <2>2. PICK m \in Model, fs \in SUBSET Field, gs \in SUBSET Field : o = Create(m, fs) /\ p = Create(m, gs)
    BY <1>11, <2>1 DEF Creates, Create
  <2>3. m \in Created(left)
    BY <1>2, <2>2, CreatedBy
  <2>4. fs = models[m] \ cut(m, models[m]) /\ gs = models[m] \ cut(m, models[m])
    BY <1>6, <1>7, <1>11, <2>2, <2>3
  <2>. QED BY <2>2, <2>4
<1>12. ASSUME NEW m \in Model, NEW fs \in SUBSET Field, Create(m, fs) \in left
       PROVE  /\ tables[m] = Absent /\ models[m] # Absent
              /\ fs \union AddsTo(left, m) = models[m] /\ fs \intersect AddsTo(left, m) = {} /\ TakesFrom(left, m) = {}
  <2>1. m \in Created(left)
    BY <1>2, <1>12, CreatedBy
  <2>. QED BY <1>6, <1>7, <1>10, <1>12, <2>1
<1>13. ASSUME NEW m \in Model \ Created(left), tables[m] = Absent
       PROVE  models[m] = Absent /\ AddsTo(left, m) = {} /\ TakesFrom(left, m) = {}
  BY <1>6, <1>8, <1>13
<1>14. ASSUME NEW m \in Tabled(tables)
       PROVE  /\ models[m] # Absent
              /\ TakesFrom(left, m) \subseteq tables[m].columns /\ AddsTo(left, m) \intersect tables[m].columns = {}
              /\ (tables[m].columns \ TakesFrom(left, m)) \union AddsTo(left, m) = models[m]
  BY <1>9 DEF Tabled
<1>15. Pending(tables, left, models)
  BY <1>2, <1>11, <1>12, <1>13, <1>14 DEF Pending
<1>. QED BY <1>15 DEF left, ops

\* Nothing done is nothing changed, and one operation more is one step more,
\* in whichever order Migrated takes them.
LEMMA NothingWritten ==
    ASSUME NEW tables, TablesOk(tables)
    PROVE  Written({}) = {} /\ Migrated({}, tables) = tables
<1>1. Written({}) = {}
  BY DEF Written
<1>2. tables = [t \in Model |-> tables[t]]
  BY DEF TablesOk
<1>3. IsFiniteSet({}) /\ Consistent({})
  BY FS_EmptySet DEF Consistent
<1>4. \A t \in Model : AddedBy({}, t) = {} /\ RemovedBy({}, t) = {} /\ Base({}, tables, t) = tables[t]
  BY DEF AddedBy, RemovedBy, Base, Makes
<1>5. Outcome({}, tables) = [t \in Model |-> tables[t]]
  BY <1>4 DEF Outcome
<1>. QED BY <1>1, <1>2, <1>3, <1>5, MigratedIsOutcome

LEMMA OneMoreWritten ==
    ASSUME NEW ops, NEW sorted, ops \union sorted \subseteq Creates \union Adds \union Takes,
           Consistent(Written(ops \union sorted)), ops \intersect sorted = {},
           NEW before, TablesOk(before), NEW op \in ops,
           op.kind = "createModel" => op.table \notin Tabled(Migrated(Written(sorted), before)),
           \A o \in sorted : o.table \in Tabled(Migrated(Written(sorted), before))
    PROVE  Migrated(Written(sorted \union {op}), before) = Forwards(Repr(op), Migrated(Written(sorted), before))
<1>. DEFINE done == Written(sorted)
            more == Written(sorted \union {op})
<1>1. more \ {Repr(op)} = done /\ Repr(op) \in more /\ done \subseteq more
  <2>1. \A o \in sorted : Repr(o) # Repr(op)
    BY ReprApart
  <2>. QED BY <2>1 DEF Written
<1>2. Consistent(more) /\ Consistent(done)
  <2>1. more \subseteq Written(ops \union sorted) /\ done \subseteq Written(ops \union sorted)
    BY DEF Written
  <2>. QED BY <2>1 DEF Consistent
<1>3. IsFiniteSet(more) /\ IsFiniteSet(done)
  BY WrittenShapes
<1>4. before = [t \in Model |-> before[t]]
  BY DEF TablesOk
<1>5. Migrated(more, before) = Outcome(more, before) /\ Migrated(done, before) = Outcome(done, before)
  BY <1>2, <1>3, <1>4, MigratedIsOutcome
<1>6. Repr(op) \in MakeStatements \union AddStatements \union RemoveStatements
  BY <1>1, <1>2 DEF Consistent
<1>7. DOMAIN before = Model /\ more \in SUBSET more
  BY <1>4
<1>8. CASE Repr(op) \in MakeStatements
  <2>1. PICK m \in Model, fs \in SUBSET Field : Repr(op) = CreateModel(m, fs) /\ op = Create(m, fs)
    <3>1. op \in Creates
      <4>1. op \in Adds => Repr(op) \in AddStatements
        BY ReprShapes DEF Adds, AddStatements, Generated
      <4>2. op \in Takes => Repr(op) \in RemoveStatements
        BY ReprShapes DEF Takes, RemoveStatements, Generated
      <4>. QED BY <1>8, <4>1, <4>2 DEF MakeStatements, AddStatements, RemoveStatements, CreateModel, AddField, RemoveField
    <3>2. op \in Generated
      BY <3>1 DEF Generated
    <3>. QED BY <3>1, <3>2, ReprShapes DEF Creates, Create
  <2>2. Repr(op).table = m /\ m \notin Tabled(Migrated(done, before))
    BY <2>1 DEF CreateModel, Create
  <2>3. ASSUME NEW f \in Field PROVE AddField(m, f) \notin more /\ RemoveField(m, f) \notin more
    <3>1. Add(m, f) \notin sorted \union {op} /\ Take(m, f) \notin sorted \union {op}
      BY <2>1, <2>2 DEF Add, Take, Create
    <3>. QED BY <3>1, WrittenShapes
  <2>4. AddedBy(more, m) = {} /\ RemovedBy(more, m) = {}
    BY <2>3 DEF AddedBy, RemovedBy
  <2>5. Outcome(more, before) = Forwards(Repr(op), Outcome(more \ {Repr(op)}, before))
    <3>. HIDE DEF more, done
    <3>. QED BY <1>1, <1>2, <1>7, <1>8, <2>2, <2>4, OutcomeMakes
  <2>. QED BY <1>1, <1>5, <2>5
<1>9. CASE Repr(op) \in AddStatements
  <2>1. Outcome(more, before) = Forwards(Repr(op), Outcome(more \ {Repr(op)}, before))
    <3>. HIDE DEF more, done
    <3>. QED BY <1>1, <1>2, <1>7, <1>9, OutcomeAdds
  <2>. QED BY <1>1, <1>5, <2>1
<1>10. CASE Repr(op) \in RemoveStatements
  <2>1. Outcome(more, before) = Forwards(Repr(op), Outcome(more \ {Repr(op)}, before))
    <3>. HIDE DEF more, done
    <3>. QED BY <1>1, <1>2, <1>7, <1>10, OutcomeRemoves
  <2>. QED BY <1>1, <1>5, <2>1
<1>. QED BY <1>6, <1>8, <1>9, <1>10

-----------------------------------------------------------------------------
(* The migrations lead to the models.  A model that some migration has     *)
(* made is not removed from the source: the command goes by the last       *)
(* version that a migration has of a model, and takes one that a migration *)
(* has removed for one that is still there.                                *)

Keeping == \A m \in Model : LatestModels[m] # Absent => models'[m] # Absent

KeepsModels == [][Keeping]_vars

Before == Replayed(LastNumber)
Now    == Migrated(Written(call.sorted), Before)

Sorting ==
    /\ call.ops \intersect call.sorted = {} /\ call.ops \union call.sorted # {}
    /\ LatestModels # models
    /\ call.ops \union call.sorted \subseteq Creates \union Adds \union Takes
    /\ Consistent(Written(call.ops \union call.sorted))
    /\ TablesOk(Now) /\ Pending(Now, call.ops, models)
    /\ Tabled(Now) = Tabled(Before) \union Created(call.sorted)
    /\ \A o \in call.sorted : o.table \in Tabled(Now)

\* Only migrations with models do something, and no two of them have one
\* number; the tables that they leave are those of the latest models, and none
\* of these has gone from the source.
FilesLead ==
    /\ \A n \in DOMAIN files : files[n].operations # {} => n \in Processed
    /\ \A n, o \in Processed : n.number = o.number => n = o
    /\ TablesOk(Before) /\ ColumnsOf(Before) = LatestModels

MakingInv ==
    /\ GeneratorInv /\ FilesLead
    /\ Closed(models)
    /\ \A m \in Model : LatestModels[m] # Absent => models[m] # Absent
    /\ call.at \in {"list", "made"} => LatestModels = models
    /\ call.at = "sort" => Sorting

LEMMA LastInBounds == GeneratorInv => LastNumber \in 0 .. MaxNumber /\ MaxNumber \in Nat
BY LastIsLargest, BoundsAssumption DEF GeneratorInv, LastLargest

LEMMA BeforeStays == GeneratorInv /\ files' = files => Before' = Before
<1>. SUFFICES ASSUME GeneratorInv, files' = files PROVE Before' = Before
  OBVIOUS
<1>1. LastNumber' = LastNumber /\ LastNumber \in 0 .. MaxNumber
  BY FilesStay, LastInBounds
<1>2. SameUpTo(LastNumber)
  BY DEF SameUpTo, Ran
<1>3. Replayed(LastNumber)' = Replayed(LastNumber)
  BY <1>1, <1>2, ReplaysSame
<1>. QED BY <1>1, <1>3 DEF Before

LEMMA LeadStays == GeneratorInv /\ FilesLead /\ files' = files => FilesLead'
<1>. SUFFICES ASSUME GeneratorInv, FilesLead, files' = files PROVE FilesLead'
  OBVIOUS
<1>1. Before' = Before /\ LatestModels' = LatestModels /\ Processed' = Processed
  BY BeforeStays, FilesStay
<1>2. TablesOk(Before)' /\ ColumnsOf(Before)' = LatestModels'
  BY <1>1 DEF FilesLead, TablesOk, Tables, Tabled, Field, ColumnsOf
<1>. QED BY <1>1, <1>2 DEF FilesLead

LEMMA InitMaking == Init => MakingInv
<1>. SUFFICES ASSUME Init PROVE MakingInv
  OBVIOUS
<1>1. GeneratorInv /\ FilesInv
  BY InitGenerator DEF GeneratorInv
<1>2. DOMAIN files = {} /\ call.at = "idle"
  BY DEF Init, Idle
<1>3. Processed = {} /\ LastNumber = 0
  BY <1>2 DEF Processed, LastNumber
<1>4. Before = Nothing
  BY <1>3, Replays DEF ReplaysInOrder, Before
<1>5. LatestModels = [m \in Model |-> Absent]
  BY <1>3 DEF LatestModels
<1>6. TablesOk(Nothing) /\ ColumnsOf(Nothing) = [m \in Model |-> Absent]
  BY DEF TablesOk, Nothing, Tabled, ColumnsOf
<1>7. Closed(models)
  BY DEF Init, Legal, Closed
<1>. QED BY <1>1, <1>2, <1>3, <1>4, <1>5, <1>6, <1>7 DEF MakingInv, FilesLead

\* A step that writes no migration and does not sort.
LEMMA MakingStays ==
    MakingInv /\ GeneratorInv' /\ files' = files /\ Closed(models)' /\ Keeping
        /\ (call'.at \in {"list", "made"} => LatestModels = models') /\ (call'.at = "sort" => Sorting')
        => MakingInv'
<1>. SUFFICES ASSUME MakingInv, GeneratorInv', files' = files, Closed(models)', Keeping,
                     call'.at \in {"list", "made"} => LatestModels = models', call'.at = "sort" => Sorting'
              PROVE  MakingInv'
  OBVIOUS
<1>1. FilesLead' /\ LatestModels' = LatestModels
  BY LeadStays, FilesStay DEF MakingInv
<1>2. \A m \in Model : LatestModels'[m] # Absent => models'[m] # Absent
  BY <1>1 DEF Keeping
<1>. QED BY <1>1, <1>2 DEF MakingInv

LEMMA ModelsStay == models' = models => (Closed(models)' <=> Closed(models))
BY DEF Closed

\* A call sets out.
LEMMA MakeKeeps == MakingInv /\ GeneratorInv' /\ Make => MakingInv'
<1>. SUFFICES ASSUME MakingInv, GeneratorInv', Make PROVE MakingInv'
  OBVIOUS
<1>1. files' = files /\ models' = models /\ FilesInv /\ models \in ModelSets
  BY DEF Make, MakingInv, GeneratorInv
<1>2. Keeping /\ Closed(models)'
  BY <1>1, ModelsStay DEF MakingInv, Keeping
<1>3. TablesOk(Before) /\ ColumnsOf(Before) = LatestModels /\ Before' = Before /\ LatestModels' = LatestModels
  BY <1>1, BeforeStays, FilesStay DEF MakingInv, FilesLead
<1>. DEFINE ops == GenerateOperations(LatestModels)
<1>4. /\ ops \subseteq Creates \union Adds \union Takes
      /\ \A m \in Model, fs \in SUBSET Field : Create(m, fs) \in ops <=>
            LatestModels[m] = Absent /\ models[m] # Absent /\ fs = models[m]
      /\ \A m \in Model, f \in Field : Add(m, f) \in ops <=>
            LatestModels[m] # Absent /\ f \in models[m] \ LatestModels[m]
      /\ \A m \in Model, f \in Field : Take(m, f) \in ops <=>
            LatestModels[m] # Absent /\ f \in LatestModels[m] \ models[m]
  BY <1>1, GeneratedWhich DEF MakingInv
<1>5. ops = {} <=> LatestModels = models
  <2>1. LatestModels = [m \in Model |-> LatestModels[m]] /\ models = [m \in Model |-> models[m]]
    BY <1>1, LatestType DEF ModelSets
  <2>2. ASSUME LatestModels = models PROVE ops = {}
    BY <2>2 DEF GenerateOperations
  <2>3. ASSUME ops = {}, NEW m \in Model PROVE LatestModels[m] = models[m]
    <3>1. /\ LatestModels[m] # Absent => LatestModels[m] \in SUBSET Field
          /\ models[m] # Absent => models[m] \in SUBSET Field
      BY <1>1, LatestType DEF ModelSets
    <3>2. CASE LatestModels[m] = Absent
      <4>1. Create(m, models[m]) \notin ops
        BY <2>3
      <4>2. models[m] # Absent => Create(m, models[m]) \in ops
        BY <1>4, <3>1, <3>2
      <4>. QED BY <3>2, <4>1, <4>2
    <3>3. CASE LatestModels[m] # Absent
      <4>1. models[m] # Absent
        BY <3>3 DEF MakingInv
      <4>2. ASSUME NEW f \in Field PROVE f \in models[m] <=> f \in LatestModels[m]
        <5>1. Add(m, f) \notin ops /\ Take(m, f) \notin ops
          BY <2>3
        <5>. HIDE DEF ops
        <5>. QED BY <1>4, <3>3, <5>1
      <4>. QED BY <3>1, <3>3, <4>1, <4>2
    <3>. QED BY <3>2, <3>3
  <2>. QED BY <2>1, <2>2, <2>3
<1>6. CASE ops = {} /\ call' = [Idle EXCEPT !.at = "made"]
  <2>1. call'.at = "made" /\ LatestModels = models'
    BY <1>1, <1>5, <1>6 DEF Idle
  <2>. QED BY <1>1, <1>2, <2>1, MakingStays
<1>7. ASSUME ops # {}, NEW feedback, call' = [at |-> "sort", ops |-> RemoveCycles(ops, feedback), sorted |-> {}]
      PROVE  MakingInv'
  <2>. DEFINE left == RemoveCycles(ops, feedback)
  <2>1. Pending(Before, left, models)
    BY <1>1, <1>3, Starts DEF MakingInv
  <2>2. Now' = Before
    <3>1. call'.sorted = {} /\ Before' = Before
      BY <1>3, <1>7
    <3>2. Now' = Migrated(Written({}), Before)
      BY <3>1 DEF Now, Written
    <3>. QED BY <1>3, <3>2, NothingWritten
  <2>3. left # {}
    BY <1>7 DEF RemoveCycles
  <2>4. left \subseteq Creates \union Adds \union Takes /\ Consistent(Written(left))
    BY <2>1, PendingConsistent DEF Pending
  <2>. HIDE DEF left, ops
  <2>5. call'.at = "sort" /\ call'.ops = left /\ call'.sorted = {} /\ left \union {} = left /\ left \intersect {} = {}
    BY <1>7 DEF left
  <2>6. Created({}) = {}
    BY DEF Created
  <2>7. /\ call'.ops \intersect call'.sorted = {} /\ call'.ops \union call'.sorted # {}
        /\ LatestModels' # models'
        /\ call'.ops \union call'.sorted \subseteq Creates \union Adds \union Takes
        /\ Consistent(Written(call'.ops \union call'.sorted))
        /\ TablesOk(Now') /\ Pending(Now', call'.ops, models')
        /\ Tabled(Now') = Tabled(Before') \union Created(call'.sorted)
        /\ \A o \in call'.sorted : o.table \in Tabled(Now')
    BY <1>1, <1>3, <1>5, <1>7, <2>1, <2>2, <2>3, <2>4, <2>5, <2>6
  <2>8. Sorting'
    BY <2>7 DEF Sorting
  <2>. QED BY <1>1, <1>2, <2>5, <2>8, MakingStays
<1>. QED BY <1>6, <1>7 DEF Make

\* One operation is sorted: what it needs is there, it can be undone, and
\* it brings the tables closer to the models.
LEMMA SortLeads ==
    MakingInv /\ Sort => \E op \in Ready(call.ops) :
        /\ call'.at = "sort" /\ call'.ops = call.ops \ {op} /\ call'.sorted = call.sorted \union {op}
        /\ Now' = Forwards(Repr(op), Now)
        /\ Leads(op, Now, Forwards(Repr(op), Now), call.ops, models)
<1>. SUFFICES ASSUME MakingInv, Sort
              PROVE  \E op \in Ready(call.ops) :
                        /\ call'.at = "sort" /\ call'.ops = call.ops \ {op} /\ call'.sorted = call.sorted \union {op}
                        /\ Now' = Forwards(Repr(op), Now)
                        /\ Leads(op, Now, Forwards(Repr(op), Now), call.ops, models)
  OBVIOUS
<1>1. PICK op \in Ready(call.ops) : call' = [call EXCEPT !.ops = @ \ {op}, !.sorted = @ \union {op}]
  BY DEF Sort
<1>2. call \in Calls /\ call.at = "sort" /\ files' = files /\ Sorting
  BY DEF Sort, MakingInv, GeneratorInv
<1>3. call'.at = "sort" /\ call'.ops = call.ops \ {op} /\ call'.sorted = call.sorted \union {op}
  BY <1>1, <1>2 DEF Calls
<1>4. Leads(op, Now, Forwards(Repr(op), Now), call.ops, models)
  BY <1>2, Nearer DEF Sorting, MakingInv, GeneratorInv
<1>5. op \in call.ops
  BY DEF Ready
<1>6. TablesOk(Before) /\ Before' = Before
  BY <1>2, BeforeStays DEF MakingInv, FilesLead
<1>7. Now' = Migrated(Written(call.sorted \union {op}), Before)
  <2>1. Now' = Migrated(Written(call'.sorted), Before')
    BY DEF Now, Written
  <2>. QED BY <1>3, <1>6, <2>1
<1>8. Migrated(Written(call.sorted \union {op}), Before) = Forwards(Repr(op), Now)
  <2>1. op.kind = "createModel" => op.table \notin Tabled(Now)
    BY <1>4 DEF Leads
  <2>. QED BY <1>2, <1>5, <1>6, <2>1, OneMoreWritten DEF Sorting, Now
<1>. QED BY <1>3, <1>4, <1>7, <1>8

LEMMA SortKeeps == MakingInv /\ GeneratorInv' /\ Sort => MakingInv'
<1>. SUFFICES ASSUME MakingInv, GeneratorInv', Sort PROVE MakingInv'
  OBVIOUS
<1>1. files' = files /\ models' = models /\ Sorting
  BY DEF Sort, MakingInv
<1>2. Keeping /\ Closed(models)' /\ Before' = Before /\ LatestModels' = LatestModels
  BY <1>1, ModelsStay, BeforeStays, FilesStay DEF MakingInv, Keeping
<1>3. PICK op \in Ready(call.ops) :
        /\ call'.at = "sort" /\ call'.ops = call.ops \ {op} /\ call'.sorted = call.sorted \union {op}
        /\ Now' = Forwards(Repr(op), Now)
        /\ Leads(op, Now, Forwards(Repr(op), Now), call.ops, models)
  BY SortLeads
<1>4. op \in call.ops
  BY DEF Ready
<1>5. TablesOk(Now') /\ Pending(Now', call'.ops, models') /\ Tabled(Now') = Tabled(Now) \union Created({op})
  BY <1>1, <1>3 DEF Leads
<1>6. Created(call'.sorted) = Created(call.sorted) \union Created({op})
  BY <1>3 DEF Created
<1>7. op.table \in Tabled(Now')
  <2>1. CASE op.kind = "createModel"
    BY <1>5, <2>1 DEF Created
  <2>2. CASE op.kind # "createModel"
    <3>1. PICK m \in Model, f \in Field : op \in {Add(m, f), Take(m, f)}
      BY <1>1, <1>4, <2>2, KindsApart DEF Sorting, Generated, Adds, Takes
    <3>2. m \in Tabled(Now) /\ op.table = m
      BY <1>1, <3>1, ReadyRuns DEF Sorting, MakingInv, GeneratorInv, Add, Take
    <3>. QED BY <1>5, <3>2
  <2>. QED BY <2>1, <2>2
<1>8. call'.ops \union call'.sorted = call.ops \union call.sorted
  BY <1>3, <1>4
<1>9. /\ call'.ops \intersect call'.sorted = {} /\ call'.ops \union call'.sorted # {}
      /\ LatestModels' # models'
      /\ call'.ops \union call'.sorted \subseteq Creates \union Adds \union Takes
      /\ Consistent(Written(call'.ops \union call'.sorted))
  <2>1. call'.ops \intersect call'.sorted = {}
    BY <1>1, <1>3 DEF Sorting
  <2>. QED BY <1>1, <1>2, <1>8, <2>1 DEF Sorting
<1>10. Tabled(Now') = Tabled(Before') \union Created(call'.sorted)
  BY <1>1, <1>2, <1>5, <1>6 DEF Sorting
<1>11. \A o \in call'.sorted : o.table \in Tabled(Now')
  BY <1>1, <1>3, <1>5, <1>7 DEF Sorting
<1>12. Sorting'
  BY <1>5, <1>9, <1>10, <1>11 DEF Sorting
<1>. QED BY <1>1, <1>2, <1>3, <1>12, MakingStays

LEMMA NotedStays ==
    GeneratorInv /\ SameUpTo(LastNumber) => \A k \in 0 .. LastNumber : Replayed(k)' = Replayed(k)
<1>. SUFFICES ASSUME GeneratorInv, SameUpTo(LastNumber), NEW k \in 0 .. LastNumber PROVE Replayed(k)' = Replayed(k)
  OBVIOUS
<1>1. LastNumber \in Nat /\ k \in 0 .. MaxNumber /\ k <= LastNumber
  BY LastInBounds
<1>. QED BY <1>1, ReplaysSame

LatestFacts ==
    \A m \in Model :
        \/ LatestModels[m] = Absent /\ \A n \in Processed : files[n].models[m] = Absent
        \/ \E n \in Processed :
              /\ files[n].models[m] # Absent /\ LatestModels[m] = files[n].models[m]
              /\ \A v \in Processed : files[v].models[m] # Absent => v.number <= n.number

LEMMA LatestHas == FilesInv => LatestFacts
BY LatestIsLast DEF LatestFacts

\* A model of which no version is new keeps the latest.
LEMMA LatestSame ==
    FilesInv /\ (\A n \in Processed : files'[n] = files[n]) =>
        \A m \in Model :
            {n \in Processed' : files'[n].models[m] # Absent} = {n \in Processed : files[n].models[m] # Absent}
                => LatestModels'[m] = LatestModels[m]
<1>. SUFFICES ASSUME FilesInv, \A n \in Processed : files'[n] = files[n], NEW m \in Model,
                     {n \in Processed' : files'[n].models[m] # Absent} = {n \in Processed : files[n].models[m] # Absent}
              PROVE  LatestModels'[m] = LatestModels[m]
  OBVIOUS
<1>. DEFINE versions == {n \in Processed : files[n].models[m] # Absent}
            later == {n \in Processed' : files'[n].models[m] # Absent}
            last(S) == CHOOSE n \in S : \A v \in S : v.number <= n.number
<1>1. LatestModels[m] = IF versions = {} THEN Absent ELSE files[last(versions)].models[m]
  BY DEF LatestModels
<1>2. LatestModels'[m] = IF later = {} THEN Absent ELSE files'[last(later)].models[m]
  BY DEF LatestModels
<1>3. later = versions
  OBVIOUS
<1>4. versions # {} => last(versions) \in Processed
  <2>1. versions \in SUBSET Name
    BY DEF FilesInv, Processed
  <2>2. versions # {} => \E n \in versions : \A v \in versions : v.number <= n.number
    BY <2>1, LastOf
  <2>. QED BY <2>2
<1>. HIDE DEF versions, later, last
<1>. QED BY <1>1, <1>2, <1>3, <1>4

\* The migration is written: its operations lead to the models.
LEMMA WriteMigrationLeads == MakingInv /\ GeneratorInv' /\ WriteMigration => MakingInv'
<1>. SUFFICES ASSUME MakingInv, GeneratorInv', WriteMigration PROVE MakingInv'
  OBVIOUS
<1>1. /\ GeneratorInv /\ FilesInv /\ FilesLead /\ Sorting /\ call.ops = {} /\ models' = models
      /\ models \in ModelSets /\ LatestModels \in ModelSets
      /\ LastNumber \in Nat /\ LastNumber < MaxNumber /\ call.sorted \in SUBSET Generated
  BY LastIsLargest, LatestType DEF MakingInv, GeneratorInv, LastLargest, WriteMigration, Calls
<1>t. PICK time \in Time :
          Write(NextAutoName(time),
                MigrationFile(ModifiedModels(LatestModels), {Repr(op) : op \in call.sorted},
                              ForeignKeyDependencies(call.sorted)))
  BY DEF WriteMigration
<1>2. PICK name \in Name : name = NextAutoName(time)
  BY <1>1, NewName DEF NextAutoName
<1>3. name.number = LastNumber + 1
  BY <1>2 DEF NextAutoName
<1>4. ModifiedModels(LatestModels) \in ModelSets
  BY <1>1 DEF ModifiedModels, ModelSets
<1>5. PICK migration \in [models : ModelSets, operations : SUBSET Statements,
                          dependencies : SUBSET Processed,
                          modelDependencies : SUBSET (Model \union Foreign)] :
           migration = MigrationFile(ModifiedModels(LatestModels), {Repr(op) : op \in call.sorted},
                                     ForeignKeyDependencies(call.sorted))
  BY <1>1, <1>4, WrittenDepends DEF MigrationFile, Statements, BaseDependencies
<1>6. Write(name, migration)
  BY <1>t, <1>2, <1>5
<1>7. migration.models = ModifiedModels(LatestModels) /\ migration.operations = Written(call.sorted)
  BY <1>5 DEF MigrationFile, Written
<1>8. migration.models # NoModels
  <2>1. PICK m \in Model : models[m] # LatestModels[m]
    <3>1. models = [m \in Model |-> models[m]] /\ LatestModels = [m \in Model |-> LatestModels[m]]
      BY <1>1 DEF ModelSets
    <3>. QED BY <1>1, <3>1 DEF Sorting
  <2>2. models[m] # Absent
    BY <2>1 DEF MakingInv
  <2>3. migration.models[m] = models[m]
    BY <1>7, <2>1 DEF ModifiedModels
  <2>. QED BY <2>2, <2>3 DEF NoModels
<1>9. /\ FilesInv' /\ name \notin Processed /\ files'[name] = migration
      /\ \A n \in DOMAIN files \ {name} : files'[n] = files[n]
      /\ DOMAIN files' = DOMAIN files \union {name}
      /\ Processed' = Processed \union {name}
      /\ LastNumber' = LastNumber + 1
  <2>1. LastNumber <= MaxNumber
    BY <1>1, BoundsAssumption
  <2>. QED BY <1>1, <1>3, <1>6, <1>8, <2>1, FilesWritten
<1>10. \A n \in DOMAIN files : files[n].operations # {} => n \in Processed /\ n.number \in Nat /\ n.number <= LastNumber
  BY <1>1, LastIsLargest DEF FilesLead, LastLargest
<1>11. Before' = Now
  <2>1. PICK L \in Nat : L = LastNumber
    BY <1>1
  <2>2. SameUpTo(LastNumber)
    <3>1. ASSUME NEW k \in 1 .. MaxNumber, k <= LastNumber
          PROVE  /\ Ran(k)' = Ran(k)
                 /\ \A n \in Ran(k) : files'[n].operations = files[n].operations
      <4>1. name.number # k
        BY <1>1, <1>3, <3>1
      <4>2. \A n : n.number = k => (n \in DOMAIN files' <=> n \in DOMAIN files) /\ (n \in DOMAIN files => files'[n] = files[n])
        BY <1>9, <4>1
      <4>. QED BY <4>2 DEF Ran
    <3>. QED BY <3>1 DEF SameUpTo
  <2>3. Replayed(L)' = Before
    <3>1. LastNumber \in 0 .. LastNumber
      BY <1>1
    <3>2. \A k \in 0 .. LastNumber : Replayed(k)' = Replayed(k)
      BY <1>1, <2>2, NotedStays
    <3>. QED BY <2>1, <3>1, <3>2 DEF Before
  <2>4. Ran(L + 1)' = {name}
    <3>1. Written(call.sorted) # {}
      BY <1>1 DEF Sorting, Written
    <3>2. name \in Ran(L + 1)'
      BY <1>3, <1>7, <1>9, <2>1, <3>1 DEF Ran
    <3>3. ASSUME NEW n \in Ran(L + 1)', n # name PROVE FALSE
      <4>1. n \in DOMAIN files /\ n.number = LastNumber + 1 /\ files[n].operations # {}
        BY <1>9, <2>1, <3>3 DEF Ran
      <4>. QED BY <1>1, <1>10, <4>1
    <3>. QED BY <3>2, <3>3
  <2>5. Stage(L + 1, Replayed(L))' = Migrated(Written(call.sorted), Before)
    <3>1. (CHOOSE n \in Ran(L + 1)' : TRUE) = name
      BY <2>4
    <3>2. Stage(L + 1, Replayed(L))' = Migrated(files'[CHOOSE n \in Ran(L + 1)' : TRUE].operations, Replayed(L)')
      BY <2>4 DEF Stage
    <3>. QED BY <1>7, <1>9, <2>3, <3>1, <3>2
  <2>6. Replayed(L + 1)' = Stage(L + 1, Replayed(L))'
    <3>1. ReplaysInOrder'
      BY Replays, PTL
    <3>2. L + 1 \in 1 .. MaxNumber /\ (L + 1) - 1 = L
      BY <1>1, <2>1, BoundsAssumption
    <3>3. Replayed(L + 1)' = Stage(L + 1, Replayed((L + 1) - 1))'
      BY <3>1, <3>2 DEF ReplaysInOrder
    <3>. QED BY <3>2, <3>3
  <2>7. LastNumber' = L + 1
    BY <1>9, <2>1
  <2>8. Before' = Replayed(L + 1)'
    BY <2>7 DEF Before
  <2>. QED BY <2>5, <2>6, <2>8 DEF Now
<1>12. TablesOk(Now) /\ ColumnsOf(Now) = models
  <2>1. TablesOk(Now) /\ Pending(Now, {}, models)
    BY <1>1 DEF Sorting
  <2>2. \A m \in Model : AddsTo({}, m) = {} /\ TakesFrom({}, m) = {} /\ m \notin Created({})
    BY DEF AddsTo, TakesFrom, Created
  <2>3. ASSUME NEW m \in Model PROVE ColumnsOf(Now)[m] = models[m] /\ DOMAIN ColumnsOf(Now) = Model
    <3>1. DOMAIN Now = Model
      BY <2>1 DEF TablesOk
    <3>2. CASE Now[m] = Absent
      BY <2>1, <2>2, <3>1, <3>2 DEF Pending, ColumnsOf
    <3>3. CASE Now[m] # Absent
      <4>1. (Now[m].columns \ {}) \union {} = models[m]
        BY <2>1, <2>2, <3>3 DEF Pending, Tabled
      <4>. QED BY <3>1, <3>3, <4>1 DEF ColumnsOf
    <3>. QED BY <3>2, <3>3
  <2>4. ColumnsOf(Now) = [m \in Model |-> ColumnsOf(Now)[m]]
    BY <2>1 DEF ColumnsOf, TablesOk
  <2>5. models = [m \in Model |-> models[m]]
    BY <1>1 DEF ModelSets
  <2>. QED BY <2>1, <2>3, <2>4, <2>5
<1>13. LatestModels' = models
  <2>1. LatestFacts'
    BY <1>9, LatestHas, PTL
  <2>2. ASSUME NEW m \in Model PROVE LatestModels'[m] = models[m]
    <3>1. CASE models[m] = LatestModels[m]
      <4>1. migration.models[m] = Absent
        BY <1>7, <3>1 DEF ModifiedModels
      <4>2. {n \in Processed' : files'[n].models[m] # Absent} = {n \in Processed : files[n].models[m] # Absent}
        BY <1>9, <4>1 DEF Processed
      <4>3. \A n \in Processed : files'[n] = files[n]
        BY <1>9 DEF Processed
      <4>4. LatestModels'[m] = LatestModels[m]
        BY <1>1, <4>2, <4>3, LatestSame
      <4>. QED BY <3>1, <4>4
    <3>2. CASE models[m] # LatestModels[m]
      <4>1. models[m] # Absent /\ files'[name].models[m] = models[m] /\ name \in Processed'
        BY <1>7, <1>9, <3>2 DEF MakingInv, ModifiedModels
      <4>2. PICK n \in Processed' : /\ files'[n].models[m] # Absent /\ LatestModels'[m] = files'[n].models[m]
                                    /\ \A v \in Processed' : files'[v].models[m] # Absent => v.number <= n.number
        BY <2>1, <4>1 DEF LatestFacts
      <4>3. LastNumber + 1 <= n.number
        BY <1>3, <4>1, <4>2
      <4>4. n = name
        <5>1. \A k \in Processed : k.number \in Nat /\ k.number <= LastNumber
          BY <1>1, LastIsLargest DEF LastLargest
        <5>. QED BY <1>1, <1>9, <4>3, <5>1
      <4>. QED BY <4>1, <4>2, <4>4
    <3>. QED BY <3>1, <3>2
  <2>3. LatestModels' = [m \in Model |-> LatestModels'[m]]
    BY DEF LatestModels
  <2>4. models = [m \in Model |-> models[m]]
    BY <1>1 DEF ModelSets
  <2>. QED BY <2>2, <2>3, <2>4
<1>14. FilesLead'
  <2>1. \A n \in DOMAIN files' : files'[n].operations # {} => n \in Processed'
    BY <1>9, <1>10
  <2>2. TablesOk(Before') /\ ColumnsOf(Before') = LatestModels'
    BY <1>11, <1>12, <1>13
  <2>3. \A n, o \in Processed' : n.number = o.number => n = o
    <3>1. \A k \in Processed : k.number \in Nat /\ k.number # LastNumber + 1
      BY <1>1, LastIsLargest DEF LastLargest
    <3>. QED BY <1>1, <1>3, <1>9, <3>1 DEF FilesLead
  <2>. QED BY <2>1, <2>2, <2>3 DEF FilesLead
<1>15. call'.at = "list"
  BY DEF WriteMigration, Idle
<1>. QED BY <1>1, <1>13, <1>14, <1>15, ModelsStay DEF MakingInv

\* A custom migration does nothing and has no models.
LEMMA WriteCustomLeads == MakingInv /\ GeneratorInv' /\ WriteCustom => MakingInv'
<1>. SUFFICES ASSUME MakingInv, GeneratorInv', WriteCustom PROVE MakingInv'
  OBVIOUS
<1>1. GeneratorInv /\ FilesInv /\ FilesLead /\ LastNumber \in Nat /\ models' = models /\ LastNumber <= MaxNumber
  BY LastIsLargest DEF MakingInv, GeneratorInv, LastLargest, WriteCustom
<1>2. PICK s \in Suffix :
          Write([number |-> LastNumber + 1, suffix |-> s], MigrationFile(NoModels, {}, {}))
  BY DEF WriteCustom
<1>3. PICK name \in Name : name = [number |-> LastNumber + 1, suffix |-> s]
  BY <1>1, NewName
<1>4. PICK migration \in [models : ModelSets, operations : SUBSET Statements,
                          dependencies : SUBSET Processed,
                          modelDependencies : SUBSET (Model \union Foreign)] :
           migration = MigrationFile(NoModels, {}, {})
  BY DEF MigrationFile, NoModels, ModelSets, BaseDependencies
<1>5. Write(name, migration) /\ name.number = LastNumber + 1 /\ migration.models = NoModels /\ migration.operations = {}
  BY <1>2, <1>3, <1>4 DEF MigrationFile
<1>6. /\ name \notin Processed /\ files'[name] = migration
      /\ \A n \in DOMAIN files \ {name} : files'[n] = files[n]
      /\ DOMAIN files' = DOMAIN files \union {name}
      /\ Processed' = Processed /\ LastNumber' = LastNumber
  BY <1>1, <1>5, FilesWritten, ZenonT(60)
<1>7. \A n \in Processed : files'[n] = files[n]
  BY <1>6 DEF Processed
<1>8. SameUpTo(LastNumber)
  <2>1. ASSUME NEW k \in 1 .. MaxNumber, k <= LastNumber
        PROVE  /\ Ran(k)' = Ran(k)
               /\ \A n \in Ran(k) : files'[n].operations = files[n].operations
    <3>1. name.number # k
      BY <1>1, <1>5, <2>1
    <3>2. \A n : n.number = k => (n \in DOMAIN files' <=> n \in DOMAIN files) /\ (n \in DOMAIN files => files'[n] = files[n])
      BY <1>6, <3>1
    <3>. QED BY <3>2 DEF Ran
  <2>. QED BY <2>1 DEF SameUpTo
<1>9. Before' = Before
  <2>1. LastNumber \in 0 .. LastNumber
    BY <1>1
  <2>2. \A k \in 0 .. LastNumber : Replayed(k)' = Replayed(k)
    BY <1>1, <1>8, NotedStays
  <2>. QED BY <1>6, <2>1, <2>2 DEF Before
<1>10. LatestModels' = LatestModels
  <2>1. ASSUME NEW m \in Model PROVE LatestModels'[m] = LatestModels[m]
    <3>1. {n \in Processed' : files'[n].models[m] # Absent} = {n \in Processed : files[n].models[m] # Absent}
      BY <1>6, <1>7
    <3>. QED BY <1>1, <1>7, <3>1, LatestSame
  <2>2. LatestModels' = [m \in Model |-> LatestModels'[m]] /\ LatestModels = [m \in Model |-> LatestModels[m]]
    BY DEF LatestModels
  <2>. QED BY <2>1, <2>2
<1>11. FilesLead'
  <2>1. \A n \in DOMAIN files' : files'[n].operations # {} => n \in Processed'
    BY <1>1, <1>5, <1>6 DEF FilesLead
  <2>2. TablesOk(Before') /\ ColumnsOf(Before') = LatestModels'
    BY <1>1, <1>9, <1>10 DEF FilesLead
  <2>. QED BY <1>1, <1>6, <2>1, <2>2 DEF FilesLead
<1>12. call'.at = "listCustom"
  BY DEF WriteCustom, Idle
<1>. QED BY <1>1, <1>10, <1>11, <1>12, ModelsStay DEF MakingInv

LEMMA MakingStep == MakingInv /\ GeneratorInv' /\ [Next]_vars /\ [Keeping]_vars => MakingInv'
<1>. SUFFICES ASSUME MakingInv, GeneratorInv', [Next]_vars, [Keeping]_vars PROVE MakingInv'
  OBVIOUS
<1>1. ASSUME models' = models PROVE Keeping /\ Closed(models)'
  BY <1>1, ModelsStay DEF MakingInv, Keeping
<1>2. CASE Edit
  <2>1. files' = files /\ call'.at = "idle" /\ edits' # edits /\ Closed(models)'
    <3>1. files' = files /\ call' = Idle /\ edits' = edits + 1 /\ edits < MaxEdits /\ Legal(models')
      BY <1>2 DEF Edit
    <3>2. \A m \in Model : models'[m] # Absent => \A f \in models'[m] \intersect Model : models'[f] # Absent
      BY <3>1 DEF Legal
    <3>. QED BY <3>1, <3>2 DEF Idle, Closed
  <2>2. Keeping
    BY <2>1 DEF vars
  <2>. QED BY <2>1, <2>2, MakingStays
<1>3. CASE Make
  BY <1>3, MakeKeeps
<1>4. CASE Sort
  BY <1>4, SortKeeps
<1>5. CASE Panic
  <2>1. files' = files /\ models' = models /\ call'.at = "panicked"
    BY <1>5 DEF Panic, MakingInv, GeneratorInv, Calls
  <2>. QED BY <1>1, <2>1, MakingStays
<1>6. CASE WriteMigration
  BY <1>6, WriteMigrationLeads
<1>7. CASE WriteCustom
  BY <1>7, WriteCustomLeads
<1>8. CASE WriteModule
  <2>1. files' = files /\ models' = models /\ call'.at \in {"made", "idle"} /\ (call'.at = "made" => call.at = "list")
    BY <1>8 DEF WriteModule, Idle
  <2>2. call'.at \in {"list", "made"} => LatestModels = models'
    BY <2>1 DEF MakingInv
  <2>. QED BY <1>1, <2>1, <2>2, MakingStays
<1>9. CASE Crash
  <2>1. files' = files /\ models' = models /\ call'.at = "idle"
    BY <1>9 DEF Crash, Idle
  <2>. QED BY <1>1, <2>1, MakingStays
<1>10. CASE UNCHANGED vars
  <2>1. files' = files /\ models' = models /\ call' = call
    BY <1>10 DEF vars
  <2>2. Sorting => Sorting'
    <3>1. Before' = Before /\ LatestModels' = LatestModels
      BY <2>1, BeforeStays, FilesStay DEF MakingInv
    <3>2. Now' = Now
      BY <2>1, <3>1 DEF Now, Written
    <3>. QED BY <2>1, <3>1, <3>2 DEF Sorting
  <2>3. (call'.at \in {"list", "made"} => LatestModels = models') /\ (call'.at = "sort" => Sorting')
    BY <2>1, <2>2 DEF MakingInv
  <2>. QED BY <1>1, <2>1, <2>3, MakingStays
<1>. QED BY <1>2, <1>3, <1>4, <1>5, <1>6, <1>7, <1>8, <1>9, <1>10 DEF Next

\* After the last migration with models nothing more is done.
LEMMA NothingAfter == MakingInv => Replayed(MaxNumber) = Before
<1>. SUFFICES ASSUME MakingInv PROVE Replayed(MaxNumber) = Before
  OBVIOUS
<1>1. LastNumber \in 0 .. MaxNumber /\ MaxNumber \in Nat /\ FilesInv /\ FilesLead
  BY LastInBounds DEF MakingInv, GeneratorInv
<1>. DEFINE Wrong == {k \in LastNumber .. MaxNumber : Replayed(k) # Before}
<1>2. SUFFICES ASSUME Wrong # {} PROVE FALSE
  <2>1. MaxNumber \in LastNumber .. MaxNumber
    BY <1>1
  <2>. QED BY <2>1
<1>3. PICK k \in Wrong : \A j \in Wrong : k <= j
  <2>1. Wrong \in SUBSET Nat
    BY <1>1
  <2>. HIDE DEF Wrong
  <2>. QED BY <1>2, <2>1, LeastNumber
<1>4. k # LastNumber
  BY <1>3 DEF Before
<1>5. k \in 1 .. MaxNumber /\ k - 1 \in LastNumber .. MaxNumber /\ ~(k <= k - 1) /\ LastNumber < k
  BY <1>1, <1>3, <1>4
<1>6. Replayed(k - 1) = Before
  BY <1>3, <1>5
<1>7. Ran(k) = {}
  <2>1. SUFFICES ASSUME NEW n \in Ran(k) PROVE FALSE
    OBVIOUS
  <2>2. n \in Processed /\ n.number = k
    BY <1>1 DEF Ran, FilesLead
  <2>3. n.number <= LastNumber
    BY <1>1, <2>2, LastIsLargest DEF LastLargest
  <2>. QED BY <1>1, <1>5, <2>2, <2>3
<1>8. Replayed(k) = Replayed(k - 1)
  BY <1>5, <1>7, Replays DEF ReplaysInOrder, Stage
<1>. QED BY <1>3, <1>6, <1>8

LEMMA MadeUpToDate == MakingInv => UpToDate
<1>. SUFFICES ASSUME MakingInv PROVE UpToDate
  OBVIOUS
<1>1. TypeOK
  BY DEF MakingInv, GeneratorInv, FilesInv, ModelSets, Calls, TypeOK
<1>2. call.at = "made" => ColumnsOf(Replayed(MaxNumber)) = models
  BY NothingAfter DEF MakingInv, FilesLead
<1>3. OnePerNumber
  BY DEF MakingInv, FilesLead, OnePerNumber
<1>. QED BY <1>1, <1>2, <1>3 DEF UpToDate

\* Nothing but Sort goes from sorting to sorting.
LEMMA SortsOnly ==
    MakingInv /\ [Next]_vars /\ call.at = "sort" /\ call'.at = "sort" => Sort \/ call' = call
<1>. SUFFICES ASSUME MakingInv, [Next]_vars, call.at = "sort", call'.at = "sort" PROVE Sort \/ call' = call
  OBVIOUS
<1>1. call \in Calls
  BY DEF MakingInv, GeneratorInv
<1>2. ~Edit /\ ~Make /\ ~WriteCustom /\ ~WriteModule
  BY DEF Edit, Make, WriteCustom, WriteModule
<1>3. ~Panic /\ ~WriteMigration /\ ~Crash
  BY <1>1 DEF Panic, WriteMigration, Crash, Calls, Idle
<1>. QED BY <1>2, <1>3 DEF Next, vars

RunsNext ==
    call.at = "sort" /\ call'.at = "sort" /\ NothingRemoved =>
        LET before == Replayed(LastNumber)
            here   == {t \in Model : before[t] # Absent} \union Created(call.sorted)
        IN  \A op \in call'.sorted \ call.sorted :
                /\ Needs(op) \intersect Model \subseteq here
                /\ op.kind = "createModel" => op.table \notin here
                /\ LET now == Migrated({Repr(o) : o \in call.sorted}, before)
                   IN  Undone(Repr(op), now, Forwards(Repr(op), now))

LEMMA SortedRuns == MakingInv /\ [Next]_vars => RunsNext
<1>. SUFFICES ASSUME MakingInv, [Next]_vars, call.at = "sort", call'.at = "sort", NEW op \in call'.sorted \ call.sorted
              PROVE  LET before == Replayed(LastNumber)
                         here   == {t \in Model : before[t] # Absent} \union Created(call.sorted)
                     IN  /\ Needs(op) \intersect Model \subseteq here
                         /\ op.kind = "createModel" => op.table \notin here
                         /\ LET now == Migrated({Repr(o) : o \in call.sorted}, before)
                            IN  Undone(Repr(op), now, Forwards(Repr(op), now))
  BY DEF RunsNext
<1>1. Sort
  BY SortsOnly
<1>2. PICK o \in Ready(call.ops) :
        /\ call'.sorted = call.sorted \union {o}
        /\ Leads(o, Now, Forwards(Repr(o), Now), call.ops, models)
  BY <1>1, SortLeads
<1>3. op = o
  BY <1>2
<1>4. Tabled(Now) = {t \in Model : Replayed(LastNumber)[t] # Absent} \union Created(call.sorted)
  <2>1. Sorting
    BY DEF MakingInv
  <2>. QED BY <2>1 DEF Sorting, Tabled, Before
<1>5. Now = Migrated({Repr(p) : p \in call.sorted}, Replayed(LastNumber))
  BY DEF Now, Written, Before
<1>6. /\ Needs(op) \intersect Model \subseteq Tabled(Now)
      /\ op.kind = "createModel" => op.table \notin Tabled(Now)
      /\ Undone(Repr(op), Now, Forwards(Repr(op), Now))
  BY <1>2, <1>3 DEF Leads
<1>. QED BY <1>4, <1>5, <1>6

\* When the command has ended, the migrations lead from nothing to the
\* models of the source, whatever was edited, added by hand or interrupted
\* before, if no model that a migration has made is removed.
THEOREM MadeLeadsToModels == Spec /\ KeepsModels => []UpToDate
BY InitGenerator, GeneratorStep, InitMaking, MakingStep, MadeUpToDate, PTL DEF Spec, KeepsModels

\* And the operations of each can be run one after the other on what the
\* migrations before have left: a table is created once and before a column
\* or a foreign key needs it, and every operation can be undone.
THEOREM SortedOperationsRun == Spec /\ KeepsModels => OperationsRun
BY InitGenerator, GeneratorStep, InitMaking, MakingStep, SortedRuns, PTL DEF Spec, KeepsModels, OperationsRun, RunsNext

==============================================================================
