----------------------------- MODULE ModelSource -----------------------------
(***************************************************************************)
(* What `cot migration` and #[model] make of the source of a model: which  *)
(* package it is in (cot_cli::utils), what the names in it stand for       *)
(* (cot_codegen::symbol_resolver), whether a field is a key, refers to     *)
(* another model or may be NULL (cot_codegen::model), and under which name *)
(* its table is created, asked for, and found again in the migrations.     *)
(*                                                                         *)
(* A path is the sequence of its names, and a type the sequence of the     *)
(* paths in it, the outermost first: of the generic types that fields      *)
(* have, each has one argument.  Whether that is a type or a constant      *)
(* makes no difference to the path it gets.  External: what Cargo and      *)
(* rustc make of the same source.                                          *)
(***************************************************************************)
EXTENDS Integers, Sequences, FiniteSets
LOCAL INSTANCE SequencesExt
LOCAL INSTANCE Functions

None   == ""      \* no name
NoType == <<>>

-----------------------------------------------------------------------------
(* The package.  A directory and those above it, the topmost first; each   *)
(* may have a Cargo.toml with a package, a workspace, or both.  A package  *)
(* is known by its directory, and may say how many directories `up` its    *)
(* workspace is (package.workspace; 0 when it does not).                   *)

Depth    == 0 .. 2
Nowhere  == -1
Panicked == -2
Pattern  == -3   \* a member like "crates/*"

CargoToml ==
    {t \in [package : BOOLEAN, workspace : BOOLEAN, members : SUBSET (Depth \union {Pattern}), up : Depth] :
        /\ t.members # {} => t.workspace
        /\ t.up # 0 => t.package /\ ~t.workspace}

Present(dirs, d) == d \in Depth /\ (dirs[d].package \/ dirs[d].workspace)

\* CargoTomlManager::find_cargo_toml
FindCargoToml(dirs, start) ==
    LET found == {d \in 0 .. start : Present(dirs, d)}
    IN  IF found = {} THEN Nowhere ELSE CHOOSE d \in found : \A e \in found : e <= d

\* parse_workspace: a manifest without a workspace fails an assertion, and a
\* member is read as the directory of a package, also when it is a pattern.
ParseWorkspace(dirs, d) ==
    IF dirs[d].workspace /\ \A m \in dirs[d].members : Present(dirs, m) /\ dirs[m].package
    THEN [packages |-> dirs[d].members, current |-> Nowhere]
    ELSE [packages |-> {}, current |-> Panicked]

\* The manifest that is read for the workspace of the one in d.  What
\* package.workspace says is looked up from where the command runs.
WorkspacePath(dirs, cwd, d) ==
    IF dirs[d].workspace THEN d
    ELSE IF dirs[d].up = 0 THEN FindCargoToml(dirs, d - 1)
    ELSE IF Present(dirs, cwd - dirs[d].up) THEN cwd - dirs[d].up
    ELSE Nowhere

FromCargoToml(dirs, cwd, d) ==
    LET root    == WorkspacePath(dirs, cwd, d)
        manager == ParseWorkspace(dirs, root)
    IN  IF root = Nowhere THEN [packages |-> {d}, current |-> d]
        ELSE IF manager.current = Panicked \/ ~dirs[d].package THEN manager
        ELSE [packages |-> manager.packages \union ({root} \intersect {d}), current |-> d]

\* make_migrations and create_new_migration: the package a migration is for.
PackageOf(dirs, cwd, start) ==
    LET d == FindCargoToml(dirs, start) IN
    IF d = Nowhere THEN Nowhere
    ELSE LET manager == FromCargoToml(dirs, cwd, d) IN
         IF manager.current \in manager.packages \union {Nowhere} THEN manager.current ELSE Panicked

\* list_migrations
PackagesListed(dirs, cwd, start) ==
    LET d == FindCargoToml(dirs, start)
    IN  IF d = Nowhere THEN {} ELSE FromCargoToml(dirs, cwd, d).packages

-----------------------------------------------------------------------------
(* Names: SymbolResolver.  A `use` is one for each leaf of its tree, with  *)
(* the path before it; groups only save writing.                           *)

Glob == "*"

\* ModulePath::from_fs_path
FromFsPath(file) ==
    LET parts == <<"crate">> \o file
    IN  IF file \in {<<"lib">>, <<"main">>} THEN <<"crate">>
        ELSE IF Last(parts) = "mod" THEN Front(parts) ELSE parts

\* Every name before the leaf is resolved alone.
PathPart(module, ident) ==
    CASE ident = "crate" -> <<module[1]>>
      [] ident = "self"  -> module
      [] ident = "super" -> Front(module)
      [] OTHER           -> <<ident>>

\* VisibleSymbol::from_tree
FromTree(module, leaf) ==
    IF leaf.name = Glob THEN {}
    ELSE {[alias |-> leaf.alias,
           path  |-> FlattenSeq([i \in DOMAIN leaf.path |-> PathPart(module, leaf.path[i])])
                         \o <<leaf.name>>]}

\* get_imports: the uses, structs and constants of a file.
GetImports(file) ==
    LET module == FromFsPath(file.path)
    IN  UNION {FromTree(module, leaf) : leaf \in file.uses}
            \union {[alias |-> item, path |-> module \o <<item>>] : item \in file.items}

ResolvePath(symbols, path, self) ==
    LET first == IF path[1] = "Self" /\ self # None THEN self ELSE path[1]
        found == {s \in symbols : s.alias = first}
    IN  IF found = {} THEN path ELSE (CHOOSE s \in found : TRUE).path \o Tail(path)

\* resolve, through all the arguments
Resolve(symbols, type, self) == [i \in DOMAIN type |-> ResolvePath(symbols, type[i], self)]

-----------------------------------------------------------------------------
(* Fields: FieldOpts.                                                      *)

AutoPath       == <<"cot", "db", "Auto">>
ForeignKeyPath == <<"cot", "db", "ForeignKey">>

\* find_type_resolved
FindType(type, path) ==
    LET at == {i \in DOMAIN type : type[i] = path}
    IN  IF at = {} THEN NoType ELSE SubSeq(type, CHOOSE i \in at : \A j \in at : i <= j, Len(type))

FindForeignKeyType(type) ==
    LET known == FindType(type, ForeignKeyPath)
    IN  IF known # NoType THEN known ELSE FindType(type, <<"ForeignKey">>)

\* ForeignKeySpec::try_from; ForeignKey alone is no type.
ToModel(type) == IF FindForeignKeyType(type) = NoType THEN NoType ELSE FindForeignKeyType(type)[2]

IsOptionType(type) ==
    type[1] \in {<<"Option">>, <<"std", "option", "Option">>, <<"core", "option", "Option">>}

\* as_field: what is looked for is resolved once more, without a Self.
AsField(symbols, type, self) ==
    LET seen == Resolve(symbols, type, None)
    IN  [auto |-> FindType(seen, AutoPath) # NoType, toModel |-> ToModel(seen),
         option |-> IsOptionType(seen), type |-> Resolve(symbols, type, self)]

\* Mutant: the types of the struct are not resolved before.
GeneratorFieldOnce(file, struct, type) ==
    AsField(GetImports(file), type, struct)

\* The generator: resolve_struct, and then as_model.
GeneratorField(file, struct, type) ==
    LET symbols == GetImports(file)
    IN  AsField(symbols, Resolve(symbols, type, struct), struct)

\* #[model] sees the struct and nothing else of the file.
MacroField(struct, type) == AsField({[alias |-> struct, path |-> <<struct>>]}, type, struct)

-----------------------------------------------------------------------------
(* Tables and apps.  The table may be named by an attribute.               *)

\* heck::ToSnakeCase, of the names that are used here
SnakeCase == [Post |-> "post", post |-> "post", Users |-> "users", users |-> "users"]

\* as_model, without the underscore of a model of a migration
TableName(model) == IF model.table = None THEN SnakeCase[model.name] ELSE model.table

\* ModelInSource::from_item, ModelBuilder::from_model
GeneratorTable(model) == <<SnakeCase[model.crate], TableName(model)>>
RuntimeTable(model)   == <<SnakeCase[model.crate], SnakeCase[TableName(model)]>>

\* model_to_migration_model: the attributes of the struct are replaced.
MigrationModel(model) == [model EXCEPT !.table = None]

\* What the migration says it is of, and what the next depends on.
MigrationApp(model, appName)   == IF appName = None THEN model.crate ELSE appName
DependencyApp(model, appName)  == model.crate

-----------------------------------------------------------------------------
(* A crate to try this on: main.rs with a struct Site, blog/mod.rs with    *)
(* Blog, and blog/post.rs with Post; and what rustc makes of its names.    *)

Sources == {<<"main">>, <<"blog", "mod">>, <<"blog", "post">>}

StructOf(path) ==
    CASE path = <<"main">> -> "Site" [] path = <<"blog", "mod">> -> "Blog" [] OTHER -> "Post"

ModuleOf(path) ==
    CASE path = <<"main">>        -> <<"crate">>
      [] path = <<"blog", "mod">> -> <<"crate", "blog">>
      [] OTHER                    -> <<"crate", "blog", "post">>

Structs == {ModuleOf(p) \o <<StructOf(p)>> : p \in Sources}

\* Everything that has a path.
Exists ==
    {<<"cot">>, <<"cot", "db">>, AutoPath, ForeignKeyPath, <<"Option">>, <<"i64">>}
        \union Structs \union {ModuleOf(p) : p \in Sources}

ChildModules(module) == {Last(e) : e \in {x \in Exists : Front(x) = module /\ x \notin Structs}}

\* What a module binds without any `use`.
OwnNames(path) ==
    LET module == ModuleOf(path)
    IN  {[alias |-> n, path |-> module \o <<n>>] : n \in ChildModules(module) \union {StructOf(path)}}

\* What rustc finds at a path: self and super lead up from the module, a name
\* is bound, or else that of a crate.
Means(module, bound, path) ==
    LET rest   == IF path[1] = "self" THEN Tail(path) ELSE path
        supers == CHOOSE n \in 0 .. Len(rest) :
                      /\ \A i \in 1 .. n : rest[i] = "super"
                      /\ n < Len(rest) => rest[n + 1] # "super"
        found  == {b \in bound : b.alias = path[1]}
    IN  IF supers > 0 \/ path[1] = "self"
        THEN SubSeq(module, 1, Len(module) - supers) \o SubSeq(rest, supers + 1, Len(rest))
        ELSE IF found # {} THEN (CHOOSE b \in found : TRUE).path \o Tail(path) ELSE path

\* `self` as a leaf is the path before it.
Binding(module, bound, leaf) ==
    [alias |-> IF leaf.alias = "self" THEN Last(leaf.path) ELSE leaf.alias,
     path  |-> Means(module, bound,
                     IF leaf.name = "self" THEN leaf.path ELSE Append(leaf.path, leaf.name))]

Leaves(paths) ==
    UNION {{[path |-> Front(p), name |-> Last(p), alias |-> a] : a \in {Last(p), "d"}} : p \in paths}

Below(path) == {SubSeq(e, Len(path) + 1, Len(e)) : e \in {x \in Exists : IsPrefix(path, x)}}

\* The paths that a `use` in a module may have: from the crate, from the
\* module or one above it, or from a name it binds.
Supers(n)  == [i \in 1 .. n |-> "super"]
Paths(path) ==
    LET module == ModuleOf(path)
        up(n)  == Below(SubSeq(module, 1, Len(module) - n)) \ {<<>>}
    IN  {e \in Exists : Len(e) > 1}
        \union UNION {{<<"self">> \o Supers(n) \o e : e \in up(n)} : n \in 0 .. Len(module) - 1}
        \union UNION {{Supers(n) \o e : e \in up(n)} : n \in 1 .. Len(module) - 1}
        \union UNION {{<<o.alias>> \o e : e \in Below(o.path) \ {<<>>}} : o \in OwnNames(path)}

\* The uses that compile: one, or one and another by way of it.
Uses(path) ==
    LET module == ModuleOf(path)
        own    == OwnNames(path)
        New(bound, leaves) ==
            {l \in leaves : Binding(module, bound, l).alias \notin {o.alias : o \in bound}}
        selves == {[path |-> p, name |-> "self", alias |-> "self"] : p \in Paths(path)}
        first  == New(own, Leaves(Paths(path)) \union selves)
        Via(b) == New(own \union {b}, Leaves({<<b.alias>> \o e : e \in Below(b.path) \ {<<>>}}))
    IN  {{}} \union {{l} : l \in first}
            \union UNION {{{l, v} : v \in Via(Binding(module, own, l))} : l \in first}

Bound(path, uses) ==
    LET module == ModuleOf(path)
        once   == OwnNames(path) \union {Binding(module, OwnNames(path), l) : l \in uses}
    IN  OwnNames(path) \union {Binding(module, once, l) : l \in uses}

\* What the resolver does not understand: self or super after another name,
\* as a leaf too; a module that is bound without a `use`.
PlainUse(path, leaf) ==
    LET all == Append(leaf.path, leaf.name) IN
    /\ \A i \in 2 .. Len(all) : all[i] \notin {"self", "super"}
    /\ all[1] \notin {o.alias : o \in OwnNames(path)}

\* The ways to write what exists in a type, with what each means.
Written(path, uses) ==
    {[as |-> e, means |-> e] : e \in Exists}
    \union UNION {{[as |-> <<b.alias>> \o e, means |-> b.path \o e] : e \in Below(b.path)} :
                  b \in {o \in Bound(path, uses) : o.alias \notin ChildModules(ModuleOf(path))}}

-----------------------------------------------------------------------------
(* Properties                                                              *)

FileOf(path, uses)  == [path |-> path, uses |-> uses, items |-> {StructOf(path)}]
WrittenFile         == [path |-> <<"migrations", "m_0001">>, uses |-> {}, items |-> {"Migration", "_Post"}]

\* The generator takes a field for what it is, however its file names the
\* types; a foreign key refers to the model by the path under which its own
\* file makes it known; and the model that is written to a migration reads
\* back as the same.
FieldUnderstood(path, uses, outer, type) ==
    LET field == GeneratorField(FileOf(path, uses), StructOf(path), outer \o [i \in DOMAIN type |-> type[i].as])
        means == [i \in DOMAIN type |-> type[i].means]
    IN  /\ field.type = outer \o means
        /\ field.auto = (AutoPath \in Range(means))
        /\ field.option = (outer # <<>>)
        /\ field.toModel = IF ForeignKeyPath \in Range(means) THEN means[2] ELSE NoType
        /\ GeneratorField(WrittenFile, "_Post", field.type) = field
        /\ MacroField(StructOf(path), outer \o [i \in DOMAIN type |-> type[i].as]).toModel # NoType
               => field.toModel # NoType

FieldsUnderstood ==
    \A path \in Sources : \A uses \in Uses(path) :
        (\A leaf \in uses : PlainUse(path, leaf)) =>
            LET written  == Written(path, uses)
                generics == {w \in written : w.means \in {AutoPath, ForeignKeyPath}}
                values   == {w \in written : w.means \in Structs \union {<<"i64">>}}
                                \union {[as |-> <<"Self">>, means |-> ModuleOf(path) \o <<StructOf(path)>>]}
            IN  \A outer \in {<<>>, <<<<"Option">>>>} :
                    /\ \A v \in values : FieldUnderstood(path, uses, outer, <<v>>)
                    /\ \A g \in generics, v \in values : FieldUnderstood(path, uses, outer, <<g, v>>)

\* A migration is made for the package that Cargo would build, if the next
\* manifest above, or the one that the package names, is of a workspace with
\* this package.  Members are named one by one: a pattern panics.  The command
\* runs in the directory of a package that names its workspace: from elsewhere
\* another manifest may be read.
PackageUnderstood ==
    \A dirs \in [Depth -> CargoToml] : \A start, cwd \in Depth :
        LET d    == FindCargoToml(dirs, start)
            home == IF dirs[d].up = 0 THEN FindCargoToml(dirs, d - 1) ELSE d - dirs[d].up
        IN  (\A w \in Depth : \A p \in dirs[w].members : p > w /\ dirs[p].package) =>
            IF d = Nowhere \/ ~dirs[d].package THEN PackageOf(dirs, cwd, start) = Nowhere
            ELSE /\ dirs[d].workspace \/ (home \in Depth => d \in dirs[home].members)
                 /\ dirs[d].up # 0 => cwd = d
                 => PackageOf(dirs, cwd, start) = d /\ d \in PackagesListed(dirs, cwd, start)

\* A table is created under the name that is asked for later, and found again
\* in the migrations, unless an attribute names it; and a migration depends
\* on one of the app it is of, unless an option names that.
TablesUnderstood ==
    \A model \in [name : {"Post", "Users"}, table : {None, "users", "Users"}, crate : {"post", "Post"}] :
        /\ model.table \in {None, "users"} => GeneratorTable(model) = RuntimeTable(model)
        /\ model.table = None => GeneratorTable(MigrationModel(model)) = GeneratorTable(model)
        /\ MigrationApp(model, None) = DependencyApp(model, None)

SourceUnderstood == FieldsUnderstood /\ PackageUnderstood /\ TablesUnderstood

=============================================================================
