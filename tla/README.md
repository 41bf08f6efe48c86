# A verification of cot in TLA+

[cot](../src/README.md) is a web framework for Rust: an ORM with migrations, sessions and
authentication, a cache, routing with OpenAPI documents, forms, an admin panel, and the start-up and
shut-down of the server that carries them. This directory holds TLA+ models of its parts, the TLC
configurations that check them on small instances, and proofs that TLAPS checks for every instance.

All paths below are relative to `src/`. `PROJECT.json` maps every definition to the lines it stands
for, and lists the hazards with the properties that are about them.

## 1. Inventory

| component | state | operations | what is hard | what makes it correct |
|---|---|---|---|---|
| migration engine (`cot/src/db/migrations.rs`) | the schema, the rows of `cot__migrations` | `run` at every server start, `rollback` from the command line | several servers start at once; there is no transaction ("TODO: use a DB transaction here"), so a call may die between any two statements | recorded migrations are closed under dependencies; a call that returns Ok has done what it was asked; the schema is what the rows say |
| sorter (`migrations/sorter.rs`, `utils/graph.rs`) | a graph, an in-place permutation | `MigrationEngine::new`, `rollback_plan` | cycles, diamonds, names given twice, dependencies on models | a legal order whenever there is one, an error otherwise; a rollback takes exactly the dependents |
| session stores (`cot/src/session/store/`) | records by id in memory, in a table, in files, in Redis | `create`, `save`, `load`, `delete` | requests of one browser overlap; transactions, conditional writes, unflushed files | what a store answers is a record that was stored under that id and not deleted since |
| session middleware (`cot/src/middleware.rs`, `session.rs`) | the session of a request | load before the handler, save after it | the copy a request holds is stale when it is written back | see authentication |
| authentication (`cot/src/auth.rs`, `auth/db.rs`) | user id and hash in the session, users in the database | `authenticate`, `login`, `logout`, `user`, password changes | fixation, key rotation, upgrades of old hashes, stale sessions | a request is served as a user only on the strength of the current password |
| cache (`cot/src/cache.rs`, `cache/store/`) | values by prefixed key with a time to live | `get`, `insert`, `insert_with`, `get_or_insert_with`, `remove`, `clear`, `contains_key`, `approx_size` | lazy eviction, whole seconds of Redis, closures that run between two calls | nothing is read past its time or after it was replaced or removed; prefixes do not meet |
| database rows (`cot/src/db.rs`) | rows; primary keys of instances; transactions and savepoints | `insert`, `save`, `update`, `bulk_insert`, queries, raw statements | databases without RETURNING, chunks, savepoints, two executors with the same methods | an instance's key is the key of its row; all or nothing; what is not allowed in a migration is refused there |
| backends and columns (`db/impl_*.rs`, `sea_query_db.rs`, `db/fields.rs`, `db/relations.rs`, `cot-codegen/src/model.rs`) | connections, column types | render, bind and decode | three databases with different integers, fractions of seconds, booleans and NULL | a value comes back from its column as it was |
| queries (`db/query*`, `cot-macros/src/query.rs`, `cot-codegen/src/expr.rs`) | a query under construction | `filter`, `limit`, the comparisons, `like` and its relatives | precedence, escapes of wildcards, letters of both cases on three databases | the rows that are selected are those for which the condition holds |
| migration generator (`cot-cli/src/migration_generator.rs`, `cot-codegen/src/symbol_resolver.rs`, `cot-cli/src/utils.rs`) | the source, the migration files, the list of them | `make`, `new` | cycles of foreign keys; two files written one after the other; names resolved without a compiler | the operations run in the order written and lead to the models of the source |
| routing (`cot/src/router.rs`, `router/path.rs`) | the tree of routes | match, reverse | nesting, backtracking, ambiguous paths | what `reverse` builds is routed back |
| methods, extractors, OpenAPI (`router/method*`, `handler.rs`, `extractors.rs`, `openapi.rs`) | tables of functions | choose a function, take its arguments out of a request, describe it | the description is made by other code than that which takes the request apart | a request that is made as the document says is served as the document says |
| trailing slash, static files (`middleware/trailing_slash.rs`, `static_files.rs`) | the files of all apps | redirect; answer, link to and collect files | they ask the router who answers, but others answer too; links outlive deployments | a redirect leads to a view, a link to the content it was made for |
| bootstrap and lifecycle (`cot/src/project.rs`) | the context, built in phases; the global panic hook | the phases of `Bootstrapper`, `run_at_with_shutdown` | early returns, requests in flight at the shutdown | a request finds all it may use; a server that is told to stop stops |
| responses, errors and error pages (`cot-core/src/response*`, `body.rs`, `error/`, `cot/src/error_page.rs`) | chains of errors, headers, streaming bodies | make a response of a value, wrap an error, show a page | whose status counts in a chain; panics in views and in the error handler | a client is shown what was meant |
| forms (`cot/src/form.rs`, `form/fields*`, `cot-macros/src/form.rs`) | what was typed, and its errors | render, read, clean, show again | a value goes through a control, a browser and a parser and back | what nobody touched comes back as it was; what was refused is not lost |
| admin panel (`cot/src/admin.rs`, `cot-macros/src/admin.rs`) | rows; pages open in browsers | log in, list, create, edit, remove | pages are older than the table | only what was asked is changed, each row is listed once |
| configuration (`cot/src/config.rs`, `serializers.rs`) | the settings of a project | read a file, fill in defaults, write, set up the parts of a server | defaults in three places; parts that need each other; values that TOML cannot say | what the file says is what is set up, or the start refuses it |
| command line (`cli.rs`), email, test utilities, project templates | none that lasts beyond a call | conversions, rendering | a list of mails half sent | |

The components meet at few places. At a start, `project.rs` collects the migrations of the
apps, sorts them (`MigrationEngine::new`) and runs them. A request passes the session
middleware, which loads a record from the store the configuration names, then the trailing slash and
the static files, and comes to the router, whose tables of methods call a function with arguments
taken out of the request. The `AuthService` reads the user id and hash from the session and the user
from the database; the function may log in, log out, change rows through the ORM, and use the cache;
what it returns, be it a value, an error or a panic, becomes a response; afterwards the session layer
writes the record back. Requests share the stores, the database and the cache and nothing else, so
the interleavings that matter are those at the stores.

## 2. Plan

The order is that of the damage a mistake does: the schema, then who is logged in, then what
is served.

1. *Migrations* - ledger, engine, sorter, worklist. Written and proved.
2. *Sessions* - an abstract map and four stores that implement it as far as they do. Written and proved.
3. *Authentication* - on top of a session store as abstract as 2 allows. Written and proved.
4. *Cache* - an abstract cache and the two stores. Written and proved.
5. *Database rows* - upserts, chunks, savepoints against a table that changes by whole operations;
   columns and values of every type; executors. Written; all but the columns proved.
6. *Migration generator* - the comparison, cycles of foreign keys, order and dependencies, the
   schema that comes out, and the reading of the source. Written; all but the reading proved.
7. *Routing and requests* - matching and reversal, the trailing slash, static files, methods,
   extractors, the OpenAPI document, responses and error pages. Written.
8. *Lifecycle* - settings, start-up, requests, panics, shut-down. Written; what a request finds is proved.
9. *Forms, queries and the admin panel* - every type of field with the browser around it, conditions
   with the macro that parses them, and the panel on top of both. Written.

Theorems still worth proving: `ColumnsFit`, a case for every type.

## 3. The modules

### Migrations

`MigrationLedger` is the abstract specification: the set of recorded migrations grows by one
whose dependencies are in it and shrinks by one that nothing in it depends on.

`MigrationEngine` is `MigrationEngine::run` and `rollback`. The engine takes no lock and opens
no transaction, so each statement it sends is an action: `CreateLedger`, `Check`
(`is_migration_applied`), `Operation` (`forwards` or `backwards`), `MarkApplied`, `Recheck`,
`MarkUnapplied`. `loc[p]` is where the call of process `p` stands: the migrations it still has
to visit, the current one, the operations done. `Interrupt` is a process that dies between
two statements. `Accepts` and `Execute` are the database, external: which DDL statements it
refuses and what they do to tables and columns. The migrations are the numbers `1..N`, sorted,
which is what the constructor leaves behind; that it does is the subject of the next modules.
`Alone` says which calls are never made while others run. It is a fact about the deployment:
most proofs assume that rollbacks run alone, runs may overlap; those about what a call completes and about the schema
assume it of runs too. `CleanHistory` and `Linked` are what the schema asks of the migrations.

`MigrationSorter` is the constructor: the lookup table with its two kinds of names and their
errors, the recursive depth-first search with its three states (`Enter`, `VisitNeighbor`,
`Leave`, on an explicit stack), and the in-place `apply_permutation`. `RollbackWorklist` is the
queue of `rollback_plan`, and `MigrationGraph` runs the second on what the first has sorted.

### Sessions

`SessionMap` is what a session store promises: `save` stores, `load` answers what is stored and
alive, `delete` removes, and each takes effect at one moment between call and return. A call that fails
may have taken effect all the same: the answer of a commit, or of a statement that is a transaction by itself,
may be what was lost (`Answered`).

Four modules model the stores of `cot/src/session/store/`, each with the steps at which another
call can come between: `SessionMemory` (a mutex around a map: every operation is one step),
`SessionDb` (statements of a transaction with a savepoint, under the isolation levels the three
databases give), `SessionFile` (open, truncate, hand the bytes to another thread, which writes
them later: tokio's `File` buffers and the code never flushes) and `SessionRedis` (`SET NX`,
`SET XX`, expiry). `SessionStores` composes them as `SessionMiddleware::config_to_session_store`
does: one store, of the configured kind.

### Authentication

`AuthSessions` models requests that overlap. A request begins with its own copy of a session
(`Begin`), asks who the user is (`GetById`: `get_user_with_saved_id`, with the hash recomputed under
the key and the fallback keys), checks a password (`Authenticate`, `Rehash`, `DoNotLogin`), logs in and
out (`Login`, `Logout`), changes the password, and its copy is written back (`Finish`) or not
(`Abandon`), while another does the same, users are deleted and the secret key is rotated. The
session layer is tower-sessions, external, modelled by what the code in `auth.rs` uses:
`cycle_id`, `flush`, a copy read at first use and written at the end.

### Cache

`CacheMap` is what a cache promises: it may forget anything at any time, but it never shows a
value past its time or one that was replaced or removed. `Cache` is `Cache` over the memory
store or Redis; `Lookup`, `Store`, `Remove`, `Clear`, `ContainsKey`, `ApproxSize` are the calls
of the store, each one step (a lock, one Redis command), and between the lookup and the store of
`get_or_insert_with` the closure runs, during which anything can happen. Time is counted in
ticks, `Second` of them to a second, because Redis counts in seconds and memory does not.

### Database rows

`ModelTable` is what the ORM promises about the table of a model: a call takes effect at one moment,
for all instances of its slice or for none, and an instance without a key becomes a row that was not
there. `ModelRows` is the code in `cot/src/db.rs`, a statement an action: `Invoke` plans a bulk insert
(`Planned`: one statement, or a transaction of chunks), `Insert`, `Collide`, `Update`, `Delete` are
statements, `Select` is the second statement of a database without `RETURNING`, `Release` commits the
transaction or the savepoint that a bulk insert made, `Commit` that of the caller. `Break` is a
statement that fails, `End` a caller that has its answer or goes away before, and `Unreachable` the
panic on a slice that mixes instances with and without keys. External: how the three databases draw
keys, what they lock, what a transaction sees. A transaction of the caller's makes one call.

`Executors` says on what each call runs: a `Database`, one that a migration was given, a transaction on
either, or a savepoint. `Operations` are the generic functions that both executors share, `Sent` the
statement that comes of one, whether the executor has `RETURNING`, how many parameters it takes, and
whether `ensure_model_allowed` refuses the model (`CheckModelAllowed`).

`Columns` follows the value of a field from the struct to the database and back, for every type that
implements `DatabaseField`: which column the migration gives it (`MigrationField`, `ColumnType`), what is bound
(`Prepared`), what the column holds (`Stored`), what sqlx decodes and what `FromDbValue` makes of it (`FromDb`), and
the instance that `#[model]` writes back after an insert (`Returned`, `Updated`). Integers keep their widths in
bytes; a byte has `Byte` bits.

### Migration generator

`MigrationGenerator` is `cot migration make` and `cot migration new`. Its state is what a developer has on
disk: `models`, the source of an app; `files`, the migrations in the directory; `listed`, what
`migrations.rs` lists. `Edit` changes the source. `Make` compares it with the latest version of every model
(`LatestModels`, `GenerateOperations`), takes foreign keys that lie on cycles out of the operations that
create tables (`FeedbackArcs`, `RemoveCycles`) and hands the rest to the topological sort, of which each
`Sort` is one operation and `Panic` the cycle that is left. `WriteMigration` and `WriteModule` write the two
files; `WriteCustom` is `new`, whose migrations hold no models and are therefore not counted; `Crash` kills
the command in between. An automatic migration has the number and the second (`Time`) in its name; one that only removes models
holds none either, so that its number is given again, to a file beside it or, in the same second, to one that
replaces it. External: petgraph's feedback arcs, as sets that peeling off sinks and sources can
leave, and its sort, as any order that respects the edges. A changed field type is `todo!()` in the code.

`Forwards` and `Undone` in the same module are what the operations of a migration do to tables, forwards and backwards,
`Replayed` what a directory of migrations leaves. `ModelSource` is how the source
is read: which package a directory belongs to (`FindCargoToml`, `WorkspacePath`, `ParseWorkspace`, `FromCargoToml`), what the names of a type stand for
(`symbol_resolver.rs`), which fields are keys, foreign keys or may be NULL (`cot-codegen/src/model.rs`), and under which
table name a model is created, asked for and found again.

### Routing and requests

`Router` is `router.rs` and `router/path.rs`: a pattern is a sequence of literals, parameters and wildcards, `Capture`
takes them off a path from the front, `Reversed` fills them in. A tree of routers is a function on their
numbers, `GetHandler` finds the first route that leads to a view, whatever an earlier one matched on the way, and
`ReverseUrl` is `Router::reverse`. `Handlers` is what a route leads to: a function with its extractors (`PathOf`,
`UrlQuery`, `Json`, `RequestForm`, `Arguments`) or a table of functions by method (`MethodRouter`,
`ApiMethodRouter`, `Handler`). `OpenApi` is the document that is made of the same routes (`ApiOperation`, `PathItem`,
`Document`). `Responses` is what becomes of the value that a function returns (`IntoResponse`, `PollFrame`), of an error
(`Wrap`, `Inner`, `StatusOf`, `ErrorData`), and of a failure as a whole (`ErrorPageOf`), and the static files
(`AddFile`, `UrlFor`, `StaticResponse`, `CollectInto`). These modules have no state; they are functions, and are
checked in the states of `Server` against definitions that know nothing of their order of work: `ViewsOf` lists
all views of a tree with their whole patterns, `Cuts` are all ways to cut a path into pieces that fit, `AsGiven` is the
argument that a reader of the document means, `AnswerMeant` and `PageMeant` read a response from its end.

### Lifecycle

`Lifecycle` is `cot/src/project.rs`. `server` goes through the phases of `Bootstrapper` (`WithConfig`, `WithApps`,
`WithDatabase`, `WithCache`, `Boot`), then through `run_at_with_shutdown`: `Bind`, `Migrate`, one `InitApp` for each
app, `Serve`, `ShutdownSignal`, `Drained`, `Close`; `Fail` is the `?` of each of them. `stage[c]` is where the request of
client `c` is: before its view, in it, in the error handler. External: axum and hyper, which stop accepting when
they are told to stop and wait for the requests in flight, and drop those whose client has gone.

`Server` composes it with the router: what each request is about, the trailing slash (`AddSlash`), the static
files (`StaticFile`), `Route` with the choice of a function and its arguments, the view that answers, reverses another
(`ReverseRedirect`), fails or panics, and the error handler, whose own panic nobody catches
(`ErrorHandlerPanics`). Clients follow the redirects they are given, maybe later, maybe to a server that is
shutting down; one client has read the OpenAPI document and asks as it says (`AskAsDocumented`).

`Settings` is `config.rs`: a file as a table of values, what the derived `Deserialize` makes of it (`ReadStruct` with
`serde(default)`, `ReadTagged` with `serde(tag)`, `ReadTime` of `serializers.rs`), the defaults of the builders, the way
back (`WriteStruct`, `WriteTime`), and what the start of a server makes of the result (`SetUp`: the database, the cache, the
session layer, the back end of the log-in, the mail transport), each of which may refuse it or panic. It has no state and
is checked in the states of `Server` that have just read their configuration, against `IsSetUp`, which looks each
setting up in the file by its name, and in a second list of the defaults. That list agrees with the documentation but for
`auth_backend`, where it follows the code (see what the properties leave out).

### Forms, queries and the admin panel

`FormFields` has, for every type of field, its options, the control it renders, `clean_value` and `to_field_value`.
`Form` is what `#[derive(Form)]` makes of a struct: the context of a request or of a value, and the value of a
context; with the browser, external, which shows a control's value, validates it and sends it.

`Queries` is a condition from the builder to SQL on three databases, with `LIKE` and `GLOB` and the escapes of each, and
the statement a query becomes. It includes `query!`: `cot-codegen/src/expr.rs` parses the tokens by precedence
(`Parse`), `as_tokens_impl` puts a value together again.

`Admin` composes them into the panel: the views of `cot/src/admin.rs` and of the derived `AdminModel`, a statement an
action, and people with a page open in their browsers that may be older than the table. Log-ins end; rows are
created, edited and removed meanwhile.

## 4. Runs

| run | what it shows | bounds, and why they are enough |
|---|---|---|
| `engine_alone` | a call that returned Ok did what it was asked (`CallsComplete`); the schema is the one the rows describe as long as nothing failed (`SchemaMatchesLedger`); restarts get the database up to date unless a call died inside a migration (`EventuallyMigrated`) | one process, four migrations of two apps with a cross-app dependency, columns swapped, a foreign key and custom code: every order of runs and rollbacks to every target, two deaths |
| `engine_servers` | dependencies of recorded migrations are recorded; the engine implements `MigrationLedger`; a call touches only the rows of its plan | two servers, one death, one irreversible operation. All N and numbers of processes: proved |
| `migration_graph` | a legal order exactly when there is one, errors only otherwise (`SortsOrRefuses`), termination, the plan of a rollback is the least closed set | every graph on three migrations, slices of three with names given twice and unknown dependencies, four larger graphs of up to five with the shapes three cannot have: a cycle entered from outside and diamonds with tails |
| `session_stores` | memory and database implement `SessionMap`; a savepoint falls back in place; files hold and hand out their own records, and a Redis key that was saved is there when the call returns (`ReturnsHold`); no Redis key is replaced by a new session (`CreateSpares`) | two requests, two sessions, two open files at once, one late write, one removal of the directory, one retry (the code's 32 only repeat it) |
| `session_db_panic` | *violation*: see findings | two requests |
| `auth_sessions` | a session names one user under one id (`IdServesOneUser`), comes with a hash of a known key (`SessionsMigrate`), is honoured only for the current password (`SessionProvesPassword`); a deleted session comes back only through a request that had it open (`DeletedStaysDeleted`) | two overlapping requests, one user, two passwords, two ids, three keys, which is a key rotated twice. One user is enough for TLC because any number is proved |
| `cache` | implements `CacheMap`; one cache never touches a key of a cache with an unrelated prefix | two caches, prefixes or none, one key, one entry, a time-out of one and a half seconds, a date, and none; four ticks of half a second. Longer histories repeat these: an entry's future depends on its value and its time only |
| `model_rows` | the ORM implements `ModelTable`; an instance gets the key of its own row (`KeysAreOwn`); no statement has too many parameters (`StatementsFit`); every value of every type of field comes back from its column, definitions that are accepted can be carried out, transactions behave as databases do, and the models of the application are refused in a migration (`ColumnsFit`) | two callers, three calls, keys 1 to 3, slices of up to two, limits by which a slice is one statement or two, a model with nothing but its key; MySQL with keys chosen by programs. A third chunk or instance repeats the second; three calls are a row that is there and two calls that overlap. Columns: models of two fields of any two types, a byte of three bits, which tells all widths and signs apart, texts of up to two over a limit of two; executors: two savepoints deep |
| `migration_make` | operations run in the order written (`OperationsRun`); dependencies cover what is referred to (`DependenciesCover`); the migrations lead to the models of the source (`UpToDate`), whichever calls died, both until something follows the removal of a model; the source is read as Cargo, rustc and `#[model]` read it (`SourceMeant`) | every app of three models with up to two fields each, one model of another app, one edit, two migrations, one death, one name for custom migrations, which is also that of a first automatic one, two seconds in which others are made. Three models have every shape of cycle that two have and the ring; a third migration is to the second as it is to the first. The one edit may remove a model, and the command may be called again after that: what it then writes is a finding. Any number of edits, fields and models is proved. Source: a crate of three files, a use of one name or of one by another, manifests in three nested directories |
| `server` | requests find the apps, the database and the hook they may use (`ServesWhenReady`); a path goes to the first view it fits, with its parameters and app (`RoutesToFirst`); reversed URLs and added slashes lead to the view that was meant, or to an earlier one with the same path (`RedirectsLead`); a request made as the document says gives the function that it describes the arguments it names (`DocumentHolds`); responses, error pages and links to static files say what was meant (`AnswersMeant`); a configuration file is refused when it should be, comes to what it says, and its parts come back when they are written (`SettingsMeant`); a server that is told to stop stops (`Stops`) | two clients, one asking for every path of up to four characters over the slash and two letters, the other for `/`; twenty-one trees, of two apps or of one with an API, with and without a prefix that has a parameter, overlapping patterns, a nested router, wildcards; GET and HEAD, POST, and CONNECT, which the table treats on its own; types text, integer (one digit, up to ten) and enum, each optional or not. Four characters are two segments and what is before, between and after them. Errors of up to four layers, so that one with a status stands before, between and after others; answers of which up to two things more are said, so that each may override each. Two apps of up to two files, in every configuration. Configuration files with one or two settings, each of every kind of value, with and without a database, and those that cannot be read or started with: a setting is read without a look at any other, but for the database that sessions and log-in need |
| `admin` | pages of a list cover the table (`PagesCover`); only what was asked is changed (`ChangesAsAsked`); a form saved untouched changes nothing (`UntouchedKeeps`); one that is refused comes back as it was (`RefusedKeepsInputs`); conditions select what they say, on three databases (`QueriesMean`) | two people, two keys, pages of two; a model for each type of field, wrapped or not, with the values and texts at its limits; three or four requests, which are two to open a page, one that interferes, one that saves. Queries: comparisons of terms with up to two operators, conditions joined two deep, texts of two letters out of nine that are special to one of the databases |
| `query_as_written` | *violation*: see findings | as `admin`, one model |

Deadlock is checked everywhere except in `migration_graph`, whose computation ends, in `server`,
which may stop, and in `model_rows`, `migration_make` and `admin`, where calls, edits and requests are counted and run
out. The runs that end in a violation follow the run they vary.

Seven runs take states for one that differ by names only (`SYMMETRY`): those of callers, of session ids, of caches, of requests
and passwords, of models and seconds, of people. None of them checks a liveness property, and no `CHOOSE` of theirs
prefers one such name to another where it shows.

`ColumnsFit`, `SourceMeant`, `QueriesMean`, `AnswersMeant` and `SettingsMeant` are statements about functions, over all inputs of the
bounds. TLC evaluates each in the states in which the code it is about would run; their parts are named in the
modules (`ValuesReturn`, `DefinitionsHold`, `ContextsKept`, `TransactionsAlike`; `AnswersAreMeant`, `PagesMeant`,
`RoutesListed`, `SitesMeant`; `ConditionsRead`, `TextsMatch`).

**Fairness.** `engine_alone` assumes that a call that has begun continues (each await is on a
database that answers) and that a server that stopped is started again (`WF` of `Step` and
`BeginRun`); deaths are bounded, so a run after the last one completes. `migration_graph`
assumes that a computation continues (`WF` of its next-state relation). `server` assumes that views and error
handlers come to an end (`WF` of `Handle`, `Raise` and `Answer` together, for each client), since a graceful
shutdown waits for them without a limit, and that the end of `run_at_with_shutdown` is run (`WF` of `Drained` and
`Close`); that clients go away or signals come is not assumed. The other runs assume none.

**Mutants.** Next to the definition it spoils, each module keeps the mutants by which every
property of a passing run is shown to be able to fail: a guard dropped, a position off by one, a
reset forgotten, a stale copy kept.

**Proof modules.** `X_proofs` extends `X` with its theorems, so that what a run checks on a small instance and
what is proved for every instance are the same definitions. `MigrationGraph_proofs` also has the proofs about
`MigrationSorter` and `RollbackWorklist`.

### What the properties leave out

A property that allows for an exception names it. These are the exceptions, with what the code does there.

*Rows and columns* (`ColumnsFit`). `count` (`cot/src/db.rs:2665`) and `raw_as` in a transaction (`:1528`) do not ask whether
their model is allowed in a migration, as their siblings do. A `NaiveTime` loses its fraction of a second on MySQL; a
`u64` beyond the greatest `i64` is refused on SQLite and PostgreSQL. A foreign key to an instance that was never
saved is stored as NULL where the column is optional. `AddField`, and `RemoveField` backwards, create no constraint for a
foreign key (`cot/src/db/migrations.rs:769`).

*The source of models* (`SourceMeant`). A `table_name` of one's own is not written into migrations. A model whose name
has capitals in a row is created as written and asked for in snake case (`cot-macros/src/model.rs:94`,
`migration_generator.rs:1025`). `use x::{self}`, `super` and `self` after another name, modules without a use, globs and
re-exports are resolved to other paths than rustc's. Dependencies name `--app-name`, though migrations are looked for
by the name of the crate; migrations in an `--output-dir` are not read back. A package that its workspace does not
list panics (`cot-cli/src/utils.rs:29`), and so does a workspace with a pattern such as `crates/*` among its members (`:129`). The
directory that `package.workspace` names is looked up from where the command runs, and not from the package (`:76`).

*Documents* (`DocumentHolds`). Of two tables with one URL the last is described and the first is asked; a parameter
that comes twice on the way through nested routers is listed twice and counted once; a wildcard is listed in
braces with its star.

*Responses and error pages* (`AnswersMeant`). A handler that asks a `RequestError` gets the status of the cause, where
that has one of its own (`cot-core/src/error/error_impl.rs:148`); the diagnostics of an error with status 404 that is no
`NotFound` show no words; they answer every other status with 500, and are shown for `text/html;q=0` too. The default page for
a failing error handler has no content type, and `with_header(CONTENT_TYPE, ..)` adds a second one. `AnswersMeant` of static
files is about links whose page and file are of one version of the site: an old link that is asked of a newer
server is answered with the newer content, and kept under the old hash. Names of files that need percent-encoding,
or hold `?` or `#`, are linked to as they are and not found; names that begin with a slash are collected outside of the
directory.

*Migrations of an app* (`UpToDate`, `OperationsRun`). The first is silent once something was done after a removal
(`RemovedLast`), and the second after a removal (`NothingRemoved`); why is the last paragraph of the findings. What a
user expects, that a call after a call has nothing to do, is written down as `MakeSettles`. It does not hold after a
removal and is not run.

*Configuration* (`SettingsMeant`). The documentation of `auth_backend` says "The default is the database backend"
(`cot/src/config.rs:134`); the code has none (`:441`), and so has the property. Nothing is written to TOML for a cache without expiry, and the default of five minutes is
read back. A key that nobody reads is passed over without a word, or kept in `extra`; that is so of some that the documentation shows:
`[email] type` (`cot/src/config.rs:1917`), where `[email.transport]` is read, and `[session] expiry` (`:1767`), where
`[middlewares.session]` is. A database URL with the scheme `postgres`, as in the documentation of `DatabaseUrl` (`:2239`), is
read, and the start panics on it (`cot/src/db.rs:2041`). A secret key is written as bytes and read as a text.

*Routing* (`RedirectsLead`). No pattern of the run has a parameter before a letter: such a parameter takes the letter,
and the path it reverses to is never matched.

*Forms* (`UntouchedKeeps`). A choice whose option has another id than its name (`form.rs:304`), an option in an `Option`, a date
with an offset, a password hash, and a text with line breaks do not survive their form; the types of the run do. The form
for logging in (`RefusedKeepsInputs`) forgets what was typed (`admin.rs:109`).

*Queries* (`QueriesMean`). `icontains` on SQLite does not find letters beyond ASCII in the other case; a comparison
with `None` selects nothing; chained filters and parenthesized values are the subject of `query_as_written`.

## 5. Proofs

| theorem | what it says, for every value of the constants | assumptions |
|---|---|---|
| `MigrationEngine_proofs!TypeCorrect` | types, for all migrations and processes | those of the module |
| `...!DependenciesAlwaysApplied` | what is recorded has its dependencies recorded | rollbacks run alone |
| `...!EngineImplementsLedger` | the engine implements `MigrationLedger` | rollbacks run alone |
| `...!CallsKeepToTheirPlans` | a run forgets no migration; a rollback records none and forgets only those of its plan (`LedgerScope`) | none |
| `...!CallsAreComplete` | a run that returns Ok leaves every migration recorded, once, a rollback none of its plan, whatever calls died before (`CallsComplete`) | runs and rollbacks are made alone |
| `...!SchemaFollowsLedger` | while nothing is interrupted, no call fails at an operation and between two calls the schema is the one the recorded migrations describe (`SchemaMatchesLedger`), after any runs and rollbacks, for any operations, tables, foreign keys and custom code | the same; the migrations can be done and undone in their order (`CleanHistory`), and depend on earlier ones that touch what they touch (`Linked`) |
| `MigrationGraph_proofs!WorklistFindsPlan` | the worklist ends with the least closed set, which is the definition of `RollbackPlan` in the engine | none |
| `...!SorterSorts` | the sorter ends with a legal order of all migrations, or with an error when there is none (`SortsOrRefuses`), for any number of migrations, names and dependencies | none |
| `...!PlansAreFound` | the graph of the sorted slice leads forwards, and the worklist finds in it what depends on its seed (`FindsPlan`) | none |
| `MigrationGenerator_proofs!MigrationsDepend` | a migration depends on the one made before it and on the models of other apps that its operations name (`DependenciesCover`), whatever is edited and interrupted | none |
| `...!MadeLeadsToModels` | when the command has ended, the migrations lead from nothing to the models of the source (`UpToDate`), for any models, fields, edits, custom migrations and deaths | no model that a migration has made is removed |
| `...!SortedOperationsRun` | each operation of a migration finds the tables it needs and can be undone, in every order that the sort may choose (`OperationsRun`) | the same |
| `SessionStores_proofs!RowsFollowTheirOwn` | what a transaction of `DbStore` is about to commit follows the committed row of the same primary key (`CommitsInPlace`) | none |
| `...!AnswersHold` | `FileStore` loads a record of the id it was asked for; a save of `RedisStore` that returned Ok has seen its key hold a record (`ReturnsHold`) | none |
| `...!DeletedFilesStayAway` | a session file that is away stays away while no call names its id (`QuietStaysAbsent`) | none |
| `...!CreatesNeverReplace` | `create` of `RedisStore` replaces no record (`CreateSpares`) | none |
| `...!StoresImplementMap` | `MemoryStore` and `DbStore` implement `SessionMap`, under every isolation | none |
| `AuthSessions_proofs!TypeCorrect`, `IdsServeOneUser`, `SessionsProvePasswords` | as in the table of runs, for all numbers of requests, users, passwords, sessions and keys | none |
| `...!DeletedSessionsStayDeleted` | an id that was deleted comes back only through a request that had it open (`DeletedStaysDeleted`) | none |
| `...!AcceptedSessionsMigrate` | once all requests are over, an accepted session whose user's password stays is under the current key (`SessionsMigrate`) | none |
| `Cache_proofs!TypeCorrect` | types; the store stays finite and holds no `After` time-out, on which `is_expired` panics | none |
| `...!CachesStayApart` | prefixes of which neither begins with the other never meet, whatever colons are in keys | none |
| `...!CacheImplementsMap` | the memory and the Redis store implement `CacheMap` | no time-out is a date before 1970 |
| `ModelRows_proofs!InstancesGetTheirKeys` | an instance of a call that returned Ok has the key of the row written for it (`KeysAreOwn`) | none |
| `...!BulkStatementsFit` | no statement of a bulk insert has more parameters than the database takes (`StatementsFit`) | none |
| `...!RowsImplementTable` | the ORM implements `ModelTable`, for any callers, keys, slices, limits and databases | no program writes keys of its own on PostgreSQL |
| `Server_proofs!LifecycleTypeCorrect`, `RequestsFindAll` | types of the lifecycle; `ServesWhenReady` for all clients, numbers of apps, trees and paths | none |

The assumptions are facts about deployments or programs, and the code fails without them. Rollbacks that overlap
runs leave recorded migrations without their dependencies, and a call that is made while another undoes its work cannot
promise what it leaves. What runs and rollbacks leave in the schema is a question of the migrations too. `CleanHistory` says
that all of them can be executed on an empty database, in order, and that the inverse of each operation undoes it there
(`remove_field` is written with the column that goes, an irreversible custom operation has no inverse). `Linked` says
that of two that change one table or column, call one custom code, or of which one needs for a foreign key what the
other changes, the later depends on the earlier one: a rollback leaves alone what does not depend on what it undoes,
and a migration that came between would find another table when it is run again. Both are about one history,
all migrations in order, and the theorem concludes from it for every set of migrations that calls can leave recorded; the
generator's migrations of an app are linked (`MigrationsDepend`), dependencies between apps that only custom code has are the
programmer's. TLC evaluates both for the migrations of `engine_alone` (`HistoryAssumption`). A time-out that is a date before 1970 is past for the memory store, but Redis would be given its
distance from 1970, as a date after it. The sequence of PostgreSQL does not move for keys that programs write (see
findings); `KeysAreDrawn` says so in `ModelRows_proofs`, and is a weaker condition than the run's, in which MySQL
alone has such keys. The generator takes the last version of a model for its state even if a later migration has removed
the model (`LatestModels`, `cot-cli/src/migration_generator.rs:934`; see findings): the migrations after that remove it again,
and one that brings it back only adds fields to a table that is gone. `KeepsModels` in `MigrationGenerator_proofs` keeps to histories
without such a removal; a model may go while no migration has it, and fields may come and go freely.

*The engine.* `DependenciesApplied` is not inductive: nothing in it says where the calls are. The
invariant `IInv` adds, for each call, `CallInv`: the migrations a `run` has passed are recorded,
those a `rollback` has passed are not, what is left of the plan is closed under dependents, and no
other call runs beside a rollback. From it, `MarkApplied` is `Ledger!Apply` or a stutter (the
migration was recorded by another server meanwhile), `MarkUnapplied` is `Ledger!Unapply` and
everything else stutters. What a call may touch needs less, and no condition on who else calls: `ScopeInv`
says that what a rollback has left to do is part of the plan it began with. That a call is complete needs more:
`AloneInv` adds that one call is active at most, that no migration is recorded twice, and that the one a run
is at is not recorded yet, since `Check` has looked and nobody has come between.

The schema needs an invariant of the database. To compare it with the replay of the recorded migrations does not go through:
undoing one from the middle of that sequence says nothing of what is left. `SchemaInv` looks at the database thing by
thing (a table, whether it is there, a column, the count of a custom operation). Of the migrations that change a thing
the recorded ones are the first ones (`Positions`, from `Linked` and `DependenciesApplied`), so the thing is as it was after some
migration of the one full history, and `Agrees` says that it is. In the middle of a migration, `Between` says so of what
the migration leaves alone, and that the rest is as after the same operations in the full history. A statement
is accepted if and only if it is there, and does the same to what it writes (`AcceptsSame`, `ExecutesSame`), so the
facts of `CleanHistory` carry over to every state a call can be in (`SendKeeps`). In the end the replay agrees with
the recorded migrations as well (`ReplayAgrees`), and only one database does (`OneAgrees`).

*The sorter.* While it searches, `StackInv` says that what is being visited is what is on the stack, each vertex above
one that depends on it the way the search goes, and that the loop of each frame still has to look at what is not finished;
`OutInv` says that what is finished is in `out`, once, after all it leads to. So `out` read backwards is a legal order when
the search ends (`FoundInv`), and an error for a cycle comes with a path from a vertex to itself on the stack: of the vertices of
such a path none can have the last position in a legal order, so there is none. `PermuteInv` is about the
in-place permutation: a marked position has its item already, one that is not marked has still the item it had, and the item
of the cycle's first position moves along the cycle, whose next position is always the one it is at. What makes that work
is that the order is a permutation: two positions never have one source. `WorklistInv`: what was found
depends on the seed, and what depends on something found is found or follows from what is in the queue.

*The generator.* `GeneratorInv` is about the directory: what is listed is there, what files name exists, and a call that
sorts will write the next number. With the lemma that the last number is the greatest of those that count (`LastIsLargest`)
`DependenciesCover` is inductive. The rest is about `Migrated`, which applies a set of statements one by one and is
recursive: `Outcome` is the same without recursion, table by table, for statements that do not contradict each other
(`Consistent`). That both agree is shown by a least counterexample, over finite sets by inclusion; and so is that a
replay of the files does not change when one with a higher number is added. `MakingInv` then says of every moment of
a call that the files lead to the last versions (`FilesLead`), and that of the operations not yet sorted nothing is
superfluous and nothing lacks (`Pending`): applied to the tables as they are now, they lead to the models of
the source. Each step of the sort keeps that, since an operation without predecessors left finds its tables
(`Leads`, one lemma for each kind of operation), also one whose foreign keys were taken out of it and come back
as fields added later; `TablesOk`, that constraints are on columns there are, is what lets it be undone. When nothing is left, tables
and models agree.

*Session stores.* `DbStore` is the one whose steps interleave. `DbCallInv` says of each transaction what it has read
and what it has written: where a call is tells what it does, what it has read or written without committing is there when its
next statement needs it, and it holds a row exactly when it is about to commit. `CommitsInPlace` is inductive together with
it; that a new primary key is always left is an assumption on the constants (`PkAssumption`). For Redis the invariant says
that a save first tries its own id, and that one that goes on with another id has seen its own key hold a record (`held`).
For files, `FileOwn`: a file is never the file of two sessions, whether by its name, for a call that has it open, or for
a write that is on its way, and what it holds carries the id of its own session. For the refinement, each call of the two
stores is shown as the map sees it: asked, or answered with what it found
at the statement (or under the lock) that decides. A commit is where a save takes effect; every other statement is a
stutter, and an error is `SessionMap`'s failure, which may have had its effect.

*Authentication.* The invariants of the stored sessions are not enough, since a request can write
back a copy made long ago: each is stated of copies and of stored sessions alike, together with
the fact that an id is used up once it has been drawn. Deleted ids: whoever has a session open that is deleted had it open
when it was deleted (`LostInv`). Migration to a new key: all copies of a session are of one login (`CopyInv`); a
request that acts for a user has moved its copy to the current key (`ActsInv`); a copy under the current key that will not be
written back came from there. The hash that `authenticate` makes is in use nowhere before it is saved (`FreshInv`), so a
session whose password has changed never becomes valid again.

*The cache.* Keys and prefixes are sequences of words between colons. If two formatted keys are equal,
one prefix begins with the other; a call changes only the key it has formatted. The refinement maps the entries
that are stored and not over to those of the map: an entry that runs out is one the map forgets, and the
closure of `get_or_insert_with` stands between two calls. `OpInv` says that where a call is tells what it is for. `EntryInv` says
that what a store keeps is over when the time asked for is, or earlier, since Redis takes whole seconds, rounded down. And
`approx_size` counts finitely many.

*Database rows.* `IInv` says of each call how it came where it is: what was planned for its slice (`PlanInv`), how
much of it is written and what the instances know of it (`KeysInv`), and whether a transaction holds it (`MineInv`). `Select` is the
step that needs it: MySQL draws consecutive keys for a statement, so the rows from the first one on are those of
the chunk, if all of them are found. For the refinement `RInv` adds what callers have to do with each other (`Undisturbed`): keys
that the counter has not reached have no rows; no two transactions have written one row; a transaction has drawn
only keys that the counter has passed, or, in SQLite, is the only writer. And it says what a call has written
(`Wrote`): what is in its transaction and not committed is what the call has written so far, each instance under a key
of its own, and inserted rows are still new to everybody else. So the statement of a single call, the commit of a
transaction, or the release of the call's own one is where all instances appear at once; chunks and the
second statement of MySQL are stutters.

*The server.* That requests exist only while the server is serving or draining is not enough: `IInv` adds what
each phase has left behind, the database open from `WithDatabase` on, apps and hook from `Serve` on. A lemma of
its own says that what a request is about does not matter: every step of `Server` is one of `Lifecycle`.

TLC has checked each inductive invariant on the bounds of the component's run before it was proved.

TLC alone checks liveness (`EventuallyMigrated`, `Terminates`, `Stops`), since the provers here know nothing of fairness,
and the following invariants.

* `ColumnsFit`, `SourceMeant`, `QueriesMean`, `AnswersMeant`, `SettingsMeant`, `RoutesToFirst`, `RedirectsLead`,
  `DocumentHolds`: each compares what a function computes with a definition of what was meant, for every input; the functions
  recur over conditions, tokens, patterns, trees, layers of an error, or are a table with a case for every type.
* `PagesCover`, `ChangesAsAsked`, `UntouchedKeeps`, `RefusedKeepsInputs`: `Admin` reaches the recursive operators of
  `Queries`, and the prover has no SMT backend there.

Induction is out of reach where it is over data of which a case needs the operator as a parameter. Over numbers and
finite sets the proofs do without: they take a least counterexample, whose existence the library has for
well-founded relations, and refute it.

## 6. Findings

* `session_db_panic` - `cot/src/session/store/db.rs:221`: `save` expects the row that its insert
  collided with. Under MySQL's default isolation the transaction does not see it, and save panics.
* `query_as_written` - `cot/src/db/query.rs:139`: `filter` replaces the filter before, although
  `docs/databases/queries.md` chains two of them and says that both hold in what is retrieved.
* `query_as_written` - `cot-macros/src/query.rs:190`: the value that a field is compared with is written
  again without its parentheses, so that `$n == (1 + 2) * 2` asks for 5.

More facts are recorded as hazards with a note, and no run is about them. The upgrade of an obsolete hash
at a login writes a whole row that was read earlier and undoes a password change in between
(`cot/src/auth/db.rs:338`). An app that fails to initialize leaves the database open (`cot/src/project.rs:2120`). Between the check and
the execution of a migration another server may record it, and it is executed twice
(`cot/src/db/migrations.rs:201`). `clear` empties the caches of all prefixes (`cot/src/cache.rs:477`;
`PrefixesApart` is about every other operation). On PostgreSQL, saving an instance without a key overwrites
the row with an explicit key that the sequence has come to (`cot/src/db.rs:2197`; `Inventive` keeps
programs that choose such keys out of `model_rows` there). Three new models that refer to each other in a ring
panic in the generator: for a feedback arc the foreign keys of the opposite direction are taken out, of which a ring
has none, and the cycle stays (`cot-cli/src/migration_generator.rs:1108`). A field that is
added without a default, and may not be NULL, cannot be added to a table with rows; a column with a constraint
cannot be removed on SQLite and MySQL.

A model that a migration has removed is still taken for its latest version
(`migration_generator.rs:934`), so that every later call finds it to be removed. If the migration did nothing else, it
holds no models and is not counted (`:416`), the next one has its number, and only the second at which
it is made tells the names apart: `m_0002_auto_...` stands twice in the directory and in the list, and the second of
the two drops a table that is gone, which a plain `DROP TABLE` refuses. A model that comes back is not created. With one
model, no field that refers to another and one edit, TLC finds `MakeSettles` violated after the second call.

## 7. Not modelled

SQL as text, parsing and printing of Rust source and of TOML, the building of HTML, argument
parsing of the command line, templates of new projects, backtraces, and test harnesses: conversions
of a value by one thread, with no state between calls. Email hands a list of messages to a transport; when one fails
after others were sent, a caller that tries again sends those twice.

Of what is modelled, these parts are left out: division in conditions, members and paths in the values of
`query!`, and MySQL's comparison of letters with accents; attributes that only change how an input looks, and what
an uploaded file holds; component schemas and responses in the document, and the pages of Swagger UI; NaN and infinite floats,
the 64 KiB of MySQL's TEXT and BLOB, AUTO_INCREMENT of columns that are no keys, and what raw statements do to rows;
lists and options as parameters of paths; a failure while the diagnostics are rendered; the comparison of field types
by the generator, which is `todo!()` in the code. `tower-sessions`, `sqlx`, `redis`, `tokio`, `axum`, `petgraph`, browsers
and the databases are external and appear as the behaviour the code relies on.
