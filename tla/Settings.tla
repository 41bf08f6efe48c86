------------------------------- MODULE Settings -------------------------------
(***************************************************************************)
(* The configuration of a project: what a TOML file says, what the derived *)
(* Deserialize makes of it, what the builders fill in, how it is written   *)
(* again, and what the phases of the bootstrapper set up from it.          *)
(*                                                                         *)
(* A file is a table, that is, a function from keys to values, which say   *)
(* what they are.  A store or a transport, a struct with one flattened     *)
(* field in the code, is that field: a record whose type says which it is. *)
(* External: toml and serde_json, which JSON has null and TOML has not;    *)
(* humantime, RFC 3339 and URLs, as the texts that are some.               *)
(***************************************************************************)
EXTENDS Integers, Sequences, Functions

CONSTANTS
    Durations,  \* the seconds of the texts that are durations
    Dates,      \* the dates of those that are
    Urls,       \* the schemes of those that are URLs
    DebugBuild, \* cfg!(debug_assertions)
    NoValue,    \* None
    Refused,    \* an Err
    Panicked,   \* a panic while the project is set up
    Files       \* files, and of each whether it can be read and a server starts with it

Text(t)    == [is |-> "text", text |-> t]
Flag(b)    == [is |-> "flag", flag |-> b]
Number(n)  == [is |-> "number", number |-> n]
List(s)    == [is |-> "list", items |-> s]
Table(f)   == [is |-> "table", fields |-> f]
Null       == [is |-> "null"]

-----------------------------------------------------------------------------
(* Deserialize                                                             *)

ReadText(v)        == IF v.is = "text" THEN v.text ELSE Refused
ReadFlag(v)        == IF v.is = "flag" THEN v.flag ELSE Refused
ReadNumber(v)      == IF v.is = "number" /\ v.number >= 0 THEN v.number ELSE Refused
ReadWord(v, words) == IF v.is = "text" /\ v.text \in words THEN v.text ELSE Refused
ReadUrl(v)         == ReadWord(v, DOMAIN Urls)
ReadSome(v, Read(_)) == IF v = Null THEN NoValue ELSE Read(v)

Fails(read) == \E f \in DOMAIN read : read[f] = Refused

\* humantime::deserialize
ReadDuration(v) ==
    IF v = Null THEN NoValue
    ELSE IF v.is = "text" /\ v.text \in DOMAIN Durations THEN Durations[v.text]
    ELSE Refused

Never == [until |-> "never"]
After(seconds) == [until |-> "after", seconds |-> seconds]
At(date) == [until |-> "date", date |-> date]

\* session_expiry_time::deserialize, cache_timeout::deserialize: no value is
\* OnSessionEnd, or Never, and a duration goes before a date.
ReadTime(v) ==
    IF v = Null THEN Never
    ELSE IF v.is # "text" THEN Refused
    ELSE IF v.text \in DOMAIN Durations THEN After(Durations[v.text])
    ELSE IF v.text \in DOMAIN Dates THEN At(Dates[v.text])
    ELSE Refused

\* The build of a builder, and serde(default): what was given, and a default for
\* the rest.
Build(given, default) == [f \in DOMAIN default |-> IF f \in DOMAIN given THEN given[f] ELSE default[f]]

\* A struct: keys that it does not have are passed over.
ReadStruct(v, default, Read(_, _)) ==
    IF v.is # "table" THEN Refused
    ELSE LET read == [f \in DOMAIN v.fields \intersect DOMAIN default |-> Read(f, v.fields[f])]
         IN  IF Fails(read) THEN Refused ELSE Build(read, default)

\* serde(tag = "type"): which variant it is, and all of its fields but those that
\* have a default.
ReadTagged(v, variants, default, Read(_, _)) ==
    IF v.is # "table" \/ "type" \notin DOMAIN v.fields THEN Refused
    ELSE LET type   == ReadWord(v.fields["type"], DOMAIN variants)
             fields == IF type = Refused THEN {} ELSE variants[type]
             read   == [f \in fields |->
                           IF f \in DOMAIN v.fields THEN Read(f, v.fields[f])
                           ELSE IF f \in DOMAIN default THEN default[f]
                           ELSE Refused]
         IN  IF type = Refused \/ Fails(read) THEN Refused
             ELSE [f \in {"type"} \union fields |-> IF f = "type" THEN type ELSE read[f]]

-----------------------------------------------------------------------------
(* The parts of ProjectConfig                                              *)

Memory == [type |-> "memory"]

DefaultPoolSize == 10

CacheStores == [memory |-> {}, redis |-> {"url", "pool_size"}, file |-> {"path"}]

ReadCacheStore(v) ==
    ReadTagged(v, CacheStores, [pool_size |-> DefaultPoolSize],
        LAMBDA f, x : CASE f = "url"       -> ReadUrl(x)
                        [] f = "pool_size" -> ReadNumber(x)
                        [] f = "path"      -> ReadText(x))

DefaultTimeout == After(300)

CacheConfig == [max_retries |-> 3, timeout |-> DefaultTimeout, prefix |-> NoValue, store |-> Memory]

ReadCache(v) ==
    ReadStruct(v, CacheConfig,
        LAMBDA f, x : CASE f = "max_retries" -> ReadNumber(x)
                        [] f = "timeout"     -> ReadTime(x)
                        [] f = "prefix"      -> ReadSome(x, ReadText)
                        [] f = "store"       -> ReadCacheStore(x))

StaticFilesConfig == [url |-> "/static/", rewrite |-> "none", cache_timeout |-> NoValue]

ReadStaticFiles(v) ==
    ReadStruct(v, StaticFilesConfig,
        LAMBDA f, x : CASE f = "url"           -> ReadText(x)
                        [] f = "rewrite"       -> ReadWord(x, {"none", "query_param"})
                        [] f = "cache_timeout" -> ReadDuration(x))

SessionStores == [memory |-> {}, database |-> {}, file |-> {"path"}, cache |-> {"uri"}]

ReadSessionStore(v) ==
    ReadTagged(v, SessionStores, <<>>,
        LAMBDA f, x : CASE f = "path" -> ReadText(x)
                        [] f = "uri"  -> ReadUrl(x))

SameSites == {"strict", "lax", "none"}

\* Mutant: a session lasts for five minutes if nothing is said.
SessionConfigLasting ==
    [secure |-> TRUE, http_only |-> TRUE, same_site |-> "strict", domain |-> NoValue, name |-> "id",
     path |-> "/", always_save |-> FALSE, expiry |-> After(300), store |-> Memory]

\* Never is OnSessionEnd here, and After is OnInactivity.
SessionConfig ==
    [secure |-> TRUE, http_only |-> TRUE, same_site |-> "strict", domain |-> NoValue, name |-> "id",
     path |-> "/", always_save |-> FALSE, expiry |-> Never, store |-> Memory]

ReadSession(v) ==
    ReadStruct(v, SessionConfig,
        LAMBDA f, x : CASE f \in {"secure", "http_only", "always_save"} -> ReadFlag(x)
                        [] f \in {"name", "path"} -> ReadText(x)
                        [] f = "same_site" -> ReadWord(x, SameSites)
                        [] f = "domain"    -> ReadSome(x, ReadText)
                        [] f = "expiry"    -> ReadTime(x)
                        [] f = "store"     -> ReadSessionStore(x))

LiveReloadConfig == [enabled |-> FALSE]
MiddlewareConfig == [live_reload |-> LiveReloadConfig, session |-> SessionConfig]

ReadMiddlewares(v) ==
    ReadStruct(v, MiddlewareConfig,
        LAMBDA f, x : CASE f = "live_reload" -> ReadStruct(x, LiveReloadConfig, LAMBDA g, y : ReadFlag(y))
                        [] f = "session"     -> ReadSession(x))

Mechanisms == {"plain", "login", "xoauth2"}
Transports == [console |-> {}, smtp |-> {"url", "mechanism"}]

ReadTransport(v) ==
    ReadTagged(v, Transports, <<>>,
        LAMBDA f, x : CASE f = "url"       -> ReadUrl(x)
                        [] f = "mechanism" -> ReadWord(x, Mechanisms))

EmailConfig == [transport |-> [type |-> "console"]]

DatabaseConfig == [url |-> NoValue]

\* The builder, unlike a file, must be told a URL.
BuildDatabase(given) == IF "url" \in DOMAIN given THEN given ELSE Panicked

AuthBackends == [none |-> {}, database |-> {}]

-----------------------------------------------------------------------------
(* ProjectConfig                                                           *)

\* SecretKey: made of a text.
ReadKeys(v) ==
    IF v.is = "list" /\ \A i \in DOMAIN v.items : ReadText(v.items[i]) # Refused
    THEN [i \in DOMAIN v.items |-> ReadText(v.items[i])]
    ELSE Refused

ProjectConfig ==
    [debug |-> DebugBuild, register_panic_hook |-> TRUE, secret_key |-> "", fallback_secret_keys |-> <<>>,
     auth_backend |-> [type |-> "none"], database |-> DatabaseConfig, cache |-> CacheConfig,
     static_files |-> StaticFilesConfig, middlewares |-> MiddlewareConfig, email |-> EmailConfig,
     extra |-> <<>>]

DevDefault ==
    Build([debug |-> TRUE, register_panic_hook |-> TRUE, database |-> BuildDatabase([url |-> "sqlite::memory:"])],
          ProjectConfig)

ReadSetting(f, v) ==
    CASE f \in {"debug", "register_panic_hook"} -> ReadFlag(v)
      [] f = "secret_key"           -> ReadText(v)
      [] f = "fallback_secret_keys" -> ReadKeys(v)
      [] f = "auth_backend"         -> ReadTagged(v, AuthBackends, <<>>, LAMBDA g, x : Refused)
      [] f = "database"             -> ReadStruct(v, DatabaseConfig, LAMBDA g, x : ReadSome(x, ReadUrl))
      [] f = "cache"                -> ReadCache(v)
      [] f = "static_files"         -> ReadStaticFiles(v)
      [] f = "middlewares"          -> ReadMiddlewares(v)
      [] f = "email"                -> ReadStruct(v, EmailConfig, LAMBDA g, x : ReadTransport(x))

\* What it does not know the project may: it keeps it.
FromToml(file) ==
    LET known == DOMAIN file \intersect (DOMAIN ProjectConfig \ {"extra"})
        extra == Restrict(file, DOMAIN file \ known)
        read  == [f \in known |-> ReadSetting(f, file[f])]
    IN  IF Fails(read) THEN Refused
        ELSE [Build(read, ProjectConfig) EXCEPT !.extra = extra]

-----------------------------------------------------------------------------
(* Serialize                                                               *)

TextOf(texts, value) == Text(CHOOSE t \in DOMAIN texts : texts[t] = value)

WriteSome(x, Write(_)) == IF x = NoValue THEN Null ELSE Write(x)

\* humantime::serialize
WriteDuration(x) == WriteSome(x, LAMBDA seconds : TextOf(Durations, seconds))

\* session_expiry_time::serialize, cache_timeout::serialize
WriteTime(time) ==
    CASE time.until = "never" -> Null
      [] time.until = "after" -> WriteDuration(time.seconds)
      [] time.until = "date"  -> TextOf(Dates, time.date)

\* TOML leaves out what has no value.
WriteStruct(format, config, Write(_, _)) ==
    LET fields == [f \in DOMAIN config |-> Write(f, config[f])]
    IN  Table(Restrict(fields, {f \in DOMAIN config : format = "toml" => fields[f] # Null}))

\* A pool of the default size is not written.
WriteTagged(format, variant) ==
    WriteStruct(format, Restrict(variant, {f \in DOMAIN variant : ~(f = "pool_size" /\ variant[f] = DefaultPoolSize)}),
        LAMBDA f, x : IF f = "pool_size" THEN Number(x) ELSE Text(x))

WriteCache(format, cache) ==
    WriteStruct(format, cache,
        LAMBDA f, x : CASE f = "max_retries" -> Number(x)
                        [] f = "timeout"     -> WriteTime(x)
                        [] f = "prefix"      -> WriteSome(x, Text)
                        [] f = "store"       -> WriteTagged(format, x))

WriteStaticFiles(format, files) ==
    WriteStruct(format, files,
        LAMBDA f, x : IF f = "cache_timeout" THEN WriteDuration(x) ELSE Text(x))

WriteSession(format, session) ==
    WriteStruct(format, session,
        LAMBDA f, x : CASE f \in {"secure", "http_only", "always_save"} -> Flag(x)
                        [] f \in {"name", "path", "same_site"} -> Text(x)
                        [] f = "domain" -> WriteSome(x, Text)
                        [] f = "expiry" -> WriteTime(x)
                        [] f = "store"  -> WriteTagged(format, x))

-----------------------------------------------------------------------------
(* What the bootstrapper sets up                                           *)

\* init_database, in with_database.
DatabaseOf(url) ==
    IF url # NoValue /\ Urls[url] \notin {"sqlite", "postgresql", "mysql"} THEN Panicked ELSE url

\* Email::from_config, in with_config.
EmailOf(email) ==
    IF email.transport.type = "smtp" /\ Urls[email.transport.url] \notin {"smtp", "smtps"}
    THEN Panicked ELSE email.transport

\* Cache::from_config, in with_cache: there is no store in files yet.
CacheOf(cache) ==
    IF cache.store.type = "file" THEN Panicked
    ELSE IF cache.store.type = "redis" /\ Urls[cache.store.url] # "redis" THEN Refused
    ELSE [prefix |-> cache.prefix, timeout |-> cache.timeout, store |-> cache.store]

\* SessionMiddleware::config_to_session_store, in boot.
SessionStoreOf(store, database) ==
    IF \/ store.type = "database" /\ database = NoValue
       \/ store.type = "cache" /\ Urls[store.uri] # "redis"
    THEN Panicked ELSE store

\* Project::auth_backend, in boot.
AuthBackendOf(backend, database) ==
    IF backend.type = "database" /\ database = NoValue THEN Panicked ELSE backend.type

\* SessionMiddleware::new: the cookie of tower_sessions, until told otherwise.
NewSession(store) ==
    [secure |-> TRUE, http_only |-> TRUE, same_site |-> "strict", domain |-> NoValue, name |-> "id",
     path |-> "/", always_save |-> FALSE, expiry |-> Never, store |-> store]

\* SessionMiddleware::from_context
SessionOf(session, database) ==
    LET layer == [NewSession(SessionStoreOf(session.store, database)) EXCEPT
                    !.secure = session.secure, !.path = session.path, !.name = session.name,
                    !.http_only = session.http_only, !.always_save = session.always_save,
                    !.same_site = session.same_site, !.expiry = session.expiry]
    IN  IF session.domain = NoValue THEN layer ELSE [layer EXCEPT !.domain = session.domain]

\* What run_at_with_shutdown gets, if nothing fails before.
SetUp(settings) ==
    LET database == DatabaseOf(settings.database.url)
        email    == EmailOf(settings.email)
        cache    == CacheOf(settings.cache)
        session  == SessionOf(settings.middlewares.session, database)
        backend  == AuthBackendOf(settings.auth_backend, database)
        failed   == SelectSeq(<<email, database, cache, session.store, backend>>,
                              LAMBDA made : made \in {Refused, Panicked})
    IN  IF failed # <<>> THEN failed[1]
        ELSE [email |-> email, database |-> database, cache |-> cache, session |-> session,
              auth_backend |-> backend, live_reload |-> settings.middlewares.live_reload.enabled,
              debug |-> settings.debug, hook |-> settings.register_panic_hook,
              keys |-> <<settings.secret_key>> \o settings.fallback_secret_keys,
              static_files |-> settings.static_files]

-----------------------------------------------------------------------------
(* What this should mean                                                   *)

\* The value under a dotted key, Null if there is none.
Under(file, key) ==
    LET value[i \in 0 .. Len(key)] ==
            IF i = 0 THEN Table(file)
            ELSE IF value[i - 1].is = "table" /\ key[i] \in DOMAIN value[i - 1].fields
            THEN value[i - 1].fields[key[i]]
            ELSE Null
    IN  value[Len(key)]

\* What it says, or else the default given here, which is written a second time
\* for the property: it is the one that documentation and code agree on, but for
\* the authentication backend.
Said(file, key, default) ==
    LET v == Under(file, key)
    IN  CASE v.is = "null"   -> default
          [] v.is = "text"   -> v.text
          [] v.is = "flag"   -> v.flag
          [] v.is = "number" -> v.number

SaidTime(file, key, default) ==
    LET text == Said(file, key, "")
    IN  IF text \in DOMAIN Durations THEN After(Durations[text])
        ELSE IF text \in DOMAIN Dates THEN At(Dates[text])
        ELSE default

SaidCookie(file, attribute) ==
    LET key == <<"middlewares", "session", attribute>>
    IN  CASE attribute \in {"secure", "http_only"} -> Said(file, key, TRUE)
          [] attribute = "always_save" -> Said(file, key, FALSE)
          [] attribute = "same_site"   -> Said(file, key, "strict")
          [] attribute = "domain"      -> Said(file, key, NoValue)
          [] attribute = "name"        -> Said(file, key, "id")
          [] attribute = "path"        -> Said(file, key, "/")
          [] attribute = "expiry"      -> SaidTime(file, key, Never)

\* A store or transport is the one that is named, with what is said of it there.
IsSaid(variant, file, key, type) ==
    /\ variant.type = Said(file, Append(key, "type"), type)
    /\ \A f \in DOMAIN variant \ {"type"} :
          variant[f] = Said(file, Append(key, f), IF f = "pool_size" THEN 10 ELSE NoValue)

\* The keys in the order in which they stand in the file.
SaidKeys(file, key) ==
    LET v == Under(file, key)
    IN  IF v.is = "null" THEN <<>> ELSE [i \in DOMAIN v.items |-> v.items[i].text]

\* The documentation of ProjectConfig says that the database backend is the
\* default, the code has none: this follows the code.
UnsaidBackend == "none"

\* What is set up is what the file says.
IsSetUp(made, file) ==
    /\ \A a \in DOMAIN made.session \ {"store"} : made.session[a] = SaidCookie(file, a)
    /\ IsSaid(made.session.store, file, <<"middlewares", "session", "store">>, "memory")
    /\ IsSaid(made.cache.store, file, <<"cache", "store">>, "memory")
    /\ made.cache.prefix = Said(file, <<"cache", "prefix">>, NoValue)
    /\ made.cache.timeout = SaidTime(file, <<"cache", "timeout">>, After(300))
    /\ IsSaid(made.email, file, <<"email", "transport">>, "console")
    /\ made.auth_backend = Said(file, <<"auth_backend", "type">>, UnsaidBackend)
    /\ made.database = Said(file, <<"database", "url">>, NoValue)
    /\ made.keys = <<Said(file, <<"secret_key">>, "")>> \o SaidKeys(file, <<"fallback_secret_keys">>)
    /\ made.static_files.url = Said(file, <<"static_files", "url">>, "/static/")
    /\ made.static_files.rewrite = Said(file, <<"static_files", "rewrite">>, "none")
    /\ LET timeout == SaidTime(file, <<"static_files", "cache_timeout">>, Never)
       IN  made.static_files.cache_timeout = IF timeout = Never THEN NoValue ELSE timeout.seconds
    /\ made.live_reload = Said(file, <<"middlewares", "live_reload", "enabled">>, FALSE)
    /\ made.debug = Said(file, <<"debug">>, DebugBuild)
    /\ made.hook = Said(file, <<"register_panic_hook">>, TRUE)

\* A part that is written is read as it was.  A cache whose values never expire
\* cannot be written to TOML: without a value it is the default that is read.
ComesBack(settings) ==
    LET cache   == settings.cache
        session == settings.middlewares.session
    IN  \A format \in {"json", "toml"} :
          /\ ReadStaticFiles(WriteStaticFiles(format, settings.static_files)) = settings.static_files
          /\ ReadSession(WriteSession(format, session)) = session
          /\ ReadCache(WriteCache(format, cache)) =
                IF format = "toml" /\ cache.timeout = Never THEN [cache EXCEPT !.timeout = DefaultTimeout]
                ELSE cache

\* A file is refused, or no server starts with it, when this should be so and
\* only then; every setting comes to what it is about, under whatever table it
\* stands and whatever else is set; the parts of a configuration come back when
\* they are written, and so do those that only a program can make.
SettingsMeant ==
    /\ \A f \in Files :
          LET settings == FromToml(f.file)
              made     == SetUp(settings)
          IN  /\ f.reads = (settings # Refused)
              /\ f.reads =>
                    /\ f.starts = (made \notin {Refused, Panicked})
                    /\ f.starts => IsSetUp(made, f.file)
                    /\ ComesBack(settings)
                    /\ ComesBack([settings EXCEPT !.cache.timeout = Never])
    /\ SetUp(DevDefault) \notin {Refused, Panicked}

=============================================================================
