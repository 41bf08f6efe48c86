------------------------------- MODULE MCServer -------------------------------
(* Two apps, whose patterns overlap, and the paths of a few characters.    *)
EXTENDS Server, TLC
LOCAL Seqs == INSTANCE SequencesExt

CONSTANTS
    Rover,      \* the client that tries all paths
    MaxRest     \* bound on the length of paths, without the slash they begin with

L(text) == Literal(text)

Page == Plain(Function(<<Others>>))

\* Routers of an app with views only, and one that nests another.
Fallback ==
    << ToView(<<L(<<Slash, "b", Slash>>)>>, Page, "index"), ToView(<<L(<<Slash>>), Wildcard("w")>>, Page, "rest") >>

Flat ==
    { << ToView(<<L(<<"b">>)>>, Page, "item"), ToView(<<L(<<Slash>>), Param("x")>>, Page, "item") >>,
      << ToView(<<L(<<Slash>>), Param("x"), L(<<Slash>>)>>, Page, "item"), ToView(<<L(<<Slash, "b">>)>>, Page, "index") >>,
      Fallback }

Nesting ==
    << ToRouter(<<Param("x")>>, 4), ToView(<<L(<<Slash, "a", Slash>>), Param("y")>>, Page, "item") >>

Nested ==
    { << ToView(<<>>, Page, "index") >>,
      << ToView(<<L(<<Slash>>), Param("x"), L(<<Slash>>)>>, Page, "item"), ToView(<<L(<<Slash>>)>>, Page, "index") >> }

Prefixes == { <<>>, <<L(<<"a", Slash>>), Param("y")>> }

\* The second app is an app of views under a prefix, or nests a router.
SmallTrees ==
    { Registered(<<p, <<>>>>, << [app |-> "A", urls |-> a], [app |-> "B", urls |-> b] >>)
        : p \in Prefixes, <<a, b>> \in {f \in Flat \X Flat : f[1] # f[2]} }
    \union
    { Registered(<<p, <<>>>>, << [app |-> "A", urls |-> Fallback], [app |-> "B", urls |-> Nesting],
                                 [app |-> NoName, urls |-> n] >>)
        : p \in Prefixes, n \in Nested }

-----------------------------------------------------------------------------
(* Apps with an API                                                        *)

Text     == [of |-> "string", optional |-> FALSE]
Integer  == [of |-> "integer", optional |-> FALSE]
Enum     == [of |-> "enum", optional |-> FALSE]
Maybe(t) == [t EXCEPT !.optional = TRUE]

Tuple(types)   == PathOf([shape |-> "tuple", types |-> types])
Fielded(types) == PathOf([shape |-> "struct", fields |-> types])
Single(t)      == PathOf([shape |-> "single", type |-> t])

Filter == UrlQuery([q |-> Maybe(Integer), s |-> Text])
Entry  == [f |-> Integer, g |-> Maybe(Text)]

\* The functions of a path with the two parameters x and y.
PairApi(path) ==
    ApiMethodRouter([GET |-> Function(<<path, Filter>>), POST |-> Function(<<Others, path, Json(Entry)>>)],
                    NotAllowed)

\* Those of a path with the parameter x: a form of each kind, functions that the
\* document leaves out, and a fallback.
OneApi ==
    ApiMethodRouter([GET |-> Function(<<Single(Integer)>>), HEAD |-> Function(<<Single(Text), RequestForm(Entry)>>),
                     POST |-> Function(<<Single(Text), RequestForm(Entry), NoApi(UrlQuery([q |-> Maybe(Integer)]))>>),
                     CONNECT |-> Function(<<Others>>)],
                    Function(<<Others>>))

Secret == ApiMethodRouter([GET |-> NoApiHandler(Function(<<Others>>)), POST |-> Function(<<Single(Enum)>>)], NotAllowed)

NoGet == MethodRouter([POST |-> Function(<<RequestForm(Entry)>>)], NotAllowed)

\* A table that nobody described may have the path first; of two tables with
\* one path the last is described.
ApiApps ==
    { << ToView(<<L(<<Slash>>), Param("x"), L(<<Slash>>), Param("y")>>, PairApi(path), "item"),
         ToView(<<L(<<Slash>>), Param("x")>>, OneApi, "index") >>
        : path \in {Tuple(<<Integer, Text>>), Fielded([y |-> Enum, x |-> Integer])} }
    \union
    { << ToView(<<L(<<Slash, "b">>)>>, NoGet, "index"),
         ToView(<<L(<<Slash>>), Param("x")>>, view, "item"),
         ToView(<<L(<<Slash>>), Param("x")>>, OneApi, "item") >> : view \in {NoGet, Secret} }

ApiTrees ==
    { Registered(<< <<>> >>, << [app |-> "A", urls |-> urls] >>) : urls \in ApiApps }
    \union
    { Registered(<< <<L(<<Slash>>), Param("y")>> >>,
                 << [app |-> "A",
                     urls |-> << ToView(<<L(<<Slash>>), Param("x")>>, PairApi(Tuple(<<Text, Integer>>)), "item"),
                                 ToView(<<>>, Secret, "index") >>] >>) }

AllTrees == SmallTrees \union ApiTrees

SmallVariants == {<<"a">>}

SmallTexts == [string |-> {<<"a">>, <<"b">>}, integer |-> {<<"b">>}, enum |-> SmallVariants]

-----------------------------------------------------------------------------

\* One client asks for everything with GET, and for the short paths with the
\* other methods; the others ask for one page.
SmallAsked ==
    [c \in Client |->
        IF c # Rover THEN {[path |-> <<Slash>>, method |-> "GET"]}
        ELSE [path : {<<Slash>> \o p : p \in UNION {[1 .. n -> Char] : n \in 0 .. MaxRest}}, method : {"GET"}]
             \union [path : {<<Slash>>, <<Slash, "b">>}, method : Method]]

-----------------------------------------------------------------------------
(* What views answer                                                       *)

\* Errors of up to four layers; a NotFound may be inside of others.
Around(e) ==
    {Wrap(e), Node("foreign") \o e, Node("transparent") \o e} \union {WithStatus(e, s) : s \in {404, 403, 500}}

Layers(n) ==
    LET within[i \in Nat] ==
            IF i = 0 THEN {Node("leaf")} \union {NotFoundError(k) : k \in {"fromRouter", "custom", "withMessage"}}
            ELSE within[i - 1] \union UNION {Around(e) : e \in within[i - 1]}
    IN  within[n]

SmallFailures == {e \in Layers(3) : e[1].kind = "error"}

Bodies == {EmptyBody, FixedBody(<<1, 2>>), Streaming(<<>>), Streaming(<< <<1>>, <<>>, <<2>> >>),
           Streaming(<< <<1>>, <<Broken>> >>)}

FirstValues ==
    [of : {"unit"}] \union [of : {"text", "bytes", "html"}, data : {<<>>, <<1, 2>>}]
    \union [of : {"json"}, data : {<<1>>}, serializes : BOOLEAN] \union [of : {"body"}, body : Bodies]
    \union [of : {"statusCode"}, status : {201}] \union [of : {"headers"}, headers : {<<[name |-> "x", value |-> "1"]>>}]
    \union [of : {"head"}, status : {204}, headers : {<<>>}] \union [of : {"error"}, error : {Of(400)}]
    \union [of : {"redirect"}, status : {s \in {303, 307, 308, 200} : CanRedirect(s)}, location : {"x"}]

Sayings ==
    {SayStatus(201), SayStatus(404), SayContentType("text/x"), [say |-> "body", body |-> FixedBody(<<3>>)],
     [say |-> "header", valid |-> TRUE, header |-> [name |-> ContentType, value |-> "text/y"]],
     [say |-> "header", valid |-> FALSE], [say |-> "extension", extension |-> "e"]}

SmallAnswers ==
    LET values == {[of |-> "response", response |-> r] : r \in {Response(200, <<>>, b) : b \in Bodies}} \union FirstValues
        saying == UNION {[1 .. n -> Sayings] : n \in 0 .. 2}
    IN  {[f \in DOMAIN v \union {"with"} |-> IF f = "with" THEN said ELSE v[f]] : <<v, said>> \in values \X saying}

AppFile(path, content) == [path |-> path, content |-> content]

SmallConfig == [url |-> <<Slash, "b">>, rewrite |-> "none", timeout |-> <<>>]

SmallStatic == [config |-> SmallConfig, apps |-> << <<AppFile(<<Slash, "a">>, <<1>>)>> >>]

\* Two apps with up to two files each, which may have a path in common.
SmallSites ==
    LET files == {AppFile(p, c) : p \in {<<"a">>, <<"a", Slash, "b">>, <<"b">>}, c \in {<<1>>, <<2>>}}
        some  == {<<>>} \union {<<f>> : f \in files} \union {<<f, g>> : f, g \in {h \in files : h.content = <<2>>}}
    IN  [config : [url : {<<Slash, "b", Slash>>}, rewrite : {"none", "queryParam"}, timeout : {<<>>, <<7>>}],
         apps : {<<one, two>> : one \in {<<f>> : f \in files}, two \in some}]

SmallGuessed == (<<"b">> :> "text/css")

SmallParams ==
    { [x |-> <<"a">>, y |-> <<"b">>], [x |-> <<"b">>], [w |-> <<"a", Slash, "b">>] }

-----------------------------------------------------------------------------
(* Files that configure a project                                          *)

SmallDurations == ("1h" :> 3600 @@ "5min" :> 300)
SmallDates     == ("2025-12-31T23:59:59+00:00" :> "new year")

SmallUrls ==
    ("sqlite::memory:" :> "sqlite" @@ "postgresql://p" :> "postgresql" @@ "postgres://p" :> "postgres"
     @@ "redis://r" :> "redis" @@ "http://h" :> "http" @@ "smtps://s" :> "smtps")

Line(key, value) == [key |-> key, value |-> value]
Says(key, text)  == Line(key, Project!Text(text))
Holds(key, flag) == Line(key, Project!Flag(flag))
Counts(key, n)   == Line(key, Project!Number(n))

Cookie(attribute) == <<"middlewares", "session", attribute>>
Stored(attribute) == <<"middlewares", "session", "store", attribute>>
Cached(attribute) == <<"cache", "store", attribute>>
Sent(attribute)   == <<"email", "transport", attribute>>

\* What a file may say: with each of these a server starts.
Sound ==
    { {Holds(<<"debug">>, TRUE)}, {Holds(<<"register_panic_hook">>, FALSE)}, {Says(<<"secret_key">>, "k")},
      {Line(<<"fallback_secret_keys">>, Project!List(<<Project!Text("j"), Project!Text("i")>>))},
      {Says(<<"auth_backend", "type">>, "none")},
      {Counts(<<"cache", "max_retries">>, 5)}, {Says(<<"cache", "timeout">>, "1h")},
      {Says(<<"cache", "timeout">>, "2025-12-31T23:59:59+00:00")}, {Says(<<"cache", "prefix">>, "p")},
      {Says(Cached("type"), "redis"), Says(Cached("url"), "redis://r")},
      {Says(Cached("type"), "redis"), Says(Cached("url"), "redis://r"), Counts(Cached("pool_size"), 20)},
      {Says(<<"static_files", "url">>, "/assets/")}, {Says(<<"static_files", "rewrite">>, "query_param")},
      {Says(<<"static_files", "cache_timeout">>, "1h")},
      {Holds(<<"middlewares", "live_reload", "enabled">>, TRUE)},
      {Holds(Cookie("secure"), FALSE)}, {Holds(Cookie("http_only"), FALSE)}, {Holds(Cookie("always_save"), TRUE)},
      {Says(Cookie("same_site"), "lax")}, {Says(Cookie("domain"), "d")}, {Says(Cookie("path"), "/p")},
      {Says(Cookie("name"), "n")}, {Says(Cookie("expiry"), "5min")},
      {Says(Cookie("expiry"), "2025-12-31T23:59:59+00:00")},
      {Says(Stored("type"), "file"), Says(Stored("path"), "/s")},
      {Says(Stored("type"), "cache"), Says(Stored("uri"), "redis://r")},
      {Says(Sent("type"), "smtp"), Says(Sent("url"), "smtps://s"), Says(Sent("mechanism"), "login")},
      {Says(<<"mine", "foo">>, "bar")}, {Says(<<"session", "expiry">>, "1h")},
      {Says(<<"email", "type">>, "smtp"), Says(<<"email", "url">>, "smtps://s")} }

WithDatabases == {{Says(<<"database", "url">>, url)} : url \in {"sqlite::memory:", "postgresql://p"}}

\* With each of these it starts where there is a database.
ForDatabase == { {Says(<<"auth_backend", "type">>, "database")}, {Says(Stored("type"), "database")} }

\* With these it does not start.
Unsound ==
    { {Says(<<"database", "url">>, "postgres://p")},
      {Says(Cached("type"), "file"), Says(Cached("path"), "/c")},
      {Says(Cached("type"), "redis"), Says(Cached("url"), "http://h")},
      {Says(Stored("type"), "cache"), Says(Stored("uri"), "http://h")},
      {Says(Sent("type"), "smtp"), Says(Sent("url"), "http://h"), Says(Sent("mechanism"), "plain")} }

\* These cannot be read: a value of another type, a word that nobody knows, a
\* field that is missing.
Unreadable ==
    { {Says(<<"debug">>, "true")}, {Holds(<<"secret_key">>, TRUE)}, {Holds(<<"cache">>, TRUE)},
      {Line(<<"fallback_secret_keys">>, Project!List(<<Project!Number(1)>>))},
      {Says(<<"auth_backend", "type">>, "ldap")}, {Counts(<<"cache", "max_retries">>, -1)},
      {Says(<<"database", "url">>, "nowhere")}, {Says(<<"cache", "timeout">>, "soon")},
      {Says(Cached("type"), "redis")}, {Says(Cached("path"), "/c")}, {Says(Cookie("same_site"), "Lax")},
      {Says(Cookie("expiry"), "soon")}, {Says(Sent("type"), "smtp"), Says(Sent("url"), "smtps://s")} }

RECURSIVE Tree(_)
Tree(lines) ==
    [k \in {l.key[1] : l \in lines} |->
        LET of == {l \in lines : l.key[1] = k}
        IN  IF \E l \in of : Len(l.key) = 1 THEN (CHOOSE l \in of : TRUE).value
            ELSE Project!Table(Tree({[l EXCEPT !.key = Tail(@)] : l \in of}))]

\* What a part is about: settings, or a whole store or transport.
About(part) ==
    {IF Len(l.key) > 1 /\ l.key[Len(l.key) - 1] \in {"store", "transport"} THEN Seqs!Front(l.key) ELSE l.key : l \in part}

Apart(one, two) == \A k \in About(one), l \in About(two) : ~Seqs!IsPrefix(k, l) /\ ~Seqs!IsPrefix(l, k)

SmallFiles ==
    LET parts == Sound \union WithDatabases \union ForDatabase \union Unsound \union Unreadable
        pairs == {{}} \union {{p} : p \in parts}
                 \union {{r[1], r[2]} : r \in {r \in parts \X parts : Apart(r[1], r[2])}}
    IN  {[file   |-> Tree(UNION p),
          reads  |-> p \intersect Unreadable = {},
          starts |-> /\ p \intersect (Unsound \union Unreadable) = {}
                     /\ p \intersect ForDatabase # {} => p \intersect WithDatabases # {}] : p \in pairs}

=============================================================================
