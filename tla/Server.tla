-------------------------------- MODULE Server --------------------------------
(***************************************************************************)
(* A server and the clients that browse it.  A request passes the trailing *)
(* slash middleware and the static files, in the order of the project      *)
(* template, and comes to the router; the function of its method is called *)
(* with its arguments, if they can be taken out of the request; a view     *)
(* answers, redirects to another view by its name, fails or panics; and a  *)
(* client that was redirected follows.  A client that has read the OpenAPI *)
(* document asks as that says.  Lifecycle says when this can happen.       *)
(***************************************************************************)
EXTENDS Lifecycle, OpenApi, Responses
LOCAL INSTANCE SequencesExt

CONSTANTS
    Trees,      \* the trees of routers that a project may register
    Asked,      \* Asked[c]: the methods and paths that client c asks for
    Static,     \* the configuration of the static files, and those of each app
    Sites,      \* configurations and files like these that a site may have
    Params,     \* the parameters that views reverse with
    Reader,     \* the client that has read the document
    Texts,      \* Texts[t]: the values of type t that clients of the API send, as texts
    Failures,   \* the errors that views return
    Answers,    \* the values that views return
    Durations, Dates, Urls, DebugBuild, Files   \* see Settings

Project == INSTANCE Settings

ASSUME TreesAssumption ==
    \A t \in Trees : \A n \in DOMAIN t : \A i \in DOMAIN t[n].urls : Accepted(t[n].urls[i].url)

VARIABLES
    tree,       \* the root router
    request     \* request[c]: what the request of c is about

vars == <<config, server, stage, tree, request>>

\* path: the path asked for, or where the client was redirected; found: what the
\* router has found; args: the arguments of the function; next: who told the
\* client to ask, a redirect of the middleware, one of a view, or the document;
\* wants: what that view has named, or what the client reads in the document;
\* failed: where an error comes from.
Blank == [path |-> <<>>, method |-> "GET", query |-> <<>>, body |-> [content |-> "none", fields |-> <<>>],
          found |-> NotFound, args |-> <<>>, next |-> "none", wants |-> <<>>,
          failed |-> "no"]

ServerInit ==
    /\ Init
    /\ tree = <<>>
    /\ request = [c \in Client |-> Blank]

Becomes(c, r) == request' = [request EXCEPT ![c] = r] /\ UNCHANGED tree

Start ==
    /\ Startup \/ Fail \/ Shutdown
    /\ tree' \in IF server'.at = "withApps" THEN Trees ELSE {tree}
    /\ UNCHANGED request

\* A client asks for a path, whatever it was told before.
Ask(c) ==
    /\ Arrive(c)
    /\ \E ask \in Asked[c] :
          Becomes(c, [Blank EXCEPT !.path = ask.path, !.method = ask.method])

\* What a client takes from a redirect: 303 asks for a GET, 308 for the same again.
Redirected(r, answer) ==
    [Blank EXCEPT !.path   = Named(answer.headers, "location")[1].value.path,
                  !.query  = Named(answer.headers, "location")[1].value.query,
                  !.method = IF answer.status = 303 THEN "GET" ELSE r.method]

\* It goes where it was redirected.
Follow(c) ==
    /\ request[c].next # "none"
    /\ Arrive(c)
    /\ Becomes(c, request[c])

\* The document that SwaggerUi serves.
Documents == [t \in Trees |-> Document(t)]

\* What a client may give for parameters: something for each that is required.
Given(parameters) ==
    LET named(names)   == {p \in parameters : p.name \in names}
        required       == {p.name : p \in {q \in parameters : ~q.type.optional}}
        Typed(given)   == \A p \in named(DOMAIN given) : given[p.name] \in Texts[p.type.of]
    IN  UNION { {given \in [names -> UNION Range(Texts)] : Typed(given)}
                : names \in {ns \in SUBSET {p.name : p \in parameters} : required \subseteq ns} }

\* A path of the document with its placeholders filled in.
Filled(url, given) ==
    FlattenSeq([i \in DOMAIN url |->
        IF \E name \in DOMAIN given : url[i] = "{" \o name \o "}"
        THEN given[CHOOSE name \in DOMAIN given : url[i] = "{" \o name \o "}"]
        ELSE <<url[i]>>])

\* A client asks for what the document describes, as it is described there.
AskAsDocumented(c) ==
    /\ Arrive(c)
    /\ c = Reader /\ tree \in Trees /\ Documents[tree] # Panicked
    /\ \E url \in DOMAIN Documents[tree] : \E method \in DOMAIN Documents[tree][url] :
          LET operation == Documents[tree][url][method] IN
          \E path   \in Given(operation.path),
             query  \in Given(operation.query),
             fields \in Given(Fields(operation.fields)) :
                /\ DOMAIN path = {p.name : p \in operation.path}
                /\ Filled(url, path) \in Path
                /\ Becomes(c, [Blank EXCEPT !.path = Filled(url, path), !.method = method, !.query = query,
                                   !.body = [content |-> operation.content, fields |-> fields],
                                   !.next = "document", !.wants = [url |-> url, given |-> path]])

-----------------------------------------------------------------------------
(* TrailingSlashMiddleware, StaticFilesMiddleware, Router                  *)

AllFiles == StaticFiles(Static.config, Static.apps)

\* The paths of static files.
IsFile(path) == StaticResponse(AllFiles, Static.config, path) # <<>>

WithSlash(path)     == Append(path, Slash)
EndsWithSlash(path) == path # <<>> /\ Last(path) = Slash

SlashMissing(r) ==
    /\ r.method \in ReadsOnly /\ ~EndsWithSlash(r.path)
    /\ ~HasRoute(tree, r.path)
    /\ HasRoute(tree, WithSlash(r.path))

AddSlash(c) ==
    /\ stage[c] = "arrived" /\ SlashMissing(request[c])
    /\ Answer(c)
    /\ LET r        == request[c]
           redirect == Response(308, <<[name  |-> "location",
                                        value |-> [path |-> WithSlash(r.path), query |-> r.query]]>>, EmptyBody)
       IN  Becomes(c, [Redirected(r, redirect) EXCEPT !.next = "slash"])

StaticFile(c) ==
    /\ stage[c] = "arrived" /\ ~SlashMissing(request[c])
    /\ IsFile(request[c].path)
    /\ Answer(c)
    /\ Becomes(c, Blank)

\* A request that the method router or an extractor refuses was found a view
\* all the same.
Route(c) ==
    LET r       == request[c]
        found   == GetHandler(tree, r.path)
        handler == Handler(tree[found.view[1]].urls[found.view[2]].view, r.method)
        args    == Arguments(handler.parts, r, found.params)
    IN
    /\ stage[c] = "arrived" /\ ~SlashMissing(r) /\ ~IsFile(r.path)
    /\ IF found = NotFound
       THEN Raise(c) /\ Becomes(c, [Blank EXCEPT !.failed = "routing"])
       ELSE IF handler = NotAllowed
       THEN Raise(c) /\ Becomes(c, [Blank EXCEPT !.found = found, !.failed = "method"])
       ELSE IF args = Refused
       THEN Raise(c) /\ Becomes(c, [Blank EXCEPT !.found = found, !.failed = "arguments"])
       ELSE Handle(c) /\ Becomes(c, [r EXCEPT !.found = found, !.args = args])

-----------------------------------------------------------------------------
(* The view, and what becomes of its errors                                *)

Respond(c) ==
    /\ stage[c] = "handler"
    /\ Answer(c)
    /\ Becomes(c, Blank)

\* Redirect::new, answered.
SeeOther(location) == IntoResponse([of |-> "redirect", status |-> 303, location |-> location, with |-> <<>>]).response

\* reverse_redirect!: a view of the same app, or of one that is named.
ReverseRedirect(c) ==
    /\ stage[c] = "handler"
    /\ \E name \in Names(tree),
          app \in {tree[n].app : n \in DOMAIN tree},
          params \in Params :
          LET asked == IF app = NoName THEN request[c].found.app ELSE app
              url   == ReverseUrl(tree, asked, name, params)
          IN  IF url \in {NoMatch, Missing}
              THEN Raise(c) /\ Becomes(c, [Blank EXCEPT !.failed = "reversing"])
              ELSE /\ Answer(c)
                   /\ Becomes(c, [Redirected(request[c], SeeOther([path |-> url, query |-> <<>>]))
                                     EXCEPT !.next = "view",
                                     !.wants = [app |-> asked, name |-> name, params |-> params]])

\* An error or a panic.
ViewFails(c) ==
    /\ stage[c] = "handler"
    /\ Raise(c)
    /\ Becomes(c, [Blank EXCEPT !.failed = "view"])

\* What the function that answers errors is given.
Failed(r) ==
    CASE r.failed = "routing"   -> {ErrorReturned(NotFoundError("fromRouter"))}
      [] r.failed = "method"    -> {ErrorReturned(Of(405))}
      [] r.failed = "arguments" -> {ErrorReturned(Of(400))}
      [] r.failed = "reversing" -> {ErrorReturned(Of(500))}
      [] r.failed = "view"      -> {ErrorReturned(e) : e \in Failures} \union {Panicking}

\* The page with the diagnostics, that of the error handler, or the default
\* page when the error handler is not ready or fails itself.
ErrorPage(c) ==
    /\ stage[c] = "error"
    /\ Answer(c)
    /\ Becomes(c, Blank)

\* The error handler panics, unless the page with the diagnostics is shown.
ErrorHandlerPanics(c) ==
    /\ stage[c] = "error"
    /\ Drop(c)
    /\ Becomes(c, Blank)

Disconnect(c) ==
    /\ Drop(c)
    /\ Becomes(c, Blank)

Step(c) ==
    \/ AddSlash(c) \/ StaticFile(c) \/ Route(c)
    \/ Respond(c) \/ ReverseRedirect(c) \/ ViewFails(c)
    \/ ErrorPage(c) \/ ErrorHandlerPanics(c)

Next ==
    \/ Start
    \/ \E c \in Client : Ask(c) \/ AskAsDocumented(c) \/ Follow(c) \/ Step(c) \/ Disconnect(c)

Spec == ServerInit /\ [][Next]_vars /\ Fairness

-----------------------------------------------------------------------------
(* Properties                                                              *)

\* The shapes of the server and of the requests: a view was found before its function is called.
TypeOK ==
    /\ LifecycleTypeOK
    /\ tree \in Trees \union {<<>>}
    /\ \A c \in Client :
          /\ request[c].path \in Path
          /\ request[c].next \in {"none", "slash", "view", "document"}
          /\ request[c].method \in Method
          /\ stage[c] = "handler" => request[c].found # NotFound
          /\ request[c].found # NotFound => stage[c] \in {"handler", "error"}
          /\ request[c].failed # "no" <=> stage[c] = "error"
          /\ stage[c] = "error" => request[c] = [Blank EXCEPT !.found = request[c].found, !.failed = request[c].failed]

\* All views of a tree with their whole patterns, in the order of the routes.
ViewsOf ==
    [t \in Trees |->
        LET under[n \in DOMAIN t] ==
                LET of(i) ==
                        LET route == t[n].urls[i]
                            inner == under[route.router]
                        IN  IF route.router = 0
                            THEN <<[parts |-> route.url, view |-> <<n, i>>, app |-> t[n].app, name |-> route.name,
                                    handles |-> route.view]>>
                            ELSE [j \in DOMAIN inner |->
                                    [inner[j] EXCEPT !.parts = route.url \o @,
                                                     !.app   = IF @ = NoName THEN t[n].app ELSE @]]
                IN  FlattenSeq([i \in DOMAIN t[n].urls |-> of(i)])
        IN  under[1]]

Views == ViewsOf[tree]

\* The paths of a view, said the other way round: cut into as many pieces as
\* the pattern has parts, each piece fits its part, a parameter's being a whole
\* segment and a wildcard's all the rest.  ends[i] is where piece i ends.
Fits(parts, path, ends) ==
    LET from(i) == IF i = 1 THEN 1 ELSE ends[i - 1] + 1
        piece(i) == SubSeq(path, from(i), ends[i])
    IN
    /\ \A i \in DOMAIN parts :
          /\ from(i) <= ends[i]
          /\ CASE parts[i].kind = "literal"  -> piece(i) = parts[i].text
               [] parts[i].kind = "param"    -> /\ \A k \in from(i) .. ends[i] : path[k] # Slash
                                                /\ ends[i] = Len(path) \/ path[ends[i] + 1] = Slash
               [] parts[i].kind = "wildcard" -> ends[i] = Len(path)
    /\ IF parts = <<>> THEN path = <<>> ELSE ends[Len(parts)] = Len(path)

Cuts(parts, path) == {ends \in [DOMAIN parts -> 1 .. Len(path)] : Fits(parts, path, ends)}

\* The value of each parameter, the innermost if a name is there twice.
Values(parts, path) ==
    LET ends == CHOOSE e \in Cuts(parts, path) : TRUE
        at   == [name \in {parts[i].name : i \in {j \in DOMAIN parts : parts[j].kind # "literal"}} |->
                    CHOOSE i \in DOMAIN parts :
                        /\ parts[i].kind # "literal" /\ parts[i].name = name
                        /\ \A j \in i + 1 .. Len(parts) : parts[j].kind = "literal" \/ parts[j].name # name]
    IN  [name \in DOMAIN at |->
            SubSeq(path, IF at[name] = 1 THEN 1 ELSE ends[at[name] - 1] + 1, ends[at[name]])]

Fitting(path) == {i \in DOMAIN Views : Cuts(Views[i].parts, path) # {}}

\* A path is given to the first view it fits, however the routers are nested,
\* with its parameters and its app, and to none only if it fits none.
RoutesToFirst ==
    TypeOK /\ \A c \in Client :
        LET r == request[c]
            v == Views[First(Fitting(r.path))]
        IN  /\ stage[c] \in {"arrived", "handler"} => (HasRoute(tree, r.path) <=> Fitting(r.path) # {})
            /\ stage[c] = "handler" =>
                  /\ r.found.view = v.view /\ r.found.app = v.app
                  /\ ByName(PathParams(r.found.params)) = Values(v.parts, r.path)

\* A redirect leads where it was meant to: to a view with the name and the app
\* that were asked for, with the parameters that were given, unless an earlier
\* route has the same path; and from a path without a slash to a view.  That
\* the view takes them is another matter.
RedirectsLead ==
    [][\A c \in Client :
        stage[c] = "arrived" /\ request[c].next \in {"slash", "view"} /\ Step(c) =>
            LET r == request[c]' IN
            \/ IsFile(request[c].path)
            \/ /\ r.found # NotFound
               /\ request[c].next = "view" =>
                     \E i \in DOMAIN Views :
                        /\ Views[i].name = request[c].wants.name
                        /\ request[c].wants.app \in {NoName, Views[i].app}
                        /\ \/ \E j \in 1 .. i - 1 : r.found.view = Views[j].view
                           \/ /\ r.found.view = Views[i].view
                              /\ LET got == ByName(PathParams(r.found.params)) IN
                                 \A name \in DOMAIN got : got[name] = request[c].wants.params[name]]_vars

\* What an argument has to be, said by the names that the client has read.
AsGiven(part, arg, names, r) ==
    LET value(type, texts, name) ==
            IF name \in DOMAIN texts THEN Deserialized(type, texts[name]) ELSE NoValue
    IN
    CASE part.from = "path" /\ part.type.shape = "single" -> arg = value(part.type.type, r.wants.given, names[1])
      [] part.from = "path" /\ part.type.shape = "tuple"  ->
            /\ DOMAIN arg = DOMAIN names
            /\ \A i \in DOMAIN names : arg[i] = value(part.type.types[i], r.wants.given, names[i])
      [] part.from = "path" /\ part.type.shape = "struct" ->
            \A f \in Range(names) : arg[f] = value(part.type.fields[f], r.wants.given, f)
      [] part.from = "query" -> \A f \in DOMAIN part.type : arg[f] = value(part.type[f], r.query, f)
      [] part.from = "json"  -> \A f \in DOMAIN part.type : arg[f] = value(part.type[f], r.body.fields, f)
      [] part.from = "form"  -> arg = (IF r.body.content # "none" THEN r.body.fields ELSE r.query)
      [] OTHER -> TRUE

\* The document keeps its word: a request that is made as it says comes to the
\* function it describes, and every argument is what was given under the names
\* that the document has; unless another route with that path or an earlier one
\* that fits has it.
DocumentHolds ==
    [][\A c \in Client :
        stage[c] = "arrived" /\ request[c].next = "document" /\ Step(c) =>
            LET r    == request[c]
                got  == request[c]'
                last == CHOOSE i \in DOMAIN Views :
                            /\ Views[i].handles.kind = "api" /\ Shown(Views[i].parts) = r.wants.url
                            /\ \A j \in i + 1 .. Len(Views) :
                                  Views[j].handles.kind = "api" => Shown(Views[j].parts) # r.wants.url
                v    == Views[last]
            IN
            \/ IsFile(r.path)
            \/ \E j \in 1 .. last - 1 : got.found.view = Views[j].view
            \/ /\ stage'[c] = "handler" /\ got.found.view = v.view
               /\ \A i \in DOMAIN got.args :
                     AsGiven(v.handles.own[r.method].parts[i], got.args[i], ParamNames(v.parts), r)]_vars

-----------------------------------------------------------------------------
(* What is meant by an answer                                              *)

\* The last of what was said of a kind, or else what the value is.
LastSaid(v, say, field, otherwise) ==
    LET said == SelectSeq(v.with, LAMBDA w : w.say = say)
    IN  IF said = <<>> THEN otherwise ELSE Last(said)[field]

\* What a client reads of a body is all of it, of the size it was told, unless
\* the stream breaks.
BodyMeant(body) ==
    LET meant == IF body.kind = "fixed" THEN body.data ELSE FlattenSeq(body.parts)
        read  == IntoBytes(body, Len(meant))
    IN  /\ read.ok <=> <<Broken>> \notin (IF body.kind = "fixed" THEN {} ELSE Range(body.parts))
        /\ read.ok => read.bytes = meant
        /\ \A n \in DOMAIN Left(body) :
              LET left == Left(body)[n] IN
              /\ IsEndStream(left) => n = 1 /\ meant = <<>>
              /\ SizeHint(left) # <<>> => SizeHint(left)[1] = Len(FlattenSeq(SubSeq(Frames(left), n, Len(Frames(left)))))

AnswerMeant(v) ==
    LET first  == IntoResponse([v EXCEPT !.with = <<>>])
        answer == IntoResponse(v)
    IN  IF ~first.ok THEN answer = first
        ELSE /\ answer.response.status = LastSaid(v, "status", "status", first.response.status)
             /\ answer.response.body   = LastSaid(v, "body", "body", first.response.body)
             /\ BodyMeant(answer.response.body)
             /\ \A i \in DOMAIN v.with :
                   /\ v.with[i].say = "contentType"
                   /\ \A j \in i + 1 .. Len(v.with) : v.with[j].say \notin {"contentType", "header"}
                   => Named(answer.response.headers, ContentType) = <<v.with[i].header>>

AnswersAreMeant == \A v \in Answers : AnswerMeant(v)

\* The status that the outermost error with a status has, and all others along the chain.
Statuses(e) == SelectSeq([i \in DOMAIN e |-> e[i].status], LAMBDA s : s # NoStatus)

StatusSaid(failure) ==
    IF failure.of = "panic" \/ Statuses(failure.error) = <<>> THEN 500 ELSE Statuses(failure.error)[1]

Destuttered(s) == [k \in 1 .. Cardinality({i \in DOMAIN s : i = 1 \/ s[i] # s[i - 1]}) |->
                      s[CHOOSE i \in DOMAIN s :
                            /\ i = 1 \/ s[i] # s[i - 1]
                            /\ Cardinality({j \in 1 .. i : j = 1 \/ s[j] # s[j - 1]}) = k]]

\* The places in e of everything that has words of its own.
Spoken(e) == SelectSeq([i \in DOMAIN e |-> i], LAMBDA i : e[i].kind \notin SeeThrough \union {"withStatus"})

PageMeant(failure, debug, accept, handler) ==
    LET page  == ErrorPageOf(failure, debug, accept, handler)
        said  == StatusSaid(failure)
        diagnostics == debug /\ AcceptsHtml(accept)
    IN
    /\ page.body.data = <<"diagnostics">> <=> diagnostics
    /\ Len(Named(page.headers, ContentType)) <= 1
    /\ diagnostics => page.status = (IF said = 404 THEN 404 ELSE 500)
    /\ ~diagnostics =>
          CASE handler = "default" -> page.status = said
            [] handler = "requestError" -> \/ page.status = said
                                           \/ Len(Statuses(failure.error)) > 1 /\ page.status = Statuses(failure.error)[2]
            [] handler = "noStatus" -> page.status = 200
            [] OTHER -> page.status = 500

Accepts == { <<>>, <<[type |-> "text/html"]>>, <<[type |-> "invalid"], [type |-> "other"]>>,
             <<[type |-> "other"], [type |-> "text/html"]>> }

PagesMeant(failure) ==
    /\ \A debug \in BOOLEAN, accept \in Accepts,
          handler \in ErrorHandler :
             PageMeant(failure, debug, accept, handler)
    /\ failure.of = "error" /\ StatusSaid(failure) # 404 =>
          Destuttered(ErrorData(failure.error)) = Spoken(failure.error)

ViewFailuresMeant == \A failure \in Failed([Blank EXCEPT !.failed = "view"]) : PagesMeant(failure)

\* The page with the diagnostics lists every view, with its whole pattern.
RoutesListed ==
    \A t \in Trees :
        LET views == SelectSeq(RouteData(t), LAMBDA row : row.kind = "View")
        IN  [i \in DOMAIN views |-> views[i].path] = [i \in DOMAIN ViewsOf[t] |-> ViewsOf[t][i].parts]

\* Static files.  A link to a file leads to it, whatever rewriting and caching
\* are configured, and to the one of the last app that has it, which is also the
\* one that is collected; where links are rewritten and answers are kept, no
\* link of another version of the site, or of the same, is that of another content.
FilesMeant(site) ==
    LET files == StaticFiles(site.config, site.apps)
        given == FlattenSeq(site.apps)
        collected == CollectInto(files)
    IN
    \A i \in DOMAIN given :
        LET last   == given[CHOOSE k \in DOMAIN given :
                            /\ given[k].path = given[i].path
                            /\ \A j \in k + 1 .. Len(given) : given[j].path # given[k].path]
            link   == UrlFor(files, last.path).url
            answer == StaticResponse(files, site.config, link.path)
        IN  /\ answer # <<>> /\ answer[1].body.data = last.content
            /\ Len(Named(answer[1].headers, "cache-control")) = Len(site.config.timeout)
            /\ collected.ok => collected.written[last.path] = last.content
            /\ site.config.rewrite = "queryParam" =>
                  \A other \in {s \in Sites : s.config = site.config} :
                     LET theirs == StaticFiles(other.config, other.apps) IN
                     \A path \in DOMAIN theirs :
                        UrlFor(theirs, path).url = link => theirs[path].content = last.content

SitesMeant == \A site \in Sites : FilesMeant(site)

\* What a client is shown is what was meant.  A view's response has what was
\* said of it last, its body reads as what it was made of, and an error is not
\* made a success by what is said of it.  An error comes with the status of the
\* outermost error that has one, however it is wrapped, and a panic with 500;
\* an error handler that asks a RequestError gets that status or, where its
\* cause has one of its own, that of the cause; the diagnostics, shown for
\* debugging only, know 404 and 500 alone, and leave out no words and no view.
\* A link to a static file leads to its content, as long as the link is good.
AnswersMeant ==
    \A c \in Client :
        /\ stage[c] = "handler" => AnswersAreMeant /\ SitesMeant
        /\ stage[c] = "error" =>
              /\ RoutesListed
              /\ IF request[c].failed = "view" THEN ViewFailuresMeant
                 ELSE \A failure \in Failed(request[c]) : PagesMeant(failure)

\* Whoever writes the file that a server is configured with: it comes as far as
\* the file lets it, and is set up as the file says.
SettingsMeant == server.at = "withConfig" => Project!SettingsMeant

=============================================================================
