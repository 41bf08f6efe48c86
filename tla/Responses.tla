------------------------------ MODULE Responses -------------------------------
(***************************************************************************)
(* What a client is answered: the responses of views, errors, and what is  *)
(* shown when a request fails or panics.                                   *)
(*                                                                         *)
(* cot::Error: an error around another one, perhaps with a status code.    *)
(*                                                                         *)
(* An error is the sequence of what is boxed in one another, the outermost *)
(* first; the last one has nothing inside.  Its kinds:                     *)
(*   error        cot::Error, whose words and source are those of what it  *)
(*                boxes                                                     *)
(*   withStatus   WithStatusCode, whose words are those of its error       *)
(*   transparent  an error of the program that is #[error(transparent)]    *)
(*   foreign      one that has words of its own and a #[source]            *)
(*   notFound     NotFound, transparent to its Kind                         *)
(*   leaf, fromRouter, custom, withMessage   one without a source, and the *)
(*                three kinds of NotFound                                   *)
(*                                                                         *)
(* What views answer.  A view returns a value of some type, of which more  *)
(* may be said with the methods with_status, with_header, and so on, one   *)
(* after another; IntoResponse makes a response of it, or an error.  The   *)
(* body of a response is asked for its frames until there are no more.     *)
(***************************************************************************)
EXTENDS Integers, Sequences, FiniteSets, Functions
LOCAL INSTANCE SequencesExt

CONSTANTS
    NoStatus,   \* None for a status code
    Broken,     \* the error of a stream
    Separator,  \* what is between the names of a path
    Guessed     \* the media types of the paths of files that have one

-----------------------------------------------------------------------------
(* cot::Error                                                              *)

Node(kind)     == <<[kind |-> kind, status |-> NoStatus]>>
CotError(s)    == <<[kind |-> "error", status |-> s]>>

Wrap(e)          == CotError(NoStatus) \o e
WithStatus(e, s) == Wrap(Node("withStatus") \o CotError(s) \o e)
Internal(e)      == WithStatus(e, 500)

\* impl_into_cot_error!, for an error without a source.
Of(status) == WithStatus(Node("leaf"), status)

\* NotFound::router, NotFound::new, NotFound::with_message
NotFoundError(kind) == WithStatus(Node("notFound") \o Node(kind), 404)

\* UncaughtPanic
UncaughtPanic == Of(500)

IsWrapper(node) == node.status = NoStatus

\* Words and sources come through these kinds from what is inside.
SeeThrough == {"error", "transparent", "notFound"}

\* Where the source of e[i] is in e, 0 for None: what is inside of the first
\* one that has a source itself.
Source(e, i) ==
    LET own  == CHOOSE j \in i .. Len(e) :
                    /\ e[j].kind \notin SeeThrough
                    /\ \A k \in i .. j - 1 : e[k].kind \in SeeThrough
    IN  IF own = Len(e) THEN 0 ELSE own + 1

\* Mutant: the first error that was ever wrapped, whether or not it has a status.
InnerWrapper(e, i) ==
    LET from[j \in DOMAIN e] ==
            LET s == Source(e, j) IN
            IF s = 0 THEN i ELSE IF e[s].kind = "error" THEN s ELSE from[s]
    IN  from[i]

\* Error::inner of e[i]: the first error along the sources that has a status,
\* or else e[i].  It does not look at e[i] itself.
Inner(e, i) ==
    LET from[j \in DOMAIN e] ==
            LET s == Source(e, j) IN
            IF s = 0 THEN i
            ELSE IF e[s].kind = "error" /\ ~IsWrapper(e[s]) THEN s ELSE from[s]
    IN  from[i]

StatusOf(e, i) ==
    LET inner == e[Inner(e, i)] IN IF IsWrapper(inner) THEN 500 ELSE inner.status

StatusCode(e) == StatusOf(e, 1)

\* What e[i] says: whose words these are.
Words(e, i) ==
    CHOOSE j \in i .. Len(e) :
        /\ e[j].kind \notin SeeThrough \union {"withStatus"}
        /\ \A k \in i .. j - 1 : e[k].kind \in SeeThrough \union {"withStatus"}

\* An error and all its sources.
Causes(e, i) ==
    LET from[j \in DOMAIN e] == <<j>> \o (IF Source(e, j) = 0 THEN <<>> ELSE from[Source(e, j)])
    IN  from[i]

\* Debug: the words of the inner error and of what has caused it.
Printed(e) == LET all == Causes(e, Inner(e, 1)) IN [k \in DOMAIN all |-> Words(e, all[k])]

-----------------------------------------------------------------------------
(* Bodies                                                                  *)

\* A body: what it has at once, or the frames that a stream will yield, each of
\* them data or an error.
FixedBody(data)  == [kind |-> "fixed", data |-> data]
Streaming(parts) == [kind |-> "streaming", parts |-> parts]
EmptyBody        == FixedBody(<<>>)
Nobody == [frame |-> <<>>, rest |-> EmptyBody]

\* poll_frame: the next frame, if any, and what is left.
PollFrame(body) ==
    CASE body.kind = "fixed" /\ body.data = <<>> -> Nobody
      [] body.kind = "fixed" /\ body.data # <<>> -> [frame |-> <<body.data>>, rest |-> EmptyBody]
      [] body.kind = "streaming" /\ body.parts = <<>> -> Nobody
      [] body.kind = "streaming" /\ body.parts # <<>> ->
            [frame |-> <<Head(body.parts)>>, rest |-> Streaming(Tail(body.parts))]

IsEndStream(body) == body.kind = "fixed" /\ body.data = <<>>

\* The exact size, where there is one.
SizeHint(body) == IF body.kind = "fixed" THEN <<Len(body.data)>> ELSE <<>>

\* The frames one after another, and what is left before each.
Left(body) ==
    LET polls   == IF body.kind = "fixed" THEN 1 ELSE Len(body.parts)
        left[n \in 1 .. polls] == IF n = 1 THEN body ELSE PollFrame(left[n - 1]).rest
    IN  left

Frames(body) == FlattenSeq([n \in DOMAIN Left(body) |-> PollFrame(Left(body)[n]).frame])

\* into_bytes_limited: all of the data, or the error of a frame or of the limit.
IntoBytes(body, limit) ==
    LET frames == Frames(body)
        data   == FlattenSeq(frames)
    IN  IF \E i \in DOMAIN frames : frames[i] = <<Broken>> \/ Len(data) > limit
        THEN [ok |-> FALSE, error |-> Of(400)]
        ELSE [ok |-> TRUE, bytes |-> data]

-----------------------------------------------------------------------------

Response(status, headers, body) ==
    [status |-> status, headers |-> headers, body |-> body, extensions |-> {}]

Ok(response) == [ok |-> TRUE, response |-> response]
Err(error)   == [ok |-> FALSE, error |-> error]

ContentType == "content-type"

Named(headers, name) == SelectSeq(headers, LAMBDA h : h.name = name)

\* HeaderMap::insert replaces what is there, append adds to it.
Inserted(headers, name, value) ==
    SelectSeq(headers, LAMBDA h : h.name # name) \o <<[name |-> name, value |-> value]>>

\* What is said of a response.  A header that is not valid is not set.
With(w, r) ==
    CASE w.say = "status"      -> [r EXCEPT !.status = w.status]
      [] w.say = "header"      -> IF w.valid THEN [r EXCEPT !.headers = Append(@, w.header)] ELSE r
      [] w.say = "contentType" -> IF w.valid
                                  THEN [r EXCEPT !.headers = Inserted(@, ContentType, w.header.value)] ELSE r
      [] w.say = "body"        -> [r EXCEPT !.body = w.body]
      [] w.say = "extension"   -> [r EXCEPT !.extensions = @ \union {w.extension}]

SayStatus(status)       == [say |-> "status", status |-> status]
SayContentType(value)   == [say |-> "contentType", valid |-> TRUE, header |-> [name |-> ContentType, value |-> value]]

Content(data, type) == Response(200, <<[name |-> ContentType, value |-> type]>>, FixedBody(data))

\* The types that have an IntoResponse.  An Html is a String with another content type.
Answered(v) ==
    CASE v.of = "unit"       -> Ok(Response(200, <<>>, EmptyBody))
      [] v.of = "body"       -> Ok(Response(200, <<>>, v.body))
      [] v.of = "text"       -> Ok(Content(v.data, "text/plain"))
      [] v.of = "bytes"      -> Ok(Content(v.data, "application/octet-stream"))
      [] v.of = "html"       -> Ok(With(SayContentType("text/html"), Content(v.data, "text/plain")))
      [] v.of = "json"       -> IF v.serializes
                                THEN Ok(With(SayContentType("application/json"), Content(v.data, "text/plain")))
                                ELSE Err(Of(500))
      [] v.of = "statusCode" -> Ok(Response(v.status, <<>>, EmptyBody))
      [] v.of = "headers"    -> Ok(Response(200, v.headers, EmptyBody))
      [] v.of = "head"       -> Ok(Response(v.status, v.headers, EmptyBody))
      [] v.of = "response"   -> Ok(v.response)
      [] v.of = "redirect"   -> Ok(Response(v.status, <<[name |-> "location", value |-> v.location]>>, EmptyBody))
      [] v.of = "error"      -> Err(v.error)

\* Redirect::with_status_code panics for a status that is none of a redirection.
CanRedirect(status) == status \in 300 .. 399

\* The value, and then whatever is said of it; an error stays one.
IntoResponse(v) ==
    LET first == Answered(v)
    IN  IF first.ok THEN Ok(FoldLeft(LAMBDA r, w : With(w, r), first.response, v.with)) ELSE first

-----------------------------------------------------------------------------
(* Static files                                                            *)

\* The media type that is guessed of the name of a file, if any.
MimeType(path) == IF path \in DOMAIN Guessed THEN Guessed[path] ELSE "application/octet-stream"

\* A hash of the content, of which no two that are ever served collide.
FileHash(content) == <<"hash", content>>

\* The link to a file: its path after the prefix, which does not depend on the
\* content unless the links are rewritten.
FileUrl(settings, file) ==
    [path  |-> settings.url \o file.path,
     query |-> IF settings.rewrite = "queryParam" THEN [v |-> FileHash(file.content)] ELSE <<>>]

AddFile(files, settings, file) ==
    [path \in DOMAIN files \union {file.path} |->
        IF path = file.path THEN [url |-> FileUrl(settings, file), content |-> file.content] ELSE files[path]]

\* The files of the apps, one app after another.
StaticFiles(settings, apps) ==
    LET given == FlattenSeq(apps)
        first[n \in 0 .. Len(given)] == IF n = 0 THEN <<>> ELSE AddFile(first[n - 1], settings, given[n])
    IN  first[Len(given)]

\* What a view or a page gets for a path.
UrlFor(files, path) ==
    IF path \in DOMAIN files THEN [ok |-> TRUE, url |-> files[path].url] ELSE Err(Of(500))

\* The middleware: what is asked for beside the path is not looked at.
StaticResponse(files, settings, path) ==
    LET name == SubSeq(path, Len(settings.url) + 1, Len(path))
    IN  IF ~IsPrefix(settings.url, path) \/ name \notin DOMAIN files THEN <<>>
        ELSE LET r == Content(files[name].content, MimeType(name)) IN
             << IF settings.timeout = <<>> THEN r
                ELSE [r EXCEPT !.headers = Inserted(@, "cache-control", <<"max-age", settings.timeout[1]>>)] >>

\* The directories that are made for a file.
Parents(path) == {SubSeq(path, 1, n - 1) : n \in {i \in DOMAIN path : path[i] = Separator}}

\* collect-static writes the files, in any order, unless one of them is where
\* another needs a directory.
CollectInto(files) ==
    IF \E one, other \in DOMAIN files : one \in Parents(other) THEN Err(Of(500))
    ELSE [ok |-> TRUE, written |-> [path \in DOMAIN files |-> files[path].content]]

-----------------------------------------------------------------------------
(* Error pages                                                             *)

\* What came out of catch_unwind instead of a response.
ErrorReturned(error) == [of |-> "error", error |-> error]
Panicking            == [of |-> "panic"]

\* The media ranges of an Accept header: those that cannot be parsed are left
\* out, whatever their weights are.
ParsedAccept(header) == SelectSeq(header, LAMBDA range : range.type # "invalid")

AcceptsHtml(header) == \E range \in Range(ParsedAccept(header)) : range.type = "text/html"

-----------------------------------------------------------------------------
(* The page with the diagnostics                                           *)

\* The routes of a tree of routers, each with the pattern and the index it has
\* from the root on.
RouteData(tree) ==
    LET under[n \in DOMAIN tree] ==
            LET row(i) ==
                    LET route == tree[n].urls[i]
                        inner == IF route.router = 0 THEN <<>> ELSE under[route.router]
                    IN  <<[path |-> route.url, index |-> <<i>>, name |-> route.name,
                           kind |-> IF route.router = 0 THEN "View" ELSE "Router"]>>
                        \o [j \in DOMAIN inner |-> [inner[j] EXCEPT !.path = route.url \o @, !.index = <<i>> \o @]]
            IN  FlattenSeq([i \in DOMAIN tree[n].urls |-> row(i)])
    IN  under[1]

\* The words of an error and of its sources.  What a router did not find needs
\* no words, and an error with this status that is no NotFound gets none.
ErrorData(e) ==
    LET all    == Causes(e, 1)
        listed == [k \in DOMAIN all |-> Words(e, all[k])]
        inside == Inner(e, 1) + 1
    IN  IF StatusCode(e) # 404 THEN listed
        ELSE IF inside < Len(e) /\ e[inside].kind = "notFound" /\ e[inside + 1].kind # "fromRouter"
             THEN listed ELSE <<>>

\* handle_response_error, handle_response_panic: one status for each of the pages.
DiagnosticsPage(failure) ==
    LET status == IF failure.of = "error" /\ StatusCode(failure.error) = 404 THEN 404 ELSE 500
    IN  With(SayStatus(status), Content(<<"diagnostics">>, "text/html"))

\* build_cot_server_error_page, which says no content type.
ServerErrorPage == Response(500, <<>>, FixedBody(<<"default">>))

-----------------------------------------------------------------------------
(* The error handler                                                       *)

\* The error that the error handler finds in the request.
ErrorGiven(failure) == IF failure.of = "error" THEN failure.error ELSE UncaughtPanic

\* What RequestOuterError and RequestError say of the status: the first asks
\* the outermost error, the other its inner one.
OuterStatus(error) == StatusOf(error, 1)
InnerStatus(error) == StatusOf(error, Inner(error, 1))

\* default_error_handler: that of a project that has none of its own.
DefaultErrorHandler(error) ==
    [of |-> "html", data |-> <<"page">>, with |-> <<SayStatus(OuterStatus(error))>>]

\* An async function that answers an error: the default one; one as in the
\* documentation, which asks a RequestError; one that says no status; one that
\* fails; and one that is not ready to be called.
ErrorHandler == {"default", "requestError", "noStatus", "fails", "notReady"}

HandlerAnswers(handler, error) ==
    CASE handler = "default"      -> DefaultErrorHandler(error)
      [] handler = "requestError" -> [of |-> "html", data |-> <<"page">>, with |-> <<SayStatus(InnerStatus(error))>>]
      [] handler = "noStatus"     -> [of |-> "html", data |-> <<"page">>, with |-> <<>>]
      [] handler = "fails"        -> [of |-> "error", error |-> Of(400), with |-> <<SayStatus(200)>>]

CustomErrorPage(handler, failure) ==
    LET answer == IntoResponse(HandlerAnswers(handler, ErrorGiven(failure)))
    IN  IF handler = "notReady" \/ ~answer.ok THEN ServerErrorPage ELSE answer.response

ErrorPageOf(failure, debug, accept, handler) ==
    IF debug /\ AcceptsHtml(accept) THEN DiagnosticsPage(failure) ELSE CustomErrorPage(handler, failure)

=============================================================================
