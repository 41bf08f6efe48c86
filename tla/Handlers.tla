------------------------------- MODULE Handlers -------------------------------
(***************************************************************************)
(* What a route leads to: an async function, whose parameters are taken    *)
(* out of the request by their types, or a table of such functions, one    *)
(* for each method.                                                        *)
(*                                                                         *)
(* A function is the sequence of its parameters.  A parameter says where   *)
(* it is taken from and what type it has; the types of fields are strings, *)
(* integers and enums of unit variants, perhaps in an Option.  Texts are   *)
(* sequences of characters, and one letter stands for the digit one.       *)
(***************************************************************************)
EXTENDS Integers, Sequences, FiniteSets, Functions
LOCAL INSTANCE SequencesExt

CONSTANTS
    Method,         \* the methods of HTTP
    Digit,          \* the letter that is a digit
    MaxInt,         \* the largest integer of the integer types
    Variants,       \* the names of the variants of an enum
    NoValue,        \* None
    Refused,        \* an error instead of a value
    NotAllowed      \* the fallback of a method router: 405

ASSUME MethodAssumption == {"GET", "HEAD", "CONNECT"} \subseteq Method

ReadsOnly == {"GET", "HEAD"}

-----------------------------------------------------------------------------
(* Values, serde's and the parameters of a path                            *)

Number(text) == FoldLeft(LAMBDA n, digit : 10 * n + 1, 0, text)

\* A single text as a value of a type: ValueDeserializer.
Deserialized(type, text) ==
    CASE type.of = "string"  -> text
      [] type.of = "integer" -> IF text # <<>> /\ Range(text) \subseteq {Digit} /\ Number(text) <= MaxInt
                                THEN Number(text) ELSE Refused
      [] type.of = "enum"    -> IF text \in Variants THEN text ELSE Refused

\* The fields of a struct from named texts: others are ignored, and one that
\* is not there is None or an error.
Struct(fields, texts) ==
    LET value == [f \in DOMAIN fields |->
                    IF f \in DOMAIN texts THEN Deserialized(fields[f], texts[f])
                    ELSE IF fields[f].optional THEN NoValue ELSE Refused]
    IN  IF \E f \in DOMAIN fields : value[f] = Refused THEN Refused ELSE value

Sequenced(types, params) ==
    LET value == [i \in DOMAIN params |-> Deserialized(types[i], params[i].value)]
    IN  IF \E i \in DOMAIN params : value[i] = Refused THEN Refused ELSE value

\* PathParams, an IndexMap: a name that comes again keeps its place and takes
\* the later value.
PathParams(params) ==
    LET last(name) == CHOOSE i \in DOMAIN params :
                          /\ params[i].name = name
                          /\ \A j \in DOMAIN params : params[j].name = name => j <= i
        first == SelectSeq([i \in DOMAIN params |-> i],
                           LAMBDA i : \A j \in 1 .. i - 1 : params[j].name # params[i].name)
    IN  [k \in DOMAIN first |-> params[last(params[first[k]].name)]]

ByName(params) ==
    [name \in {params[i].name : i \in DOMAIN params} |->
        params[CHOOSE i \in DOMAIN params : params[i].name = name].value]

\* PathParams::parse, by the shape of the type: a value, a tuple, a struct or
\* a Vec.  An Option alone is not supported.
ParsedPath(type, params) ==
    CASE type.shape = "single" ->
           IF Len(params) = 1 /\ ~type.type.optional THEN Deserialized(type.type, params[1].value) ELSE Refused
      [] type.shape = "tuple"  ->
           IF Len(params) = Len(type.types) THEN Sequenced(type.types, params) ELSE Refused
      [] type.shape = "struct" ->
           IF Len(params) = Cardinality(DOMAIN type.fields) THEN Struct(type.fields, ByName(params)) ELSE Refused
      [] type.shape = "list"   -> Sequenced([i \in DOMAIN params |-> type.type], params)

-----------------------------------------------------------------------------
(* Extractors                                                              *)

\* The parameters of a function that say something of the request; NoApi hides
\* one from the document, and Request, Method, Session, Auth and the others
\* that never fail take no more than is there.
PathOf(type)   == [from |-> "path", type |-> type, hidden |-> FALSE]
UrlQuery(type) == [from |-> "query", type |-> type, hidden |-> FALSE]
Json(type)     == [from |-> "json", type |-> type, hidden |-> FALSE]
RequestForm(type) == [from |-> "form", type |-> type, hidden |-> FALSE]
Others         == [from |-> "request", type |-> <<>>, hidden |-> FALSE]
NoApi(part)    == [part EXCEPT !.hidden = TRUE]

\* form_data: the query of a GET or HEAD request, or the body.  What is wrong
\* with the fields is said in the FormResult that the view is given.
FormData(r) ==
    IF r.body.content = "multipart" THEN r.body.fields
    ELSE IF r.method \in ReadsOnly THEN r.query
    ELSE IF r.body.content = "urlencoded" THEN r.body.fields
    ELSE Refused

Extracted(part, r, params) ==
    CASE part.from = "path"    -> ParsedPath(part.type, PathParams(params))
      [] part.from = "query"   -> Struct(part.type, r.query)
      [] part.from = "json"    -> IF r.body.content = "json" THEN Struct(part.type, r.body.fields) ELSE Refused
      [] part.from = "form"    -> FormData(r)
      [] part.from = "request" -> NoValue

\* The arguments of a function: all, or the error of one.
Arguments(parts, r, params) ==
    LET value == [i \in DOMAIN parts |-> Extracted(parts[i], r, params)]
    IN  IF \E i \in DOMAIN parts : value[i] = Refused THEN Refused ELSE value

-----------------------------------------------------------------------------
(* MethodRouter and ApiMethodRouter                                        *)

\* A function from its parameters; NoApi hides it from the document.
Function(parts)       == [parts |-> parts, hidden |-> FALSE]
NoApiHandler(handler) == [handler EXCEPT !.hidden = TRUE]

\* Any function answers every method.
Plain(handler) == [kind |-> "function", own |-> <<>>, fallback |-> handler]

MethodRouter(own, fallback)    == [kind |-> "methods", own |-> own, fallback |-> fallback]
ApiMethodRouter(own, fallback) == [kind |-> "api", own |-> own, fallback |-> fallback]

\* The function that a request is given to: that of its method, for HEAD that
\* of GET if it has none of its own, or the fallback.
Handler(view, method) ==
    IF method \in DOMAIN view.own THEN view.own[method]
    ELSE IF method = "HEAD" /\ "GET" \in DOMAIN view.own THEN view.own["GET"]
    ELSE view.fallback

=============================================================================
