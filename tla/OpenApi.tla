------------------------------- MODULE OpenApi --------------------------------
(***************************************************************************)
(* The document that Router::as_api makes of the routes with an            *)
(* ApiMethodRouter: for each path and each method that has a function, the *)
(* parameters and the body that the types of the function ask for.  The    *)
(* responses, and what else the document says, are left out.               *)
(***************************************************************************)
EXTENDS Router, Handlers
LOCAL INSTANCE SequencesExt

CONSTANT Panicked   \* an assertion fails

\* Display of PathMatcher: a placeholder is one symbol of the text.
Shown(parts) ==
    FlattenSeq([i \in DOMAIN parts |->
        CASE parts[i].kind = "literal"  -> parts[i].text
          [] parts[i].kind = "param"    -> <<"{" \o parts[i].name \o "}">>
          [] parts[i].kind = "wildcard" -> <<"{*" \o parts[i].name \o "}">>])

ParamNames(parts) ==
    LET holders == SelectSeq(parts, LAMBDA part : part.kind # "literal")
    IN  [i \in DOMAIN holders |-> holders[i].name]

-----------------------------------------------------------------------------
(* Operations                                                              *)

Nothing == [path |-> {}, query |-> {}, content |-> "none", fields |-> <<>>]

Parameter(name, type) == [name |-> name, type |-> type]
Fields(fields) == {Parameter(f, fields[f]) : f \in DOMAIN fields}

\* Path::modify_api_operation: the names of the route are given to a tuple in
\* their order, and must be the fields of a struct.
PathOperation(type, names) ==
    CASE type.shape = "tuple"  ->
           IF Len(names) # Len(type.types) THEN Panicked
           ELSE [Nothing EXCEPT !.path = {Parameter(names[i], type.types[i]) : i \in DOMAIN names}]
      [] type.shape = "struct" ->
           IF Range(names) # DOMAIN type.fields \/ Len(names) # Cardinality(DOMAIN type.fields) THEN Panicked
           ELSE [Nothing EXCEPT !.path = Fields(type.fields)]
      [] type.shape \in {"single", "list"} ->
           IF Len(names) # 1 THEN Panicked
           ELSE [Nothing EXCEPT !.path = {Parameter(names[1], type.type)}]

\* Mutant: the form of a HEAD request is taken for one that comes in the body.
FormOperationGetOnly(fields, method) ==
    IF method = "GET" THEN [Nothing EXCEPT !.query = Fields(fields)]
    ELSE [Nothing EXCEPT !.content = "urlencoded", !.fields = fields]

FormOperation(fields, method) ==
    IF method \in ReadsOnly THEN [Nothing EXCEPT !.query = Fields(fields)]
    ELSE [Nothing EXCEPT !.content = "urlencoded", !.fields = fields]

\* What a parameter of the function adds to the operation.
PartOperation(part, names, method) ==
    CASE part.hidden -> Nothing
      [] ~part.hidden /\ part.from = "request" -> Nothing
      [] ~part.hidden /\ part.from = "path"    -> PathOperation(part.type, names)
      [] ~part.hidden /\ part.from = "query"   -> [Nothing EXCEPT !.query = Fields(part.type)]
      [] ~part.hidden /\ part.from = "json"    -> [Nothing EXCEPT !.content = "json", !.fields = part.type]
      [] ~part.hidden /\ part.from = "form"    -> FormOperation(part.type, method)

Both(a, b) ==
    IF Panicked \in {a, b} THEN Panicked
    ELSE [path    |-> a.path \union b.path,
          query   |-> a.query \union b.query,
          content |-> IF b.content = "none" THEN a.content ELSE b.content,
          fields  |-> IF b.content = "none" THEN a.fields ELSE b.fields]

ApiOperation(parts, names, method) ==
    FoldLeft(LAMBDA operation, part : Both(operation, PartOperation(part, names, method)), Nothing, parts)

\* ApiMethodRouter::as_api_route: CONNECT has no place in a document, and a
\* function in NoApi gives no operation.
PathItem(view, names) ==
    [method \in {m \in DOMAIN view.own : m # "CONNECT" /\ ~view.own[m].hidden} |->
        ApiOperation(view.own[method].parts, names, method)]

-----------------------------------------------------------------------------
(* Router::as_api                                                          *)

\* The routes with an ApiMethodRouter, in the order in which they are found.
ApiRoutes(tree) ==
    LET under[n \in DOMAIN tree] ==
            LET of(route) ==
                    IF route.router # 0
                    THEN LET inner == under[route.router]
                         IN  [j \in DOMAIN inner |-> [inner[j] EXCEPT !.url = route.url \o @]]
                    ELSE IF route.view.kind = "api" THEN <<[url |-> route.url, view |-> route.view]>>
                    ELSE <<>>
            IN  FlattenSeq([i \in DOMAIN tree[n].urls |-> of(tree[n].urls[i])])
    IN  under[1]

\* paths.insert: of two routes with the same path the last one is described.
Document(tree) ==
    LET routes  == ApiRoutes(tree)
        item(i) == PathItem(routes[i].view, ParamNames(routes[i].url))
        last(url) == CHOOSE i \in DOMAIN routes :
                        /\ Shown(routes[i].url) = url
                        /\ \A j \in i + 1 .. Len(routes) : Shown(routes[j].url) # url
    IN  IF \E i \in DOMAIN routes : \E m \in DOMAIN item(i) : item(i)[m] = Panicked THEN Panicked
        ELSE [url \in {Shown(routes[i].url) : i \in DOMAIN routes} |-> item(last(url))]

=============================================================================
