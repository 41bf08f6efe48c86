-------------------------------- MODULE Router --------------------------------
(***************************************************************************)
(* The patterns of routes: literals, parameters that take a segment of a   *)
(* path and wildcards that take the rest of it.  And the tree of routers:  *)
(* a path is given to the first route that leads to a view, through nested *)
(* routers, and a view's name is turned into a path.                       *)
(*                                                                         *)
(* A path is a sequence of characters, of which only the slash is special. *)
(* That a pattern is written as a string with braces, and the panics on    *)
(* one that is misspelled, are left out.  A tree is a function from its    *)
(* routers, numbered from the root 1, and a view is known by the place of  *)
(* its route in the tree.                                                  *)
(***************************************************************************)
EXTENDS Integers, Sequences, FiniteSets, Functions
LOCAL INSTANCE SequencesExt

CONSTANTS
    Slash,      \* the character that ends a segment
    Letter,     \* the other characters
    NoMatch,    \* no match, no such view
    Missing,    \* a parameter is missing
    NoName      \* no app, no name

Char == Letter \union {Slash}
Path == Seq(Char)

Literal(text)  == [kind |-> "literal", text |-> text]
Param(name)    == [kind |-> "param", name |-> name]
Wildcard(name) == [kind |-> "wildcard", name |-> name]

\* What PathMatcher::new accepts.
Accepted(parts) ==
    /\ \A i \in DOMAIN parts : parts[i].kind = "literal" => parts[i].text # <<>>
    /\ \A i \in 1 .. Len(parts) - 1 :
          parts[i].kind # "wildcard" /\ "literal" \in {parts[i].kind, parts[i + 1].kind}

\* A pattern that is not empty begins with a slash, written or not.
New(parts) ==
    IF parts = <<>> THEN parts
    ELSE IF parts[1].kind # "literal" THEN <<Literal(<<Slash>>)>> \o parts
    ELSE IF Head(parts[1].text) = Slash THEN parts
    ELSE <<Literal(<<Slash>> \o parts[1].text)>> \o Tail(parts)

\* The characters before the next slash.
Segment(path) ==
    LET slashes == {i \in DOMAIN path : path[i] = Slash} IN
    IF slashes = {} THEN path
    ELSE SubSeq(path, 1, (CHOOSE i \in slashes : \A j \in slashes : i <= j) - 1)

\* What a part takes of the path that is left; nothing, if it does not match.
Taken(part, path) ==
    CASE part.kind = "literal"  -> IF IsPrefix(part.text, path) THEN part.text ELSE <<>>
      [] part.kind = "param"    -> Segment(path)
      [] part.kind = "wildcard" -> path

\* The parameters in the order of the parts, and the path that is left.
Capture(parts, path) ==
    LET after[i \in 0 .. Len(parts)] ==
            IF i = 0 THEN [params |-> <<>>, rest |-> path]
            ELSE LET s == after[i - 1]
                     p == parts[i]
                 IN  IF s = NoMatch \/ Taken(p, s.rest) = <<>> THEN NoMatch
                     ELSE [params |-> IF p.kind = "literal" THEN s.params
                                      ELSE Append(s.params, [name |-> p.name, value |-> Taken(p, s.rest)]),
                           rest   |-> SubSeq(s.rest, Len(Taken(p, s.rest)) + 1, Len(s.rest))]
    IN  IF parts = <<>> THEN [params |-> <<>>, rest |-> path] ELSE after[Len(parts)]

\* The path with the parameters filled in.
Reversed(parts, params) ==
    LET names == {parts[i].name : i \in {j \in DOMAIN parts : parts[j].kind # "literal"}} IN
    IF ~(names \subseteq DOMAIN params) THEN Missing
    ELSE FlattenSeq([i \in DOMAIN parts |->
            IF parts[i].kind = "literal" THEN parts[i].text ELSE params[parts[i].name]])

-----------------------------------------------------------------------------
(* The tree                                                                *)

NotFound == [view |-> <<>>, app |-> NoName, params |-> <<>>]

ToView(url, view, name) == [url |-> New(url), router |-> 0, name |-> name, view |-> view]
ToRouter(url, node)     == [url |-> New(url), router |-> node, name |-> NoName, view |-> <<>>]

\* AppBuilder::register_with_views, for apps with a router of their own each:
\* the root has a route to every app, and the tree of apps follows it.
Registered(prefixes, apps) ==
    [n \in 1 .. Len(apps) + 1 |->
        IF n = 1 THEN [app  |-> NoName,
                       urls |-> [i \in DOMAIN prefixes |-> ToRouter(prefixes[i], i + 1)]]
        ELSE apps[n - 1]]

Names(tree) == (UNION {{route.name : route \in Range(tree[n].urls)} : n \in DOMAIN tree}) \ {NoName}

First(hits) == CHOOSE i \in hits : \A j \in hits : i <= j

\* Mutant: the first route that matches a beginning of the path decides.
GetHandlerFirst(tree, path) ==
    LET found[n \in DOMAIN tree, p \in Path] ==
            LET urls == tree[n].urls
                Leads(i) ==
                    LET c == Capture(urls[i].url, p)
                        f == IF urls[i].router # 0 THEN found[urls[i].router, c.rest]
                             ELSE IF c.rest = <<>> THEN [NotFound EXCEPT !.view = <<n, i>>]
                             ELSE NotFound
                    IN  IF f = NotFound THEN NotFound
                        ELSE [f EXCEPT !.params = c.params \o @,
                                       !.app    = IF @ = NoName THEN tree[n].app ELSE @]
                hits == {i \in DOMAIN urls : Capture(urls[i].url, p) # NoMatch}
            IN  IF hits = {} THEN NotFound ELSE Leads(First(hits))
    IN  found[1, path]

\* The first route that leads to a view, the parameters from the outside in,
\* and the app of the innermost router that belongs to one.
GetHandler(tree, path) ==
    LET found[n \in DOMAIN tree, p \in Path] ==
            LET urls == tree[n].urls
                Leads(i) ==
                    LET c == Capture(urls[i].url, p)
                        f == IF c = NoMatch THEN NotFound
                             ELSE IF urls[i].router # 0 THEN found[urls[i].router, c.rest]
                             ELSE IF c.rest = <<>> THEN [NotFound EXCEPT !.view = <<n, i>>]
                             ELSE NotFound
                    IN  IF f = NotFound THEN NotFound
                        ELSE [f EXCEPT !.params = c.params \o @,
                                       !.app    = IF @ = NoName THEN tree[n].app ELSE @]
                hits == {i \in DOMAIN urls : Leads(i) # NotFound}
            IN  IF hits = {} THEN NotFound ELSE Leads(First(hits))
    IN  found[1, path]

HasRoute(tree, path) == GetHandler(tree, path) # NotFound

\* Mutant: the path of a nested router is forgotten.
ReverseUrlInner(tree, app, name, params) ==
    LET reverse[n \in DOMAIN tree] ==
            LET urls   == tree[n].urls
                named  == {i \in DOMAIN urls : urls[i].name = name}
                nested == {i \in DOMAIN urls : urls[i].router # 0 /\ reverse[urls[i].router] # NoMatch}
            IN  IF app # NoName /\ tree[n].app \notin {app, NoName} THEN NoMatch
                ELSE IF named # {}
                THEN Reversed(urls[CHOOSE i \in named : \A j \in named : j <= i].url, params)
                ELSE IF nested = {} THEN NoMatch
                ELSE reverse[urls[First(nested)].router]
    IN  reverse[1]

\* Router::reverse: the last route with the name in a router, or the first
\* nested router that has one, or misses a parameter.
ReverseUrl(tree, app, name, params) ==
    LET reverse[n \in DOMAIN tree] ==
            LET urls   == tree[n].urls
                named  == {i \in DOMAIN urls : urls[i].name = name}
                nested == {i \in DOMAIN urls : urls[i].router # 0 /\ reverse[urls[i].router] # NoMatch}
                outer  == Reversed(urls[First(nested)].url, params)
                inner  == reverse[urls[First(nested)].router]
            IN  IF app # NoName /\ tree[n].app \notin {app, NoName} THEN NoMatch
                ELSE IF named # {}
                THEN Reversed(urls[CHOOSE i \in named : \A j \in named : j <= i].url, params)
                ELSE IF nested = {} THEN NoMatch
                ELSE IF Missing \in {inner, outer} THEN Missing
                ELSE outer \o inner
    IN  reverse[1]

=============================================================================
