---------------------------------- MODULE Admin ----------------------------------
(***************************************************************************)
(* The admin panel: the handlers that list, create, edit and remove the    *)
(* rows of a model, statement by statement, and the browsers of the people *)
(* who use it, each with a page that may be older than the table.          *)
(*                                                                         *)
(* A model is a form with a field "id", the primary key, whose values are  *)
(* numbers written in halves; rows has the other fields of each row.       *)
(***************************************************************************)
EXTENDS Form

CONSTANTS
    Staff,          \* people
    MaxKey,         \* bound on primary keys
    MaxPage,        \* bound on the numbers and the sizes of pages
    Models,         \* models to choose from: a form, first rows, what may be typed and
                    \* asked for, and a bound on the requests of a behaviour
    Letters,        \* characters of the texts that are searched, and searched for
    MaxText,        \* bound on their lengths
    BadKey          \* a key in an address that is not one

VARIABLES
    model,      \* the model; it never changes
    rows,       \* rows[k]: the fields of the row of key k, or None
    next,       \* the key the database draws next
    signed,     \* signed[a]: is a logged in
    tab,        \* tab[a]: the page in the browser of a
    request,    \* request[a]: the request of a that is being handled
    requests    \* how many there have been

vars == <<model, rows, next, signed, tab, request, requests>>

Db == INSTANCE Queries WITH
    Star <- "*", One <- "?", Backslash <- "\\", Percent <- "%", Underscore <- "_", Bracket <- "[", Closing <- "]",
    Lowers <- [c \in {"A", "U"} |-> IF c = "A" THEN "a" ELSE "u"], Ascii <- {"A"}, Null <- None

Key == 1 .. MaxKey
Ids == DOMAIN model.form \ {"id"}
Present == {k \in Key : rows[k] # None}

KeyNumber(k) == <<2 * k>>

\* The table as the database reads it, by the keys of the rows.
Table == [i \in 1 .. Cardinality(Present) |-> [id |-> SetToSortSeq(Present, <)[i]]]

\* query!(Model, $id == id).
ById(k) == Db!Filter(Db!NewQuery, Db!FieldIs("id", k))

Struct(k) == [id \in DOMAIN model.form |-> IF id = "id" THEN KeyNumber(k) ELSE rows[k][id]]
FieldsOf(struct) == [id \in Ids |-> struct[id]]

Blank == [view |-> "blank"]
NotFound == [view |-> "not found"]
Failed == [view |-> "failed"]
LoginPage(context) == [view |-> "login", context |-> context]
FormPage(k, context, shown) == [view |-> "form", key |-> k, context |-> context, shown |-> shown]
RemovePage(k) == [view |-> "remove", key |-> k]

Init ==
    /\ model \in Models
    /\ rows \in model.rows
    /\ next = CHOOSE k \in 1 .. MaxKey + 1 : k \notin Present /\ \A j \in 1 .. k - 1 : j \in Present
    /\ signed = [a \in Staff |-> TRUE]
    /\ tab = [a \in Staff |-> Blank]
    /\ request = [a \in Staff |-> None]
    /\ requests = 0

Changed(a, page) == tab' = [tab EXCEPT ![a] = page]

Answer(a, page) == Changed(a, page) /\ request' = [request EXCEPT ![a] = None]

Continue(a, r) == request' = [request EXCEPT ![a] = r] /\ UNCHANGED tab

-----------------------------------------------------------------------------
(* Requests. *)

LoginForm ==
    [username |-> Declared("string", None, "plain", StringFieldOptions),
     password |-> Declared("password", None, "plain", PasswordFieldOptions)]

\* A login: the body has been taken when the form is read a second time.
Login(a, entries, known) ==
    LET sent == PostOf(Render(NewContext(LoginForm)), entries, "urlencoded")
        result == FromRequest(LoginForm, sent)
    IN  /\ ~signed[a] /\ request[a] = None /\ tab[a].view = "login" /\ requests < model.requests
        /\ requests' = requests + 1
        /\ IF result.is = "ValidationError"
           THEN Changed(a, LoginPage(result.context)) /\ UNCHANGED signed
           ELSE IF known
           THEN Changed(a, Blank) /\ signed' = [signed EXCEPT ![a] = TRUE]
           ELSE /\ Changed(a, LoginPage(AddFormError(BuildContext(LoginForm, Taken(sent)).v, "Custom")))
                /\ UNCHANGED signed
        /\ UNCHANGED <<model, rows, next, request>>

\* The session ends, of itself or in another tab.
Logout(a) ==
    /\ signed[a] /\ "logout" \in model.asks /\ requests < model.requests
    /\ signed' = [signed EXCEPT ![a] = FALSE]
    /\ requests' = requests + 1
    /\ UNCHANGED <<model, rows, next, tab, request>>

Begin(a, r) ==
    /\ request[a] = None /\ requests < model.requests /\ r.op \in model.asks
    /\ requests' = requests + 1
    /\ Continue(a, [at |-> "begun", signed |-> signed[a]] @@ r)
    /\ UNCHANGED <<model, rows, next, signed>>

\* The next page of a list that is being read, or any page of a new one.
AskList(a) ==
    \/ \E page \in 0 .. MaxPage, size \in 0 .. MaxPage :
          Begin(a, [op |-> "list", page |-> page, size |-> size, first |-> page, seen |-> <<>>, base |-> None])
    \/ /\ tab[a].view = "list"
       /\ Begin(a, [op |-> "list", page |-> tab[a].page + 1, size |-> tab[a].size, first |-> tab[a].first,
                    seen |-> tab[a].seen, base |-> tab[a].base])

AskForm(a) == \E k \in Key \union {None, BadKey} : Begin(a, [op |-> "form", key |-> k])

AskRemove(a) == \E k \in Key \union {BadKey} : Begin(a, [op |-> "remove", key |-> k, post |-> FALSE])

ConfirmRemove(a) ==
    /\ tab[a].view = "remove"
    /\ Begin(a, [op |-> "remove", key |-> tab[a].key, post |-> TRUE])

\* The fields in typed are changed by hand, the others are sent as they are shown.
SubmitForm(a) ==
    /\ tab[a].view = "form"
    /\ \E typed \in SUBSET DOMAIN model.form :
       \E texts \in [typed -> UNION {model.typed[id] : id \in typed}] :
          LET page == Render(tab[a].context)
              entries == [id \in DOMAIN model.form |->
                             IF id \in typed THEN texts[id] ELSE EntriesShown(page)[id]]
          IN  /\ \A id \in typed : texts[id] \in model.typed[id] \ {EntriesShown(page)[id]}
              /\ LetsSend(page, entries, typed)
              /\ Begin(a, [op |-> "save", key |-> tab[a].key, entries |-> entries, typed |-> typed,
                           page |-> page, shown |-> tab[a].shown])

-----------------------------------------------------------------------------
(* Handlers. *)

Handling(a, at, ops) == request[a] # None /\ request[a].at = at /\ request[a].op \in ops

\* AdminAuthenticated: whoever is not logged in is sent to the login page.
AdminAuthenticated(a) ==
    /\ Handling(a, "begun", {"list", "form", "save", "remove"})
    /\ IF signed[a] THEN Continue(a, [request[a] EXCEPT !.at = "inside"])
       ELSE Answer(a, LoginPage(NewContext(LoginForm)))
    /\ UNCHANGED <<model, rows, next, signed, requests>>

\* Mutant: pages count from zero.
Pagination_FromZero(limit, page) == [limit |-> limit, offset |-> page * limit]

\* Pagination::new, of a page above zero.
Pagination(limit, page) == [limit |-> limit, offset |-> (page - 1) * limit]

DivCeil(n, d) == (n + d - 1) \div d

\* view_model, up to the number of rows: no size may be zero, and pages count from one.
CountRows(a) ==
    LET r == request[a]
        total == DivCeil(Db!Count(Db!NewQuery, Table, "sqlite"), r.size)
    IN  /\ Handling(a, "inside", {"list"})
        /\ IF r.size = 0 THEN Answer(a, Failed)
           ELSE IF (r.page = 0 \/ r.page > total) /\ total > 0 THEN Answer(a, NotFound)
           ELSE IF r.page = 0 THEN Answer(a, Failed)
           ELSE Continue(a, [total |-> total] @@
                            [r EXCEPT !.at = "counted", !.base = IF r.base = None THEN rows ELSE r.base])
        /\ UNCHANGED <<model, rows, next, signed, requests>>

\* get_objects, with the pages read before and whether the table is still the same.
ListRows(a) ==
    LET r == request[a]
        pagination == Pagination(r.size, r.page)
        query == Db!Offset(Db!Limit(Db!NewQuery, pagination.limit), pagination.offset)
        keys == [i \in DOMAIN Db!All(query, Table, "sqlite") |-> Db!All(query, Table, "sqlite")[i].id]
    IN  /\ Handling(a, "counted", {"list"})
        /\ Answer(a, [view |-> "list", page |-> r.page, size |-> r.size, total |-> r.total, first |-> r.first,
                      seen |-> r.seen \o keys, base |-> IF r.base = rows THEN rows ELSE [k \in Key |-> None]])
        /\ UNCHANGED <<model, rows, next, signed, requests>>

\* parse_id, and the row of a key that is one.
Found(k) == k # BadKey /\ Db!Get(ById(k), Table, "sqlite") # None

\* edit_model_instance_impl of a GET: an empty form, or the one of the row.
ShowForm(a) ==
    LET k == request[a].key
        built == ToContext(model.form, Struct(k))
    IN  /\ Handling(a, "inside", {"form"})
        /\ IF k = None THEN Answer(a, FormPage(None, NewContext(model.form), None))
           ELSE IF ~Found(k) THEN Answer(a, NotFound)
           ELSE IF built.is = "panic" THEN Answer(a, Failed)
           ELSE Answer(a, FormPage(k, built.context, rows[k]))
        /\ UNCHANGED <<model, rows, next, signed, requests>>

\* Model::insert, of a key that was typed or of the next one.
Insert(a, struct) ==
    LET k == IF struct.id = None THEN next ELSE struct.id[1] \div 2
    IN  IF k \in Key /\ rows[k] = None
        THEN /\ rows' = [rows EXCEPT ![k] = FieldsOf(struct)]
             /\ next' = IF k >= next THEN k + 1 ELSE next
             /\ Answer(a, Blank)
        ELSE Answer(a, Failed) /\ UNCHANGED <<rows, next>>

\* Mutant: the row is saved, which inserts it where it is gone.
Update_Saving(a, k, struct) ==
    /\ rows' = [rows EXCEPT ![k] = FieldsOf(struct)]
    /\ Answer(a, Blank) /\ UNCHANGED next

\* set_primary_key and Model::update: the key is the one of the address, whatever was typed.
Update(a, k, struct) ==
    LET keyed == [struct EXCEPT !.id = KeyNumber(k)]
    IN  IF Found(keyed.id[1] \div 2)
        THEN rows' = [rows EXCEPT ![keyed.id[1] \div 2] = FieldsOf(keyed)] /\ Answer(a, Blank) /\ UNCHANGED next
        ELSE Answer(a, Failed) /\ UNCHANGED <<rows, next>>

\* save_from_request: the form is shown again with its errors, or the row is written.
SaveForm(a) ==
    LET r == request[a]
        result == FromRequest(model.form, PostOf(r.page, r.entries, "urlencoded"))
    IN  /\ Handling(a, "inside", {"save"})
        /\ CASE result.is = "ValidationError" ->
                    Answer(a, FormPage(r.key, result.context, None)) /\ UNCHANGED <<rows, next>>
             [] result.is = "Ok" /\ r.key = None -> Insert(a, result.value)
             [] result.is = "Ok" /\ r.key # None -> Update(a, r.key, result.value)
        /\ UNCHANGED <<model, signed, requests>>

\* remove_model_instance: the row is looked for first.
FindRow(a) ==
    LET r == request[a]
    IN  /\ Handling(a, "inside", {"remove"})
        /\ IF ~Found(r.key) THEN Answer(a, NotFound)
           ELSE IF r.post THEN Continue(a, [r EXCEPT !.at = "found"])
           ELSE Answer(a, RemovePage(r.key))
        /\ UNCHANGED <<model, rows, next, signed, requests>>

\* remove_by_id: rows that are no longer there are none to delete.
RemoveRow(a) ==
    LET left == {row.id : row \in ToSet(Db!Delete(ById(request[a].key), Table, "sqlite"))}
    IN  /\ Handling(a, "found", {"remove"})
        /\ rows' = [k \in Key |-> IF k \in left THEN rows[k] ELSE None]
        /\ Answer(a, Blank)
        /\ UNCHANGED <<model, next, signed, requests>>

Next ==
    \E a \in Staff :
        \/ \E username \in {Empty, Text("plain", <<1, 1, 0>>)}, known \in BOOLEAN :
              Login(a, [username |-> <<username>>, password |-> <<Text("plain", <<1, 1, 0>>)>>], known)
        \/ Logout(a)
        \/ AskList(a) \/ AskForm(a) \/ AskRemove(a) \/ ConfirmRemove(a) \/ SubmitForm(a)
        \/ AdminAuthenticated(a)
        \/ CountRows(a) \/ ListRows(a) \/ ShowForm(a) \/ SaveForm(a) \/ FindRow(a) \/ RemoveRow(a)

Spec == Init /\ [][Next]_vars

-----------------------------------------------------------------------------
(* Properties. *)

\* The variables have their types: rows have the fields of the model, and keys that were drawn are not drawn again.
TypeOK ==
    /\ model \in Models
    /\ \A k \in Present : DOMAIN rows[k] = Ids /\ k < next
    /\ signed \in [Staff -> BOOLEAN] /\ requests \in 0 .. model.requests
    /\ \A a \in Staff : tab[a].view \in {"blank", "not found", "failed", "login", "list", "form", "remove"}

\* The pages of a list (Pagination, view_model) that were read while nobody changed the table have
\* shown every row once: none is skipped between two pages, and none is on both.
PagesCover ==
    TypeOK /\ \A a \in Staff :
        LET t == tab[a]
        IN  t.view = "list" /\ t.first = 1 /\ t.page = t.total /\ t.base = rows =>
                IsInjective(t.seen) /\ ToSet(t.seen) = Present

\* A row appears only where somebody who was logged in asked for a new one, and changes or disappears
\* only where somebody asked for that of this very row: an edit of a row that has been removed does not
\* bring it back (save_from_request updates), and a key that was typed does not move the edit elsewhere.
ChangesAsAsked ==
    [][\A k \in Key : rows'[k] # rows[k] =>
          \E a \in Staff :
             LET r == request[a]
             IN  /\ r # None /\ request'[a] # r /\ r.signed
                 /\ \/ r.op = "save" /\ r.key = None /\ rows[k] = None
                    \/ r.op = "save" /\ r.key = k /\ rows[k] # None /\ rows'[k] # None
                    \/ r.op = "remove" /\ r.post /\ r.key = k /\ rows'[k] = None]_vars

\* A form that is saved the way the browser showed it does not change its row
\* (AsFormField::to_field_value puts into the control what clean_value reads back).
UntouchedKeeps ==
    [][\A a \in Staff :
          LET r == request[a]
          IN  /\ r # None /\ r.op = "save" /\ r.at = "inside" /\ request'[a] = None
              /\ r.typed = {} /\ r.key \in Present /\ r.shown = rows[r.key]
              => rows' = rows]_vars

\* A form that is refused comes back with what was typed into it, and nothing has been written
\* (save_from_request gives back the context that was built of the request).
RefusedKeepsInputs ==
    [][\A a \in Staff :
          LET r == request[a]
          IN  /\ r # None /\ r.op = "save" /\ r.at = "inside" /\ request'[a] = None
              /\ tab'[a].view = "form"
              => rows' = rows /\ EntriesShown(Render(tab'[a].context)) = r.entries]_vars

\* A query of one condition selects the rows that its condition holds in, read the way Rust reads it
\* (query!, "a natural expression syntax"); no value to the right of a field has parentheses in it.
ConditionsRead ==
    \A c \in {c \in Db!Conditions : Db!IsFlat(c)} :
        Db!Answered(<<c>>, Db!Numbers, "sqlite") = Db!Asked(<<c>>, Db!Numbers)

\* contains, starts_with, ends_with and raw_like match what they are documented to match (Expr::contains,
\* Expr::raw_like), on all three databases, whatever wildcards of GLOB and LIKE are in the text that is
\* looked for; case is left aside by the other four, but on SQLite only where all letters are ASCII.
TextsMatch ==
    \A db \in {"sqlite", "postgres", "mysql"}, method \in DOMAIN Db!FieldRefMethods :
    \A text, needle \in BoundedSeq(Letters, MaxText) :
        LET mode == Db!FieldRefMethods[method][1]
            sensitive == Db!FieldRefMethods[method][2]
            Fold(t) == IF sensitive THEN t ELSE Db!ToLowercase(t)
            condition == <<Db!FieldToken("f"), Db!Method(method), Db!Group(<<Db!Lit(needle)>>)>>
        IN  (db = "sqlite" /\ ~sensitive => "U" \notin ToSet(text) \union ToSet(needle)) =>
            Db!Selects(Db!Built(Db!Parse(condition)), [f |-> text], db) = Db!Matches(mode, Fold(text), Fold(needle))

\* Queries select what they say: conditions are read the way Rust reads them, and texts match on every
\* database.  No state has a part in it: it is enough to ask at the beginning.
QueriesMean == requests = 0 => ConditionsRead /\ TextsMatch

\* So does every query, of any condition and of two of them: docs/databases/queries.md chains two filters
\* and says that the rows which both hold in are retrieved.  The code has it otherwise: filter forgets the
\* filter before, and as_tokens forgets the parentheses of a value.
QueryAsWritten ==
    requests = 0 =>
    LET simple == {Db!Binary("Ne", Db!Field("n"), Db!OtherValue(m)) : m \in 0 .. 2}
    IN  \A conditions \in {<<c>> : c \in Db!Conditions} \union {<<c, d>> : c \in simple, d \in simple} :
            Db!Answered(conditions, Db!Numbers, "sqlite") = Db!Asked(conditions, Db!Numbers)

=============================================================================
