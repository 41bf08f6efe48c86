--------------------------------- MODULE Form ---------------------------------
(***************************************************************************)
(* The form that #[derive(Form)] makes of a struct: its context, which     *)
(* keeps a field and the errors of each field of the struct, is built of   *)
(* a request or of a value of the struct, and a value of the struct is     *)
(* made of a context whose fields are all right.                           *)
(*                                                                         *)
(* A form is a function from ids of fields to their declarations, records  *)
(* of a type, its parameter, what it is wrapped in, and options.  A        *)
(* request is a method, a content type and the pairs of its query and of   *)
(* its body.                                                               *)
(*                                                                         *)
(* What a browser does with the controls of a form, as the HTML standard   *)
(* has it: the value it shows for a control, whether it lets the form be   *)
(* sent, and what it sends.  The fields of a form count on it: a hidden    *)
(* control for a check box, a bound left to the browser, a date written    *)
(* the way the control writes it.                                          *)
(*                                                                         *)
(* An entry is the texts that a control would send: one for most controls, *)
(* none or one for a check box, any number for a select.                   *)
(***************************************************************************)
EXTENDS FormFields

-----------------------------------------------------------------------------
(* The browser                                                             *)

\* A day, and a minute, in the numbers that texts are made of; so is the 1 of numbers.
DefaultStep(type) == IF type = "date" THEN 1 ELSE 2

\* The browser writes at most three digits of a second.
IsInstant(text, forms) == text.as \in forms /\ text.v[2] <= 3

\* Value sanitization: a control shows nothing where it cannot read the attribute.
Sanitized(type, text) ==
    CASE text = Empty -> Empty
      [] type \in {"text", "password", "email", "url"} /\ text.as \in {"plain", "email", "url"} ->
            Text(text.as, <<text.v[1] - text.v[3], text.v[2] - text.v[3], 0>>)
      [] type = "number" -> IF text.as = "num" THEN text ELSE Empty
      [] type = "date" -> IF text.as = "date" THEN text ELSE Empty
      [] type = "time" -> IF IsInstant(text, {"time"}) THEN text ELSE Empty
      [] type = "datetime-local" -> IF IsInstant(text, {"T", "space"}) THEN Text("T", text.v) ELSE Empty
      [] OTHER -> text

\* The options of a select that are selected: the first one, if none is and only one can be.
Selected(tag) ==
    LET marked == SelectSeq(tag.children, LAMBDA o : "selected" \in o.bools)
        chosen == IF marked # <<>> \/ "multiple" \in tag.bools \/ tag.children = <<>> THEN marked
                  ELSE <<tag.children[1]>>
    IN  [i \in DOMAIN chosen |-> chosen[i].attributes.value]

\* What a control holds when the page has been loaded.
Shown(tag) ==
    IF tag.tag = "select" THEN Selected(tag)
    ELSE CASE tag.attributes.type = "checkbox" ->
                IF "checked" \in tag.bools THEN <<tag.attributes.value>> ELSE <<>>
           [] tag.attributes.type = "file" -> <<Text("file", <<0>>)>>
           [] tag.attributes.type = "hidden" -> <<tag.attributes.value>>
           [] OTHER -> IF Has(tag, "value") THEN <<Sanitized(tag.attributes.type, tag.attributes.value)>>
                       ELSE <<Empty>>

Missing(entry) == entry \in {<<>>, <<Empty>>, <<Text("file", <<0>>)>>}

\* Steps count from the least value, or else from the value of the attribute.
StepBase(tag) ==
    IF Has(tag, "min") THEN tag.attributes.min
    ELSE IF Has(tag, "value") /\ Sanitized(tag.attributes.type, tag.attributes.value) # Empty
         THEN tag.attributes.value.v[1]
         ELSE 0

InSteps(tag, n) ==
    LET step == IF Has(tag, "step") THEN tag.attributes.step ELSE DefaultStep(tag.attributes.type)
    IN  step # StepAny => (n - StepBase(tag)) % step = 0

InBounds(tag, n) ==
    (Has(tag, "min") => n >= tag.attributes.min) /\ (Has(tag, "max") => n <= tag.attributes.max)

\* Lengths are those of the characters, and are only those of what was typed.
InLengths(tag, chars) ==
    (Has(tag, "minlength") => chars >= tag.attributes.minlength)
        /\ (Has(tag, "maxlength") => chars <= tag.attributes.maxlength)

\* Constraint validation: a read-only control, and a hidden one, are not validated.
Lets(tag, entry, typed) ==
    \/ "readonly" \in tag.bools
    \/ tag.tag = "select" /\ ("required" \in tag.bools => ~Missing(entry))
    \/ /\ tag.tag = "input"
       /\ LET type == tag.attributes.type
          IN  \/ Missing(entry) /\ "required" \notin tag.bools
              \/ /\ ~Missing(entry)
                 /\ type \in {"email", "url"} => entry[1].as = type
                 /\ type \in {"text", "password", "email", "url"} /\ typed => InLengths(tag, entry[1].v[1])
                 /\ type \in {"number", "date", "time", "datetime-local"} =>
                        InBounds(tag, entry[1].v[1]) /\ InSteps(tag, entry[1].v[1])

\* The controls of a field: all but the last are hidden.
Control(tags) == Last(tags)

Sent(tags, entry) ==
    LET hidden == Front(tags) IN [i \in DOMAIN hidden |-> hidden[i].attributes.value] \o entry

-----------------------------------------------------------------------------
(* The form                                                                *)

Declared(type, arg, wrap, custom) == [type |-> type, arg |-> arg, wrap |-> wrap, custom |-> custom]

\* FormContext::new.
NewContext(form) ==
    [fields |-> [id \in DOMAIN form |-> NewField(form[id])],
     errors |-> [id \in DOMAIN form |-> <<>>],
     form_errors |-> <<>>]

AddError(context, id, error) == [context EXCEPT !.errors[id] = Append(@, error)]

AddFormError(context, error) == [context EXCEPT !.form_errors = Append(@, error)]

HasErrors(context) == context.form_errors # <<>> \/ \E id \in DOMAIN context.errors : context.errors[id] # <<>>

\* FormContext::set_value and what build_context does with its error: an id that is no field's is passed over.
SetValue(context, id, text) ==
    IF id \notin DOMAIN context.fields THEN context
    ELSE LET set == FieldSetValue(context.fields[id], text)
         IN  IF set.ok THEN [context EXCEPT !.fields[id] = set.v] ELSE AddError(context, id, set.v)

\* form_data: the pairs of the body, or of the query when there is no body.
FormData(request) ==
    IF request.content = "multipart" THEN Ok(request.body)
    ELSE IF request.method \in {"GET", "HEAD"} THEN Ok(request.query)
    ELSE IF request.content = "urlencoded" THEN Ok(request.body)
    ELSE Err("ExpectedForm")

\* The body is taken out of the request: another reader finds it empty.
Taken(request) ==
    IF request.content = "multipart" \/ (request.method \notin {"GET", "HEAD"} /\ request.content = "urlencoded")
    THEN [request EXCEPT !.body = <<>>]
    ELSE request

\* Form::build_context.
BuildContext(form, request) ==
    LET data == FormData(request)
    IN  IF ~data.ok THEN data
        ELSE Ok(FoldLeft(LAMBDA c, pair : SetValue(c, pair[1], pair[2]), NewContext(form), data.v))

\* The values of all fields of a context, as clean_value has them.
Cleaned(form, context) == [id \in DOMAIN form |-> CleanValue(form[id], context.fields[id])]

\* Mutant: a field with an error loses its text.
WithErrors_Cleared(context, cleaned) ==
    [fields |-> [id \in DOMAIN context.fields |->
                    IF cleaned[id].ok THEN context.fields[id] ELSE [context.fields[id] EXCEPT !.value = <<>>]],
     errors |-> [id \in DOMAIN context.errors |-> IF cleaned[id].ok THEN <<>> ELSE <<cleaned[id].v>>],
     form_errors |-> context.form_errors]

WithErrors(context, cleaned) ==
    [context EXCEPT !.errors = [id \in DOMAIN context.errors |->
        IF cleaned[id].ok THEN context.errors[id] ELSE Append(context.errors[id], cleaned[id].v)]]

\* Form::from_request: a value of the struct, or the context with its errors.
FromRequest(form, request) ==
    LET built == BuildContext(form, request)
        cleaned == Cleaned(form, built.v)
        context == WithErrors(built.v, cleaned)
    IN  IF ~built.ok THEN [is |-> "error", error |-> built.v]
        ELSE IF HasErrors(context) THEN [is |-> "ValidationError", context |-> context]
        ELSE [is |-> "Ok", value |-> [id \in DOMAIN form |-> cleaned[id].v]]

\* Form::to_context: setting a value of text is expected not to fail, which it does for a file.
ToContext(form, value) ==
    LET set == [id \in DOMAIN form |->
                   FieldSetValue(NewField(form[id]), WrappedToFieldValue(form[id], value[id]))]
    IN  IF \E id \in DOMAIN form : ~set[id].ok THEN [is |-> "panic"]
        ELSE [is |-> "Ok", context |-> [NewContext(form) EXCEPT !.fields = [id \in DOMAIN form |-> set[id].v]]]

\* Display of a context: the controls of its fields.
Render(context) == [id \in DOMAIN context.fields |-> Tags(context.fields[id])]

-----------------------------------------------------------------------------
(* A page with a form, in a browser. *)

EntriesShown(page) == [id \in DOMAIN page |-> Shown(Control(page[id]))]

\* The browser lets the page be sent: the fields in typed were changed by hand.
LetsSend(page, entries, typed) == \A id \in DOMAIN page : Lets(Control(page[id]), entries[id], id \in typed)

\* The pairs a page sends, field after field.
PairsSent(page, entries) ==
    LET ids == SetToSeq(DOMAIN page)
        Pairs(id) == LET texts == Sent(page[id], entries[id]) IN [i \in DOMAIN texts |-> <<id, texts[i]>>]
    IN  FlattenSeq([i \in DOMAIN ids |-> Pairs(ids[i])])

\* A POST of a page.
PostOf(page, entries, content) ==
    [method |-> "POST", content |-> content, query |-> <<>>, body |-> PairsSent(page, entries)]

=============================================================================
