------------------------------ MODULE FormFields ------------------------------
(***************************************************************************)
(* The types of fields of a form: the options of each, the HTML control it *)
(* is rendered as, the value that clean_value makes of the text which the  *)
(* control sent, and the text to_field_value puts in the control for a     *)
(* value.                                                                  *)
(*                                                                         *)
(* A text is a record of how it is written and of what it says, a tuple of *)
(* numbers: "plain", "email" and "url" texts say how many characters,      *)
(* bytes and newlines they have, "num" texts a number, in halves, "date"   *)
(* texts a day, and "time", "T", "space" and "offset" texts a time in half *)
(* minutes and how many digits of a second follow it.  The value of a      *)
(* field is the tuple, or a choice, or None.  Attributes that only change  *)
(* the looks of a control are left out.                                    *)
(***************************************************************************)
EXTENDS Integers, Sequences, FiniteSets, SequencesExt

CONSTANT None       \* no value: Option::None

Text(as, v) == [as |-> as, v |-> v]
Empty == Text("empty", <<>>)

Ok(v) == [ok |-> TRUE, v |-> v]
Err(error) == [ok |-> FALSE, v |-> error]

-----------------------------------------------------------------------------
(* HtmlTag: a name, attributes, boolean attributes and children. *)

HtmlTag(tag, attributes, bools, children) ==
    [tag |-> tag, attributes |-> Restrict(attributes, {k \in DOMAIN attributes : attributes[k] # None}),
     bools |-> bools, children |-> children]

InputTag(type, attributes, bools) == HtmlTag("input", [type |-> type] @@ attributes, bools, <<>>)

Has(tag, name) == name \in DOMAIN tag.attributes

-----------------------------------------------------------------------------
(* What the types of fields have in common: impl_form_field and FormField. *)

\* A field of a form: its type and the parameter of the type, its options, the texts it was set to.
WithOptions(type, arg, required, custom) ==
    [type |-> type, arg |-> arg, required |-> required, custom |-> custom, value |-> <<>>]

Value(f) == IF f.value = <<>> THEN None ELSE Last(f.value)

SetText(f, text) == [f EXCEPT !.value = <<text>>]

\* The boolean attributes of a control that may be required, and read only.
Flags(f) == (IF f.required THEN {"required"} ELSE {}) \union (IF f.custom.readonly THEN {"readonly"} ELSE {})

CheckRequired(f, Clean(_)) == IF Value(f) \in {None, Empty} THEN Err("Required") ELSE Clean(Value(f))

\* The error of the first check that fails, a pair of a condition and an error.
Checked(checks, v) ==
    LET failed == SelectSeq(checks, LAMBDA c : c[1])
    IN  IF failed = <<>> THEN Ok(v) ELSE Err(failed[1][2])

\* Checks of min and max, on what a value is compared by.
Bounds(o, n) ==
    << <<o.min # None /\ n < o.min, "MinimumValueNotMet">>, <<o.max # None /\ n > o.max, "MaximumValueExceeded">> >>

-----------------------------------------------------------------------------
(* Fields of text: their lengths are those of the bytes. *)

Bytes(text) == text.v[2]

TooLong(o, text) == o.max_length # None /\ Bytes(text) > o.max_length
TooShort(o, text) == o.min_length # None /\ Bytes(text) < o.min_length

TextAttributes(o) == [maxlength |-> o.max_length, minlength |-> o.min_length]

StringFieldOptions == [max_length |-> None, min_length |-> None, readonly |-> FALSE]

StringTag(f) == InputTag("text", TextAttributes(f.custom) @@ [value |-> Value(f)], Flags(f))

CleanString(f) ==
    CheckRequired(f, LAMBDA t : Checked(<< <<TooLong(f.custom, t), "MaximumLengthExceeded">> >>, t.v))

\* arg is LEN, which the options do not know.
CleanLimitedString(f) ==
    CheckRequired(f, LAMBDA t : Checked(<< <<Bytes(t) > f.arg, "MaximumLengthExceeded">> >>, t.v))

PasswordFieldOptions == [max_length |-> None, min_length |-> None, readonly |-> FALSE]

\* What was typed is never shown again.
PasswordTag(f) == InputTag("password", TextAttributes(f.custom), Flags(f))

CleanPassword(f) ==
    CheckRequired(f, LAMBDA t : Checked(<< <<TooLong(f.custom, t), "MaximumLengthExceeded">> >>, t.v))

\* The hash of the password is named by the password.
CleanPasswordHash(f) ==
    CheckRequired(f, LAMBDA t : Checked(<< <<TooLong(f.custom, t), "MaximumLengthExceeded">> >>, t.v))

EmailFieldOptions == [max_length |-> None, min_length |-> None, readonly |-> FALSE]

EmailTag(f) == InputTag("email", TextAttributes(f.custom) @@ [value |-> Value(f)], Flags(f))

CleanEmail(f) ==
    LET o == f.custom
    IN  CheckRequired(f, LAMBDA t :
            Checked(<< <<None \notin {o.min_length, o.max_length} /\ o.min_length > o.max_length, "Custom">>,
                       <<TooShort(o, t), "MinimumLengthNotMet">>,
                       <<TooLong(o, t), "MaximumLengthExceeded">>,
                       <<t.as # "email", "Custom">> >>, t.v))

UrlFieldOptions == [max_length |-> None, min_length |-> None, readonly |-> FALSE]

UrlTag(f) == InputTag("url", TextAttributes(f.custom) @@ [value |-> Value(f)], Flags(f))

\* The lengths are left to the browser.
CleanUrl(f) == CheckRequired(f, LAMBDA t : Checked(<< <<t.as # "url", "Custom">> >>, t.v))

-----------------------------------------------------------------------------
(* Fields of numbers: arg is the least and the greatest number of the type. *)

\* Step: a number above zero, or any.
StepAny == 0

NumberAttributes(f) == [min |-> f.custom.min, max |-> f.custom.max, step |-> f.custom.step, value |-> Value(f)]

IntegerFieldOptions(arg) == [min |-> arg[1], max |-> arg[2], step |-> None, readonly |-> FALSE]

IntegerTag(f) == InputTag("number", NumberAttributes(f), Flags(f))

CleanInteger(f) ==
    CheckRequired(f, LAMBDA t :
        IF t.as # "num" \/ t.v[1] % 2 # 0 \/ t.v[1] \notin f.arg[1] .. f.arg[2] THEN Err("InvalidValue")
        ELSE Checked(Bounds(f.custom, t.v[1]), t.v))

FloatFieldOptions(arg) == [min |-> arg[1], max |-> arg[2], step |-> None, readonly |-> FALSE]

FloatTag(f) == InputTag("number", NumberAttributes(f), Flags(f))

\* "inf" is parsed and refused.
CleanFloat(f) ==
    CheckRequired(f, LAMBDA t :
        IF t.as = "inf" THEN Err("Custom")
        ELSE IF t.as # "num" THEN Err("InvalidValue")
        ELSE Checked(Bounds(f.custom, t.v[1]), t.v))

-----------------------------------------------------------------------------
(* Check boxes.  "1" and "0" are <<1>> texts of "yes" and "no", the other *)
(* spellings are <<2>>.                                                   *)

BoolFieldOptions == [must_be_true |-> FALSE]

Checkbox(bools) == InputTag("checkbox", [value |-> Text("yes", <<1>>)], bools)

\* A hidden control says no where the box is not checked, except where it must be.
BoolTags(f) ==
    IF f.custom.must_be_true THEN << Checkbox({"required"}) >>
    ELSE << InputTag("hidden", [value |-> Text("no", <<1>>)], {}),
            Checkbox(IF Value(f) = Text("yes", <<1>>) THEN {"checked"} ELSE {}) >>

CleanBool(f) ==
    CheckRequired(f, LAMBDA t :
        IF t.as \notin {"yes", "no"} THEN Err("InvalidValue")
        ELSE Checked(<< <<f.custom.must_be_true /\ t.as = "no", "BooleanRequiredToBeTrue">> >>,
                     <<IF t.as = "yes" THEN 1 ELSE 0>>))

-----------------------------------------------------------------------------
(* Fields of dates and times. *)

InstantOptions == [min |-> None, max |-> None, step |-> None, readonly |-> FALSE]

\* The two formats that the server reads, neither of which has digits after a second.
ReadsInstant(as, t) == t.as = as /\ t.v[2] = 0

\* A bound is written without its seconds.
ToMinute(bound) == IF bound = None THEN None ELSE bound - (bound % 2)

DateTimeFieldOptions == InstantOptions

DateTimeTag(f) ==
    InputTag("datetime-local", [min |-> ToMinute(f.custom.min), max |-> ToMinute(f.custom.max),
                                step |-> f.custom.step, value |-> Value(f)], Flags(f))

CleanDateTime(f) ==
    CheckRequired(f, LAMBDA t :
        IF ~ReadsInstant("T", t) THEN Err("Custom") ELSE Checked(Bounds(f.custom, t.v[1]), t.v))

DateTimeWithTimezoneFieldOptions == [timezone |-> None, prefer_latest |-> None] @@ InstantOptions

\* The instants a time of the clock stands for: one, none, or two, the earlier first.  UTC has one for each.
FromLocalDatetime(timezone, naive) == IF timezone = None THEN <<naive>> ELSE timezone[naive]

\* The bounds are pairs of an instant and of an offset, the one of the clock they are written by.
DateTimeWithTimezoneTag(f) ==
    LET Naive(bound) == IF bound = None THEN None ELSE ToMinute(bound[1] + bound[2])
    IN  InputTag("datetime-local", [min |-> Naive(f.custom.min), max |-> Naive(f.custom.max),
                                    step |-> f.custom.step, value |-> Value(f)], Flags(f))

CleanDateTimeWithTimezone(f) ==
    LET o == f.custom
        Instant(bound) == IF bound = None THEN None ELSE bound[1]
        Within(instant) == Checked(Bounds([min |-> Instant(o.min), max |-> Instant(o.max)], instant), <<instant>>)
        Local(found) ==
            CASE Len(found) = 1 -> Within(found[1])
              [] Len(found) = 0 -> Err("NonExistentLocalDateTime")
              [] Len(found) = 2 -> IF o.prefer_latest = None THEN Err("AmbiguousDateTime")
                                   ELSE Within(found[IF o.prefer_latest THEN 2 ELSE 1])
    IN  CheckRequired(f, LAMBDA t : IF ~ReadsInstant("T", t) THEN Err("Custom")
                           ELSE Local(FromLocalDatetime(o.timezone, t.v[1])))

TimeFieldOptions == InstantOptions

TimeTag(f) ==
    InputTag("time", [min |-> f.custom.min, max |-> f.custom.max, step |-> f.custom.step, value |-> Value(f)],
             Flags(f))

CleanTime(f) ==
    CheckRequired(f, LAMBDA t :
        IF ~ReadsInstant("time", t) THEN Err("Custom") ELSE Checked(Bounds(f.custom, t.v[1]), t.v))

DateFieldOptions == InstantOptions

DateTag(f) ==
    InputTag("date", [min |-> f.custom.min, max |-> f.custom.max, step |-> f.custom.step, value |-> Value(f)],
             Flags(f))

CleanDate(f) ==
    CheckRequired(f, LAMBDA t : IF t.as # "date" THEN Err("Custom") ELSE Checked(Bounds(f.custom, t.v[1]), t.v))

-----------------------------------------------------------------------------
(* Selects: arg are the choices of the type, records of an id and a name. *)

Option(value, bools) == HtmlTag("option", [value |-> value], bools, <<>>)

\* The ids of the choices, and before them an option that says nothing.
RenderSelect(f, multiple, none_option) ==
    LET choices == IF f.custom.choices = None THEN f.arg ELSE f.custom.choices
        OptionOf(c) == Option(Text("choice", <<c.id>>),
                              IF Contains(f.value, Text("choice", <<c.id>>)) THEN {"selected"} ELSE {})
    IN  HtmlTag("select", <<>>,
                (IF multiple THEN {"multiple"} ELSE {}) \union (IF f.required THEN {"required"} ELSE {}),
                (IF none_option THEN <<Option(Empty, {})>> ELSE <<>>)
                    \o [i \in DOMAIN choices |-> OptionOf(choices[i])])

SelectFieldOptions == [choices |-> None, none_option |-> FALSE]

\* Mutant: the option of the value is not marked.
SelectTag_Unmarked(f) == RenderSelect([f EXCEPT !.value = <<>>], FALSE, f.custom.none_option \/ ~f.required)

SelectTag(f) == RenderSelect(f, FALSE, f.custom.none_option \/ ~f.required)

\* SelectChoice::from_str: the choice of an id, whatever choices the options leave.
FromStr(f, text) ==
    LET found == SelectSeq(f.arg, LAMBDA c : text = Text("choice", <<c.id>>))
    IN  IF found = <<>> THEN Err("InvalidValue") ELSE Ok(found[1])

CleanSelect(f) == CheckRequired(f, LAMBDA t : FromStr(f, t))

\* A weekday is found whatever the case of its letters.
CleanWeekday(f) ==
    CheckRequired(f, LAMBDA t : FromStr(f, IF t.as = "upper" THEN Text("choice", t.v) ELSE t))

SelectMultipleFieldOptions == [choices |-> None]

\* set_value of a field of several values, an IndexSet.
InsertText(f, text) == IF Contains(f.value, text) THEN f ELSE [f EXCEPT !.value = Append(@, text)]

SelectMultipleTag(f) == RenderSelect(f, TRUE, FALSE)

CleanMultiple(f) ==
    LET cleaned == [i \in DOMAIN f.value |-> FromStr(f, f.value[i])]
    IN  IF f.value = <<>> THEN Err("Required")
        ELSE IF \E i \in DOMAIN cleaned : ~cleaned[i].ok THEN Err("InvalidValue")
        ELSE Ok({cleaned[i].v : i \in DOMAIN cleaned})

-----------------------------------------------------------------------------
(* Files: a "file" text is a part of a multipart body, of some bytes. *)

FileFieldOptions == [accept |-> None]

FileTag(f) == InputTag("file", <<>>, IF f.required THEN {"required"} ELSE {})

CleanFile(f) ==
    IF f.value = <<>> \/ f.value = <<Text("file", <<0>>)>> THEN Err("Required") ELSE Ok(Value(f).v)

-----------------------------------------------------------------------------
(* The types together: FormField and AsFormField. *)

Tags(f) ==
    CASE f.type \in {"string", "limited"} -> <<StringTag(f)>>
      [] f.type \in {"password", "hash"} -> <<PasswordTag(f)>>
      [] f.type = "email" -> <<EmailTag(f)>>
      [] f.type = "url" -> <<UrlTag(f)>>
      [] f.type = "integer" -> <<IntegerTag(f)>>
      [] f.type = "float" -> <<FloatTag(f)>>
      [] f.type = "bool" -> BoolTags(f)
      [] f.type = "datetime" -> <<DateTimeTag(f)>>
      [] f.type = "zoned" -> <<DateTimeWithTimezoneTag(f)>>
      [] f.type = "time" -> <<TimeTag(f)>>
      [] f.type = "date" -> <<DateTag(f)>>
      [] f.type \in {"select", "weekday"} -> <<SelectTag(f)>>
      [] f.type = "multiple" -> <<SelectMultipleTag(f)>>
      [] f.type = "file" -> <<FileTag(f)>>

CleanType(f) ==
    CASE f.type = "string" -> CleanString(f)
      [] f.type = "limited" -> CleanLimitedString(f)
      [] f.type = "password" -> CleanPassword(f)
      [] f.type = "hash" -> CleanPasswordHash(f)
      [] f.type = "email" -> CleanEmail(f)
      [] f.type = "url" -> CleanUrl(f)
      [] f.type = "integer" -> CleanInteger(f)
      [] f.type = "float" -> CleanFloat(f)
      [] f.type = "bool" -> CleanBool(f)
      [] f.type = "datetime" -> CleanDateTime(f)
      [] f.type = "zoned" -> CleanDateTimeWithTimezone(f)
      [] f.type = "time" -> CleanTime(f)
      [] f.type = "date" -> CleanDate(f)
      [] f.type = "select" -> CleanSelect(f)
      [] f.type = "weekday" -> CleanWeekday(f)
      [] f.type = "multiple" -> CleanMultiple(f)
      [] f.type = "file" -> CleanFile(f)

\* Display and to_string of a value; a choice by its name, and nothing of a hash, of a file and of several choices.
ToFieldValue(type, v) ==
    CASE type \in {"hash", "multiple", "file"} -> Empty
      [] type \in {"string", "limited", "password"} -> IF v[1] = 0 THEN Empty ELSE Text("plain", v)
      [] type \in {"email", "url", "date", "time"} -> Text(type, v)
      [] type \in {"integer", "float"} -> Text("num", v)
      [] type = "bool" -> Text(IF v = <<1>> THEN "yes" ELSE "no", <<1>>)
      [] type = "datetime" -> Text("space", v)
      [] type = "zoned" -> Text("offset", v)
      [] type \in {"select", "weekday"} -> Text("choice", <<v.name>>)

FieldSetValue(f, text) ==
    CASE f.type = "multiple" -> Ok(InsertText(f, text))
      [] f.type = "file" -> IF text.as # "file" THEN Err("FormFieldValueError") ELSE Ok(SetText(f, text))
      [] OTHER -> Ok(SetText(f, text))

\* new_field: what may be missing is not required, and nor is a check box.
NewField(d) ==
    WithOptions(d.type, d.arg, d.wrap \notin {"Option", "Auto"} /\ d.type # "bool", d.custom)

\* Option and Auto turn a missing value into None.
CleanValue(d, f) ==
    LET cleaned == CleanType(f)
    IN  IF d.wrap \in {"Option", "Auto"} /\ ~cleaned.ok /\ cleaned.v = "Required" THEN Ok(None) ELSE cleaned

WrappedToFieldValue(d, v) == IF v = None THEN Empty ELSE ToFieldValue(d.type, v)

=============================================================================
