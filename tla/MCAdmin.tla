-------------------------------- MODULE MCAdmin --------------------------------
(* Small models, each with a key and one field or two. *)
EXTENDS Admin

\* Letters of both cases, with an accent and without, and what is special to LIKE and GLOB.
SmallLetters == {"a", "A", "u", "U", "*", "?", "\\", "%", "["}

IdField == Declared("integer", <<-2, 2 * MaxKey>>, "Auto", IntegerFieldOptions(<<-2, 2 * MaxKey>>))

\* A model of one field: rows of the values first, and texts to type.
ModelOf(d, first, texts, asks, bound) ==
    [form |-> [id |-> IdField, f |-> d],
     rows |-> {[k \in Key |-> IF k <= n THEN [f |-> first[k]] ELSE None] : n \in 0 .. Len(first)},
     typed |-> [id |-> {<<Text("num", <<2>>)>>, <<Text("num", <<4>>)>>}, f |-> {<<t>> : t \in texts}],
     asks |-> asks, requests |-> bound]

Word(c, b) == <<c, b, 0>>
Plain(c, b) == Text("plain", Word(c, b))

Name == Declared("string", None, "plain", [StringFieldOptions EXCEPT !.max_length = 2])

Lists == ModelOf(Name, [k \in Key |-> Word(1, 1)], {}, {"list", "form", "save"}, MaxKey + 1)

Edits == ModelOf(Name, <<Word(1, 1)>>, {Plain(1, 1), Plain(2, 4)}, {"form", "save", "remove"}, 4)

Visits == ModelOf(Name, <<Word(1, 1)>>, {Plain(1, 1)}, {"logout", "form", "save"}, 4)

-----------------------------------------------------------------------------
(* A model for each type of field whose values survive their form. *)

Num(n) == Text("num", <<n>>)
Colours == << [id |-> 1, name |-> 1], [id |-> 2, name |-> 2] >>
Choice(n) == Text("choice", <<n>>)

\* The clock is put forward after 2, and back after 8, which is then said twice.
Clock == [n \in 0 .. 20 |-> IF n < 4 THEN <<n>> ELSE IF n < 6 THEN <<>> ELSE IF n = 8 THEN <<n - 2, n>> ELSE <<n - 2>>]

Wraps == {"plain", "Option"}

FormsOf(type, arg, custom, first, texts) ==
    { ModelOf(Declared(type, arg, wrap, custom), IF wrap = "Option" THEN <<first, None>> ELSE <<first>>,
              texts \union (IF wrap = "Option" THEN {Empty} ELSE {}), {"form", "save"}, 3) : wrap \in Wraps }

TypeModels ==
    UNION { FormsOf("limited", 2, StringFieldOptions, Word(2, 2), {Plain(1, 4)}),
            FormsOf("email", None, [EmailFieldOptions EXCEPT !.min_length = 3], Word(3, 3),
                    {Text("email", Word(3, 3)), Text("email", Word(2, 2))}),
            FormsOf("url", None, UrlFieldOptions, Word(3, 3), {Text("url", Word(3, 6))}),
            FormsOf("integer", <<-20, 20>>, [IntegerFieldOptions(<<-20, 20>>) EXCEPT !.min = -4, !.step = 4],
                    <<4>>, {Num(0), Num(2)}),
            FormsOf("float", <<-20, 20>>, [FloatFieldOptions(<<-20, 20>>) EXCEPT !.step = StepAny],
                    <<3>>, {Num(5), Num(22)}),
            FormsOf("time", None, TimeFieldOptions, <<3, 0>>, {Text("time", <<4, 0>>), Text("time", <<4, 3>>)}),
            FormsOf("date", None, [DateFieldOptions EXCEPT !.min = 3], <<3>>, {Text("date", <<4>>)}),
            FormsOf("datetime", None, [DateTimeFieldOptions EXCEPT !.min = 3], <<4, 0>>,
                    {Text("T", <<2, 0>>), Text("T", <<6, 3>>)}),
            FormsOf("select", Colours, SelectFieldOptions, Colours[2], {Choice(1)}) }
    \union
    { ModelOf(Declared("bool", None, "plain", BoolFieldOptions), << <<1>>, <<0>> >>, {}, {"form", "save"}, 4),
      ModelOf(Declared("integer", <<0, 8>>, "ForeignKey", IntegerFieldOptions(<<0, 8>>)), << <<2>> >>, {Num(4)},
              {"form", "save"}, 4),
      ModelOf(Declared("zoned", None, "plain", [DateTimeWithTimezoneFieldOptions EXCEPT !.timezone = Clock]),
              << <<2>> >>, {Text("T", <<n, 0>>) : n \in {2, 4, 8}}, {"form", "save"}, 4),
      ModelOf(Declared("multiple", Colours, "plain", SelectMultipleFieldOptions), << ToSet(Colours) >>, {},
              {"form", "save"}, 4) }

\* A model to ask queries about.
OneModel == {Lists}

SmallModels == {Lists, Edits, Visits} \union TypeModels

\* Everybody may do what anybody may.
People == Permutations(Staff)
=============================================================================
