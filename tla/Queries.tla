------------------------------- MODULE Queries --------------------------------
(***************************************************************************)
(* Expressions of queries: how they are turned into SQL, above all those   *)
(* that match a text, which the three databases write in three ways, and   *)
(* what the database makes of the SQL in a row.                            *)
(*                                                                         *)
(* A text is a sequence of characters.  An expression is a record of an    *)
(* operation and its operands.                                             *)
(*                                                                         *)
(* A Query is a filter, a limit and an offset, and its methods ask for     *)
(* rows of a table.  A table is a sequence of rows, in the order that the  *)
(* database reads them: no query says by what to order them.               *)
(*                                                                         *)
(* query! is the macro that writes the code that builds a query.           *)
(***************************************************************************)
EXTENDS Integers, Sequences, SequencesExt
CONSTANTS
    Star, One, Backslash,       \* the characters of globs: * ? \
    Percent, Underscore,        \* the wildcards of LIKE: % _
    Bracket, Closing,           \* the brackets of GLOB: [ ]
    Lowers,                     \* the lower case of each letter in upper case
    Ascii,                      \* the letters of Lowers that SQLite knows the case of
    Null                        \* NULL

\* What a character of a pattern that is to be sent says: itself, or a wildcard.
Literal(c) == [lit |-> c]
AnyNumber == [wild |-> "any number"]
AnyOne == [wild |-> "one"]

Lower(letters, c) == IF c \in letters THEN Lowers[c] ELSE c
ToLower(letters, text) == [i \in DOMAIN text |-> Lower(letters, text[i])]
ToLowercase(text) == ToLower(DOMAIN Lowers, text)

-----------------------------------------------------------------------------
(* Patterns: like.rs and the LikeExprBuilder of each database. *)

\* escape_literal: a text as the glob that it alone matches.
EscapeLiteral(text) ==
    FlattenSeq([i \in DOMAIN text |->
        IF text[i] \in {Star, One, Backslash} THEN <<Backslash, text[i]>> ELSE <<text[i]>>])

\* Mutant: brackets are no wildcards.
PushGlobLiteral_Bracket(c) == IF c \in {Star, One} THEN <<Bracket, c, Closing>> ELSE <<c>>

\* push_like_literal and push_glob_literal.
PushLikeLiteral(c) == IF c \in {Percent, Underscore, Backslash} THEN <<Backslash, c>> ELSE <<c>>
PushGlobLiteral(c) == IF c \in {Star, One, Bracket} THEN <<Bracket, c, Closing>> ELSE <<c>>

\* A glob of ours in another syntax; a backslash at the end says nothing.
RECURSIVE Rewrite(_, _, _, _)
Rewrite(glob, Push(_), any, one) ==
    IF glob = <<>> THEN <<>>
    ELSE IF Head(glob) = Backslash
         THEN IF Len(glob) = 1 THEN <<>> ELSE Push(glob[2]) \o Rewrite(Tail(Tail(glob)), Push, any, one)
    ELSE (CASE Head(glob) = Star -> <<any>> [] Head(glob) = One -> <<one>> [] OTHER -> Push(Head(glob)))
         \o Rewrite(Tail(glob), Push, any, one)

ToSqlLike(glob) == Rewrite(glob, PushLikeLiteral, Percent, Underscore)
ToSqliteGlob(glob) == Rewrite(glob, PushGlobLiteral, Star, One)

Sql(op, lhs, rhs) == [op |-> op, lhs |-> lhs, rhs |-> rhs]
Sql1(op, operand) == [op |-> op, operand |-> operand]
Pattern(pattern) == [op |-> "Value", value |-> pattern]

\* LikeExprBuilder::like_expr of the three databases.
SqliteLike(lhs, glob, sensitive) ==
    IF sensitive THEN Sql("GLOB", lhs, Pattern(ToSqliteGlob(glob)))
    ELSE Sql("LIKE", Sql1("lower", lhs), Pattern(ToSqlLike(ToLowercase(glob))))

PostgresLike(lhs, glob, sensitive) ==
    IF sensitive THEN Sql("LIKE", lhs, Pattern(ToSqlLike(glob))) ELSE Sql("ILIKE", lhs, Pattern(ToSqlLike(glob)))

MySqlLike(lhs, glob, sensitive) ==
    IF sensitive THEN Sql("LIKE", Sql1("COLLATE utf8mb4_bin", lhs), Pattern(ToSqlLike(glob)))
    ELSE Sql("LIKE", Sql1("lower", lhs), Pattern(ToLowercase(ToSqlLike(glob))))

Never == Sql("Eq", [op |-> "Value", value |-> 1], [op |-> "Value", value |-> 0])

\* like_expr: what is not a text that was given matches nothing.
LikeExpr(db, lhs, rhs, mode, sensitive) ==
    LET glob == CASE mode = "Contains" -> <<Star>> \o EscapeLiteral(rhs.value) \o <<Star>>
                  [] mode = "StartsWith" -> EscapeLiteral(rhs.value) \o <<Star>>
                  [] mode = "EndsWith" -> <<Star>> \o EscapeLiteral(rhs.value)
                  [] mode = "RawLike" -> rhs.value
    IN  IF rhs.op # "Value" \/ rhs.text = FALSE THEN Never
        ELSE CASE db = "sqlite" -> SqliteLike(lhs, glob, sensitive)
               [] db = "postgres" -> PostgresLike(lhs, glob, sensitive)
               [] db = "mysql" -> MySqlLike(lhs, glob, sensitive)

-----------------------------------------------------------------------------
(* Expr: its constructors and as_sea_query_expr. *)

Field(name) == [op |-> "Field", name |-> name]
TextValue(value) == [op |-> "Value", value |-> value, text |-> TRUE]
OtherValue(value) == [op |-> "Value", value |-> value, text |-> FALSE]

Logic == {"And", "Or"}
Comparisons == {"Eq", "Ne", "Lt", "Lte", "Gt", "Gte"}
Arithmetic == {"Add", "Sub", "Mul"}

Binary(op, lhs, rhs) == [op |-> op, lhs |-> lhs, rhs |-> rhs]

\* FieldRef: a field compared with a value of its type, or calculated with it.
FieldRefOp(op, name, value) == Binary(op, Field(name), OtherValue(value))

Modes == {"Contains", "StartsWith", "EndsWith", "RawLike"}

Matching(mode, lhs, rhs, sensitive) == [op |-> mode, lhs |-> lhs, rhs |-> rhs, sensitive |-> sensitive]

\* The methods of fields that match a text, and those that leave its case aside.
FieldRefMethods ==
    [contains |-> <<"Contains", TRUE>>, icontains |-> <<"Contains", FALSE>>,
     starts_with |-> <<"StartsWith", TRUE>>, istarts_with |-> <<"StartsWith", FALSE>>,
     ends_with |-> <<"EndsWith", TRUE>>, iends_with |-> <<"EndsWith", FALSE>>,
     raw_like |-> <<"RawLike", TRUE>>, iraw_like |-> <<"RawLike", FALSE>>]

RECURSIVE AsSeaQueryExpr(_, _)
AsSeaQueryExpr(e, db) ==
    CASE e.op \in {"Field", "Value"} -> e
      [] e.op \in Modes -> LikeExpr(db, AsSeaQueryExpr(e.lhs, db), e.rhs, e.op, e.sensitive)
      [] OTHER -> Sql(e.op, AsSeaQueryExpr(e.lhs, db), AsSeaQueryExpr(e.rhs, db))

-----------------------------------------------------------------------------
(* What the databases make of it. *)

\* A pattern of LIKE, with the backslash to escape by, and one of GLOB: what they are made of.
RECURSIVE LikeParts(_), GlobParts(_)
LikeParts(pattern) ==
    IF pattern = <<>> THEN <<>>
    ELSE IF Head(pattern) = Backslash THEN <<Literal(pattern[2])>> \o LikeParts(Tail(Tail(pattern)))
    ELSE <<CASE Head(pattern) = Percent -> AnyNumber [] Head(pattern) = Underscore -> AnyOne
             [] OTHER -> Literal(Head(pattern))>> \o LikeParts(Tail(pattern))

\* The only brackets that are sent are those around one character.
GlobParts(pattern) ==
    IF pattern = <<>> THEN <<>>
    ELSE IF Head(pattern) = Bracket THEN <<Literal(pattern[2])>> \o GlobParts(SubSeq(pattern, 4, Len(pattern)))
    ELSE <<CASE Head(pattern) = Star -> AnyNumber [] Head(pattern) = One -> AnyOne
             [] OTHER -> Literal(Head(pattern))>> \o GlobParts(Tail(pattern))

\* letters are those whose case does not count.
RECURSIVE MatchesParts(_, _, _)
MatchesParts(parts, text, letters) ==
    IF parts = <<>> THEN text = <<>>
    ELSE IF Head(parts) = AnyNumber
         THEN \E n \in 0 .. Len(text) : MatchesParts(Tail(parts), SubSeq(text, n + 1, Len(text)), letters)
    ELSE /\ text # <<>>
         /\ Head(parts) = AnyOne \/ Lower(letters, Head(parts).lit) = Lower(letters, Head(text))
         /\ MatchesParts(Tail(parts), Tail(text), letters)

\* The letters whose case LIKE leaves aside, if the column is not collated otherwise.
LikeLetters(db, lhs) ==
    CASE db = "sqlite" -> Ascii
      [] db = "postgres" -> {}
      [] db = "mysql" -> IF lhs.op = "COLLATE utf8mb4_bin" THEN {} ELSE DOMAIN Lowers

LowerLetters(db) == IF db = "sqlite" THEN Ascii ELSE DOMAIN Lowers

\* The logic of three values.
Conjunction(a, b) == IF FALSE \in {a, b} THEN FALSE ELSE IF Null \in {a, b} THEN Null ELSE TRUE
Disjunction(a, b) == IF TRUE \in {a, b} THEN TRUE ELSE IF Null \in {a, b} THEN Null ELSE FALSE

Compared(op, a, b) ==
    CASE op = "Eq" -> a = b [] op = "Ne" -> a # b [] op = "Lt" -> a < b [] op = "Lte" -> a <= b
      [] op = "Gt" -> a > b [] op = "Gte" -> a >= b
      [] op = "Add" -> a + b [] op = "Sub" -> a - b [] op = "Mul" -> a * b

RECURSIVE Evaluated(_, _, _)
Evaluated(sql, row, db) ==
    LET lhs == Evaluated(sql.lhs, row, db)
        rhs == Evaluated(sql.rhs, row, db)
    IN  CASE sql.op = "Field" -> row[sql.name]
          [] sql.op = "Value" -> sql.value
          [] sql.op = "COLLATE utf8mb4_bin" -> Evaluated(sql.operand, row, db)
          [] sql.op = "lower" ->
                LET text == Evaluated(sql.operand, row, db)
                IN  IF text = Null THEN Null ELSE ToLower(LowerLetters(db), text)
          [] sql.op = "And" -> Conjunction(lhs, rhs)
          [] sql.op = "Or" -> Disjunction(lhs, rhs)
          [] sql.op = "LIKE" ->
                IF lhs = Null THEN Null ELSE MatchesParts(LikeParts(rhs), lhs, LikeLetters(db, sql.lhs))
          [] sql.op = "ILIKE" ->
                IF lhs = Null THEN Null ELSE MatchesParts(LikeParts(rhs), lhs, DOMAIN Lowers)
          [] sql.op = "GLOB" -> IF lhs = Null THEN Null ELSE MatchesParts(GlobParts(rhs), lhs, {})
          [] OTHER -> IF Null \in {lhs, rhs} THEN Null ELSE Compared(sql.op, lhs, rhs)

\* A row is selected when its filter is true, and not when it is NULL.
Selects(filter, row, db) == filter = Null \/ Evaluated(AsSeaQueryExpr(filter, db), row, db) = TRUE

-----------------------------------------------------------------------------
(* What the documentation says that matching means. *)

\* A glob in words: parts of one character, of any, and of any number.
RECURSIVE Meant(_)
Meant(glob) ==
    IF glob = <<>> \/ glob = <<Backslash>> THEN <<>>
    ELSE IF Head(glob) = Backslash THEN <<Literal(glob[2])>> \o Meant(Tail(Tail(glob)))
    ELSE <<CASE Head(glob) = Star -> AnyNumber [] Head(glob) = One -> AnyOne [] OTHER -> Literal(Head(glob))>>
         \o Meant(Tail(glob))

Matches(mode, text, needle) ==
    CASE mode = "Contains" -> \E i \in 0 .. Len(text) - Len(needle) : SubSeq(text, i + 1, i + Len(needle)) = needle
      [] mode = "StartsWith" -> IsPrefix(needle, text)
      [] mode = "EndsWith" -> IsSuffix(needle, text)
      [] mode = "RawLike" -> MatchesParts(Meant(needle), text, {})

-----------------------------------------------------------------------------
(* Query                                                                   *)

NewQuery == [filter |-> Null, limit |-> Null, offset |-> Null]

\* A second filter takes the place of the first.
Filter(query, filter) == [query EXCEPT !.filter = filter]
Limit(query, limit) == [query EXCEPT !.limit = limit]
Offset(query, offset) == [query EXCEPT !.offset = offset]

\* ExprEq::eq.
FieldIs(name, value) == FieldRefOp("Eq", name, value)

Filtered(query, table, db) == SelectSeq(table, LAMBDA row : Selects(query.filter, row, db))

Limited(found, limit, offset) ==
    LET first == IF offset = Null THEN 0 ELSE offset
        last == IF limit = Null THEN Len(found) ELSE first + limit
    IN  SubSeq(found, first + 1, IF last < Len(found) THEN last ELSE Len(found))

\* Database::query.
All(query, table, db) == Limited(Filtered(query, table, db), query.limit, query.offset)

\* Database::get: a row, whatever the limit and the offset of the query.
Get(query, table, db) ==
    LET found == Limited(Filtered(query, table, db), 1, Null) IN IF found = <<>> THEN Null ELSE found[1]

\* Database::exists and Database::count, to which the limit and the offset are nothing either.
Exists(query, table, db) == Limited(Filtered(query, table, db), 1, Null) # <<>>

Count(query, table, db) == Len(Filtered(query, table, db))

\* Database::delete: the rows that are left.
Delete(query, table, db) == SelectSeq(table, LAMBDA row : ~Selects(query.filter, row, db))

-----------------------------------------------------------------------------
(* query!: the tokens of a condition, the expression that the parser makes *)
(* of them, and the code that the macro writes for it, which builds the    *)
(* filter of a query.  What has no field in it is left to the Rust         *)
(* compiler as tokens.                                                     *)
(*                                                                         *)
(* A token is a field, a literal, an operator, the name of a method or a   *)
(* group, the tokens between two parentheses.  Members and paths of values *)
(* and divisions are left out.                                             *)

FieldToken(name) == [tok |-> "field", name |-> name]
Lit(value) == [tok |-> "lit", value |-> value]
Op(op) == [tok |-> "op", op |-> op]
Method(member) == [tok |-> "method", member |-> member]
Group(tokens) == [tok |-> "group", tokens |-> tokens]

-----------------------------------------------------------------------------
(* The parser, by the binding priorities of operators. *)

LeftToRight(priority) == [left |-> 2 * priority - 1, right |-> 2 * priority]
RightToLeft(priority) == [left |-> 2 * priority, right |-> 2 * priority - 1]

InfixBindingPriority(op) ==
    CASE op = "Mul" -> LeftToRight(9)
      [] op \in {"Add", "Sub"} -> LeftToRight(8)
      [] op \in {"Eq", "Ne", "Lt", "Lte", "Gt", "Gte"} -> RightToLeft(3)
      [] op = "And" -> LeftToRight(2)
      [] op = "Or" -> LeftToRight(1)

Parsed(expr, rest) == [expr |-> expr, rest |-> rest]

\* Expr::parse_impl: an operand, and what follows as long as it binds more than min.
RECURSIVE ParseImpl(_, _), ParseOn(_, _, _)
ParseImpl(tokens, min) ==
    LET t == Head(tokens)
        lhs == CASE t.tok = "group" -> ParseImpl(t.tokens, 0).expr
                 [] t.tok = "field" -> [op |-> "FieldRef", name |-> t.name]
                 [] t.tok = "lit" -> [op |-> "Lit", value |-> t.value]
    IN  ParseOn(lhs, Tail(tokens), min)

ParseOn(lhs, tokens, min) ==
    IF tokens = <<>> THEN Parsed(lhs, tokens)
    ELSE LET t == Head(tokens)
         IN  CASE t.tok = "method" ->
                    ParseOn([op |-> "MemberAccess", parent |-> lhs, member |-> t.member], Tail(tokens), min)
               [] t.tok = "group" ->
                    ParseOn([op |-> "FunctionCall", function |-> lhs, args |-> t.tokens], Tail(tokens), min)
               [] t.tok = "op" ->
                    LET priority == InfixBindingPriority(t.op)
                        rhs == ParseImpl(Tail(tokens), priority.right)
                    IN  IF priority.left < min THEN Parsed(lhs, tokens)
                        ELSE ParseOn(Binary(t.op, lhs, rhs.expr), rhs.rest, min)

Parse(tokens) == ParseImpl(tokens, 0).expr

\* Expr::as_tokens: the tokens of what has no field in it, without the parentheses it had.
RECURSIVE AsTokens(_)
AsTokens(e) ==
    CASE e.op = "FieldRef" -> Null
      [] e.op = "Lit" -> <<Lit(e.value)>>
      [] e.op = "MemberAccess" ->
            LET parent == AsTokens(e.parent) IN IF parent = Null THEN Null ELSE parent \o <<Method(e.member)>>
      [] e.op = "FunctionCall" ->
            LET function == AsTokens(e.function) IN IF function = Null THEN Null ELSE function \o <<Group(e.args)>>
      [] OTHER ->
            LET lhs == AsTokens(e.lhs) rhs == AsTokens(e.rhs)
            IN  IF Null \in {lhs, rhs} THEN Null ELSE lhs \o <<Op(e.op)>> \o rhs

-----------------------------------------------------------------------------
(* What the Rust compiler makes of tokens. *)

Precedence(op) ==
    CASE op = "Or" -> 1 [] op = "And" -> 2 [] op \in {"Eq", "Ne", "Lt", "Lte", "Gt", "Gte"} -> 3
      [] op \in {"Add", "Sub"} -> 4 [] op = "Mul" -> 5

Applied(op, a, b) == IF op = "And" THEN a /\ b ELSE IF op = "Or" THEN a \/ b ELSE Compared(op, a, b)

\* The operator that is applied last is the last one of those that bind least.
RECURSIVE RustValue(_)
RustValue(tokens) ==
    IF Len(tokens) = 1
    THEN IF tokens[1].tok = "group" THEN RustValue(tokens[1].tokens) ELSE tokens[1].value
    ELSE LET ops == {i \in DOMAIN tokens : tokens[i].tok = "op"}
             last == CHOOSE i \in ops : \A j \in ops \ {i} :
                        \/ Precedence(tokens[i].op) < Precedence(tokens[j].op)
                        \/ Precedence(tokens[i].op) = Precedence(tokens[j].op) /\ i > j
         IN  Applied(tokens[last].op, RustValue(SubSeq(tokens, 1, last - 1)),
                     RustValue(SubSeq(tokens, last + 1, Len(tokens))))

-----------------------------------------------------------------------------
(* The code of the macro. *)

\* expr_to_tokens: the filter that the code builds when it runs.  handle_binary_comparison compares a field
\* with what the compiler makes of the tokens on its right.
RECURSIVE Built(_)
Built(e) ==
    CASE e.op = "FieldRef" -> Field(e.name)
      [] e.op = "Lit" -> OtherValue(e.value)
      [] e.op = "FunctionCall" ->
            LET method == FieldRefMethods[e.function.member]
            IN  Matching(method[1], Built(e.function.parent), TextValue(RustValue(e.args)), method[2])
      [] e.op \in Logic -> Binary(e.op, Built(e.lhs), Built(e.rhs))
      [] e.op \in Comparisons \union Arithmetic ->
            IF e.lhs.op = "FieldRef" /\ AsTokens(e.rhs) # Null
            THEN FieldRefOp(e.op, e.lhs.name, RustValue(AsTokens(e.rhs)))
            ELSE Binary(e.op, Built(e.lhs), Built(e.rhs))

\* A query of conditions: query! of the first, and a call of filter for each of the others.
QueryOf(conditions) ==
    FoldLeft(LAMBDA query, tokens : Filter(query, Built(Parse(tokens))), NewQuery, conditions)

-----------------------------------------------------------------------------
(* What a condition says. *)

\* The tokens of an expression, with the parentheses it needs to be read as what it is.
RECURSIVE Written(_)
Written(e) ==
    LET In(operand, least) ==
            IF operand.op \in Logic \union Comparisons \union Arithmetic /\ Precedence(operand.op) < least
            THEN <<Group(Written(operand))>> ELSE Written(operand)
    IN  CASE e.op = "Field" -> <<FieldToken(e.name)>>
          [] e.op = "Value" -> <<Lit(e.value)>>
          [] OTHER -> In(e.lhs, Precedence(e.op)) \o <<Op(e.op)>> \o In(e.rhs, Precedence(e.op) + 1)

\* What it is in a row without NULLs.
RECURSIVE Says(_, _)
Says(e, row) ==
    CASE e.op = "Field" -> row[e.name]
      [] e.op = "Value" -> e.value
      [] OTHER -> Applied(e.op, Says(e.lhs, row), Says(e.rhs, row))

\* The rows that a query of some conditions is to select, those that all of them hold in, and those it selects.
Asked(conditions, table) ==
    SelectSeq(table, LAMBDA row : \A i \in DOMAIN conditions : Says(conditions[i], row))

Answered(conditions, table, db) ==
    All(QueryOf([i \in DOMAIN conditions |-> Written(conditions[i])]), table, db)

RECURSIVE HasField(_)
HasField(e) ==
    CASE e.op = "Field" -> TRUE
      [] e.op = "Value" -> FALSE
      [] OTHER -> HasField(e.lhs) \/ HasField(e.rhs)

\* No value to the right of a field has parentheses in it.
RECURSIVE IsFlat(_)
IsFlat(e) ==
    e.op \in {"Field", "Value"} \/
        /\ IsFlat(e.lhs) /\ IsFlat(e.rhs)
        /\ e.lhs.op = "Field" /\ ~HasField(e.rhs) => \A i \in DOMAIN Written(e.rhs) : Written(e.rhs)[i].tok # "group"

\* All terms, and all combinations of conditions, of some depth.
RECURSIVE Terms(_, _), Combined(_, _)
Terms(leaves, depth) ==
    IF depth = 0 THEN leaves
    ELSE LET smaller == Terms(leaves, depth - 1)
         IN  smaller \union {Binary(op, a, b) : op \in Arithmetic, a \in smaller, b \in smaller}

Combined(conditions, depth) ==
    IF depth = 0 THEN conditions
    ELSE LET smaller == Combined(conditions, depth - 1)
         IN  smaller \union {Binary(op, a, b) : op \in Logic, a \in smaller, b \in smaller}

\* Conditions on a field n, whose values are 0 .. 2.
Conditions ==
    LET n == Field("n")
        leaves == {n, OtherValue(1), OtherValue(2)}
        Compare(ops, lhs, rhs) == {Binary(op, a, b) : op \in ops, a \in lhs, b \in rhs}
    IN  Compare({"Eq"}, {n}, Terms(leaves, 2))
            \union Compare(Comparisons, Terms(leaves, 1), leaves)
            \union Combined(Compare({"Ne", "Lte"}, {n}, {OtherValue(1)}), 2)

Numbers == << [n |-> 0], [n |-> 1], [n |-> 2] >>

=============================================================================
