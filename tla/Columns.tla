------------------------------- MODULE Columns -------------------------------
(***************************************************************************)
(* How the fields of a model become columns, and their values the values   *)
(* of a row: #[model] and its attributes (cot_codegen::model), the         *)
(* migrations' Field, DatabaseField with ToDbFieldValue and FromDbValue for *)
(* every type that implements it, and the code #[model] writes to take     *)
(* values out of an instance and to put them back.                         *)
(*                                                                         *)
(* A byte has as few bits as tell the integer types apart; a text is its   *)
(* number of characters and of bytes, a float the bytes it takes, a moment *)
(* the fraction of a second it is given to.  External: what a column of    *)
(* each database holds, and what sqlx binds and decodes.                   *)
(***************************************************************************)
EXTENDS Integers, Sequences, FiniteSets, Functions

CONSTANTS
    Byte,      \* bits of a byte
    Limit,     \* LIMIT of LimitedString
    Automatic, \* Auto::Auto
    Null,      \* None, and NULL
    Refused    \* an error

ASSUME WidthAssumption == Byte \in 2 .. 3 /\ Limit \in Nat \ {0}

-----------------------------------------------------------------------------
(* Types.  A field is of a type of Rust, or of Auto<..> of it; or it is a  *)
(* ForeignKey<..> to a model whose primary key is that; any of these may   *)
(* be in Option<..>.                                                       *)

Signed(n)   == [signed |-> TRUE, bytes |-> n]
Unsigned(n) == [signed |-> FALSE, bytes |-> n]

RustInteger ==
    [i8 |-> Signed(1), i16 |-> Signed(2), i32 |-> Signed(4), i64 |-> Signed(8),
     u8 |-> Unsigned(1), u16 |-> Unsigned(2), u32 |-> Unsigned(4), u64 |-> Unsigned(8),
     WeekdaySet |-> Unsigned(1)]

\* impl_db_field!
ColumnType ==
    [bool |-> "Boolean",
     i8 |-> "TinyInteger", i16 |-> "SmallInteger", i32 |-> "Integer", i64 |-> "BigInteger",
     u8 |-> "TinyUnsignedInteger", u16 |-> "SmallUnsignedInteger",
     u32 |-> "UnsignedInteger", u64 |-> "BigUnsignedInteger",
     f32 |-> "Float", f64 |-> "Double",
     NaiveDate |-> "Date", NaiveTime |-> "Time", NaiveDateTime |-> "DateTime",
     FixedOffset |-> "DateTimeWithTimeZone", Utc |-> "DateTimeWithTimeZone",
     WeekdaySet |-> "TinyUnsignedInteger",
     String |-> "Text", LimitedString |-> "String", Vec |-> "Blob"]

RustType    == DOMAIN ColumnType
KeyType     == {"i32", "i64", "u32", "u64", "String"}    \* impl PrimaryKey
Moments     == {"NaiveTime", "NaiveDateTime", "FixedOffset", "Utc"}
Texts       == {"String", "LimitedString"}

FieldType ==
    {t \in [base : RustType, option : BOOLEAN, key : BOOLEAN, auto : BOOLEAN] :
        t.key \/ t.auto => t.base \in KeyType}

Nullable(t) == t.option

-----------------------------------------------------------------------------
(* The attributes of a field, and the field of a migration.                *)

NoArgs == [onDelete |-> "default", onUpdate |-> "default"]

UsesSetNone(args) == args.onDelete = "SetNone" \/ args.onUpdate = "SetNone"

\* FieldOpts::as_field; the key of the model referred to is not spelt out.
AsFieldError(opts) ==
    \/ opts.args # NoArgs /\ ~opts.type.key
    \/ opts.type.key /\ UsesSetNone(opts.args) /\ ~opts.type.option

AutoValue(t) == t.auto /\ ~t.key

OrDefault(policy, default) == IF policy = "default" THEN default ELSE policy

\* What the generator writes for a field, and Field::foreign_key with it.
MigrationField(opts) ==
    [type |-> ColumnType[opts.type.base], null |-> Nullable(opts.type),
     auto |-> AutoValue(opts.type), primary |-> opts.primary, unique |-> opts.unique,
     key |-> IF opts.type.key
             THEN [onDelete |-> OrDefault(opts.args.onDelete, "Restrict"),
                   onUpdate |-> OrDefault(opts.args.onUpdate, "Cascade")]
             ELSE NoArgs]

ForeignKeyPanics(field) ==
    field.key # NoArgs /\ ~field.null /\ "SetNone" \in Range(field.key)

\* ModelOpts::get_primary_key_field
ModelError(model) ==
    \/ \E i \in DOMAIN model : AsFieldError(model[i])
    \/ Cardinality({i \in DOMAIN model : model[i].primary}) # 1

-----------------------------------------------------------------------------
(* Columns.                                                                *)

IntegerColumn ==
    [TinyInteger |-> Signed(1), SmallInteger |-> Signed(2),
     Integer |-> Signed(4), BigInteger |-> Signed(8),
     TinyUnsignedInteger |-> Unsigned(1), SmallUnsignedInteger |-> Unsigned(2),
     UnsignedInteger |-> Unsigned(4), BigUnsignedInteger |-> Unsigned(8)]

\* PostgreSQL has no type of one byte and none without a sign, SQLite has one
\* type of integers.
IntegerOf(kind, type) ==
    LET n == IntegerColumn[type] IN
    CASE kind = "sqlite" -> Signed(8)
      [] kind = "mysql"  -> n
      [] OTHER -> Signed(CASE n.signed /\ n.bytes > 1      -> n.bytes
                           [] n.bytes = 1 \/ n.bytes = 8   -> IF n.bytes = 1 THEN 2 ELSE 8
                           [] OTHER                        -> 2 * n.bytes)

\* sea_query_column_type_for of MySQL: DATETIME(6)
Custom(type) == type \in {"DateTime", "DateTimeWithTimeZone"}

\* Fractions of a second that a column keeps: none, micro- or nanoseconds.
Fraction(kind, type) ==
    CASE kind = "sqlite"   -> 2
      [] kind = "postgres" -> 1
      [] OTHER             -> IF Custom(type) THEN 1 ELSE 0

Least(n)    == IF n.signed THEN -(2 ^ (n.bytes * Byte - 1)) ELSE 0
Greatest(n) == 2 ^ (n.bytes * Byte - (IF n.signed THEN 1 ELSE 0)) - 1
Holds(n, v) == Least(n) <= v /\ v <= Greatest(n)

Lower(a, b) == IF a < b THEN a ELSE b

-----------------------------------------------------------------------------
(* Values: ToDbFieldValue, what is bound, what the column keeps, and       *)
(* FromDbValue.                                                            *)

Days == 0 .. Byte - 2     \* the days of a week: a bit of a byte is left

Bits(days)   == LET sum[D \in SUBSET Days] ==
                        IF D = {} THEN 0 ELSE LET d == CHOOSE x \in D : TRUE IN 2 ^ d + sum[D \ {d}]
                IN  sum[days]
DaysOf(bits) == {d \in Days : (bits \div 2 ^ d) % 2 = 1}

\* LimitedString::new
NewLimitedString(s) == IF s.bytes > Limit THEN Refused ELSE s

\* What a program has in a field.
RustValues(base) ==
    CASE base = "WeekdaySet" -> SUBSET Days
      [] base \in DOMAIN RustInteger \ {"WeekdaySet"} ->
             LET n == RustInteger[base] IN {Least(n), 0, 1, Greatest(n)}
      [] base \in Texts ->
             {s \in [chars : 0 .. Limit + 1, bytes : 0 .. 2 * Limit + 2] :
                 /\ s.chars <= s.bytes /\ s.bytes <= 2 * s.chars
                 /\ base = "LimitedString" => NewLimitedString(s) # Refused}
      [] base \in {"f32", "f64"} -> {4} \union (IF base = "f64" THEN {8} ELSE {})
      [] base \in Moments -> 0 .. 2
      [] OTHER -> BOOLEAN      \* two of all others

Values(t) ==
    RustValues(t.base) \union (IF t.option THEN {Null} ELSE {}) \union (IF t.auto THEN {Automatic} ELSE {})

\* Mutant: PostgreSQL is given an i8 as it is.
PrepareNothing(kind, n) == n

\* prepare_values: i8 would be a "char"
Prepared(kind, n) == IF kind = "postgres" /\ n = Signed(1) THEN Signed(2) ELSE n

\* What sqlx binds: SQLite and PostgreSQL have no integers of 8 bytes without
\* a sign.
Binds(kind, n, v) ==
    /\ kind = "postgres" => Prepared(kind, n) # Signed(1)
    /\ kind # "mysql"    => Holds(Signed(8), v)

Stored(kind, base, v) ==
    LET type == ColumnType[base] IN
    IF v = Null THEN Null
    ELSE IF base \in DOMAIN RustInteger
    THEN LET int == IF base = "WeekdaySet" THEN Bits(v) ELSE v IN
         IF Binds(kind, RustInteger[base], int) /\ Holds(IntegerOf(kind, type), int)
         THEN int ELSE Refused
    ELSE IF base \in Moments THEN Lower(v, Fraction(kind, type))
    ELSE IF type = "Float" THEN Lower(v, IF kind = "sqlite" THEN 8 ELSE 4)
    ELSE IF type = "String" /\ kind # "sqlite" /\ v.chars > Limit THEN Refused
    ELSE v

\* The integer that sqlx is asked for: impl_db_field_with_postgres_int_cast!
Decoded(kind, base) ==
    LET n == RustInteger[base] IN
    IF kind = "postgres" /\ (~n.signed \/ n.bytes = 1)
    THEN Signed(IF n.bytes = 8 THEN 8 ELSE 2 * n.bytes)
    ELSE n

\* SqlxValueRef::get: PostgreSQL knows each type by its name, MySQL its sign.
Compatible(kind, column, n) ==
    CASE kind = "postgres" -> column = n
      [] kind = "mysql"    -> column.signed = n.signed
      [] OTHER             -> TRUE

\* v as $dest_ty
Cast(n, v) ==
    LET rest == v % 2 ^ (n.bytes * Byte)
    IN  IF rest > Greatest(n) THEN rest - 2 ^ (n.bytes * Byte) ELSE rest

FromDb(kind, t, v) ==
    LET n == RustInteger[t.base]
        asked == Decoded(kind, t.base)
    IN
    IF v = Null THEN IF Nullable(t) THEN Null ELSE Refused
    ELSE IF t.base \in DOMAIN RustInteger
    THEN IF ~Compatible(kind, IntegerOf(kind, ColumnType[t.base]), asked) \/ ~Holds(asked, v)
         THEN Refused
         ELSE IF t.base = "WeekdaySet" THEN DaysOf(Cast(n, v)) ELSE Cast(n, v)
    ELSE IF t.base = "LimitedString" THEN NewLimitedString(v)
    ELSE v

-----------------------------------------------------------------------------
(* Instances: insert_or_update_generic, and the code #[model] writes.      *)

\* get_values; a foreign key gives the key of its model, which may not be
\* known yet.
AutoColumns(instance) == {i \in DOMAIN instance : instance[i] = Automatic}

\* A column that is left out: the next key, or NULL.
Drawn == 1
LeftOut(t) == IF AutoValue(t) THEN Drawn ELSE IF Nullable(t) THEN Null ELSE Refused

InsertedRow(kind, model, instance) ==
    [i \in DOMAIN model |->
        IF i \in AutoColumns(instance) THEN LeftOut(model[i])
        ELSE Stored(kind, model[i].base, instance[i])]

\* The columns of RETURNING or SELECT, in the order of the model.
Returned(row, columns) ==
    LET nth(k) == CHOOSE i \in columns : Cardinality({j \in columns : j < i}) = k - 1
    IN  [k \in 1 .. Cardinality(columns) |-> [column |-> nth(k), value |-> row[nth(k)]]]

\* update_from_db: the columns asked for come in the order asked for.
Updated(kind, model, instance, returned) ==
    [i \in DOMAIN model |->
        IF \E k \in DOMAIN returned : returned[k].column = i
        THEN FromDb(kind, model[i],
                    returned[CHOOSE k \in DOMAIN returned : returned[k].column = i].value)
        ELSE instance[i]]

\* Model::from_db of a row with all columns.
Loaded(kind, model, row) == [i \in DOMAIN model |-> FromDb(kind, model[i], row[i])]

-----------------------------------------------------------------------------
(* Properties                                                              *)

\* What a database can keep of a value: moments to the microsecond, but for
\* MySQL's TIME; all else as it is, or not at all where a u64 has no column.
Kept(kind, t, v) ==
    CASE v \in {Automatic, Null}     -> IF v = Automatic THEN LeftOut(t) ELSE Null
      [] t.base \in Moments     -> Lower(v, IF kind = "sqlite" THEN 2
                                            ELSE IF kind = "mysql" /\ t.base = "NaiveTime" THEN 0 ELSE 1)
      [] t.base = "u64" /\ kind # "mysql" /\ v > Greatest(Signed(8)) -> Refused
      [] OTHER                  -> v

\* Models of a primary key and another field, in either order.
KeyField(b) == [base |-> b, option |-> FALSE, key |-> FALSE, auto |-> b # "String"]
ModelTypes  ==
    UNION {{<<KeyField(b), t>>, <<t, KeyField(b)>>} :
           b \in {"i64", "String"}, t \in {f \in FieldType : f.auto => f.key}}

Instances(model) == {<<v, w>> : v \in Values(model[1]), w \in Values(model[2])}

\* Whatever an instance holds, inserting it leaves it with what the row has,
\* and the row is read back as what was written, on every database; what the
\* database cannot keep is refused.  A foreign key to an instance without a
\* key is the one value that turns into another, None.
ValuesReturn(kind) ==
    \A model \in ModelTypes : \A instance \in Instances(model) :
        LET row  == InsertedRow(kind, model, instance)
            kept == [i \in DOMAIN model |-> Kept(kind, model[i], instance[i])]
        IN  IF Refused \in Range(kept) THEN Refused \in Range(row)
            ELSE /\ Refused \notin Range(row)
                 /\ Loaded(kind, model, row) = kept
                 /\ LET after == Updated(kind, model, instance, Returned(row, AutoColumns(instance)))
                    IN  \A i \in DOMAIN model :
                            after[i] = IF instance[i] = Automatic THEN kept[i] ELSE instance[i]

Policies == {"default", "NoAction", "Restrict", "Cascade", "SetNone"}

Declared ==
    [type : {t \in FieldType : t.base \in {"bool", "i64"}}, primary : BOOLEAN, unique : BOOLEAN,
     args : [onDelete : Policies, onUpdate : Policies]]

Id == [type |-> KeyField("i64"), primary |-> TRUE, unique |-> FALSE, args |-> NoArgs]

\* What #[model] accepts never makes a migration panic or sets NULL where
\* there is NOT NULL, and the keys that are drawn are those of the model.
DefinitionsHold ==
    \A opts \in Declared : ~ModelError(<<Id, opts>>) =>
        LET field == MigrationField(opts) IN
        /\ ~ForeignKeyPanics(field) /\ ~field.primary
        /\ field.auto => field.key = NoArgs
        /\ \A v \in Values(opts.type) : v = Null => field.null

=============================================================================
