---------------------------- MODULE ColumnTypes ----------------------------
(***************************************************************************)
(* The values of JSON fields, the statistics of a column, the type that is *)
(* derived from them, and what is written to a column of that type.  Of a  *)
(* string, only its form and its length in bytes matter; of a number that  *)
(* is not an integer, its integral part.                                   *)
(***************************************************************************)
EXTENDS Integers

CONSTANTS
    DropFields,      \* the fields of the table in ldp_drop_field.conf, or anonymized
    ObjectFields,    \* fields of the courses tables named "...Object" or "...Objects"
    IntSize,         \* 2^32: how many values an int has
    NumericLimit,    \* 10^10: a NUMERIC(12,2) is less
    MinVarchar,      \* minimum_varchar_size
    MaxText,         \* varchar_size - 1, or 64 MB
    MaxDeclared,     \* the largest n of a VARCHAR(n) in PostgreSQL
    NumberLength(_), \* the length of to_string(double)
    Garbage          \* what GetInt() and GetDouble() may return for no number

\* "INVALID", the text of a structure, has 7 characters, and is_uuid() wants 36.
\* PostgreSQL stops at 10 MB.  For no number, the accessors read what the parser
\* has there as unsigned: 0 for a Boolean, and for a structure its size beside a
\* capacity in the upper half, which is never 10^10.
ASSUME ColumnTypesAssumption ==
    /\ IntSize \in Nat \ {0}
    /\ {NumericLimit, MinVarchar, MaxText, MaxDeclared} \subseteq Nat \ {0}
    /\ 7 <= MinVarchar /\ MinVarchar <= MaxDeclared /\ MaxDeclared < MaxText /\ 36 < MaxText
    /\ Garbage \subseteq Nat \ {NumericLimit}

\* The forms of a string that matter: an "odd_date" looks like a date, but
\* PostgreSQL does not accept it.
Forms == {"uuid", "date_time", "odd_date", "other"}
DateForms == {"date_time", "odd_date"}

Integer(n) == [kind |-> "integer", number |-> n]
Floating(n) == [kind |-> "floating", number |-> n]
Boolean(b) == [kind |-> "boolean", truth |-> b]
String(form, length) == [kind |-> "string", form |-> form, length |-> length]
Missing == [kind |-> "missing"]
Null == [kind |-> "null"]
Structure == [kind |-> "structure"]

Values ==
    [kind : {"missing", "null", "structure"}]
      \cup [kind : {"integer", "floating"}, number : Int]
      \cup [kind : {"boolean"}, truth : BOOLEAN]
      \cup [kind : {"string"}, form : Forms, length : Nat]

IsNumber(v) == v.kind \in {"integer", "floating"}

\* A value that the parser can return: the text of a double is short, and a UUID
\* has 36 characters.
Possible(v) ==
    /\ IsNumber(v) => NumberLength(v.number) \in 1..(MaxText - 1)
    /\ v.kind = "string" => (v.form = "uuid" => v.length = 36)

\* What process_json_record() makes of the value of a field.
Filtered(field, v) ==
    IF v.kind = "structure"
    THEN IF field \in DropFields \cup ObjectFields THEN Null ELSE v
    ELSE IF field \notin DropFields THEN v
    ELSE CASE v.kind = "boolean" -> Boolean(FALSE)
           [] IsNumber(v)        -> Integer(0)
           [] v.kind = "string"  -> String("other", 0)
           [] OTHER              -> v

-----------------------------------------------------------------------------
(* Statistics and types                                                    *)

NoCounts == [string |-> 0, uuid |-> 0, date_time |-> 0, number |-> 0,
             floating |-> 0, boolean |-> 0, null |-> 0, max_length |-> 0]

Counts == [DOMAIN NoCounts -> Nat]

\* Variant: the length of the last string instead of the longest.
CountedLast(c, v) ==
    CASE v.kind = "null"    -> [c EXCEPT !.null = @ + 1]
      [] v.kind = "boolean" -> [c EXCEPT !.boolean = @ + 1]
      [] IsNumber(v)        -> [c EXCEPT !.number = @ + 1,
                                         !.floating = IF v.kind = "floating" THEN @ + 1 ELSE @]
      [] v.kind = "string"  -> [c EXCEPT !.string = @ + 1,
                                         !.uuid = IF v.form = "uuid" THEN @ + 1 ELSE @,
                                         !.date_time = IF v.form \in DateForms THEN @ + 1 ELSE @,
                                         !.max_length = v.length]
      [] OTHER              -> c

\* The statistics after one more value; structures and what is missing are not
\* counted.
Counted(c, v) ==
    CASE v.kind = "null"    -> [c EXCEPT !.null = @ + 1]
      [] v.kind = "boolean" -> [c EXCEPT !.boolean = @ + 1]
      [] IsNumber(v)        -> [c EXCEPT !.number = @ + 1,
                                         !.floating = IF v.kind = "floating" THEN @ + 1 ELSE @]
      [] v.kind = "string"  -> [c EXCEPT !.string = @ + 1,
                                         !.uuid = IF v.form = "uuid" THEN @ + 1 ELSE @,
                                         !.date_time = IF v.form \in DateForms THEN @ + 1 ELSE @,
                                         !.max_length = IF v.length > @ THEN v.length ELSE @]
      [] OTHER              -> c

\* Variant: one UUID is enough.
SelectTypeAny(c) ==
    IF c.string > 0
    THEN IF c.uuid > 0 THEN "id"
         ELSE IF c.string = c.date_time THEN "timestamptz" ELSE "varchar"
    ELSE IF c.number > 0 THEN IF c.floating > 0 THEN "numeric" ELSE "bigint"
    ELSE IF c.boolean > 0 THEN "boolean" ELSE "varchar"

\* The type of a column with statistics c.
SelectType(c) ==
    IF c.string > 0
    THEN IF c.string = c.uuid THEN "id"
         ELSE IF c.string = c.date_time THEN "timestamptz" ELSE "varchar"
    ELSE IF c.number > 0 THEN IF c.floating > 0 THEN "numeric" ELSE "bigint"
    ELSE IF c.boolean > 0 THEN "boolean" ELSE "varchar"

ColumnTypeSet == {"id", "timestamptz", "varchar", "numeric", "bigint", "boolean"}
TextTypes == {"id", "timestamptz", "varchar"}

\* Variant: a byte less.
DeclaredLengthShort(c) == c.max_length - 1

\* The length that create_loading_table() declares for a column.
DeclaredLength(c) ==
    IF c.max_length < MinVarchar THEN MinVarchar ELSE c.max_length

-----------------------------------------------------------------------------
(* Writing and copying                                                     *)

\* The low 32 bits of a number.
Wrapped(n) == ((n + IntSize \div 2) % IntSize) - IntSize \div 2

\* The length of the text that json_value_to_string() makes of a value.
TextLength(v) ==
    CASE v.kind = "string"    -> v.length
      [] v.kind = "boolean"   -> IF v.truth THEN 4 ELSE 5
      [] IsNumber(v)          -> NumberLength(v.number)
      [] v.kind = "structure" -> 7
      [] OTHER                -> 0

\* Variant: numbers at the limit are set to 0 as well.
NumericFrom(n) == IF n >= NumericLimit THEN 0 ELSE n

\* Numbers above the limit are set to 0.
Numeric(n) == IF n > NumericLimit THEN 0 ELSE n

\* Variant: the text of a missing value is empty.
WrittenEmpty(type, v, garbage) ==
    LET number == IF IsNumber(v) THEN v.number ELSE garbage
    IN  CASE type = "bigint"      -> Integer(Wrapped(number))
          [] type = "numeric"     -> Floating(Numeric(number))
          [] type = "boolean"     -> Boolean(v.kind = "boolean" /\ v.truth)
          [] type \in TextTypes   -> IF v.kind = "missing" THEN String("other", 0) ELSE v

\* What writeTuple() writes for a value to a column of a type: a number, a
\* Boolean, or in a column of text the value itself for the text of it.  For
\* what is no number the accessors of the parser return some garbage.
WrittenValue(type, v, garbage) ==
    LET number == IF IsNumber(v) THEN v.number ELSE garbage
    IN  IF v.kind \in {"missing", "null"} THEN Null
        ELSE CASE type = "bigint"      -> Integer(Wrapped(number))
               [] type = "numeric"     -> Floating(Numeric(number))
               [] type = "boolean"     -> Boolean(v.kind = "boolean" /\ v.truth)
               [] type \in TextTypes   -> IF TextLength(v) >= MaxText THEN Null ELSE v

\* PostgreSQL takes a cell that was written to a column of a type and length.
Accepted(type, length, cell) ==
    \/ cell = Null
    \/ type = "id" /\ cell.kind = "string" /\ cell.form = "uuid"
    \/ type = "timestamptz" /\ cell.kind = "string" /\ cell.form = "date_time"
    \/ type = "varchar" /\ TextLength(cell) <= length
    \/ type = "numeric" /\ cell.number < NumericLimit /\ - NumericLimit < cell.number
    \/ type \in {"bigint", "boolean"}

=============================================================================
