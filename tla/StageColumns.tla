---------------------------- MODULE StageColumns ----------------------------
(***************************************************************************)
(* Staging the records of one table: the first pass (stage_table_1) counts *)
(* the values of every field, derives the columns and creates the loading  *)
(* table, and the second one (stage_table_2) writes the records, which     *)
(* PostgreSQL takes or refuses as a whole at the end of COPY.  An error    *)
(* rolls the update of the table back.                                     *)
(*                                                                         *)
(* StageMerge has the rest of the update; there a record is one object.    *)
(***************************************************************************)
EXTENDS ColumnTypes, ColumnNames, FiniteSets

CONSTANTS
    Fields,        \* the fields of the records, those of nested objects too
    NameOf(_),     \* the name of a field
    Inputs         \* the tables to be staged: a source type, and records

\* The tables: those of SRS have columns for few of their fields.
Tables ==
    [source_type : {"rmb", "srs_marc_records", "srs_error_records"},
     records : Seq([Fields -> Values])]

ASSUME StageColumnsAssumption ==
    /\ {"id", "description", "notificationId"} \subseteq Fields
    /\ \A f \in Fields : NameOf(f) \in Seq(Characters)
    /\ Inputs \subseteq Tables
    /\ Possible(Integer(0))
    /\ \A t \in Inputs : \A n \in DOMAIN t.records, f \in Fields : Possible(t.records[n][f])

VARIABLES
    input,     \* the table that is staged
    pc,        \* the pass and what it does next
    next,      \* the record that is next in this pass
    stats,     \* the statistics of every field
    columns,   \* the columns of the table
    rows       \* the rows written so far

vars == <<input, pc, next, stats, columns, rows>>

Init ==
    /\ input \in Inputs
    /\ pc = "analyze"
    /\ next = 1
    /\ stats = [f \in Fields |-> NoCounts]
    /\ columns = {}
    /\ rows = <<>>

Records == input.records
Value(n, f) == Filtered(f, Records[n][f])

\* What the first pass counts: a structure is not counted as what it is
\* replaced with.
Seen(n, f) == IF Records[n][f].kind = "structure" THEN Structure ELSE Value(n, f)

-----------------------------------------------------------------------------
(* The first pass                                                          *)

AnalyzeRecord ==
    /\ pc = "analyze"
    /\ next <= Len(Records)
    /\ stats' = [f \in Fields |-> Counted(stats[f], Seen(next, f))]
    /\ next' = next + 1
    /\ UNCHANGED <<input, pc, columns, rows>>

\* Of the fields with statistics, the SRS tables make few into columns.
ColumnFields ==
    {f \in Fields :
        /\ stats[f] # NoCounts
        /\ input.source_type = "srs_marc_records" => f = "id"
        /\ input.source_type = "srs_error_records" => f \in {"id", "description"}}

\* The column of a field.
Column(f) ==
    [source_name |-> f,
     name |-> DecodeCamelCase(NameOf(f)),
     type |-> SelectType(stats[f]),
     length |-> DeclaredLength(stats[f])]

SelectColumns ==
    /\ pc = "analyze"
    /\ next > Len(Records)
    /\ columns' = {Column(f) : f \in ColumnFields}
    /\ pc' = "create"
    /\ UNCHANGED <<input, next, stats, rows>>

\* The column "id" is declared apart from the others, and comes first.
OtherColumns == {c \in columns : c.name # <<"i", "d">>}

\* PostgreSQL refuses two columns of one name, and a text that is too long.
Refused ==
    \/ \E c, d \in OtherColumns :
        c # d /\ ExpandColumnName(c.name) = ExpandColumnName(d.name)
    \/ \E c \in OtherColumns : ExpandColumnName(c.name) = <<"d", "a", "t", "a">>
    \/ \E c \in OtherColumns : c.type = "varchar" /\ c.length > MaxDeclared

CreateLoadingTable ==
    /\ pc = "create"
    /\ pc' = IF Refused THEN "failed" ELSE "load"
    /\ next' = 1
    /\ UNCHANGED <<input, stats, columns, rows>>

-----------------------------------------------------------------------------
(* The second pass                                                         *)

\* The ID of record n is a string, or there is none.
IdOf(n) ==
    IF Value(n, "id").kind = "string" THEN Value(n, "id")
    ELSE IF Value(n, "notificationId").kind = "string" THEN Value(n, "notificationId")
    ELSE Null

\* The row that is written for record n.
Row(n, garbage) ==
    [id |-> IdOf(n),
     cells |-> [c \in OtherColumns |->
                  WrittenValue(c.type, Value(n, c.source_name), garbage)]]

WriteTuple ==
    /\ pc = "load"
    /\ next <= Len(Records)
    /\ IdOf(next) # Null
    /\ \E garbage \in Garbage : rows' = Append(rows, Row(next, garbage))
    /\ next' = next + 1
    /\ UNCHANGED <<input, pc, stats, columns>>

\* A record without an ID ends the update of the table.
RejectTuple ==
    /\ pc = "load"
    /\ next <= Len(Records)
    /\ IdOf(next) = Null
    /\ pc' = "failed"
    /\ UNCHANGED <<input, next, stats, columns, rows>>

\* What PostgreSQL says to the rows.
RowAccepted(r) ==
    /\ r.id.form = "uuid"
    /\ \A c \in OtherColumns : Accepted(c.type, c.length, r.cells[c])

EndCopy ==
    /\ pc = "load"
    /\ next > Len(Records)
    /\ pc' = IF \A n \in DOMAIN rows : RowAccepted(rows[n]) THEN "staged" ELSE "failed"
    /\ UNCHANGED <<input, next, stats, columns, rows>>

Ended == pc \in {"staged", "failed"}

Next ==
    \/ AnalyzeRecord
    \/ SelectColumns
    \/ CreateLoadingTable
    \/ WriteTuple
    \/ RejectTuple
    \/ EndCopy
    \/ Ended /\ UNCHANGED vars

Spec == Init /\ [][Next]_vars

-----------------------------------------------------------------------------
(* Properties                                                              *)

\* Every variable has its type.
TypeOK ==
    /\ input \in Tables
    /\ pc \in {"analyze", "create", "load", "staged", "failed"}
    /\ next \in 1..(Len(Records) + 1)
    /\ stats \in [Fields -> Counts]
    /\ columns \subseteq [source_name : Fields,
                          name : {DecodeCamelCase(NameOf(f)) : f \in Fields},
                          type : ColumnTypeSet, length : Nat]
    /\ rows \in Seq([id : Values, cells : [OtherColumns -> Values]])
    /\ pc \in {"analyze", "create"} => rows = <<>>

\* The type and width of a column take a string.
Takes(type, length, v) ==
    \/ type = "id" /\ v.form = "uuid"
    \/ type = "timestamptz" /\ v.form \in DateForms
    \/ type = "varchar" /\ v.length <= length

\* The first pass has not chosen a type or a width that refuses one of the
\* strings that it has read: a UUID column has UUIDs only, a column of dates
\* what looks like one, and no text is longer than its column.
StringsFit ==
    \A c \in columns, n \in DOMAIN Records :
        Value(n, c.source_name).kind = "string"
            => Takes(c.type, c.length, Value(n, c.source_name))

\* What the values of a field in the source are, without looking at statistics.
Present(f) == {Value(n, f) : n \in DOMAIN Records} \ {Missing, Null}
Strings(f) == {v \in Present(f) : v.kind = "string"}
Numbers(f) == {v \in Present(f) : IsNumber(v)}
AreUUIDs(f) == Strings(f) # {} /\ \A v \in Strings(f) : v.form = "uuid"
AreDates(f) == Strings(f) # {} /\ \A v \in Strings(f) : v.form \in DateForms
AreTexts(f) == Strings(f) # {} /\ ~ AreUUIDs(f) /\ ~ AreDates(f)

Identifier(f) == ExpandColumnName(Words(NameOf(f)))

\* The fields that have a column of their own.
Stored ==
    {f \in Fields :
        /\ \E n \in DOMAIN Records : Seen(n, f).kind \notin {"missing", "structure"}
        /\ Words(NameOf(f)) # <<"i", "d">>
        /\ input.source_type = "srs_marc_records" => f = "id"
        /\ input.source_type = "srs_error_records" => f \in {"id", "description"}}

\* The causes for which the source data of a table are refused: a record
\* without a UUID; two fields of one name, or one that is called data; ...
BadId == \E n \in DOMAIN Records : IdOf(n) = Null \/ IdOf(n).form # "uuid"
NameClash ==
    \/ \E f, g \in Stored : f # g /\ Identifier(f) = Identifier(g)
    \/ \E f \in Stored : Identifier(f) = <<"d", "a", "t", "a">>
\* ... UUIDs or dates mixed with anything else but strings, or a date that does
\* not exist, unless it is so long that NULL is written; ...
Mixed(f) == (AreUUIDs(f) \/ AreDates(f)) /\ Present(f) # Strings(f)
OddDate(f) ==
    AreDates(f) /\ \E v \in Strings(f) : v.form = "odd_date" /\ v.length < MaxText
\* ... a text too long for PostgreSQL, or shorter than a number beside it; ...
TooLong(f) == AreTexts(f) /\ \E v \in Strings(f) : v.length > MaxDeclared
TooWide(f) ==
    /\ AreTexts(f)
    /\ \E v \in Numbers(f) :
        /\ NumberLength(v.number) > MinVarchar
        /\ \A s \in Strings(f) : NumberLength(v.number) > s.length
\* ... and 10^10 itself, or a number that is not greater than -10^10, in a
\* column of decimal numbers.
TooLarge(f) ==
    /\ Strings(f) = {}
    /\ \E v \in Numbers(f) : v.kind = "floating"
    /\ \E v \in Numbers(f) : v.number = NumericLimit \/ v.number <= - NumericLimit

Cause ==
    \/ BadId
    \/ NameClash
    \/ \E f \in Stored : Mixed(f) \/ OddDate(f) \/ TooLong(f) \/ TooWide(f) \/ TooLarge(f)

\* A table is staged as a whole, unless its data have one of these causes: then
\* it is refused as a whole.
RefusedForCause == (pc = "staged" => ~ Cause) /\ (pc = "failed" => Cause)

\* Values that the column of their field does not show: arrays and objects, dates
\* of 64 MB, Booleans among numbers, integers wider than an int, and decimals
\* above the limit, which become 0.
Lossy(f, v) ==
    \/ v.kind = "structure"
    \/ AreDates(f) /\ v.kind = "string" /\ v.length >= MaxText
    \/ Strings(f) = {} /\ v.kind = "boolean" /\ Numbers(f) # {}
    \/ /\ Strings(f) = {} /\ IsNumber(v)
       /\ IF \A m \in Numbers(f) : m.kind = "integer"
          THEN v.number \notin - (IntSize \div 2) .. IntSize \div 2 - 1
          ELSE v.number > NumericLimit

Shows(cell, v) ==
    IF v.kind \in {"missing", "null"} THEN cell = Null
    ELSE IF IsNumber(v) THEN IsNumber(cell) /\ cell.number = v.number
    ELSE cell = v

\* Every other value of a staged table is in the column of its field.
ColumnsShowSource ==
    pc = "staged" => \A f \in Stored : \E c \in OtherColumns :
        /\ c.source_name = f
        /\ \A n \in DOMAIN Records :
            Lossy(f, Value(n, f)) \/ Shows(rows[n].cells[c], Value(n, f))

\* The names of columns are the words that the comment of decode_camel_case()
\* describes, for names of letters.
NamesDecoded == \A c \in columns : c.name = Words(NameOf(c.source_name))

-----------------------------------------------------------------------------
(* The inductive invariant: what the statistics say of the values counted  *)
(* so far, the columns and the rows that follow from them, and why the     *)
(* table is refused, or is not.                                            *)

Analyzed == IF pc = "analyze" THEN 1..(next - 1) ELSE DOMAIN Records
Counting(f) == {Seen(n, f) : n \in Analyzed}

\* What statistics say of the strings among the values they count, ...
DescribesStrings(c, V) ==
    LET S == {v \in V : v.kind = "string"}
    IN  /\ c.string > 0 <=> S # {}
        /\ c.uuid <= c.string /\ c.date_time <= c.string
        /\ c.string = c.uuid <=> \A v \in S : v.form = "uuid"
        /\ c.string = c.date_time <=> \A v \in S : v.form \in DateForms
        /\ \A v \in S : v.length <= c.max_length
        /\ c.max_length > 0 => \E v \in S : v.length = c.max_length

\* ... and of the others.
DescribesOthers(c, V) ==
    /\ c.number > 0 <=> \E v \in V : IsNumber(v)
    /\ c.floating > 0 <=> \E v \in V : v.kind = "floating"
    /\ c.boolean > 0 <=> \E v \in V : v.kind = "boolean"
    /\ c.null > 0 <=> \E v \in V : v.kind = "null"

CountsInv ==
    \A f \in Fields : DescribesStrings(stats[f], Counting(f)) /\ DescribesOthers(stats[f], Counting(f))

ColumnsInv == columns = IF pc = "analyze" THEN {} ELSE {Column(f) : f \in ColumnFields}

RowsInv ==
    /\ pc \in {"load", "staged"} => ~ Refused
    /\ pc = "load" => Len(rows) = next - 1
    /\ pc = "staged" => Len(rows) = Len(Records)
    /\ \A n \in DOMAIN rows : IdOf(n) # Null /\ \E garbage \in Garbage : rows[n] = Row(n, garbage)

InputInv == \A n \in DOMAIN Records, f \in Fields : Possible(Records[n][f])

IInv == TypeOK /\ InputInv /\ CountsInv /\ ColumnsInv /\ RowsInv /\ RefusedForCause

=============================================================================
