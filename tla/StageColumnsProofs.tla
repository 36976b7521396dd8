------------------------- MODULE StageColumnsProofs -------------------------
(***************************************************************************)
(* StageColumns for any records, fields, widths and limits: what the two   *)
(* passes refuse and for which causes, and what the columns show of the    *)
(* source.  First come the operators, then the columns and rows in terms   *)
(* of the values of a field, and then the steps.                           *)
(***************************************************************************)
EXTENDS StageColumns, TLAPS

\* process_json_record() turns JSON values into JSON values.
LEMMA FilteredType ==
    ASSUME NEW v \in Values, NEW f
    PROVE  Filtered(f, v) \in Values
BY DEF Filtered, Values, Null, Boolean, Integer, String, IsNumber, Forms

\* Some of the counts are replaced.
LEMMA CountsExcept ==
    ASSUME NEW D, NEW c \in [D -> Nat], NEW k, NEW l, NEW m, NEW n, k \in Nat, l \in Nat,
           m \in Nat, n \in Nat
    PROVE  /\ [c EXCEPT !.string = k, !.uuid = l, !.date_time = m, !.max_length = n] \in [D -> Nat]
           /\ [c EXCEPT !.number = k, !.floating = l] \in [D -> Nat]
OBVIOUS

\* The counts of a field stay numbers.
LEMMA CountedType ==
    ASSUME NEW c \in Counts, NEW v \in Values
    PROVE  Counted(c, v) \in Counts
<1>1. DOMAIN NoCounts = {"string", "uuid", "date_time", "number", "floating", "boolean",
                         "null", "max_length"}
  BY DEF NoCounts
<1>2. v.kind = "string" => v.length \in Nat
  BY DEF Values
<1>3. c \in [DOMAIN NoCounts -> Nat]
  BY DEF Counts
<1>4. CASE v.kind = "string"
  <2>1. /\ c.string + 1 \in Nat
        /\ (IF v.form = "uuid" THEN c.uuid + 1 ELSE c.uuid) \in Nat
        /\ (IF v.form \in DateForms THEN c.date_time + 1 ELSE c.date_time) \in Nat
        /\ (IF v.length > c.max_length THEN v.length ELSE c.max_length) \in Nat
    BY <1>1, <1>2, <1>3, <1>4
  <2> QED
    BY <1>3, <1>4, <2>1, CountsExcept DEF Counted, Counts, IsNumber
<1>5. CASE IsNumber(v)
  <2>1. /\ c.number + 1 \in Nat
        /\ (IF v.kind = "floating" THEN c.floating + 1 ELSE c.floating) \in Nat
    BY <1>1, <1>3
  <2> QED
    BY <1>3, <1>5, <2>1, CountsExcept DEF Counted, Counts, IsNumber
<1>6. CASE v.kind \in {"null", "boolean"}
  BY <1>1, <1>3, <1>6 DEF Counted, Counts, IsNumber
<1>7. CASE v.kind \in {"missing", "structure"}
  BY <1>7 DEF Counted, IsNumber
<1>8. v.kind \in {"missing", "null", "structure", "integer", "floating", "boolean", "string"}
  BY DEF Values
<1> QED
  BY <1>4, <1>5, <1>6, <1>7, <1>8 DEF IsNumber

\* What writeTuple() writes are values of columns.
LEMMA WrittenType ==
    ASSUME NEW type \in ColumnTypeSet, NEW v \in Values, NEW garbage \in Int
    PROVE  WrittenValue(type, v, garbage) \in Values
<1>1. \A n \in Int : Wrapped(n) \in Int /\ Numeric(n) \in Int
  BY ColumnTypesAssumption DEF Wrapped, Numeric
<1>2. IsNumber(v) => v.number \in Int
  BY DEF IsNumber, Values
<1>3. \A n \in Int : Integer(n) \in Values /\ Floating(n) \in Values
  BY DEF Integer, Floating, Values
<1>4. Null \in Values /\ \A b \in BOOLEAN : Boolean(b) \in Values
  BY DEF Null, Boolean, Values
<1>5. v.kind = "boolean" => v.truth \in BOOLEAN
  BY DEF Values
<1> QED
  BY <1>1, <1>2, <1>3, <1>4, <1>5 DEF WrittenValue, ColumnTypeSet, TextTypes

\* The counts of strings go on to describe the strings, with one value more.
LEMMA CountedDescribesStrings ==
    ASSUME NEW c \in Counts, NEW V \in SUBSET Values, NEW v \in Values, DescribesStrings(c, V)
    PROVE  DescribesStrings(Counted(c, v), V \cup {v})
<1> DEFINE S == {w \in V : w.kind = "string"}
           T == {w \in V \cup {v} : w.kind = "string"}
<1>1. /\ c.string \in Nat /\ c.uuid \in Nat /\ c.date_time \in Nat /\ c.max_length \in Nat
      /\ DOMAIN c = DOMAIN NoCounts
  BY DEF Counts, NoCounts
<1>2. \A w \in V \cup {v} : w.kind = "string" => w.length \in Nat
  BY DEF Values
<1>3. /\ c.string > 0 <=> S # {}
      /\ c.uuid <= c.string /\ c.date_time <= c.string
      /\ c.string = c.uuid <=> \A w \in S : w.form = "uuid"
      /\ c.string = c.date_time <=> \A w \in S : w.form \in DateForms
      /\ \A w \in S : w.length <= c.max_length
      /\ c.max_length > 0 => \E w \in S : w.length = c.max_length
  BY DEF DescribesStrings
<1>4. CASE v.kind = "string"
  <2> DEFINE d == Counted(c, v)
  <2>1. d = [c EXCEPT !.string = @ + 1,
                      !.uuid = IF v.form = "uuid" THEN @ + 1 ELSE @,
                      !.date_time = IF v.form \in DateForms THEN @ + 1 ELSE @,
                      !.max_length = IF v.length > @ THEN v.length ELSE @]
    BY <1>4 DEF Counted, IsNumber
  <2>2. /\ d.string = c.string + 1
        /\ d.uuid = IF v.form = "uuid" THEN c.uuid + 1 ELSE c.uuid
        /\ d.date_time = IF v.form \in DateForms THEN c.date_time + 1 ELSE c.date_time
        /\ d.max_length = IF v.length > c.max_length THEN v.length ELSE c.max_length
    BY <1>1, <2>1 DEF NoCounts
  <2>3. T = S \cup {v} /\ v.length \in Nat /\ \A w \in S : w.length \in Nat
    BY <1>2, <1>4
  <2> HIDE DEF d, S, T
  <2>4. /\ d.string > 0 /\ T # {}
        /\ d.uuid <= d.string /\ d.date_time <= d.string
    BY <1>1, <1>3, <2>2, <2>3
  <2>5. d.string = d.uuid <=> \A w \in T : w.form = "uuid"
    BY <1>1, <1>3, <2>2, <2>3
  <2>6. d.string = d.date_time <=> \A w \in T : w.form \in DateForms
    BY <1>1, <1>3, <2>2, <2>3
  <2>7. /\ \A w \in T : w.length <= d.max_length
        /\ d.max_length > 0 => \E w \in T : w.length = d.max_length
    BY <1>1, <1>3, <2>2, <2>3
  <2> QED
    BY <2>4, <2>5, <2>6, <2>7 DEF d, T, DescribesStrings
<1>5. CASE v.kind # "string"
  <2>1. /\ Counted(c, v).string = c.string /\ Counted(c, v).uuid = c.uuid
        /\ Counted(c, v).date_time = c.date_time /\ Counted(c, v).max_length = c.max_length
    BY <1>1, <1>5 DEF Counted, IsNumber, NoCounts
  <2>2. S = T
    BY <1>5
  <2> QED
    BY <1>3, <2>1, <2>2 DEF DescribesStrings
<1> QED
  BY <1>4, <1>5

\* So do the other counts.
LEMMA CountedDescribesOthers ==
    ASSUME NEW c \in Counts, NEW V \in SUBSET Values, NEW v \in Values, DescribesOthers(c, V)
    PROVE  DescribesOthers(Counted(c, v), V \cup {v})
<1> DEFINE d == Counted(c, v)
<1>1. /\ c.number \in Nat /\ c.floating \in Nat /\ c.boolean \in Nat /\ c.null \in Nat
      /\ DOMAIN c = DOMAIN NoCounts
  BY DEF Counts, NoCounts
<1>2. /\ d.number = IF IsNumber(v) THEN c.number + 1 ELSE c.number
      /\ d.floating = IF v.kind = "floating" THEN c.floating + 1 ELSE c.floating
  BY <1>1 DEF Counted, IsNumber, NoCounts
<1>3. /\ d.boolean = IF v.kind = "boolean" THEN c.boolean + 1 ELSE c.boolean
      /\ d.null = IF v.kind = "null" THEN c.null + 1 ELSE c.null
  BY <1>1 DEF Counted, IsNumber, NoCounts
<1> HIDE DEF d
<1> QED
  BY <1>1, <1>2, <1>3 DEF d, DescribesOthers

\* Nothing is counted but strings, numbers, Booleans and nulls.
LEMMA CountsOfNothing ==
    ASSUME NEW c \in Counts, NEW V \in SUBSET Values, DescribesStrings(c, V), DescribesOthers(c, V)
    PROVE  c # NoCounts <=> \E v \in V : v.kind \notin {"missing", "structure"}
<1>1. /\ c.string \in Nat /\ c.uuid \in Nat /\ c.date_time \in Nat /\ c.max_length \in Nat
      /\ c.number \in Nat /\ c.floating \in Nat /\ c.boolean \in Nat /\ c.null \in Nat
  BY DEF Counts, NoCounts
<1>2. c = NoCounts <=> /\ c.string = 0 /\ c.uuid = 0 /\ c.date_time = 0 /\ c.max_length = 0
                       /\ c.number = 0 /\ c.floating = 0 /\ c.boolean = 0 /\ c.null = 0
  BY DEF Counts, NoCounts
<1>3. /\ c.string > 0 <=> \E v \in V : v.kind = "string"
      /\ c.uuid <= c.string /\ c.date_time <= c.string
      /\ c.max_length > 0 => \E v \in V : v.kind = "string"
  BY DEF DescribesStrings
<1>4. /\ c.number > 0 <=> \E v \in V : v.kind \in {"integer", "floating"}
      /\ c.floating > 0 <=> \E v \in V : v.kind = "floating"
      /\ c.boolean > 0 <=> \E v \in V : v.kind = "boolean"
      /\ c.null > 0 <=> \E v \in V : v.kind = "null"
  BY DEF DescribesOthers, IsNumber
<1>5. \A v \in V : v.kind \in {"missing", "null", "structure", "integer", "floating", "boolean", "string"}
  BY DEF Values
<1>6. CASE \E v \in V : v.kind \notin {"missing", "structure"}
  BY <1>1, <1>2, <1>3, <1>4, <1>5, <1>6
<1>7. CASE \A v \in V : v.kind \in {"missing", "structure"}
  <2>1. /\ ~ (c.string > 0) /\ ~ (c.max_length > 0) /\ ~ (c.number > 0)
        /\ ~ (c.floating > 0) /\ ~ (c.boolean > 0) /\ ~ (c.null > 0)
    BY <1>3, <1>4, <1>7
  <2> QED
    BY <1>1, <1>2, <1>3, <1>7, <2>1
<1> QED
  BY <1>6, <1>7

\* decode_camel_case() makes the words that its comment describes.
LEMMA NamesAreWords ==
    ASSUME NEW name \in Seq(Characters)
    PROVE  DecodeCamelCase(name) = Words(name)
<1> DEFINE At(i) == IF i \in DOMAIN name THEN name[i] ELSE End
           decoded == [i \in DOMAIN name |-> DecodeTriple(At(i - 1), name[i], At(i + 1))]
           words == [i \in DOMAIN name |->
                       IF i \in WordStarts(name) \ {1} THEN <<"_", name[i].letter>>
                                                       ELSE <<name[i].letter>>]
<1>1. Len(name) \in Nat /\ DOMAIN name = 1..Len(name) /\ \A i \in DOMAIN name : name[i] # End
  BY DEF Characters
<1>2. ASSUME NEW i \in DOMAIN name
      PROVE  decoded[i] = words[i]
  <2>1. CASE i = 1
    BY <1>1, <2>1 DEF DecodeTriple
  <2>2. CASE i # 1
    <3>1. i - 1 \in DOMAIN name /\ (i + 1 \in DOMAIN name <=> i # Len(name))
      BY <1>1, <2>2
    <3>2. i \in WordStarts(name) <=>
            name[i].upper /\ (~ name[i - 1].upper \/ (i # Len(name) /\ ~ name[i + 1].upper))
      BY <1>1, <3>1 DEF WordStarts
    <3> QED
      BY <1>1, <2>2, <3>1, <3>2 DEF DecodeTriple
  <2> QED
    BY <2>1, <2>2
<1>3. decoded = words
  BY <1>2
<1> QED
  BY <1>3 DEF DecodeCamelCase, Words

\* A structure may be replaced, and a value that is missing or null is just that.
LEMMA Kinds ==
    ASSUME NEW v \in Values
    PROVE  /\ v.kind \in {"missing", "null", "structure", "integer", "floating", "boolean", "string"}
           /\ v.kind = "missing" <=> v = Missing
           /\ v.kind = "null" <=> v = Null
           /\ v.kind = "boolean" => v = Boolean(v.truth)
BY DEF Values, Missing, Null, Boolean

\* What a column takes of the values themselves.
TakesValue(type, length, v) ==
    \/ v.kind \in {"missing", "null"}
    \/ type = "id" /\ v.kind = "string" /\ (v.form = "uuid" \/ v.length >= MaxText)
    \/ type = "timestamptz" /\ v.kind = "string" /\ (v.form = "date_time" \/ v.length >= MaxText)
    \/ /\ type = "varchar"
       /\ v.kind = "string" => v.length <= length \/ v.length >= MaxText
       /\ IsNumber(v) => NumberLength(v.number) <= length
    \/ /\ type = "numeric"
       /\ IsNumber(v) => v.number # NumericLimit /\ - NumericLimit < v.number
    \/ type \in {"bigint", "boolean"}

\* What writeTuple() writes to a column of text.
LEMMA WrittenText ==
    ASSUME NEW v \in Values, Possible(v), NEW type \in TextTypes, NEW garbage
    PROVE  WrittenValue(type, v, garbage) =
             IF v.kind \in {"missing", "null"} \/ (v.kind = "string" /\ v.length >= MaxText)
             THEN Null ELSE v
<1>1. v.kind \notin {"missing", "null"}
        => WrittenValue(type, v, garbage) = IF TextLength(v) >= MaxText THEN Null ELSE v
  BY DEF WrittenValue, TextTypes
<1>2. v.kind \notin {"missing", "null", "string"} => TextLength(v) \in Nat /\ ~ (TextLength(v) >= MaxText)
  <2>1. MaxText \in Nat /\ 36 < MaxText
    BY ColumnTypesAssumption
  <2>2. IsNumber(v) => NumberLength(v.number) \in 1..(MaxText - 1)
    BY DEF Possible
  <2>3. CASE v.kind \in {"boolean", "structure"}
    BY <2>1, <2>3 DEF TextLength, IsNumber
  <2>4. CASE IsNumber(v)
    BY <2>1, <2>2, <2>4 DEF TextLength, IsNumber
  <2> QED
    BY <2>3, <2>4, Kinds DEF IsNumber
<1>3. v.kind = "string" => TextLength(v) = v.length
  BY DEF TextLength, IsNumber
<1>4. v.kind \in {"missing", "null"} => WrittenValue(type, v, garbage) = Null
  BY DEF WrittenValue
<1> QED
  BY <1>1, <1>2, <1>3, <1>4

\* PostgreSQL takes what is written for a value if the column takes the value.
LEMMA AcceptedValue ==
    ASSUME NEW v \in Values, Possible(v), NEW type \in ColumnTypeSet, NEW length \in Nat,
           length >= MinVarchar, NEW garbage \in Garbage
    PROVE  Accepted(type, length, WrittenValue(type, v, garbage)) <=> TakesValue(type, length, v)
<1> DEFINE cell == WrittenValue(type, v, garbage)
<1>1. CASE v.kind \in {"missing", "null"}
  BY <1>1 DEF WrittenValue, Accepted, TakesValue
<1>2. CASE v.kind \notin {"missing", "null"} /\ type \in {"id", "timestamptz"}
  <2>1. cell = IF v.kind = "string" /\ v.length >= MaxText THEN Null ELSE v
    BY <1>2, WrittenText DEF TextTypes
  <2> QED
    BY <1>2, <2>1, Kinds DEF Accepted, TakesValue
<1>3. CASE v.kind \notin {"missing", "null"} /\ type = "varchar"
  <2>1. cell = IF v.kind = "string" /\ v.length >= MaxText THEN Null ELSE v
    BY <1>3, WrittenText DEF TextTypes
  <2>2. cell # Null => (TextLength(v) <= length
                          <=> /\ v.kind = "string" => v.length <= length
                              /\ IsNumber(v) => NumberLength(v.number) <= length)
    <3>1. v.kind \in {"boolean", "structure"} => TextLength(v) \in Nat /\ TextLength(v) <= 7
      BY DEF TextLength, IsNumber
    <3>2. length >= 7
      BY ColumnTypesAssumption
    <3>3. /\ v.kind = "string" => TextLength(v) = v.length
          /\ IsNumber(v) => TextLength(v) = NumberLength(v.number)
      BY DEF TextLength, IsNumber
    <3> QED
      BY <1>3, <3>1, <3>2, <3>3, Kinds DEF IsNumber
  <2> QED
    BY <1>3, <2>1, <2>2, Kinds DEF Accepted, TakesValue, IsNumber
<1>4. CASE v.kind \notin {"missing", "null"} /\ type = "numeric"
  <2> DEFINE number == IF IsNumber(v) THEN v.number ELSE garbage
  <2>1. cell = Floating(Numeric(number))
    BY <1>4 DEF WrittenValue, TextTypes
  <2>2. Accepted(type, length, cell) <=> /\ Numeric(number) < NumericLimit
                                         /\ - NumericLimit < Numeric(number)
    BY <1>4, <2>1 DEF Accepted, Floating, Null
  <2>3. NumericLimit \in Nat \ {0} /\ garbage \in Nat /\ garbage # NumericLimit
    BY ColumnTypesAssumption
  <2>4. IsNumber(v) => v.number \in Int
    BY DEF IsNumber, Values
  <2>5. Accepted(type, length, cell)
          <=> (IsNumber(v) => v.number # NumericLimit /\ - NumericLimit < v.number)
    BY <2>2, <2>3, <2>4 DEF Numeric
  <2> QED
    BY <1>4, <2>5 DEF TakesValue
<1>5. CASE type \in {"bigint", "boolean"}
  BY <1>5 DEF Accepted, TakesValue
<1> QED
  BY <1>1, <1>2, <1>3, <1>4, <1>5 DEF ColumnTypeSet

-----------------------------------------------------------------------------
\* A value that process_json_record() leaves in a record.
LEMMA ValueType ==
    ASSUME TypeOK, NEW n \in DOMAIN Records, NEW f \in Fields
    PROVE  Records[n][f] \in Values /\ Value(n, f) \in Values
<1>1. Records[n] \in [Fields -> Values]
  BY DEF TypeOK, Tables, Records
<1> QED
  BY <1>1, FilteredType DEF Value

\* It is one that the parser can return.
LEMMA ValuePossible ==
    ASSUME TypeOK, InputInv, NEW n \in DOMAIN Records, NEW f \in Fields
    PROVE  Possible(Value(n, f))
<1> DEFINE v == Records[n][f]
<1>1. v \in Values /\ Possible(v) /\ Possible(Integer(0))
  BY ValueType, StageColumnsAssumption DEF InputInv
<1>2. Possible(Null) /\ Possible(Boolean(FALSE)) /\ Possible(String("other", 0))
  BY DEF Possible, IsNumber, Null, Boolean, String
<1> QED
  BY <1>1, <1>2 DEF Value, Filtered

\* What is counted is the value, or that there was a structure.
LEMMA SeenType ==
    ASSUME TypeOK, NEW n \in DOMAIN Records, NEW f \in Fields
    PROVE  /\ Seen(n, f) \in Values
           /\ Seen(n, f) = Value(n, f)
                \/ (Seen(n, f).kind = "structure" /\ Value(n, f).kind \in {"structure", "null"})
<1>1. Records[n][f] \in Values
  BY ValueType
<1>2. Structure \in Values /\ Structure.kind = "structure"
  BY DEF Structure, Values
<1>3. Records[n][f].kind = "structure" => Value(n, f).kind \in {"structure", "null"}
  BY DEF Value, Filtered, Null
<1> QED
  BY <1>1, <1>2, <1>3, ValueType DEF Seen

\* The values of a field that are present are those that are counted, but for
\* structures.
LEMMA PresentValues ==
    ASSUME TypeOK, NEW f \in Fields
    PROVE  LET V == {Seen(n, f) : n \in DOMAIN Records}
           IN  /\ V \subseteq Values
               /\ Present(f) = {v \in {Value(n, f) : n \in DOMAIN Records} :
                                  v.kind \notin {"missing", "null"}}
               /\ Strings(f) = {v \in V : v.kind = "string"}
               /\ Numbers(f) = {v \in V : IsNumber(v)}
               /\ \A v \in Values : v.kind = "boolean" => (v \in V <=> v \in Present(f))
<1> DEFINE V == {Seen(n, f) : n \in DOMAIN Records}
           W == {Value(n, f) : n \in DOMAIN Records}
<1>1. V \subseteq Values /\ W \subseteq Values
  BY SeenType, ValueType
<1>2. Present(f) = {v \in W : v.kind \notin {"missing", "null"}}
  BY <1>1, Kinds DEF Present
<1>3. ASSUME NEW v \in Values, v.kind \in {"string", "integer", "floating", "boolean"}
      PROVE  v \in V <=> v \in W
  BY <1>3, SeenType
<1>4. \A v \in Values : v.kind = "boolean" => (v \in V <=> v \in Present(f))
  BY <1>2, <1>3
<1> HIDE DEF V, W
<1>5. Strings(f) = {v \in V : v.kind = "string"}
  BY <1>1, <1>2, <1>3 DEF Strings
<1>6. Numbers(f) = {v \in V : IsNumber(v)}
  BY <1>1, <1>2, <1>3 DEF Numbers, IsNumber
<1> QED
  BY <1>1, <1>2, <1>4, <1>5, <1>6 DEF V, W

\* The type and the width that are derived at the end of the first pass, in terms
\* of the values of the field.
LEMMA Derived ==
    ASSUME TypeOK, CountsInv, pc # "analyze", NEW f \in Fields
    PROVE  LET type == SelectType(stats[f])
               length == DeclaredLength(stats[f])
           IN  /\ type = IF AreUUIDs(f) THEN "id"
                         ELSE IF AreDates(f) THEN "timestamptz"
                         ELSE IF AreTexts(f) THEN "varchar"
                         ELSE IF Numbers(f) # {}
                         THEN IF \E v \in Numbers(f) : v.kind = "floating" THEN "numeric" ELSE "bigint"
                         ELSE IF \E v \in Present(f) : v.kind = "boolean" THEN "boolean" ELSE "varchar"
               /\ length \in Nat /\ length >= MinVarchar
               /\ \A s \in Strings(f) : s.length \in Nat /\ s.length <= length
               /\ length = MinVarchar \/ \E s \in Strings(f) : s.length = length
<1> DEFINE c == stats[f]
           V == {Seen(n, f) : n \in DOMAIN Records}
<1>1. /\ c.string \in Nat /\ c.uuid \in Nat /\ c.date_time \in Nat /\ c.max_length \in Nat
      /\ c.number \in Nat /\ c.floating \in Nat /\ c.boolean \in Nat /\ MinVarchar \in Nat \ {0}
  BY ColumnTypesAssumption DEF TypeOK, Counts, NoCounts
<1>2. DescribesStrings(c, V) /\ DescribesOthers(c, V)
  BY DEF CountsInv, Counting, Analyzed
<1>3. /\ V \subseteq Values
      /\ Strings(f) = {v \in V : v.kind = "string"}
      /\ Numbers(f) = {v \in V : IsNumber(v)}
      /\ \A v \in Values : v.kind = "boolean" => (v \in V <=> v \in Present(f))
      /\ Present(f) \subseteq Values
  <2>1. Present(f) \subseteq Values
    BY ValueType DEF Present
  <2> QED
    BY <2>1, PresentValues
<1> HIDE DEF V
<1>4. /\ c.string > 0 <=> Strings(f) # {}
      /\ c.string = c.uuid <=> \A v \in Strings(f) : v.form = "uuid"
      /\ c.string = c.date_time <=> \A v \in Strings(f) : v.form \in DateForms
      /\ \A v \in Strings(f) : v.length <= c.max_length
      /\ c.max_length > 0 => \E v \in Strings(f) : v.length = c.max_length
  BY <1>2, <1>3 DEF DescribesStrings
<1>5. /\ c.number > 0 <=> Numbers(f) # {}
      /\ c.floating > 0 <=> \E v \in Numbers(f) : v.kind = "floating"
      /\ c.boolean > 0 <=> \E v \in Present(f) : v.kind = "boolean"
  BY <1>2, <1>3 DEF DescribesOthers, IsNumber
<1>6. \A v \in Strings(f) : v.length \in Nat
  BY <1>3 DEF Values
<1> HIDE DEF c
<1>7. /\ DeclaredLength(c) \in Nat /\ DeclaredLength(c) >= MinVarchar
      /\ \A s \in Strings(f) : s.length <= DeclaredLength(c)
      /\ DeclaredLength(c) = MinVarchar \/ \E s \in Strings(f) : s.length = DeclaredLength(c)
  BY <1>1, <1>4, <1>6 DEF DeclaredLength
<1>8. SelectType(c) = IF AreUUIDs(f) THEN "id"
                      ELSE IF AreDates(f) THEN "timestamptz"
                      ELSE IF AreTexts(f) THEN "varchar"
                      ELSE IF Numbers(f) # {}
                      THEN IF \E v \in Numbers(f) : v.kind = "floating" THEN "numeric" ELSE "bigint"
                      ELSE IF \E v \in Present(f) : v.kind = "boolean" THEN "boolean" ELSE "varchar"
  BY <1>4, <1>5 DEF SelectType, AreUUIDs, AreDates, AreTexts
<1> QED
  BY <1>6, <1>7, <1>8 DEF c

\* A column is named after the words of its field.
LEMMA ColumnOfField ==
    ASSUME NEW f \in Fields
    PROVE  /\ Column(f).source_name = f /\ Column(f).name = Words(NameOf(f))
           /\ Column(f).type = SelectType(stats[f]) /\ Column(f).length = DeclaredLength(stats[f])
BY NamesAreWords, StageColumnsAssumption DEF Column

\* The columns but "id" are those of the stored fields.
LEMMA StoredColumns ==
    ASSUME TypeOK, CountsInv, ColumnsInv, pc # "analyze"
    PROVE  OtherColumns = {Column(f) : f \in Stored}
<1>1. ASSUME NEW f \in Fields
      PROVE  stats[f] # NoCounts
               <=> \E n \in DOMAIN Records : Seen(n, f).kind \notin {"missing", "structure"}
  <2> DEFINE V == {Seen(n, f) : n \in DOMAIN Records}
  <2>1. V \subseteq Values /\ stats[f] \in Counts
    BY SeenType DEF TypeOK
  <2>2. DescribesStrings(stats[f], V) /\ DescribesOthers(stats[f], V)
    BY DEF CountsInv, Counting, Analyzed
  <2>3. stats[f] # NoCounts <=> \E v \in V : v.kind \notin {"missing", "structure"}
    BY <2>1, <2>2, CountsOfNothing
  <2> QED
    BY <2>3
<1>2. Stored = {f \in ColumnFields : Words(NameOf(f)) # <<"i", "d">>}
  BY <1>1 DEF Stored, ColumnFields
<1>3. columns = {Column(f) : f \in ColumnFields} /\ ColumnFields \subseteq Fields
  BY DEF ColumnsInv, ColumnFields
<1> QED
  BY <1>2, <1>3, ColumnOfField DEF OtherColumns

\* PostgreSQL refuses the loading table for one of two causes.
LEMMA RefusedCause ==
    ASSUME TypeOK, CountsInv, ColumnsInv, pc # "analyze"
    PROVE  Refused <=> NameClash \/ \E f \in Stored : TooLong(f)
<1>1. OtherColumns = {Column(f) : f \in Stored} /\ Stored \subseteq Fields
  BY StoredColumns DEF Stored
<1>2. \A f \in Fields : Column(f).source_name = f /\ ExpandColumnName(Column(f).name) = Identifier(f)
  BY ColumnOfField DEF Identifier
<1>3. (\E c, d \in OtherColumns : c # d /\ ExpandColumnName(c.name) = ExpandColumnName(d.name))
        <=> \E f, g \in Stored : f # g /\ Identifier(f) = Identifier(g)
  BY <1>1, <1>2
<1>4. (\E c \in OtherColumns : ExpandColumnName(c.name) = <<"d", "a", "t", "a">>)
        <=> \E f \in Stored : Identifier(f) = <<"d", "a", "t", "a">>
  BY <1>1, <1>2
<1>5. ASSUME NEW f \in Fields
      PROVE  Column(f).type = "varchar" /\ Column(f).length > MaxDeclared <=> TooLong(f)
  <2> DEFINE length == Column(f).length
  <2>1. /\ Column(f).type = "varchar" => AreTexts(f) \/ Strings(f) = {}
        /\ AreTexts(f) => Column(f).type = "varchar"
    BY Derived, ColumnOfField DEF AreUUIDs, AreDates, AreTexts
  <2>2. /\ length \in Nat /\ MinVarchar \in Nat /\ MaxDeclared \in Nat /\ MinVarchar <= MaxDeclared
        /\ \A s \in Strings(f) : s.length \in Nat /\ s.length <= length
        /\ length = MinVarchar \/ \E s \in Strings(f) : s.length = length
    BY Derived, ColumnOfField, ColumnTypesAssumption
  <2> HIDE DEF length
  <2>3. length > MaxDeclared <=> \E s \in Strings(f) : s.length > MaxDeclared
    BY <2>2
  <2> QED
    BY <2>1, <2>3 DEF TooLong, length
<1>6. (\E c \in OtherColumns : c.type = "varchar" /\ c.length > MaxDeclared)
        <=> \E f \in Stored : TooLong(f)
  BY <1>1, <1>5
<1> QED
  BY <1>3, <1>4, <1>6 DEF Refused, NameClash

\* The column of a field takes all of its values unless there is a cause, ...
LEMMA TakenUnlessCause ==
    ASSUME TypeOK, InputInv, CountsInv, pc # "analyze", NEW f \in Fields,
           NEW n \in DOMAIN Records,
           ~ TakesValue(Column(f).type, Column(f).length, Value(n, f))
    PROVE  Mixed(f) \/ OddDate(f) \/ TooWide(f) \/ TooLarge(f)
<1> DEFINE type == Column(f).type
           length == Column(f).length
           v == Value(n, f)
<1>1. /\ v \in Values /\ v.kind \notin {"missing", "null"} /\ v \in Present(f)
      /\ v.kind = "string" <=> v \in Strings(f)
      /\ IsNumber(v) <=> v \in Numbers(f)
  BY ValueType, PresentValues DEF TakesValue, Strings, Numbers
<1>2. /\ type = SelectType(stats[f]) /\ length = DeclaredLength(stats[f])
      /\ MinVarchar \in Nat /\ length \in Nat /\ length >= MinVarchar
      /\ \A s \in Strings(f) : s.length \in Nat /\ s.length <= length
  BY Derived, ColumnOfField, ColumnTypesAssumption
<1>3. type = IF AreUUIDs(f) THEN "id"
             ELSE IF AreDates(f) THEN "timestamptz"
             ELSE IF AreTexts(f) THEN "varchar"
             ELSE IF Numbers(f) # {}
             THEN IF \E w \in Numbers(f) : w.kind = "floating" THEN "numeric" ELSE "bigint"
             ELSE IF \E w \in Present(f) : w.kind = "boolean" THEN "boolean" ELSE "varchar"
  BY <1>2, Derived
<1>4. ~ TakesValue(type, length, v)
  OBVIOUS
<1>5. v.form \in DateForms /\ v.form # "date_time" => v.form = "odd_date"
  BY DEF DateForms
<1>6. MaxText \in Nat /\ NumericLimit \in Nat /\ (v.kind = "string" => v.length \in Nat)
  BY <1>1, ColumnTypesAssumption DEF Values
<1>10. IsNumber(v) => NumberLength(v.number) \in Nat /\ v.number \in Int
  BY <1>1, <1>6, ValuePossible DEF Possible, IsNumber, Values
<1> HIDE DEF type, length, v
<1>7. CASE AreUUIDs(f)
  BY <1>1, <1>3, <1>4, <1>7 DEF TakesValue, AreUUIDs, Mixed
<1>8. CASE ~ AreUUIDs(f) /\ AreDates(f)
  BY <1>1, <1>3, <1>4, <1>5, <1>6, <1>8 DEF TakesValue, AreDates, Mixed, OddDate
<1>9. CASE type = "varchar"
  BY <1>1, <1>2, <1>3, <1>4, <1>9, <1>10 DEF TakesValue, TooWide, AreTexts, AreUUIDs, AreDates
<1>11. CASE type = "numeric"
  <2>1. Strings(f) = {} /\ \E w \in Numbers(f) : w.kind = "floating"
    BY <1>3, <1>11 DEF AreTexts
  <2>2. v \in Numbers(f) /\ (v.number = NumericLimit \/ v.number <= - NumericLimit)
    BY <1>1, <1>4, <1>6, <1>10, <1>11 DEF TakesValue
  <2> QED
    BY <2>1, <2>2 DEF TooLarge
<1> QED
  BY <1>3, <1>4, <1>7, <1>8, <1>9, <1>11 DEF TakesValue

\* ... and not if there is one.
LEMMA NotTakenForCause ==
    ASSUME TypeOK, InputInv, CountsInv, pc # "analyze", NEW f \in Fields,
           Mixed(f) \/ OddDate(f) \/ TooWide(f) \/ TooLarge(f)
    PROVE  \E n \in DOMAIN Records : ~ TakesValue(Column(f).type, Column(f).length, Value(n, f))
<1> DEFINE type == Column(f).type
           length == Column(f).length
<1>1. /\ \A v \in Present(f) : /\ v \in Values /\ Possible(v) /\ v.kind \notin {"missing", "null"}
                              /\ \E n \in DOMAIN Records : v = Value(n, f)
      /\ Strings(f) = {v \in Present(f) : v.kind = "string"}
      /\ Numbers(f) = {v \in Present(f) : IsNumber(v)}
  BY ValueType, ValuePossible, PresentValues DEF Strings, Numbers
<1>2. /\ type = SelectType(stats[f]) /\ length = DeclaredLength(stats[f])
      /\ MinVarchar \in Nat /\ length \in Nat /\ length >= MinVarchar
      /\ length = MinVarchar \/ \E s \in Strings(f) : s.length = length
  BY Derived, ColumnOfField, ColumnTypesAssumption
<1>3. type = IF AreUUIDs(f) THEN "id"
             ELSE IF AreDates(f) THEN "timestamptz"
             ELSE IF AreTexts(f) THEN "varchar"
             ELSE IF Numbers(f) # {}
             THEN IF \E w \in Numbers(f) : w.kind = "floating" THEN "numeric" ELSE "bigint"
             ELSE IF \E w \in Present(f) : w.kind = "boolean" THEN "boolean" ELSE "varchar"
  BY <1>2, Derived
<1>4. MaxText \in Nat /\ NumericLimit \in Nat
  BY ColumnTypesAssumption
<1>5. SUFFICES \E v \in Present(f) : ~ TakesValue(type, length, v)
  BY <1>1
<1> HIDE DEF type, length
<1>6. CASE Mixed(f)
  <2>1. PICK v \in Present(f) : v.kind # "string"
    BY <1>1, <1>6 DEF Mixed
  <2>2. type \in {"id", "timestamptz"}
    BY <1>3, <1>6 DEF Mixed
  <2> QED
    BY <1>1, <2>1, <2>2 DEF TakesValue
<1>7. CASE OddDate(f)
  <2>1. PICK v \in Strings(f) : v.form = "odd_date" /\ v.length < MaxText
    BY <1>7 DEF OddDate
  <2>2. v \in Present(f) /\ v.kind = "string" /\ v.length \in Nat /\ AreDates(f)
    BY <1>1, <1>7, <2>1 DEF OddDate, Values
  <2>3. type = "timestamptz"
    BY <1>3, <2>1, <2>2 DEF AreUUIDs
  <2>4. ~ TakesValue(type, length, v)
    BY <1>1, <1>4, <2>1, <2>2, <2>3 DEF TakesValue
  <2> QED
    BY <2>2, <2>4
<1>8. CASE TooWide(f)
  <2>1. PICK v \in Numbers(f) : /\ NumberLength(v.number) > MinVarchar
                               /\ \A s \in Strings(f) : NumberLength(v.number) > s.length
    BY <1>8 DEF TooWide
  <2>2. v \in Present(f) /\ IsNumber(v) /\ NumberLength(v.number) \in Nat
    BY <1>1, <1>4, <2>1 DEF Possible
  <2>3. type = "varchar"
    BY <1>3, <1>8 DEF TooWide, AreTexts
  <2>4. ~ (NumberLength(v.number) <= length)
    BY <1>2, <2>1, <2>2
  <2>5. ~ TakesValue(type, length, v)
    BY <1>1, <2>2, <2>3, <2>4 DEF TakesValue
  <2> QED
    BY <2>2, <2>5
<1>9. CASE TooLarge(f)
  <2>1. PICK v \in Numbers(f) : v.number = NumericLimit \/ v.number <= - NumericLimit
    BY <1>9 DEF TooLarge
  <2>2. v \in Present(f) /\ IsNumber(v) /\ v.number \in Int
    BY <1>1, <2>1 DEF IsNumber, Values
  <2>3. type = "numeric"
    BY <1>3, <1>9 DEF TooLarge, AreUUIDs, AreDates, AreTexts
  <2>4. ~ (v.number # NumericLimit /\ - NumericLimit < v.number)
    BY <1>4, <2>1, <2>2
  <2>5. ~ TakesValue(type, length, v)
    BY <1>1, <2>2, <2>3, <2>4 DEF TakesValue
  <2> QED
    BY <2>2, <2>5
<1> QED
  BY <1>6, <1>7, <1>8, <1>9

\* All rows are accepted if the IDs are UUIDs and the columns take all values.
LEMMA RowsCause ==
    ASSUME TypeOK, InputInv, CountsInv, ColumnsInv, RowsInv, pc = "load", next > Len(Records)
    PROVE  (\A n \in DOMAIN rows : RowAccepted(rows[n])) <=> ~ Cause
<1>1. /\ DOMAIN rows = DOMAIN Records
      /\ pc # "analyze" /\ ~ Refused
      /\ OtherColumns = {Column(f) : f \in Stored} /\ Stored \subseteq Fields
  BY StoredColumns DEF TypeOK, Tables, Records, RowsInv, Stored
<1>2. \A f \in Stored : Column(f).source_name = f
  BY <1>1, ColumnOfField
<1>3. \A n \in DOMAIN rows : IdOf(n) # Null /\ \E garbage \in Garbage : rows[n] = Row(n, garbage)
  BY DEF RowsInv
<1>4. ASSUME NEW n \in DOMAIN Records
      PROVE  RowAccepted(rows[n])
               <=> /\ IdOf(n).form = "uuid"
                   /\ \A f \in Stored : TakesValue(Column(f).type, Column(f).length, Value(n, f))
  <2>1. PICK garbage \in Garbage : rows[n] = Row(n, garbage)
    BY <1>1, <1>3
  <2>2. /\ rows[n].id = IdOf(n)
        /\ \A f \in Stored :
             rows[n].cells[Column(f)] = WrittenValue(Column(f).type, Value(n, f), garbage)
    BY <1>1, <1>2, <2>1 DEF Row
  <2>3. ASSUME NEW f \in Stored
        PROVE  Accepted(Column(f).type, Column(f).length, rows[n].cells[Column(f)])
                 <=> TakesValue(Column(f).type, Column(f).length, Value(n, f))
    <3>1. /\ Column(f).type \in ColumnTypeSet
          /\ Column(f).length \in Nat /\ Column(f).length >= MinVarchar
      BY <1>1, ColumnOfField, Derived DEF ColumnTypeSet
    <3>2. Value(n, f) \in Values /\ Possible(Value(n, f))
      BY <1>1, ValueType, ValuePossible
    <3> QED
      BY <2>2, <3>1, <3>2, AcceptedValue
  <2> QED
    BY <1>1, <2>2, <2>3 DEF RowAccepted
<1>5. Cause <=> \/ \E n \in DOMAIN Records : IdOf(n).form # "uuid"
                \/ \E f \in Stored : Mixed(f) \/ OddDate(f) \/ TooWide(f) \/ TooLarge(f)
  BY <1>1, <1>3, RefusedCause DEF Cause, BadId
<1>6. ASSUME NEW f \in Stored
      PROVE  (\E n \in DOMAIN Records : ~ TakesValue(Column(f).type, Column(f).length, Value(n, f)))
               <=> Mixed(f) \/ OddDate(f) \/ TooWide(f) \/ TooLarge(f)
  BY <1>1, TakenUnlessCause, NotTakenForCause
<1> QED
  BY <1>1, <1>4, <1>5, <1>6

\* A number in the range of an int is written as it is.
LEMMA NotWrapped ==
    ASSUME NEW n \in - (IntSize \div 2) .. IntSize \div 2 - 1
    PROVE  Wrapped(n) = n
<1> DEFINE h == IntSize \div 2
<1>1. IntSize \in Nat /\ h \in Nat /\ h + h <= IntSize
  BY ColumnTypesAssumption
<1> HIDE DEF h
<1>2. n \in - h .. h - 1
  BY DEF h
<1>3. ASSUME NEW a \in Nat, NEW b \in Nat, a < b
      PROVE  a % b = a
  BY <1>3
<1>4. n + h \in Nat /\ n + h < IntSize
  BY <1>1, <1>2
<1>5. (n + h) % IntSize = n + h
  BY <1>1, <1>3, <1>4
<1> QED
  BY <1>1, <1>2, <1>5 DEF Wrapped, h

\* A cell shows its value, but for the values that are declared lossy.
LEMMA ShownUnlessLossy ==
    ASSUME TypeOK, InputInv, CountsInv, pc # "analyze", NEW f \in Fields,
           NEW n \in DOMAIN Records, NEW garbage \in Garbage,
           ~ TooLong(f), ~ Lossy(f, Value(n, f))
    PROVE  Shows(WrittenValue(Column(f).type, Value(n, f), garbage), Value(n, f))
<1> DEFINE type == Column(f).type
           v == Value(n, f)
           cell == WrittenValue(type, v, garbage)
<1>1. v \in Values /\ Possible(v) /\ v.kind # "structure"
  BY ValueType, ValuePossible DEF Lossy
<1>2. type = IF AreUUIDs(f) THEN "id"
             ELSE IF AreDates(f) THEN "timestamptz"
             ELSE IF AreTexts(f) THEN "varchar"
             ELSE IF Numbers(f) # {}
             THEN IF \E w \in Numbers(f) : w.kind = "floating" THEN "numeric" ELSE "bigint"
             ELSE IF \E w \in Present(f) : w.kind = "boolean" THEN "boolean" ELSE "varchar"
  BY Derived, ColumnOfField
<1>3. /\ v.kind \notin {"missing", "null"} => v \in Present(f)
      /\ Strings(f) = {w \in Present(f) : w.kind = "string"}
      /\ Numbers(f) = {w \in Present(f) : IsNumber(w)}
      /\ \A w \in Numbers(f) : w.kind \in {"integer", "floating"}
  BY PresentValues, <1>1 DEF Strings, Numbers, IsNumber
<1>4. ~ Lossy(f, v) /\ ~ TooLong(f)
  OBVIOUS
<1>5. /\ MaxText \in Nat /\ MaxDeclared \in Nat /\ MaxDeclared < MaxText /\ 36 < MaxText
      /\ NumericLimit \in Nat
  BY ColumnTypesAssumption
<1> SUFFICES Shows(cell, v)
  OBVIOUS
<1> HIDE DEF type, v
<1>6. CASE v.kind \in {"missing", "null"}
  BY <1>6 DEF WrittenValue, Shows
<1>7. CASE v.kind = "string"
  <2>1. v \in Strings(f) /\ v.length \in Nat
    BY <1>1, <1>3, <1>7 DEF Values
  <2>2. type \in TextTypes
    BY <1>2, <2>1 DEF AreTexts, TextTypes
  <2>3. v.length < MaxText
    <3>1. CASE AreUUIDs(f)
      BY <1>1, <1>5, <1>7, <2>1, <3>1 DEF AreUUIDs, Possible
    <3>2. CASE AreDates(f)
      BY <1>4, <1>5, <1>7, <2>1, <3>2 DEF Lossy
    <3>3. CASE AreTexts(f)
      BY <1>4, <1>5, <2>1, <3>3 DEF TooLong
    <3> QED
      BY <2>1, <3>1, <3>2, <3>3 DEF AreTexts
  <2>4. cell = v
    BY <1>1, <1>5, <1>7, <2>1, <2>2, <2>3, WrittenText
  <2> QED
    BY <1>7, <2>4 DEF Shows, IsNumber
<1>8. CASE v.kind \in {"integer", "floating", "boolean"} /\ Strings(f) # {}
  <2>1. type \in TextTypes
    BY <1>2, <1>8 DEF AreTexts, TextTypes
  <2>2. cell = v
    BY <1>1, <1>8, <2>1, WrittenText
  <2> QED
    BY <1>8, <2>2 DEF Shows, IsNumber
<1>9. CASE IsNumber(v) /\ Strings(f) = {}
  <2>1. v \in Numbers(f) /\ v.kind \in {"integer", "floating"} /\ v.number \in Int
    BY <1>1, <1>3, <1>9 DEF IsNumber, Values
  <2>2. CASE \E w \in Numbers(f) : w.kind = "floating"
    <3>1. type = "numeric"
      BY <1>2, <1>9, <2>1, <2>2 DEF AreUUIDs, AreDates, AreTexts
    <3>2. ~ (v.number > NumericLimit)
      BY <1>4, <1>9, <2>2 DEF Lossy
    <3>3. cell = Floating(v.number)
      BY <1>9, <2>1, <3>1, <3>2 DEF WrittenValue, Numeric, TextTypes
    <3> QED
      BY <1>9, <2>1, <3>3 DEF Shows, Floating, IsNumber
  <2>3. CASE \A w \in Numbers(f) : w.kind = "integer"
    <3>1. type = "bigint"
      BY <1>2, <1>9, <2>1, <2>3 DEF AreUUIDs, AreDates, AreTexts
    <3>2. v.number \in - (IntSize \div 2) .. IntSize \div 2 - 1
      BY <1>4, <1>9, <2>3 DEF Lossy
    <3>3. cell = Integer(v.number)
      BY <1>9, <2>1, <3>1, <3>2, NotWrapped DEF WrittenValue, TextTypes
    <3> QED
      BY <1>9, <2>1, <3>3 DEF Shows, Integer, IsNumber
  <2> QED
    BY <1>3, <2>2, <2>3
<1>10. CASE v.kind = "boolean" /\ Strings(f) = {}
  <2>1. v \in Present(f) /\ Numbers(f) = {}
    BY <1>3, <1>4, <1>10 DEF Lossy
  <2>2. type = "boolean"
    BY <1>2, <1>10, <2>1 DEF AreUUIDs, AreDates, AreTexts
  <2>3. cell = Boolean(v.truth) /\ v = Boolean(v.truth)
    BY <1>1, <1>10, <2>2, Kinds DEF WrittenValue, TextTypes, Boolean, Values
  <2> QED
    BY <1>10, <2>3 DEF Shows, IsNumber
<1> QED
  BY <1>1, <1>6, <1>7, <1>8, <1>9, <1>10, Kinds DEF IsNumber

\* The causes are a matter of the input.
LEMMA SameInput ==
    ASSUME input' = input
    PROVE  /\ Records' = Records
           /\ \A n, f : Value(n, f)' = Value(n, f) /\ Seen(n, f)' = Seen(n, f)
           /\ \A n : IdOf(n)' = IdOf(n)
           /\ Cause' <=> Cause
<1>1. Records' = Records
  BY DEF Records
<1>2. \A n, f : Value(n, f)' = Value(n, f) /\ Seen(n, f)' = Seen(n, f)
  BY <1>1 DEF Value, Seen
<1>3. \A n : IdOf(n)' = IdOf(n)
  BY <1>2 DEF IdOf
<1>4. Stored' = Stored
  BY <1>1, <1>2 DEF Stored
<1>5. \A f : Present(f)' = Present(f)
  BY <1>1, <1>2 DEF Present
<1>6. \A f : Strings(f)' = Strings(f) /\ Numbers(f)' = Numbers(f)
  BY <1>5 DEF Strings, Numbers
<1>7. \A f : /\ AreUUIDs(f)' <=> AreUUIDs(f)
             /\ AreDates(f)' <=> AreDates(f)
             /\ AreTexts(f)' <=> AreTexts(f)
  BY <1>6 DEF AreUUIDs, AreDates, AreTexts
<1>8. \A f : /\ Mixed(f)' <=> Mixed(f)
             /\ OddDate(f)' <=> OddDate(f)
             /\ TooLong(f)' <=> TooLong(f)
             /\ TooWide(f)' <=> TooWide(f)
             /\ TooLarge(f)' <=> TooLarge(f)
  BY <1>5, <1>6, <1>7 DEF Mixed, OddDate, TooLong, TooWide, TooLarge
<1>9. (BadId' <=> BadId) /\ (NameClash' <=> NameClash)
  BY <1>1, <1>3, <1>4 DEF BadId, NameClash
<1>10. Cause' <=> Cause
  BY <1>4, <1>8, <1>9 DEF Cause
<1> QED
  BY <1>1, <1>2, <1>3, <1>10

\* What follows from the input and the columns stays with them.
LEMMA SameColumns ==
    ASSUME UNCHANGED <<input, columns>>
    PROVE  /\ OtherColumns' = OtherColumns
           /\ Refused' <=> Refused
           /\ \A n, g : Row(n, g)' = Row(n, g)
<1>1. OtherColumns' = OtherColumns
  BY DEF OtherColumns
<1> QED
  BY <1>1, SameInput DEF Refused, Row

\* What the counts say stays true as long as neither the counts nor the values
\* that are counted change.
LEMMA SameCounts ==
    ASSUME CountsInv, UNCHANGED <<input, stats>>, Analyzed' = Analyzed
    PROVE  CountsInv'
<1>1. \A f : Counting(f)' = Counting(f)
  BY SameInput DEF Counting
<1> QED
  BY <1>1 DEF CountsInv

\* Before the first record nothing is counted and there is no column.
LEMMA IInvInit == Init => IInv
<1> SUFFICES ASSUME Init PROVE IInv
  OBVIOUS
<1>1. input \in Tables /\ InputInv
  BY StageColumnsAssumption DEF Init, InputInv, Records
<1>2. Len(Records) \in Nat /\ Len(<<>>) = 0
  BY <1>1 DEF Tables, Records
<1>3. NoCounts \in Counts
  BY DEF NoCounts, Counts
<1>4. TypeOK
  BY <1>1, <1>2, <1>3 DEF Init, TypeOK
<1>5. \A f \in Fields : Counting(f) = {} /\ stats[f] = NoCounts
  BY DEF Init, Counting, Analyzed
<1>6. CountsInv
  BY <1>5 DEF CountsInv, DescribesStrings, DescribesOthers, NoCounts
<1>7. ColumnsInv /\ RowsInv /\ RefusedForCause
  BY DEF Init, ColumnsInv, RowsInv, RefusedForCause
<1> QED
  BY <1>1, <1>4, <1>6, <1>7 DEF IInv

\* Every step keeps the types.
LEMMA TypeStep == TypeOK /\ [Next]_vars => TypeOK'
<1> SUFFICES ASSUME TypeOK, [Next]_vars PROVE TypeOK'
  OBVIOUS
<1>1. /\ input \in Tables /\ Len(Records) \in Nat /\ DOMAIN Records = 1..Len(Records)
      /\ next \in 1..(Len(Records) + 1) /\ next \in Nat
      /\ stats \in [Fields -> Counts]
  BY DEF TypeOK, Tables, Records
<1>2. CASE AnalyzeRecord
  <2>1. /\ pc' = "analyze" /\ next' = next + 1 /\ next \in DOMAIN Records
        /\ UNCHANGED <<input, columns, rows>>
        /\ stats' = [f \in Fields |-> Counted(stats[f], Seen(next, f))]
    BY <1>1, <1>2 DEF AnalyzeRecord
  <2>2. stats' \in [Fields -> Counts]
    BY <1>1, <2>1, CountedType, SeenType
  <2> QED
    BY <1>1, <1>2, <2>1, <2>2 DEF AnalyzeRecord, TypeOK, Records, OtherColumns
<1>3. CASE SelectColumns
  <2>1. /\ pc = "analyze" /\ pc' = "create"
        /\ columns' = {Column(f) : f \in ColumnFields} /\ ColumnFields \subseteq Fields
        /\ UNCHANGED <<input, next, stats, rows>>
    BY <1>3 DEF SelectColumns, ColumnFields
  <2>2. \A c \in columns' : \E f \in Fields :
            c = [source_name |-> f, name |-> DecodeCamelCase(NameOf(f)),
                 type |-> SelectType(stats[f]), length |-> DeclaredLength(stats[f])]
    BY <2>1 DEF Column
  <2>3. ASSUME NEW f \in Fields
        PROVE  SelectType(stats[f]) \in ColumnTypeSet /\ DeclaredLength(stats[f]) \in Nat
    <3>1. stats[f].max_length \in Nat /\ MinVarchar \in Nat
      BY <1>1, ColumnTypesAssumption DEF Counts, NoCounts
    <3> QED
      BY <3>1 DEF SelectType, ColumnTypeSet, DeclaredLength
  <2> QED
    BY <2>1, <2>2, <2>3 DEF TypeOK, Records
<1>4. CASE CreateLoadingTable
  BY <1>1, <1>4 DEF CreateLoadingTable, TypeOK, Records, OtherColumns
<1>5. CASE WriteTuple
  <2>1. PICK garbage \in Garbage : rows' = Append(rows, Row(next, garbage))
    BY <1>5 DEF WriteTuple
  <2>2. next \in DOMAIN Records /\ garbage \in Int
    BY <1>1, <1>5, ColumnTypesAssumption DEF WriteTuple
  <2>3. \A f \in Fields : Value(next, f) \in Values
    BY <2>2, ValueType
  <2>4. IdOf(next) \in Values
    BY <2>3, StageColumnsAssumption DEF IdOf, Null, Values
  <2>5. \A c \in OtherColumns : c.type \in ColumnTypeSet /\ c.source_name \in Fields
    BY DEF TypeOK, OtherColumns
  <2>6. [c \in OtherColumns |-> WrittenValue(c.type, Value(next, c.source_name), garbage)]
          \in [OtherColumns -> Values]
    BY <2>2, <2>3, <2>5, WrittenType
  <2>7. rows' \in Seq([id : Values, cells : [OtherColumns -> Values]])
    BY <2>1, <2>4, <2>6 DEF TypeOK, Row
  <2> QED
    BY <1>1, <1>5, <2>2, <2>7 DEF WriteTuple, TypeOK, Records, OtherColumns
<1>6. CASE RejectTuple
  BY <1>6 DEF RejectTuple, TypeOK, Records, OtherColumns
<1>7. CASE EndCopy
  BY <1>7 DEF EndCopy, TypeOK, Records, OtherColumns
<1>8. CASE UNCHANGED vars
  BY <1>8 DEF vars, TypeOK, Records, OtherColumns
<1> QED
  BY <1>2, <1>3, <1>4, <1>5, <1>6, <1>7, <1>8 DEF Next

\* Every step keeps the invariant.
LEMMA IInvStep == IInv /\ [Next]_vars => IInv'
<1> SUFFICES ASSUME IInv, [Next]_vars PROVE IInv'
  OBVIOUS
<1>1. /\ TypeOK /\ InputInv /\ CountsInv /\ ColumnsInv /\ RowsInv /\ RefusedForCause
      /\ TypeOK'
  BY TypeStep DEF IInv
<1>2. /\ Len(Records) \in Nat /\ DOMAIN Records = 1..Len(Records)
      /\ next \in 1..(Len(Records) + 1) /\ next \in Nat
      /\ stats \in [Fields -> Counts]
      /\ pc \in {"analyze", "create", "load", "staged", "failed"}
  BY <1>1 DEF TypeOK, Tables, Records
<1>3. input' = input
  BY DEF Next, AnalyzeRecord, SelectColumns, CreateLoadingTable, WriteTuple, RejectTuple, EndCopy, vars
<1>4. InputInv'
  BY <1>1, <1>3, SameInput DEF InputInv
<1>5. /\ Records' = Records /\ (Cause' <=> Cause)
      /\ \A n : IdOf(n)' = IdOf(n)
  BY <1>3, SameInput
<1>6. CASE AnalyzeRecord
  <2>1. /\ pc = "analyze" /\ pc' = "analyze" /\ next' = next + 1 /\ next \in DOMAIN Records
        /\ UNCHANGED <<input, columns, rows>>
        /\ stats' = [f \in Fields |-> Counted(stats[f], Seen(next, f))]
    BY <1>2, <1>6 DEF AnalyzeRecord
  <2>2. CountsInv'
    <3> SUFFICES ASSUME NEW f \in Fields
                 PROVE  /\ DescribesStrings(stats'[f], Counting(f)')
                        /\ DescribesOthers(stats'[f], Counting(f)')
      BY DEF CountsInv
    <3>1. /\ stats'[f] = Counted(stats[f], Seen(next, f))
          /\ stats[f] \in Counts /\ Seen(next, f) \in Values
      BY <1>1, <1>2, <2>1, SeenType
    <3>2. Analyzed' = Analyzed \cup {next} /\ Analyzed \subseteq DOMAIN Records
      BY <1>2, <2>1 DEF Analyzed
    <3>3. Counting(f)' = Counting(f) \cup {Seen(next, f)} /\ Counting(f) \subseteq Values
      <4> HIDE DEF Analyzed
      <4> QED
        BY <1>1, <1>3, <3>2, SameInput, SeenType DEF Counting
    <3>4. DescribesStrings(stats[f], Counting(f)) /\ DescribesOthers(stats[f], Counting(f))
      BY <1>1 DEF CountsInv
    <3> QED
      BY <3>1, <3>3, <3>4, CountedDescribesStrings, CountedDescribesOthers
  <2>3. ColumnsInv' /\ RowsInv' /\ RefusedForCause'
    <3>1. rows = <<>> /\ DOMAIN rows = {}
      BY <1>1, <2>1 DEF TypeOK
    <3> QED
      BY <1>1, <2>1, <3>1 DEF ColumnsInv, RowsInv, RefusedForCause
  <2> QED
    BY <1>1, <1>4, <2>2, <2>3 DEF IInv
<1>7. CASE SelectColumns
  <2>1. /\ pc = "analyze" /\ pc' = "create" /\ next > Len(Records)
        /\ columns' = {Column(f) : f \in ColumnFields}
        /\ UNCHANGED <<input, next, stats, rows>>
    BY <1>7 DEF SelectColumns
  <2>2. CountsInv'
    <3>1. Analyzed' = Analyzed
      BY <1>2, <1>5, <2>1 DEF Analyzed
    <3> QED
      BY <1>1, <2>1, <3>1, SameCounts
  <2>3. ColumnsInv'
    BY <2>1 DEF ColumnsInv, ColumnFields, Column
  <2>4. RowsInv' /\ RefusedForCause'
    <3>1. rows = <<>> /\ DOMAIN rows = {}
      BY <1>1, <2>1 DEF TypeOK
    <3> QED
      BY <2>1, <3>1 DEF RowsInv, RefusedForCause
  <2> QED
    BY <1>1, <1>4, <2>2, <2>3, <2>4 DEF IInv
<1>8. ASSUME UNCHANGED <<input, stats, columns>>, pc # "analyze", pc' # "analyze"
      PROVE  CountsInv' /\ ColumnsInv'
  <2>1. CountsInv'
    <3>1. Analyzed' = Analyzed
      BY <1>5, <1>8 DEF Analyzed
    <3> QED
      BY <1>1, <1>8, <3>1, SameCounts
  <2>2. ColumnsInv'
    BY <1>1, <1>8 DEF ColumnsInv, ColumnFields, Column
  <2> QED
    BY <2>1, <2>2
<1>9. ASSUME UNCHANGED <<input, columns>>
      PROVE  (Refused' <=> Refused) /\ \A n, g : Row(n, g)' = Row(n, g)
  BY <1>9, SameColumns
<1>10. CASE CreateLoadingTable
  <2>1. /\ pc = "create" /\ pc' = IF Refused THEN "failed" ELSE "load"
        /\ next' = 1 /\ UNCHANGED <<input, stats, columns, rows>> /\ rows = <<>>
    BY <1>1, <1>10 DEF CreateLoadingTable, TypeOK
  <2>2. CountsInv' /\ ColumnsInv'
    BY <1>8, <2>1
  <2>3. RowsInv'
    BY <1>9, <2>1 DEF RowsInv
  <2>4. RefusedForCause'
    BY <1>1, <1>5, <2>1, RefusedCause DEF RefusedForCause, Cause
  <2> QED
    BY <1>1, <1>4, <2>2, <2>3, <2>4 DEF IInv
<1>11. CASE WriteTuple
  <2>1. PICK garbage \in Garbage : rows' = Append(rows, Row(next, garbage))
    BY <1>11 DEF WriteTuple
  <2>2. /\ pc = "load" /\ pc' = "load" /\ next' = next + 1 /\ IdOf(next) # Null
        /\ UNCHANGED <<input, stats, columns>>
    BY <1>11 DEF WriteTuple
  <2>3. CountsInv' /\ ColumnsInv'
    BY <1>8, <2>2
  <2>4. /\ Len(rows) = next - 1 /\ DOMAIN rows = 1..(next - 1)
        /\ Len(rows') = next /\ DOMAIN rows' = 1..next
        /\ rows'[next] = Row(next, garbage)
        /\ \A n \in DOMAIN rows : rows'[n] = rows[n]
    BY <1>1, <1>2, <2>1, <2>2 DEF RowsInv, TypeOK
  <2>5. RowsInv'
    <3>1. \A n \in DOMAIN rows' : n = next \/ n \in DOMAIN rows
      BY <1>2, <2>4
    <3> QED
      BY <1>1, <1>2, <1>5, <1>9, <2>2, <2>4, <3>1 DEF RowsInv
  <2>6. RefusedForCause'
    BY <2>2 DEF RefusedForCause
  <2> QED
    BY <1>1, <1>4, <2>3, <2>5, <2>6 DEF IInv
<1>12. CASE RejectTuple
  <2>1. /\ pc = "load" /\ pc' = "failed" /\ next \in DOMAIN Records /\ IdOf(next) = Null
        /\ UNCHANGED <<input, next, stats, columns, rows>>
    BY <1>2, <1>12 DEF RejectTuple
  <2>2. CountsInv' /\ ColumnsInv'
    BY <1>8, <2>1
  <2>3. RowsInv'
    BY <1>1, <1>5, <1>9, <2>1 DEF RowsInv
  <2>4. RefusedForCause'
    BY <1>5, <2>1 DEF RefusedForCause, Cause, BadId
  <2> QED
    BY <1>1, <1>4, <2>2, <2>3, <2>4 DEF IInv
<1>13. CASE EndCopy
  <2>1. /\ pc = "load" /\ next > Len(Records)
        /\ pc' = IF \A n \in DOMAIN rows : RowAccepted(rows[n]) THEN "staged" ELSE "failed"
        /\ UNCHANGED <<input, next, stats, columns, rows>>
    BY <1>13 DEF EndCopy
  <2>2. CountsInv' /\ ColumnsInv'
    BY <1>8, <2>1
  <2>3. RowsInv'
    BY <1>1, <1>2, <1>5, <1>9, <2>1 DEF RowsInv
  <2>4. RefusedForCause'
    BY <1>1, <1>5, <2>1, RowsCause DEF RefusedForCause
  <2> QED
    BY <1>1, <1>4, <2>2, <2>3, <2>4 DEF IInv
<1>14. CASE UNCHANGED vars
  <2>1. UNCHANGED <<input, pc, next, stats, columns, rows>>
    BY <1>14 DEF vars
  <2>2. CountsInv' /\ ColumnsInv'
    <3>1. CountsInv'
      BY <1>1, <1>5, <2>1, SameCounts DEF Analyzed
    <3>2. ColumnsInv'
      BY <1>1, <2>1 DEF ColumnsInv, ColumnFields, Column
    <3> QED
      BY <3>1, <3>2
  <2>3. RowsInv' /\ RefusedForCause'
    BY <1>1, <1>5, <1>9, <2>1 DEF RowsInv, RefusedForCause
  <2> QED
    BY <1>1, <1>4, <2>2, <2>3 DEF IInv
<1> QED
  BY <1>6, <1>7, <1>10, <1>11, <1>12, <1>13, <1>14 DEF Next

\* The invariant holds in every state.
LEMMA Invariance == Spec => []IInv
BY IInvInit, IInvStep, PTL DEF Spec

-----------------------------------------------------------------------------
\* Every variable always has its type, for any input.
THEOREM TypeCorrect == Spec => []TypeOK
<1>1. IInv => TypeOK
  BY DEF IInv
<1> QED
  BY <1>1, Invariance, PTL

\* No string that the first pass has read is refused by the type or by the
\* width of the column which select_type() and create_loading_table() make.
THEOREM StringsAlwaysFit == Spec => []StringsFit
<1>1. IInv => StringsFit
  <2> SUFFICES ASSUME IInv, NEW c \in columns, NEW n \in DOMAIN Records,
                      Value(n, c.source_name).kind = "string"
               PROVE  Takes(c.type, c.length, Value(n, c.source_name))
    BY DEF StringsFit
  <2> DEFINE v == Value(n, c.source_name)
  <2>1. TypeOK /\ CountsInv /\ ColumnsInv /\ pc # "analyze"
    BY DEF IInv, ColumnsInv
  <2>2. PICK f \in Fields : c = Column(f)
    BY <2>1 DEF ColumnsInv, ColumnFields
  <2>3. /\ c.source_name = f
        /\ c.type = SelectType(stats[f]) /\ c.length = DeclaredLength(stats[f])
    BY <2>2, ColumnOfField
  <2>4. v \in Strings(f)
    BY <2>1, <2>3, PresentValues DEF Strings
  <2> HIDE DEF v
  <2>5. c.type = IF AreUUIDs(f) THEN "id" ELSE IF AreDates(f) THEN "timestamptz" ELSE "varchar"
    BY <2>1, <2>3, <2>4, Derived DEF AreTexts
  <2>6. v.length <= c.length
    BY <2>1, <2>3, <2>4, Derived
  <2>7. Takes(c.type, c.length, v)
    BY <2>4, <2>5, <2>6 DEF Takes, AreUUIDs, AreDates
  <2> QED
    BY <2>7 DEF v
<1> QED
  BY <1>1, Invariance, PTL

\* stage_table_1() and stage_table_2() with COPY stage a table as a whole, or
\* refuse it, and then for one of the causes that the source data can have.
THEOREM AlwaysRefusedForCause == Spec => []RefusedForCause
<1>1. IInv => RefusedForCause
  BY DEF IInv
<1> QED
  BY <1>1, Invariance, PTL

\* In a table that has been staged, writeTuple() has put every value that is not
\* lossy into the column of its field.
THEOREM ColumnsAlwaysShowSource == Spec => []ColumnsShowSource
<1>1. IInv => ColumnsShowSource
  <2> SUFFICES ASSUME IInv, pc = "staged", NEW f \in Stored
               PROVE  \E c \in OtherColumns :
                        /\ c.source_name = f
                        /\ \A n \in DOMAIN Records :
                            Lossy(f, Value(n, f)) \/ Shows(rows[n].cells[c], Value(n, f))
    BY DEF ColumnsShowSource
  <2>1. TypeOK /\ InputInv /\ CountsInv /\ ColumnsInv /\ RowsInv /\ ~ Refused
    BY DEF IInv, RowsInv
  <2>2. f \in Fields /\ Column(f) \in OtherColumns /\ Column(f).source_name = f
    BY <2>1, StoredColumns, ColumnOfField DEF Stored
  <2>3. ~ TooLong(f)
    BY <2>1, RefusedCause
  <2>4. DOMAIN rows = DOMAIN Records
    BY <2>1 DEF TypeOK, Tables, Records, RowsInv
  <2>5. ASSUME NEW n \in DOMAIN Records
        PROVE  Lossy(f, Value(n, f)) \/ Shows(rows[n].cells[Column(f)], Value(n, f))
    <3>1. PICK garbage \in Garbage : rows[n] = Row(n, garbage)
      BY <2>1, <2>4 DEF RowsInv
    <3>2. rows[n].cells[Column(f)] = WrittenValue(Column(f).type, Value(n, f), garbage)
      BY <2>2, <3>1 DEF Row
    <3> QED
      BY <2>1, <2>2, <2>3, <3>2, ShownUnlessLossy
  <2> QED
    BY <2>2, <2>5
<1> QED
  BY <1>1, Invariance, PTL

\* decode_camel_case() names every column with the words of its field.
THEOREM NamesAlwaysDecoded == Spec => []NamesDecoded
<1>1. IInv => NamesDecoded
  BY ColumnOfField DEF IInv, ColumnsInv, NamesDecoded, ColumnFields
<1> QED
  BY <1>1, Invariance, PTL

=============================================================================
