--------------------------- MODULE MCStageColumns ---------------------------
(***************************************************************************)
(* A small instance of StageColumns for TLC: numbers have 8 bits, and a    *)
(* NUMERIC ends at 1000, where the text of a number has 17 characters.     *)
(***************************************************************************)
EXTENDS StageColumns

Lower(c) == [letter |-> c, upper |-> FALSE]
Upper(c) == [letter |-> c, upper |-> TRUE]

\* Names with the shapes of test/camelcase_test.cpp, those of two fields with
\* one column name, and those that are special.
Names ==
    [id |-> <<Lower("i"), Lower("d")>>,
     Id |-> <<Upper("i"), Lower("d")>>,
     data |-> <<Lower("d"), Lower("a"), Lower("t"), Lower("a")>>,
     description |-> <<Lower("d")>>,
     notificationId |-> <<Lower("n"), Upper("i"), Lower("d")>>,
     aID |-> <<Lower("a"), Upper("i"), Upper("d")>>,
     aId |-> <<Lower("a"), Upper("i"), Lower("d")>>,
     CCCc |-> <<Upper("c"), Upper("c"), Upper("c"), Lower("c")>>,
     cRUc |-> <<Lower("c"), Upper("r"), Upper("u"), Lower("c")>>,
     s_n |-> <<Lower("s"), Lower("/"), Lower("n")>>,
     s__n |-> <<Lower("s"), Lower("_"), Lower("_"), Lower("n")>>,
     private |-> <<Lower("p"), Lower("r")>>]

MCFields == DOMAIN Names
MCNameOf(f) == Names[f]
MCDropFields == {"private"}
MCObjectFields == {"s_n"}
MCNumberLength(n) == IF n \in -99 .. 999 THEN 16 ELSE 17
MCGarbage == {0, 3}

UUID == String("uuid", 36)
Word == String("other", 5)

Samples ==
    {Missing, Null, Structure, Boolean(TRUE), Boolean(FALSE), UUID, Word,
     Integer(127), Integer(128), Integer(-129), Integer(1000), Integer(-1000),
     Floating(5), Floating(999), Floating(1000), Floating(1001), Floating(-999), Floating(-1000),
     String("date_time", 20), String("odd_date", 20), String("odd_date", 50),
     String("other", 0), String("other", 17), String("other", 40), String("other", 41),
     String("other", 50)}

\* A record with these values, whose other fields are missing.
Record(values) ==
    [f \in MCFields |-> IF f \in DOMAIN values THEN values[f]
                        ELSE IF f = "id" THEN UUID ELSE Missing]

Table(type, records) == [source_type |-> type, records |-> records]

\* Two values of a field, ...
Pairs ==
    {Table("rmb", <<Record([x \in {f} |-> v]), Record([x \in {f} |-> w])>>) :
        f \in {"description", "private", "s_n"}, v, w \in Samples}

\* ... three of them, ...
Triples ==
    {Table("rmb", <<Record([description |-> u]), Record([description |-> v]),
                    Record([description |-> w])>>) :
        u \in {UUID, Word, Integer(5), Floating(5), Boolean(TRUE), String("date_time", 20)},
        v \in Samples, w \in Samples}

\* ... any three fields at once, in tables of every type, ...
Selections ==
    {Table(type, <<Record([x \in {f, g, h} |-> UUID])>>) :
        type \in {"rmb", "srs_marc_records", "srs_error_records"}, f, g, h \in MCFields}

\* ... all kinds of IDs, and no record at all.
Identifications ==
    {Table("rmb", <<Record([id |-> v, notificationId |-> w])>>) :
        v, w \in {Missing, Null, UUID, Word, Integer(5), Structure}}

MCInputs == Pairs \cup Triples \cup Selections \cup Identifications \cup {Table("rmb", <<>>)}

=============================================================================
