---------------------------- MODULE ColumnNames ----------------------------
(***************************************************************************)
(* The names of columns: camel case decoded into lowercase words.  A       *)
(* character is its lowercase letter and whether it is uppercase; digits   *)
(* and other signs, "/" among them, are lowercase, as isupper() has it.  A *)
(* name of a field is a sequence of characters, that of a column one of    *)
(* letters.                                                                *)
(***************************************************************************)
EXTENDS Naturals, Sequences, SequencesExt

End == [letter |-> "", upper |-> FALSE]
Characters == [letter : STRING, upper : BOOLEAN] \ {End}

\* Variant: a word also ends where uppercase letters are followed by lowercase
\* ones.
DecodeTripleEarly(c1, c2, c3) ==
    IF c1 # End /\ c1.upper # c2.upper THEN <<"_", c2.letter>> ELSE <<c2.letter>>

\* The middle one of three characters, with an underscore if it begins a word.
DecodeTriple(c1, c2, c3) ==
    IF /\ c1 # End
       /\ c2.upper
       /\ ~ c1.upper \/ (c3 # End /\ ~ c3.upper)
    THEN <<"_", c2.letter>>
    ELSE <<c2.letter>>

\* The window of three characters slides over the name.
DecodeCamelCase(name) ==
    LET At(i) == IF i \in DOMAIN name THEN name[i] ELSE End
    IN  FlattenSeq([i \in DOMAIN name |-> DecodeTriple(At(i - 1), name[i], At(i + 1))])

\* The first "/" of a column name is replaced in its identifier.
ExpandColumnName(name) == ReplaceFirstSubSeq(<<"_", "_">>, <<"/">>, name)

-----------------------------------------------------------------------------
(* What the comment of decode_camel_case() says: a sequence of uppercase   *)
(* letters is a word, except that the last one begins a new word if it is  *)
(* followed by a lowercase letter.                                         *)

\* The positions at which a word of the name begins: before the first of a
\* sequence of uppercase letters, and before its last one if a lowercase letter
\* follows.
WordStarts(name) ==
    LET Inside(i) == i \in DOMAIN name /\ name[i].upper
        begins == {i \in DOMAIN name : Inside(i) /\ ~ Inside(i - 1)}
        ends == {i \in DOMAIN name : Inside(i) /\ ~ Inside(i + 1)}
    IN  begins \cup (ends \ {Len(name)})

\* The words of the name, joined with underscores.
Words(name) ==
    FlattenSeq([i \in DOMAIN name |->
                  IF i \in WordStarts(name) \ {1} THEN <<"_", name[i].letter>>
                                                  ELSE <<name[i].letter>>])

=============================================================================
