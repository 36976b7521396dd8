---------------------------- MODULE MCUpdateRun -----------------------------
(***************************************************************************)
(* Small instances of UpdateRun for TLC.                                   *)
(***************************************************************************)
EXTENDS UpdateRun

NoTables == {}
SecondTable == {2}

\* Of every table but the second, all of the sources have rows, or the first one,
\* or none.
AnyContents ==
    {UNION {{t} \X rows[t] : t \in Tables \ {2}} :
        rows \in [Tables \ {2} -> {Sources, {1}, {}}]}

\* One source, with or without rows.
OneSource == SUBSET (Tables \X {1})

Default == [parallel_update |-> TRUE, extract_only |-> FALSE, savetemps |-> FALSE,
            table |-> NoTable]

DefaultOptions == {Default}
ExtractOnlyOptions == {[Default EXCEPT !.extract_only = TRUE]}

\* Every combination, with --table for the last table.
AllOptions ==
    [parallel_update : BOOLEAN, extract_only : BOOLEAN, savetemps : BOOLEAN,
     table : {NoTable, NumTables}]

=============================================================================
