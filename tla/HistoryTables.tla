--------------------------- MODULE HistoryTables ---------------------------
(***************************************************************************)
(* The data of one LDP table and of its history table, and the queries of  *)
(* merge.cpp on them.  A JSON object is a member of Docs; a table maps     *)
(* every record ID to its "data" attribute, or to Absent when the table    *)
(* has no row with that ID.  A history table is a set of rows keyed by     *)
(* (id, updated).                                                          *)
(***************************************************************************)
EXTENDS Naturals, FiniteSets

CONSTANTS
    Ids,        \* record IDs
    Docs,       \* JSON objects, after anonymization and dropped fields
    Oversize,   \* the objects whose encoding does not fit the data attribute
    Absent,     \* no row
    NullData    \* a row whose data attribute is NULL

ASSUME DataAssumption ==
    /\ Absent \notin Docs
    /\ NullData \notin Docs
    /\ Absent # NullData
    /\ Oversize \subseteq Docs
    /\ IsFiniteSet(Ids)

\* What a source holds: the temporary file of an extraction has these rows.
SourceRows == [Ids -> Docs \cup {Absent}]

\* What a loading table or a main table holds.
TableRows == [Ids -> Docs \cup {Absent, NullData}]

NoRows == [i \in Ids |-> Absent]

HistoryRow == [id : Ids, data : Docs, updated : Nat]

\* The rows that the second staging pass writes for the rows of a file: the
\* data attribute of an oversized object is stored as NULL.
Staged(rows) == [i \in Ids |-> IF rows[i] \in Oversize THEN NullData ELSE rows[i]]

\* The query of create_latest_history_table(): the rows of history h which no
\* other row with the same ID supersedes.
LatestRows(h) ==
    {r \in h : ~ \E s \in h : r.id = s.id /\ r.updated < s.updated}

\* Variant: a record that the history knows is never merged again.
ChangedIfNew(rows, latest) ==
    {i \in Ids : rows[i] \in Docs /\ \A r \in latest : r.id # i}

\* Variant: the condition that the data attribute is not NULL is missing.
ChangedOrNull(rows, latest) ==
    {i \in Ids :
        /\ rows[i] # Absent
        /\ \/ \A r \in latest : r.id # i
           \/ \E r \in latest : r.id = i /\ r.data # rows[i]}

\* The WHERE clause of merge_table() over the LEFT JOIN with the latest rows.
Changed(rows, latest) ==
    {i \in Ids :
        /\ rows[i] \in Docs
        /\ \/ \A r \in latest : r.id # i
           \/ \E r \in latest : r.id = i /\ r.data # rows[i]}

\* The rows that merge_table() inserts in a transaction that began at time t.
NewVersions(rows, latest, t) ==
    {[id |-> i, data |-> rows[i], updated |-> t] : i \in Changed(rows, latest)}

\* A time stamp later than every one in history h.
LaterThan(t, h) == \A r \in h : r.updated < t

-----------------------------------------------------------------------------
(* What a main table and its history promise to a reader.                  *)

\* The primary key of a history table, (id, updated), holds.
KeyHolds(h) ==
    \A r, s \in h : r.id = s.id /\ r.updated = s.updated => r = s

\* Every object in the main table is the latest version in the history.
LatestMatches(rows, h) ==
    \A i \in Ids : rows[i] \in Docs =>
        \E r \in LatestRows(h) : r.id = i /\ r.data = rows[i]

\* Two consecutive versions of a record are different objects.
NoRepeatedVersion(h) ==
    \A r, s \in h :
        /\ r.id = s.id
        /\ r.updated < s.updated
        /\ ~ \E q \in h : q.id = r.id /\ r.updated < q.updated /\ q.updated < s.updated
        => r.data # s.data

=============================================================================
