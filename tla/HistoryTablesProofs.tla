------------------------ MODULE HistoryTablesProofs ------------------------
(***************************************************************************)
(* What one merge does to a history table: it keeps the primary key, it    *)
(* makes the latest versions those of the merged rows, and it never adds a *)
(* version equal to its predecessor.                                       *)
(***************************************************************************)
EXTENDS HistoryTables, FiniteSetTheorems, TLAPS

\* Staging yields rows of the main table's type (writeTuple).
LEMMA StagedType ==
    ASSUME NEW rows \in SourceRows
    PROVE  Staged(rows) \in TableRows
BY DataAssumption DEF SourceRows, TableRows, Staged

\* A file without rows stages to a table without rows.
LEMMA StagedNoRows == Staged(NoRows) = NoRows
BY DataAssumption DEF Staged, NoRows

\* The rows that merge_table() inserts are history rows, with the time stamp of
\* the transaction and an object of the merged rows.
LEMMA NewVersionsType ==
    ASSUME NEW rows \in TableRows, NEW latest, NEW t \in Nat
    PROVE  /\ NewVersions(rows, latest, t) \subseteq HistoryRow
           /\ \A r \in NewVersions(rows, latest, t) :
                r.id \in Changed(rows, latest) /\ r.data = rows[r.id] /\ r.updated = t
BY DEF NewVersions, HistoryRow, Changed, TableRows

\* A merge inserts finitely many rows, at most one for each record ID.
LEMMA NewVersionsFinite ==
    ASSUME NEW rows, NEW latest, NEW t
    PROVE  IsFiniteSet(NewVersions(rows, latest, t))
<1> DEFINE changed == Changed(rows, latest)
           new == NewVersions(rows, latest, t)
           f == [i \in changed |-> [id |-> i, data |-> rows[i], updated |-> t]]
<1>1. IsFiniteSet(changed)
  BY DataAssumption, FS_Subset DEF Changed
<1>2. f \in Surjection(changed, new)
  BY DEF Surjection, NewVersions
<1> QED
  BY <1>1, <1>2, FS_Surjection

\* The latest rows of a history with a key have different IDs.
LEMMA LatestUnique ==
    ASSUME NEW h \in SUBSET HistoryRow, KeyHolds(h),
           NEW r \in LatestRows(h), NEW s \in LatestRows(h), r.id = s.id
    PROVE  r = s
BY DEF LatestRows, KeyHolds, HistoryRow

\* The rows that merge_table() inserts never collide with the primary key
\* (id, updated) of the history table.
LEMMA MergeKeepsKey ==
    ASSUME NEW h \in SUBSET HistoryRow, KeyHolds(h),
           NEW rows \in TableRows, NEW t \in Nat, LaterThan(t, h)
    PROVE  KeyHolds(h \cup NewVersions(rows, LatestRows(h), t))
<1> DEFINE new == NewVersions(rows, LatestRows(h), t)
<1> SUFFICES ASSUME NEW r \in h \cup new, NEW s \in h \cup new,
                    r.id = s.id, r.updated = s.updated
             PROVE  r = s
  BY DEF KeyHolds
<1>1. CASE r \in h /\ s \in h
  BY <1>1 DEF KeyHolds
<1>2. CASE r \in new /\ s \in new
  BY <1>2 DEF NewVersions
<1>3. \A x \in h, y \in new : x.updated # y.updated
  BY NewVersionsType DEF LaterThan, HistoryRow
<1> QED
  BY <1>1, <1>2, <1>3

\* After the merge of a table, every object of it is the latest version.
LEMMA MergeMatches ==
    ASSUME NEW h \in SUBSET HistoryRow,
           NEW rows \in TableRows, NEW t \in Nat, LaterThan(t, h)
    PROVE  LatestMatches(rows, h \cup NewVersions(rows, LatestRows(h), t))
<1> DEFINE new == NewVersions(rows, LatestRows(h), t)
           all == h \cup new
<1> SUFFICES ASSUME NEW i \in Ids, rows[i] \in Docs
             PROVE  \E r \in LatestRows(all) : r.id = i /\ r.data = rows[i]
  BY DEF LatestMatches
<1>1. CASE i \in Changed(rows, LatestRows(h))
  <2> DEFINE n == [id |-> i, data |-> rows[i], updated |-> t]
  <2>1. n \in new
    BY <1>1 DEF NewVersions
  <2>2. \A s \in all : ~ t < s.updated
    BY NewVersionsType DEF LaterThan, HistoryRow
  <2>3. n \in LatestRows(all)
    BY <2>1, <2>2 DEF LatestRows
  <2> QED
    BY <2>3
<1>2. CASE i \notin Changed(rows, LatestRows(h))
  <2>1. PICK r \in LatestRows(h) : r.id = i /\ r.data = rows[i]
    BY <1>2 DEF Changed
  <2>2. \A s \in new : s.id # i
    BY <1>2 DEF NewVersions
  <2>3. r \in LatestRows(all)
    BY <2>1, <2>2 DEF LatestRows
  <2> QED
    BY <2>1, <2>3
<1> QED
  BY <1>1, <1>2

\* A merge adds no version that is the same as the one before it.
LEMMA MergeAddsNoRepetition ==
    ASSUME NEW h \in SUBSET HistoryRow, KeyHolds(h), NoRepeatedVersion(h),
           NEW rows \in TableRows, NEW t \in Nat, LaterThan(t, h)
    PROVE  NoRepeatedVersion(h \cup NewVersions(rows, LatestRows(h), t))
<1> DEFINE new == NewVersions(rows, LatestRows(h), t)
           all == h \cup new
<1> SUFFICES ASSUME NEW r \in all, NEW s \in all, r.id = s.id, r.updated < s.updated,
                    ~ \E q \in all : /\ q.id = r.id
                                     /\ r.updated < q.updated
                                     /\ q.updated < s.updated
             PROVE  r.data # s.data
  BY DEF NoRepeatedVersion
<1>1. \A x \in new : x \in HistoryRow /\ x.updated = t
  BY NewVersionsType
<1>2. \A x \in h : x \in HistoryRow /\ x.updated < t
  BY DEF LaterThan
<1>3. r \in h
  BY <1>1, <1>2 DEF HistoryRow
<1>4. CASE s \in h
  BY <1>3, <1>4 DEF NoRepeatedVersion
<1>5. CASE s \in new
  <2>1. s.updated = t
    BY <1>1, <1>5
  <2>2. r \in LatestRows(h)
    BY <1>2, <1>3, <2>1 DEF LatestRows
  <2>3. s.id \in Changed(rows, LatestRows(h)) /\ s.data = rows[s.id]
    BY <1>5, NewVersionsType
  <2>4. PICK x \in LatestRows(h) : x.id = s.id /\ x.data # s.data
    BY <2>2, <2>3 DEF Changed
  <2>5. x = r
    BY <2>2, <2>4, LatestUnique
  <2> QED
    BY <2>4, <2>5
<1> QED
  BY <1>4, <1>5

=============================================================================
