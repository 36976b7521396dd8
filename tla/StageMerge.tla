----------------------------- MODULE StageMerge -----------------------------
(***************************************************************************)
(* The update of one LDP table by one or more "ldp update" processes: the  *)
(* extraction of the source rows to a temporary file (retrieve_direct and  *)
(* run_update), then stage_merge(), which snapshots the latest history,    *)
(* stages the file into a loading table, merges it into the history and    *)
(* renames it to the main table in one transaction, and finally counts the *)
(* rows for the catalog.  Every statement may fail, and a process may be   *)
(* killed between any two of them.                                         *)
(*                                                                         *)
(* A loading table and the main table carry, for the properties only,      *)
(* asOf: the source state that the updater has extracted.  In the same way *)
(* the catalog remembers in missed that an update has ended between its    *)
(* COMMIT and its UPDATE of the catalog, which was the last one to be.     *)
(***************************************************************************)
EXTENDS HistoryTables, Sequences, FiniteSets

CONSTANTS
    Updaters,        \* the ldp processes that may update the table
    RecordHistory,   \* the configuration setting record_history
    SourceType,      \* the data_source_type of the table
    DiskMayFill,     \* the file system of the data directory may run full
    MaxStamp,        \* bound: time stamps
    MaxChanges,      \* bound: changes of the source
    MaxFailures      \* bound: failed statements and killed processes

ASSUME StageMergeAssumption ==
    /\ RecordHistory \in BOOLEAN
    /\ DiskMayFill \in BOOLEAN
    /\ SourceType \in {"rmb", "notes", "direct_only", "srs_marc_records",
                       "srs_records", "srs_error_records"}
    /\ MaxStamp \in Nat
    /\ MaxChanges \in Nat
    /\ MaxFailures \in Nat

VARIABLES
    sourceLog,   \* the states that the source has been in, oldest first
    tempFile,    \* what staging reads in tmp/update/: no file stages no rows
    mainTable,   \* the main table, as committed
    history,     \* the history table, as committed
    catalog,     \* row_count and history_row_count of dbsystem.tables, missed
    failures,    \* how many failures have happened
    pc,          \* the next statement of every updater
    seen,        \* for the properties: the source state extracted last
    latest,      \* the temporary table history_latest_<table>
    txTime,      \* CURRENT_TIMESTAMP of the open transaction
    loading,     \* the table ldp_<table>, uncommitted
    pending,     \* the history rows inserted, uncommitted
    counts       \* the counts selected for the catalog

vars == <<sourceLog, tempFile, mainTable, history, catalog, failures, pc,
          seen, latest, txTime, loading, pending, counts>>

\* The tables of the database and the file, and what one updater works with.
shared == <<sourceLog, tempFile, mainTable, history, catalog, failures>>
local == <<seen, latest, txTime, loading, pending, counts>>

NoSnapshot == [rows |-> NoRows, asOf |-> 0]

Source == sourceLog[Len(sourceLog)]

RowCount(rows) == Cardinality({i \in Ids : rows[i] # Absent})

\* The condition of stage_merge() for calling merge_table().
KeepsHistory ==
    /\ RecordHistory
    /\ SourceType \notin {"srs_marc_records", "srs_records", "srs_error_records"}

-----------------------------------------------------------------------------
Init ==
    /\ \E rows \in SourceRows : sourceLog = <<rows>>
    /\ tempFile = NoRows
    /\ mainTable = NoSnapshot
    /\ history = {}
    /\ catalog = [rows |-> 0, historyRows |-> 0, missed |-> FALSE]
    /\ failures = 0
    /\ pc = [u \in Updaters |-> "idle"]
    /\ seen = [u \in Updaters |-> 0]
    /\ latest = [u \in Updaters |-> {}]
    /\ txTime = [u \in Updaters |-> 0]
    /\ loading = [u \in Updaters |-> NoSnapshot]
    /\ pending = [u \in Updaters |-> {}]
    /\ counts = [u \in Updaters |-> [rows |-> 0, historyRows |-> 0]]

\* FOLIO adds, changes or deletes a record.
SourceChange ==
    /\ Len(sourceLog) <= MaxChanges
    /\ \E i \in Ids, d \in Docs \cup {Absent} :
        /\ d # Source[i]
        /\ sourceLog' = Append(sourceLog, [Source EXCEPT ![i] = d])
    /\ UNCHANGED <<tempFile, mainTable, history, catalog, failures, pc, local>>

Goto(u, from, to) == pc[u] = from /\ pc' = [pc EXCEPT ![u] = to]

\* An update begins with make_update_tmp_dir(), which removes what an earlier
\* update has left in the directory.
StartUpdate(u) ==
    /\ Goto(u, "idle", "extract")
    /\ tempFile' = NoRows
    /\ UNCHANGED <<sourceLog, mainTable, history, catalog, failures, local>>

\* The rows that a file has when rows have been written to it: fprintf() is
\* not checked, so the end of the file is missing if the disk is full.
Written(rows) ==
    IF DiskMayFill
    THEN {r \in SourceRows : \A i \in Ids : r[i] \in {rows[i], Absent}}
    ELSE {rows}

\* try_retrieve_direct() writes the rows of one SELECT to the temporary file.
ExtractRows(u) ==
    /\ Source # NoRows
    /\ Goto(u, "extract", "latest")
    /\ tempFile' \in Written(Source)
    /\ seen' = [seen EXCEPT ![u] = Len(sourceLog)]
    /\ UNCHANGED <<sourceLog, mainTable, history, catalog, failures, latest,
                   txTime, loading, pending, counts>>

\* try_retrieve_direct() finds no row; only the beginning of a file is there.
ExtractNone(u) ==
    /\ Source = NoRows
    /\ Goto(u, "extract", "clear")
    /\ tempFile' = NoRows
    /\ seen' = [seen EXCEPT ![u] = Len(sourceLog)]
    /\ UNCHANGED <<sourceLog, mainTable, history, catalog, failures, latest,
                   txTime, loading, pending, counts>>

\* Variant: a table without source rows is skipped, but not cleared.
SkipTable(u) ==
    /\ Goto(u, "clear", "idle")
    /\ tempFile' = NoRows
    /\ UNCHANGED <<sourceLog, mainTable, history, catalog, failures, local>>

\* run_update() clears a table that has no source rows, and skips the rest.
ClearTable(u) ==
    /\ Goto(u, "clear", "idle")
    /\ mainTable' = [rows |-> NoRows, asOf |-> seen[u]]
    /\ tempFile' = NoRows
    /\ UNCHANGED <<sourceLog, history, catalog, failures, local>>

-----------------------------------------------------------------------------
(* stage_merge()                                                           *)

\* Variant: every version ever recorded counts as a latest one.
CreateWholeHistory(u) ==
    /\ Goto(u, "latest", "begin")
    /\ latest' = [latest EXCEPT ![u] = history]
    /\ UNCHANGED <<shared, seen, txTime, loading, pending, counts>>

\* Executed before BEGIN: the snapshot is of the history at this moment.
CreateLatestHistory(u) ==
    /\ Goto(u, "latest", "begin")
    /\ latest' = [latest EXCEPT ![u] =
          IF RecordHistory /\ SourceType \notin {"srs_marc_records", "srs_error_records"}
          THEN LatestRows(history)
          ELSE {}]
    /\ UNCHANGED <<shared, seen, txTime, loading, pending, counts>>

\* Only the order of time stamps matters: t is the least one that is later
\* than those of the history and of the open transactions.
StampsInUse == {r.updated : r \in history} \cup {txTime[v] : v \in Updaters}

NextStamp(t) ==
    /\ \A s \in StampsInUse : s < t
    /\ \A r \in 1..(t - 1) : \E s \in StampsInUse : r <= s

BeginTransaction(u) ==
    /\ Goto(u, "begin", "pass1")
    /\ \E t \in 1..MaxStamp : NextStamp(t) /\ txTime' = [txTime EXCEPT ![u] = t]
    /\ UNCHANGED <<shared, seen, latest, loading, pending, counts>>

\* PostgreSQL keeps a second transaction from creating a table with the name
\* of one that another transaction has created but not yet committed.
HasLoadingTable(u) == pc[u] \in {"pass2", "merge", "commit"}

\* The first pass derives the columns, and creates the loading table.
StageTable1(u) ==
    /\ \A v \in Updaters \ {u} : ~ HasLoadingTable(v)
    /\ Goto(u, "pass1", "pass2")
    /\ UNCHANGED <<shared, local>>

\* Variant: rows that are no longer in the source stay in the table.
StageOverMain(u) ==
    /\ Goto(u, "pass2", "merge")
    /\ loading' = [loading EXCEPT ![u] =
          [rows |-> [i \in Ids |-> IF tempFile[i] = Absent
                                  THEN mainTable.rows[i]
                                  ELSE Staged(tempFile)[i]],
           asOf |-> seen[u]]]
    /\ UNCHANGED <<shared, seen, latest, txTime, pending, counts>>

\* The second pass copies the rows of the file.
StageTable2(u) ==
    /\ Goto(u, "pass2", "merge")
    /\ loading' = [loading EXCEPT ![u] =
          [rows |-> Staged(tempFile), asOf |-> seen[u]]]
    /\ UNCHANGED <<shared, seen, latest, txTime, pending, counts>>

\* Variant: the merge is committed on its own.
MergeOutsideTransaction(u) ==
    /\ Goto(u, "merge", "commit")
    /\ history' = history \cup NewVersions(loading[u].rows, latest[u], txTime[u])
    /\ UNCHANGED <<sourceLog, tempFile, mainTable, catalog, failures, local>>

MergeTable(u) ==
    /\ Goto(u, "merge", "commit")
    /\ pending' = [pending EXCEPT ![u] =
          IF KeepsHistory
          THEN NewVersions(loading[u].rows, latest[u], txTime[u])
          ELSE {}]
    /\ UNCHANGED <<shared, seen, latest, txTime, loading, counts>>

\* Variant: the new versions replace the latest ones.
CommitReplacing(u) ==
    /\ Goto(u, "commit", "count")
    /\ mainTable' = loading[u]
    /\ history' = {r \in history : \A n \in pending[u] : n.id # r.id} \cup pending[u]
    /\ latest' = [latest EXCEPT ![u] = {}]
    /\ txTime' = [txTime EXCEPT ![u] = 0]
    /\ loading' = [loading EXCEPT ![u] = NoSnapshot]
    /\ pending' = [pending EXCEPT ![u] = {}]
    /\ UNCHANGED <<sourceLog, tempFile, catalog, failures, seen, counts>>

\* Variant: rows are counted only if versions have been added.
CommitCountingNew(u) ==
    /\ pc[u] = "commit"
    /\ pc' = [pc EXCEPT ![u] = IF pending[u] = {} THEN "idle" ELSE "count"]
    /\ mainTable' = loading[u]
    /\ history' = history \cup pending[u]
    /\ latest' = [latest EXCEPT ![u] = {}]
    /\ txTime' = [txTime EXCEPT ![u] = 0]
    /\ loading' = [loading EXCEPT ![u] = NoSnapshot]
    /\ pending' = [pending EXCEPT ![u] = {}]
    /\ UNCHANGED <<sourceLog, tempFile, catalog, failures, seen, counts>>

\* Drop the main table, rename the loading table, and COMMIT.
CommitTable(u) ==
    /\ Goto(u, "commit", "count")
    /\ mainTable' = loading[u]
    /\ history' = history \cup pending[u]
    /\ latest' = [latest EXCEPT ![u] = {}]
    /\ txTime' = [txTime EXCEPT ![u] = 0]
    /\ loading' = [loading EXCEPT ![u] = NoSnapshot]
    /\ pending' = [pending EXCEPT ![u] = {}]
    /\ UNCHANGED <<sourceLog, tempFile, catalog, failures, seen, counts>>

\* Variant: the versions that have been superseded are not counted.
CountLatest(u) ==
    /\ Goto(u, "count", "catalog")
    /\ counts' = [counts EXCEPT ![u] =
          [rows |-> RowCount(mainTable.rows),
           historyRows |-> Cardinality(LatestRows(history))]]
    /\ UNCHANGED <<shared, seen, latest, txTime, loading, pending>>

\* The two SELECT COUNT(*), after the transaction.
CountRows(u) ==
    /\ Goto(u, "count", "catalog")
    /\ counts' = [counts EXCEPT ![u] =
          [rows |-> RowCount(mainTable.rows), historyRows |-> Cardinality(history)]]
    /\ UNCHANGED <<shared, seen, latest, txTime, loading, pending>>

\* The last statement of stage_merge(); run_update() then deletes the file.
UpdateCatalog(u) ==
    /\ Goto(u, "catalog", "idle")
    /\ catalog' = [rows |-> counts[u].rows, historyRows |-> counts[u].historyRows,
                   missed |-> FALSE]
    /\ tempFile' = NoRows
    /\ counts' = [counts EXCEPT ![u] = [rows |-> 0, historyRows |-> 0]]
    /\ UNCHANGED <<sourceLog, mainTable, history, failures, seen, latest,
                   txTime, loading, pending>>

-----------------------------------------------------------------------------
\* Variant: the main table is dropped outside of the transaction.
FailAfterDrop(u) ==
    /\ pc[u] # "idle"
    /\ failures < MaxFailures
    /\ failures' = failures + 1
    /\ pc' = [pc EXCEPT ![u] = "idle"]
    /\ mainTable' = IF pc[u] = "commit" THEN NoSnapshot ELSE mainTable
    /\ latest' = [latest EXCEPT ![u] = {}]
    /\ txTime' = [txTime EXCEPT ![u] = 0]
    /\ loading' = [loading EXCEPT ![u] = NoSnapshot]
    /\ pending' = [pending EXCEPT ![u] = {}]
    /\ counts' = [counts EXCEPT ![u] = [rows |-> 0, historyRows |-> 0]]
    /\ UNCHANGED <<sourceLog, tempFile, history, catalog, seen>>

\* An update whose tables are new, and whose counts are not yet in the catalog.
Committed(u) == pc[u] \in {"count", "catalog"}

\* A statement fails, or the process is killed: the connection closes, and
\* PostgreSQL rolls back what was not committed.  The file may stay.
Fail(u) ==
    /\ pc[u] # "idle"
    /\ failures < MaxFailures
    /\ failures' = failures + 1
    /\ pc' = [pc EXCEPT ![u] = "idle"]
    /\ tempFile' \in {tempFile, NoRows}
    /\ latest' = [latest EXCEPT ![u] = {}]
    /\ txTime' = [txTime EXCEPT ![u] = 0]
    /\ loading' = [loading EXCEPT ![u] = NoSnapshot]
    /\ pending' = [pending EXCEPT ![u] = {}]
    /\ counts' = [counts EXCEPT ![u] = [rows |-> 0, historyRows |-> 0]]
    /\ catalog' = [catalog EXCEPT !.missed = @ \/ Committed(u)]
    /\ UNCHANGED <<sourceLog, mainTable, history, seen>>

Step(u) ==
    \/ StartUpdate(u)
    \/ ExtractRows(u)
    \/ ExtractNone(u)
    \/ ClearTable(u)
    \/ CreateLatestHistory(u)
    \/ BeginTransaction(u)
    \/ StageTable1(u)
    \/ StageTable2(u)
    \/ MergeTable(u)
    \/ CommitTable(u)
    \/ CountRows(u)
    \/ UpdateCatalog(u)

Next ==
    \/ SourceChange
    \/ \E u \in Updaters : Step(u) \/ Fail(u)

Spec == Init /\ [][Next]_vars

\* The scheduler (cron, or server_loop) starts the update again and again, and
\* a process that is not killed goes on to its next statement.
FairSpec == Spec /\ \A u \in Updaters : WF_vars(Step(u))

-----------------------------------------------------------------------------
(* Properties                                                              *)

Copy == [rows : TableRows, asOf : Nat]
Phases == {"idle", "extract", "clear", "latest", "begin", "pass1", "pass2",
           "merge", "commit", "count", "catalog"}
Counts == [rows : Nat, historyRows : Nat]

\* Every variable has its type.
TypeOK ==
    /\ sourceLog \in Seq(SourceRows) /\ Len(sourceLog) >= 1
    /\ tempFile \in SourceRows
    /\ mainTable \in Copy
    /\ history \subseteq HistoryRow
    /\ catalog \in [rows : Nat, historyRows : Nat, missed : BOOLEAN]
    /\ failures \in Nat
    /\ pc \in [Updaters -> Phases]
    /\ seen \in [Updaters -> Nat]
    /\ latest \in [Updaters -> SUBSET HistoryRow]
    /\ txTime \in [Updaters -> Nat]
    /\ loading \in [Updaters -> Copy]
    /\ pending \in [Updaters -> SUBSET HistoryRow]
    /\ counts \in [Updaters -> Counts]

\* A reader never sees a mixture: the main table is what staging makes of one
\* single state of the source, or has not been loaded yet.
MainIsSnapshot ==
    IF mainTable.asOf = 0
    THEN mainTable.rows = NoRows
    ELSE /\ mainTable.asOf <= Len(sourceLog)
         /\ mainTable.rows = Staged(sourceLog[mainTable.asOf])

\* merge_table() has recorded every object that the main table shows, although
\* it compares with a snapshot of the history taken before the transaction.
LatestHistoryMatchesMain == KeepsHistory => LatestMatches(mainTable.rows, history)

\* merge_table() adds a version only when the object has changed since the
\* version before it, also when the record was gone in between.
NoRedundantVersions == NoRepeatedVersion(history)

\* The catalog has the row counts of the tables, whatever an update does and
\* wherever it fails, but for three cases: between COMMIT and the UPDATE of the
\* catalog; when the last update to commit has ended in between; and a main table
\* without rows, since run_update() clears it without telling the catalog.
CatalogIsTrue ==
    catalog.missed \/ (\E u \in Updaters : Committed(u))
    \/ /\ catalog.historyRows = Cardinality(history)
       /\ mainTable.rows = NoRows \/ catalog.rows = RowCount(mainTable.rows)

\* No update, failed or not, removes or changes a version in the history, and
\* a version only appears in the step which publishes it in the main table.
HistoryOnlyGrows ==
    [][/\ history \subseteq history'
       /\ \A r \in history' \ history : mainTable'.rows[r.id] = r.data]_vars

\* A later update never replaces the main table with older data.
NeverOlder == [][mainTable.asOf <= mainTable'.asOf]_vars

\* stage_merge() implements the abstract table.
Published == INSTANCE PublishedTable
    WITH published <- mainTable, Stamps <- 1..MaxStamp

ImplementsPublishedTable == Published!Spec

\* Once the source and the failures have come to rest, repeated updates bring
\* the main table to the state of the source, and keep it there.
Converges == <>[](mainTable.rows = Staged(Source))

\* What the catalog has missed it gets from a later update, also when this one
\* finds nothing new.  Only for a table that has no rows in the source any more
\* the counts stay as they are.
CatalogRecovers ==
    <>[](Source # NoRows =>
            /\ catalog.rows = RowCount(mainTable.rows)
            /\ catalog.historyRows = Cardinality(history))

-----------------------------------------------------------------------------
(* The inductive invariant of a single process: what holds between the     *)
(* statements of one update.                                               *)

SingleUpdater == \A u, v \in Updaters : u = v

\* The file, then the loading table, hold what the source held when seen; the
\* snapshot of the latest history stays current, and the time stamp unused.
UpdaterInv(u) ==
    /\ seen[u] <= Len(sourceLog)
    /\ mainTable.asOf <= seen[u]
    /\ pc[u] = "clear" => seen[u] >= 1 /\ sourceLog[seen[u]] = NoRows
    /\ pc[u] \in {"latest", "begin", "pass1", "pass2"} =>
        seen[u] >= 1 /\ tempFile = sourceLog[seen[u]]
    /\ pc[u] \in {"begin", "pass1", "pass2", "merge"} =>
        (KeepsHistory => latest[u] = LatestRows(history))
    /\ pc[u] \in {"pass1", "pass2", "merge", "commit"} =>
        txTime[u] \in 1..MaxStamp /\ LaterThan(txTime[u], history)
    /\ pc[u] \in {"merge", "commit"} =>
        /\ seen[u] >= 1
        /\ loading[u] = [rows |-> Staged(sourceLog[seen[u]]), asOf |-> seen[u]]
    /\ pc[u] = "commit" =>
        pending[u] = IF KeepsHistory
                     THEN NewVersions(loading[u].rows, LatestRows(history), txTime[u])
                     ELSE {}

\* The primary key (id, updated) of the history table holds.
HistoryKeyHolds == KeyHolds(history)

\* What has been counted after the transaction stays right until it is written.
CountsInv ==
    \A u \in Updaters : pc[u] = "catalog" =>
        counts[u] = [rows |-> RowCount(mainTable.rows), historyRows |-> Cardinality(history)]

IInv ==
    /\ MainIsSnapshot
    /\ LatestHistoryMatchesMain
    /\ NoRedundantVersions
    /\ HistoryKeyHolds
    /\ \A u \in Updaters : UpdaterInv(u)

=============================================================================
