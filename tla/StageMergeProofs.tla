-------------------------- MODULE StageMergeProofs --------------------------
(***************************************************************************)
(* StageMerge for any records, objects and bounds.  Type correctness and   *)
(* the growth of the history hold for any number of ldp processes, what is *)
(* said of the catalog for one of them.  The other results are for one     *)
(* process whose data directory does not fill up: the instances            *)
(* MCStageMerge_overlap and MCStageMerge_disk show that they fail          *)
(* otherwise.                                                              *)
(***************************************************************************)
EXTENDS StageMerge, HistoryTablesProofs, SequenceTheorems

-----------------------------------------------------------------------------
(* Type correctness                                                        *)

\* The counts in the catalog are numbers because the tables are finite.
Finite == IsFiniteSet(history) /\ \A u \in Updaters : IsFiniteSet(pending[u])

TypeInv == TypeOK /\ Finite

\* Every variable has its type before the first update.
LEMMA TypeInit == Init => TypeInv
<1> SUFFICES ASSUME Init PROVE TypeInv
  OBVIOUS
<1>1. NoRows \in SourceRows /\ NoRows \in TableRows
  BY DEF NoRows, SourceRows, TableRows
<1>2. sourceLog \in Seq(SourceRows) /\ Len(sourceLog) = 1
  <2>1. PICK rows \in SourceRows : sourceLog = <<rows>>
    BY DEF Init
  <2> QED
    BY <2>1
<1>3. TypeOK
  BY <1>1, <1>2 DEF Init, TypeOK, NoSnapshot, Copy, Counts, Phases
<1>4. Finite
  BY FS_EmptySet DEF Init, Finite
<1> QED
  BY <1>3, <1>4 DEF TypeInv

\* Every step keeps the types, and the finiteness of the tables.
LEMMA TypeStep == TypeInv /\ [Next]_vars => TypeInv'
<1> SUFFICES ASSUME TypeInv, [Next]_vars PROVE TypeInv'
  OBVIOUS
<1> USE DEF TypeInv, TypeOK, Copy, Counts, Phases
<1>1. NoRows \in SourceRows /\ NoRows \in TableRows
  BY DEF NoRows, SourceRows, TableRows
<1>2. Source \in SourceRows /\ Len(sourceLog) \in Nat
  BY DEF Source
<1>3. NoSnapshot \in Copy
  BY <1>1 DEF NoSnapshot
<1>4. CASE SourceChange
  <2>1. PICK i \in Ids, d \in Docs \cup {Absent} :
          sourceLog' = Append(sourceLog, [Source EXCEPT ![i] = d])
    BY <1>4 DEF SourceChange
  <2>2. [Source EXCEPT ![i] = d] \in SourceRows
    BY <1>2 DEF SourceRows
  <2>3. sourceLog' \in Seq(SourceRows) /\ Len(sourceLog') >= 1
    BY <2>1, <2>2, AppendProperties
  <2> QED
    BY <2>3, <1>4 DEF SourceChange, local, Finite
<1>5. ASSUME NEW u \in Updaters, Step(u) \/ Fail(u)
      PROVE  TypeInv'
  <2>1. CASE StartUpdate(u)
    BY <2>1, <1>1 DEF StartUpdate, Goto, local, Finite
  <2>2. CASE ExtractRows(u)
    BY <2>2, <1>2 DEF ExtractRows, Goto, Written, Finite
  <2>3. CASE ExtractNone(u)
    BY <2>3, <1>1, <1>2 DEF ExtractNone, Goto, Finite
  <2>4. CASE ClearTable(u)
    BY <2>4, <1>1 DEF ClearTable, Goto, local, Finite
  <2>5. CASE CreateLatestHistory(u)
    BY <2>5 DEF CreateLatestHistory, Goto, shared, LatestRows, Finite
  <2>6. CASE BeginTransaction(u)
    BY <2>6, StageMergeAssumption DEF BeginTransaction, Goto, shared, Finite
  <2>7. CASE StageTable1(u)
    BY <2>7 DEF StageTable1, Goto, shared, local, Finite
  <2>8. CASE StageTable2(u)
    <3>1. Staged(tempFile) \in TableRows
      BY StagedType
    <3> QED
      BY <2>8, <3>1 DEF StageTable2, Goto, shared, Finite
  <2>9. CASE MergeTable(u)
    <3> DEFINE new == NewVersions(loading[u].rows, latest[u], txTime[u])
    <3>1. new \subseteq HistoryRow /\ IsFiniteSet(new)
      BY NewVersionsType, NewVersionsFinite
    <3> HIDE DEF new
    <3>2. pending' = [pending EXCEPT ![u] = IF KeepsHistory THEN new ELSE {}]
      BY <2>9 DEF MergeTable, new
    <3> QED
      BY <2>9, <3>1, <3>2, FS_EmptySet DEF MergeTable, Goto, shared, Finite
  <2>10. CASE CommitTable(u)
    <3>1. IsFiniteSet(history')
      BY <2>10, FS_Union DEF CommitTable, Finite
    <3> QED
      BY <2>10, <1>3, <3>1, FS_EmptySet DEF CommitTable, Goto, Finite
  <2>11. CASE CountRows(u)
    <3>1. RowCount(mainTable.rows) \in Nat
      BY DataAssumption, FS_Subset, FS_CardinalityType DEF RowCount
    <3>2. Cardinality(history) \in Nat
      BY FS_CardinalityType DEF Finite
    <3> QED
      BY <2>11, <3>1, <3>2 DEF CountRows, Goto, shared, Finite
  <2>12. CASE UpdateCatalog(u)
    BY <2>12, <1>1 DEF UpdateCatalog, Goto, Finite
  <2>13. CASE Fail(u)
    <3>1. IsFiniteSet({})
      BY FS_EmptySet
    <3>2. pc' \in [Updaters -> Phases] /\ failures' \in Nat /\ tempFile' \in SourceRows
      BY <2>13, <1>1 DEF Fail
    <3>3. loading' \in [Updaters -> Copy]
      BY <2>13, <1>3 DEF Fail
    <3>4. /\ latest' \in [Updaters -> SUBSET HistoryRow]
          /\ txTime' \in [Updaters -> Nat]
          /\ pending' \in [Updaters -> SUBSET HistoryRow]
      BY <2>13 DEF Fail
    <3>5. IsFiniteSet(history') /\ \A v \in Updaters : IsFiniteSet(pending'[v])
      BY <2>13, <3>1 DEF Fail, Finite
    <3> QED
      BY <2>13, <3>2, <3>3, <3>4, <3>5 DEF Fail, Finite
  <2> QED
    BY <1>5, <2>1, <2>2, <2>3, <2>4, <2>5, <2>6, <2>7, <2>8, <2>9, <2>10,
       <2>11, <2>12, <2>13 DEF Step
<1>6. CASE UNCHANGED vars
  BY <1>6 DEF vars, Finite
<1> QED
  BY <1>4, <1>5, <1>6 DEF Next

\* Every variable always has its type, for any number of updaters.
THEOREM TypeCorrect == Spec => []TypeOK
<1>1. TypeInv => TypeOK
  BY DEF TypeInv
<1> QED
  BY <1>1, TypeInit, TypeStep, PTL DEF Spec

-----------------------------------------------------------------------------
(* The inductive invariant of one process                                  *)

OneSafeUpdater == SingleUpdater /\ ~ DiskMayFill

\* The part of the invariant that speaks of the committed tables.
CommittedInv ==
    MainIsSnapshot /\ LatestHistoryMatchesMain /\ NoRedundantVersions /\ HistoryKeyHolds

\* Before the first update nothing is published and nothing recorded.
LEMMA IInvInit == Init => IInv
<1> SUFFICES ASSUME Init PROVE IInv
  OBVIOUS
<1> USE DEF Init, NoSnapshot
<1>1. MainIsSnapshot
  BY DEF MainIsSnapshot
<1>2. LatestHistoryMatchesMain
  BY DataAssumption DEF LatestHistoryMatchesMain, LatestMatches, NoRows
<1>3. NoRedundantVersions /\ HistoryKeyHolds
  BY DEF NoRedundantVersions, NoRepeatedVersion, HistoryKeyHolds, KeyHolds
<1>4. \A u \in Updaters : UpdaterInv(u)
  BY DEF UpdaterInv
<1> QED
  BY <1>1, <1>2, <1>3, <1>4 DEF IInv

\* A step that leaves the committed tables and the source alone keeps what the
\* invariant says of them.
LEMMA CommittedFrame ==
    ASSUME CommittedInv, UNCHANGED <<sourceLog, mainTable, history>>
    PROVE  CommittedInv'
BY DEF CommittedInv, MainIsSnapshot, LatestHistoryMatchesMain, NoRedundantVersions,
       HistoryKeyHolds, KeepsHistory

\* What stage_merge() commits: the staged rows of the source as it was seen,
\* and the versions that are new with respect to the committed history.
LEMMA CommitStep ==
    ASSUME TypeInv, IInv, NEW u \in Updaters, CommitTable(u)
    PROVE  CommittedInv'
<1> DEFINE rows == Staged(sourceLog[seen[u]])
           new == NewVersions(rows, LatestRows(history), txTime[u])
<1>1. /\ pc[u] = "commit" /\ mainTable' = loading[u]
      /\ history' = history \cup pending[u] /\ sourceLog' = sourceLog
  BY DEF CommitTable, Goto
<1>2. UpdaterInv(u)
  BY DEF IInv
<1>3. /\ seen[u] \in Nat /\ seen[u] >= 1 /\ seen[u] <= Len(sourceLog)
      /\ loading[u] = [rows |-> rows, asOf |-> seen[u]]
      /\ txTime[u] \in Nat /\ LaterThan(txTime[u], history)
      /\ pending[u] = IF KeepsHistory THEN new ELSE {}
  BY <1>1, <1>2 DEF UpdaterInv, TypeInv, TypeOK
<1>4. rows \in TableRows
  <2>1. sourceLog[seen[u]] \in SourceRows
    BY <1>3 DEF TypeInv, TypeOK
  <2> QED
    BY <2>1, StagedType
<1>5. history \in SUBSET HistoryRow
  BY DEF TypeInv, TypeOK
<1>6. KeyHolds(history) /\ NoRepeatedVersion(history)
  BY DEF IInv, HistoryKeyHolds, NoRedundantVersions
<1>7. MainIsSnapshot'
  BY <1>1, <1>3 DEF MainIsSnapshot
<1>8. CASE KeepsHistory
  <2>1. history' = history \cup new
    BY <1>1, <1>3, <1>8
  <2>2. KeyHolds(history \cup new)
    BY <1>3, <1>4, <1>5, <1>6, MergeKeepsKey
  <2>3. NoRepeatedVersion(history \cup new)
    BY <1>3, <1>4, <1>5, <1>6, MergeAddsNoRepetition
  <2>4. LatestMatches(rows, history \cup new)
    BY <1>3, <1>4, <1>5, MergeMatches
  <2>5. mainTable'.rows = rows
    BY <1>1, <1>3
  <2> HIDE DEF rows, new
  <2> QED
    BY <1>7, <2>1, <2>2, <2>3, <2>4, <2>5
    DEF CommittedInv, HistoryKeyHolds, NoRedundantVersions, LatestHistoryMatchesMain
<1>9. CASE ~ KeepsHistory
  <2>1. history' = history
    BY <1>1, <1>3, <1>9
  <2> QED
    BY <1>6, <1>7, <1>9, <2>1
    DEF CommittedInv, HistoryKeyHolds, NoRedundantVersions,
        LatestHistoryMatchesMain, KeepsHistory
<1> QED
  BY <1>8, <1>9

\* A cleared table shows no object, so that the history has nothing to match.
LEMMA ClearStep ==
    ASSUME TypeInv, IInv, NEW u \in Updaters, ClearTable(u)
    PROVE  CommittedInv'
<1>1. /\ pc[u] = "clear" /\ mainTable' = [rows |-> NoRows, asOf |-> seen[u]]
      /\ history' = history /\ sourceLog' = sourceLog
  BY DEF ClearTable, Goto
<1>2. seen[u] \in Nat /\ seen[u] >= 1 /\ seen[u] <= Len(sourceLog)
      /\ sourceLog[seen[u]] = NoRows
  BY <1>1 DEF IInv, UpdaterInv, TypeInv, TypeOK
<1>3. MainIsSnapshot'
  BY <1>1, <1>2, StagedNoRows DEF MainIsSnapshot
<1>4. LatestMatches(NoRows, history)
  BY DataAssumption DEF LatestMatches, NoRows
<1> QED
  BY <1>1, <1>3, <1>4
  DEF IInv, CommittedInv, HistoryKeyHolds, NoRedundantVersions, LatestHistoryMatchesMain

\* Every step keeps the invariant.
LEMMA IInvStep == OneSafeUpdater /\ TypeInv /\ IInv /\ [Next]_vars => IInv'
<1> SUFFICES ASSUME OneSafeUpdater, TypeInv, IInv, [Next]_vars PROVE IInv'
  OBVIOUS
<1>1. CommittedInv /\ \A u \in Updaters : UpdaterInv(u)
  BY DEF IInv, CommittedInv
<1>2. CASE SourceChange
  <2>1. PICK rows : rows \in SourceRows /\ sourceLog' = Append(sourceLog, rows)
    <3>1. Source \in SourceRows
      BY DEF Source, TypeInv, TypeOK
    <3> QED
      BY <1>2, <3>1 DEF SourceChange, SourceRows
  <2>2. /\ Len(sourceLog') = Len(sourceLog) + 1
        /\ \A k \in 1..Len(sourceLog) : sourceLog'[k] = sourceLog[k]
    BY <2>1, AppendProperties DEF TypeInv, TypeOK
  <2>3. UNCHANGED <<tempFile, mainTable, history, pc, seen, latest, txTime, loading, pending>>
    BY <1>2 DEF SourceChange, local
  <2>4. CommittedInv'
    BY <1>1, <2>2, <2>3
    DEF CommittedInv, MainIsSnapshot, LatestHistoryMatchesMain, NoRedundantVersions,
        HistoryKeyHolds, KeepsHistory, TypeInv, TypeOK, Copy
  <2>5. ASSUME NEW u \in Updaters PROVE UpdaterInv(u)'
    <3>1. seen[u] \in Nat /\ Len(sourceLog) \in Nat
      BY DEF TypeInv, TypeOK
    <3>2. /\ seen[u] <= Len(sourceLog')
          /\ \A k \in 1..Len(sourceLog) : sourceLog'[k] = sourceLog[k]
          /\ seen[u] >= 1 => seen[u] \in 1..Len(sourceLog)
      <4>1. seen[u] <= Len(sourceLog)
        BY <1>1 DEF UpdaterInv
      <4> QED
        BY <2>2, <3>1, <4>1
    <3> QED
      BY <1>1, <2>3, <3>2 DEF UpdaterInv, KeepsHistory
  <2> QED
    BY <2>4, <2>5 DEF IInv, CommittedInv
<1>3. ASSUME NEW u \in Updaters, Step(u) \/ Fail(u)
      PROVE  IInv'
  <2>1. SUFFICES CommittedInv' /\ UpdaterInv(u)'
    BY DEF IInv, CommittedInv, OneSafeUpdater, SingleUpdater
  <2>2. /\ UpdaterInv(u)
        /\ Len(sourceLog) \in Nat /\ Len(sourceLog) >= 1 /\ seen[u] \in Nat
        /\ mainTable.asOf \in Nat
    BY <1>1 DEF TypeInv, TypeOK, Copy
  <2>3. /\ pc \in [Updaters -> Phases] /\ seen \in [Updaters -> Nat]
        /\ latest \in [Updaters -> SUBSET HistoryRow] /\ txTime \in [Updaters -> Nat]
        /\ loading \in [Updaters -> Copy] /\ pending \in [Updaters -> SUBSET HistoryRow]
    BY DEF TypeInv, TypeOK
  <2>4. CASE StartUpdate(u)
    BY <1>1, <2>2, <2>3, <2>4, CommittedFrame DEF StartUpdate, Goto, local, UpdaterInv
  <2>5. CASE ExtractRows(u)
    BY <1>1, <2>2, <2>3, <2>5, CommittedFrame
    DEF ExtractRows, Goto, UpdaterInv, Written, Source, OneSafeUpdater
  <2>6. CASE ExtractNone(u)
    BY <1>1, <2>2, <2>3, <2>6, CommittedFrame DEF ExtractNone, Goto, UpdaterInv, Source
  <2>7. CASE ClearTable(u)
    <3>1. mainTable'.asOf = seen[u] /\ pc'[u] = "idle"
      BY <2>3, <2>7 DEF ClearTable, Goto
    <3> QED
      BY <2>2, <2>7, <3>1, ClearStep DEF ClearTable, local, UpdaterInv
  <2>8. CASE CreateLatestHistory(u)
    BY <1>1, <2>2, <2>3, <2>8, CommittedFrame
    DEF CreateLatestHistory, Goto, shared, UpdaterInv, KeepsHistory
  <2>9. CASE BeginTransaction(u)
    <3>1. PICK t \in 1..MaxStamp : NextStamp(t) /\ txTime' = [txTime EXCEPT ![u] = t]
      BY <2>9 DEF BeginTransaction
    <3>2. LaterThan(t, history)
      BY <3>1 DEF NextStamp, StampsInUse, LaterThan
    <3> QED
      BY <1>1, <2>2, <2>3, <2>9, <3>1, <3>2, CommittedFrame
      DEF BeginTransaction, Goto, shared, UpdaterInv
  <2>10. CASE StageTable1(u)
    BY <1>1, <2>2, <2>3, <2>10, CommittedFrame
    DEF StageTable1, Goto, shared, local, UpdaterInv
  <2>11. CASE StageTable2(u)
    BY <1>1, <2>2, <2>3, <2>11, CommittedFrame DEF StageTable2, Goto, shared, UpdaterInv
  <2>12. CASE MergeTable(u)
    BY <1>1, <2>2, <2>3, <2>12, CommittedFrame DEF MergeTable, Goto, shared, UpdaterInv
  <2>13. CASE CommitTable(u)
    <3>1. mainTable'.asOf = seen[u] /\ pc'[u] = "count"
      BY <2>2, <2>3, <2>13 DEF CommitTable, Goto, UpdaterInv
    <3> QED
      <4>1. CommittedInv'
        BY <2>13, CommitStep
      <4>2. UpdaterInv(u)'
        BY <2>2, <2>13, <3>1 DEF CommitTable, UpdaterInv
      <4> QED
        BY <4>1, <4>2
  <2>14. CASE CountRows(u)
    BY <1>1, <2>2, <2>3, <2>14, CommittedFrame DEF CountRows, Goto, shared, UpdaterInv
  <2>15. CASE UpdateCatalog(u)
    BY <1>1, <2>2, <2>3, <2>15, CommittedFrame DEF UpdateCatalog, Goto, UpdaterInv
  <2>16. CASE Fail(u)
    BY <1>1, <2>2, <2>3, <2>16, CommittedFrame DEF Fail, UpdaterInv
  <2> QED
    BY <1>3, <2>4, <2>5, <2>6, <2>7, <2>8, <2>9, <2>10, <2>11, <2>12, <2>13,
       <2>14, <2>15, <2>16 DEF Step
<1>4. CASE UNCHANGED vars
  BY <1>1, <1>4, CommittedFrame DEF vars, IInv, CommittedInv, UpdaterInv, KeepsHistory
<1> QED
  BY <1>2, <1>3, <1>4 DEF Next

-----------------------------------------------------------------------------
(* Theorems                                                                *)

\* The inductive invariant holds in every reachable state.
THEOREM Invariance == OneSafeUpdater => (Spec => []IInv)
<1> SUFFICES ASSUME OneSafeUpdater PROVE Spec => []IInv
  OBVIOUS
<1>1. Init => TypeInv /\ IInv
  BY TypeInit, IInvInit
<1>2. TypeInv /\ IInv /\ [Next]_vars => (TypeInv /\ IInv)'
  BY TypeStep, IInvStep
<1> QED
  BY <1>1, <1>2, PTL DEF Spec

\* What the main table shows is always one single state of the source, staged
\* as a whole (the transaction of stage_merge).
THEOREM MainIsAlwaysSnapshot == OneSafeUpdater => (Spec => []MainIsSnapshot)
<1>1. IInv => MainIsSnapshot
  BY DEF IInv
<1> QED
  BY <1>1, Invariance, PTL

\* The history never lags behind the main table, although merge_table()
\* compares with a snapshot taken before the transaction began.
THEOREM HistoryKeepsUp == OneSafeUpdater => (Spec => []LatestHistoryMatchesMain)
<1>1. IInv => LatestHistoryMatchesMain
  BY DEF IInv
<1> QED
  BY <1>1, Invariance, PTL

\* merge_table() records changes only: no version repeats its predecessor.
THEOREM HistoryIsLean == OneSafeUpdater => (Spec => []NoRedundantVersions)
<1>1. IInv => NoRedundantVersions
  BY DEF IInv
<1> QED
  BY <1>1, Invariance, PTL

\* Only an update that is done counting goes on to the catalog, and no other
\* update of the table commits in between.
LEMMA CountsStep == SingleUpdater /\ TypeInv /\ CountsInv /\ [Next]_vars => CountsInv'
<1> SUFFICES ASSUME SingleUpdater, TypeInv, CountsInv, [Next]_vars,
                    NEW u \in Updaters, pc'[u] = "catalog"
             PROVE  counts'[u] = [rows |-> RowCount(mainTable.rows)',
                                  historyRows |-> Cardinality(history)']
  BY DEF CountsInv
<1>1. /\ pc \in [Updaters -> Phases] /\ counts \in [Updaters -> Counts]
      /\ \A v \in Updaters : v = u
  BY DEF TypeInv, TypeOK, SingleUpdater
<1>2. ASSUME UNCHANGED <<mainTable, history>>
      PROVE  /\ RowCount(mainTable.rows)' = RowCount(mainTable.rows)
             /\ Cardinality(history)' = Cardinality(history)
  BY <1>2
<1>3. CASE UNCHANGED <<pc, mainTable, history, counts>>
  BY <1>2, <1>3 DEF CountsInv
<1>4. CASE SourceChange \/ UNCHANGED vars
  BY <1>3, <1>4 DEF SourceChange, local, vars
<1>5. CASE Step(u) \/ Fail(u)
  <2>1. CASE CountRows(u)
    BY <1>1, <1>2, <2>1 DEF CountRows, shared
  <2>2. ~ CountRows(u) => pc'[u] # "catalog"
    BY <1>1, <1>5
    DEF Step, Fail, Goto, StartUpdate, ExtractRows, ExtractNone, ClearTable,
        CreateLatestHistory, BeginTransaction, StageTable1, StageTable2, MergeTable,
        CommitTable, UpdateCatalog
  <2> QED
    BY <2>1, <2>2
<1> QED
  BY <1>1, <1>4, <1>5 DEF Next

\* No step makes the catalog wrong but those that CatalogIsTrue names, and a step
\* that writes the catalog makes it right.
LEMMA CatalogStep ==
    SingleUpdater /\ TypeInv /\ CountsInv /\ CatalogIsTrue /\ [Next]_vars => CatalogIsTrue'
<1> SUFFICES ASSUME SingleUpdater, TypeInv, CountsInv, CatalogIsTrue, [Next]_vars
             PROVE  CatalogIsTrue'
  OBVIOUS
<1> DEFINE Right == /\ catalog.historyRows = Cardinality(history)
                    /\ mainTable.rows = NoRows \/ catalog.rows = RowCount(mainTable.rows)
<1>1. pc \in [Updaters -> Phases] /\ catalog \in [rows : Nat, historyRows : Nat, missed : BOOLEAN]
  BY DEF TypeInv, TypeOK
<1>2. CASE UNCHANGED <<pc, mainTable, history, catalog>>
  BY <1>2 DEF CatalogIsTrue, Committed
<1>3. CASE SourceChange \/ UNCHANGED vars
  BY <1>2, <1>3 DEF SourceChange, local, vars
<1>4. ASSUME NEW u \in Updaters, Step(u) \/ Fail(u) PROVE CatalogIsTrue'
  <2>1. \A v \in Updaters : v = u
    BY DEF SingleUpdater
  <2>2. CASE CommitTable(u) \/ CountRows(u)
    <3>1. Committed(u)'
      BY <1>1, <2>2 DEF CommitTable, CountRows, Goto, Committed
    <3> QED
      BY <3>1 DEF CatalogIsTrue
  <2>3. CASE UpdateCatalog(u)
    <3>1. counts[u] = [rows |-> RowCount(mainTable.rows), historyRows |-> Cardinality(history)]
      BY <2>3 DEF UpdateCatalog, Goto, CountsInv
    <3>2. /\ catalog'.rows = RowCount(mainTable.rows)
          /\ catalog'.historyRows = Cardinality(history)
          /\ mainTable' = mainTable /\ history' = history
      BY <2>3, <3>1 DEF UpdateCatalog
    <3> QED
      BY <3>2 DEF CatalogIsTrue
  <2>4. CASE Fail(u)
    <3>1. UNCHANGED <<mainTable, history>> /\ catalog' = [catalog EXCEPT !.missed = @ \/ Committed(u)]
      BY <2>4 DEF Fail
    <3>2. CASE catalog.missed \/ Committed(u)
      BY <1>1, <3>1, <3>2 DEF CatalogIsTrue
    <3>3. CASE ~ (catalog.missed \/ Committed(u))
      <4>1. Right
        BY <2>1, <3>3 DEF CatalogIsTrue
      <4> QED
        BY <1>1, <3>1, <4>1 DEF CatalogIsTrue
    <3> QED
      BY <3>2, <3>3
  <2>5. CASE ClearTable(u)
    <3>1. /\ mainTable'.rows = NoRows /\ UNCHANGED <<history, catalog>> /\ ~ Committed(u)
      BY <2>5 DEF ClearTable, Goto, Committed
    <3> QED
      BY <2>1, <3>1 DEF CatalogIsTrue
  <2>6. CASE /\ Step(u) /\ ~ CommitTable(u) /\ ~ CountRows(u)
             /\ ~ UpdateCatalog(u) /\ ~ ClearTable(u)
    <3>1. UNCHANGED <<mainTable, history, catalog>> /\ ~ Committed(u)
      BY <2>6
      DEF Step, StartUpdate, ExtractRows, ExtractNone, CreateLatestHistory,
          BeginTransaction, StageTable1, StageTable2, MergeTable, Goto, Committed,
          shared, local
    <3> QED
      BY <2>1, <3>1 DEF CatalogIsTrue
  <2> QED
    BY <1>4, <2>2, <2>3, <2>4, <2>5, <2>6
<1> QED
  BY <1>3, <1>4 DEF Next

\* The catalog has the counts of the tables although they are replaced in one
\* transaction and counted after it, and any statement may fail, on a full disk,
\* too: an update that fails before COMMIT leaves the catalog right, and one that
\* completes makes it right again.
THEOREM CatalogIsAlwaysTrue == SingleUpdater => (Spec => []CatalogIsTrue)
<1> SUFFICES ASSUME SingleUpdater PROVE Spec => []CatalogIsTrue
  OBVIOUS
<1>1. Init => TypeInv /\ CountsInv /\ CatalogIsTrue
  BY TypeInit, FS_EmptySet DEF Init, CountsInv, CatalogIsTrue, NoSnapshot
<1>2. TypeInv /\ CountsInv /\ CatalogIsTrue /\ [Next]_vars
        => (TypeInv /\ CountsInv /\ CatalogIsTrue)'
  BY TypeStep, CountsStep, CatalogStep
<1> QED
  BY <1>1, <1>2, PTL DEF Spec

\* What a transaction is about to add to the history is what it is about to
\* publish; this needs no assumption on the other processes.
PendingInv ==
    \A u \in Updaters : pc[u] = "commit" =>
        \A r \in pending[u] : loading[u].rows[r.id] = r.data

\* Every step keeps PendingInv.
LEMMA PendingStep == TypeInv /\ PendingInv /\ [Next]_vars => PendingInv'
<1> SUFFICES ASSUME TypeInv, PendingInv, [Next]_vars,
                    NEW u \in Updaters, pc'[u] = "commit",
                    NEW r \in pending'[u]
             PROVE  loading'[u].rows[r.id] = r.data
  BY DEF PendingInv
<1> USE DEF TypeInv, TypeOK, PendingInv
<1>1. CASE MergeTable(u)
  <2>1. r \in NewVersions(loading[u].rows, latest[u], txTime[u])
    BY <1>1 DEF MergeTable
  <2>2. loading[u].rows \in TableRows /\ txTime[u] \in Nat
    BY DEF Copy
  <2>3. r.data = loading[u].rows[r.id]
    BY <2>1, <2>2, NewVersionsType
  <2> QED
    BY <1>1, <2>3 DEF MergeTable
<1>2. CASE ~ MergeTable(u)
  <2>1. pc[u] = "commit" /\ loading'[u] = loading[u] /\ pending'[u] = pending[u]
    <3>1. CASE SourceChange
      BY <3>1 DEF SourceChange, local
    <3>2. ASSUME NEW v \in Updaters, Step(v) \/ Fail(v)
          PROVE  pc[u] = "commit" /\ loading'[u] = loading[u] /\ pending'[u] = pending[u]
      BY <1>2, <3>2 DEF Step, Fail, StartUpdate, ExtractRows, ExtractNone, ClearTable,
         CreateLatestHistory, BeginTransaction, StageTable1, StageTable2, MergeTable,
         CommitTable, CountRows, UpdateCatalog, Goto, shared, local
    <3>3. CASE UNCHANGED vars
      BY <3>3 DEF vars
    <3> QED
      BY <3>1, <3>2, <3>3 DEF Next
  <2> QED
    BY <2>1
<1> QED
  BY <1>1, <1>2

\* No step of any number of processes, failing or not, takes a version from
\* the history, and a new one always comes with its row in the main table.
THEOREM HistoryAlwaysGrows == Spec => HistoryOnlyGrows
<1> DEFINE Grows == /\ history \subseteq history'
                    /\ \A r \in history' \ history : mainTable'.rows[r.id] = r.data
<1>1. Init => TypeInv /\ PendingInv
  BY TypeInit DEF Init, PendingInv
<1>2. TypeInv /\ PendingInv /\ [Next]_vars => (TypeInv /\ PendingInv)'
  BY TypeStep, PendingStep
<1>3. TypeInv /\ PendingInv /\ [Next]_vars => [Grows]_vars
  <2> SUFFICES ASSUME PendingInv, Next PROVE Grows
    OBVIOUS
  <2>1. CASE SourceChange
    BY <2>1 DEF SourceChange
  <2>2. ASSUME NEW u \in Updaters, CommitTable(u) PROVE Grows
    BY <2>2 DEF CommitTable, Goto, PendingInv
  <2>3. ASSUME NEW u \in Updaters, Step(u) \/ Fail(u), ~ CommitTable(u) PROVE Grows
    BY <2>3 DEF Step, Fail, StartUpdate, ExtractRows, ExtractNone, ClearTable,
       CreateLatestHistory, BeginTransaction, StageTable1, StageTable2, MergeTable,
       CountRows, UpdateCatalog, shared
  <2> QED
    BY <2>1, <2>2, <2>3 DEF Next
<1> QED
  BY <1>1, <1>2, <1>3, PTL DEF Spec, HistoryOnlyGrows

-----------------------------------------------------------------------------
(* Refinement                                                              *)

\* The initial states are those of an abstract table.
LEMMA RefinementInit == Init => Published!Init
BY DEF Init, NoSnapshot, SourceRows, NoRows,
       Published!Init, Published!SourceRows, Published!NoRows

\* The operators on tables are the same in the abstract specification.
LEMMA SameOperators ==
    /\ \A rows : Published!Staged(rows) = Staged(rows)
    /\ \A h : Published!LatestRows(h) = LatestRows(h)
    /\ \A rows, l : Published!Changed(rows, l) = Changed(rows, l)
    /\ \A rows, l, t : Published!NewVersions(rows, l, t) = NewVersions(rows, l, t)
    /\ \A t, h : Published!LaterThan(t, h) = LaterThan(t, h)
    /\ Published!SourceRows = SourceRows
BY DEF Staged, LatestRows, Changed, NewVersions, LaterThan, SourceRows,
       Published!Staged, Published!LatestRows, Published!Changed,
       Published!NewVersions, Published!LaterThan, Published!SourceRows

\* CommitTable and ClearTable are abstract updates, a change of the source is
\* one, and no other step is visible.
LEMMA RefinementStep ==
    OneSafeUpdater /\ TypeInv /\ IInv /\ [Next]_vars
        => [Published!Next]_<<sourceLog, mainTable, history>>
<1> SUFFICES ASSUME OneSafeUpdater, TypeInv, IInv, Next
             PROVE  Published!Next \/ UNCHANGED <<sourceLog, mainTable, history>>
  BY DEF vars
<1>1. CASE SourceChange
  <2>1. \E rows \in SourceRows : sourceLog' = Append(sourceLog, rows)
    <3>1. Source \in SourceRows
      BY DEF Source, TypeInv, TypeOK
    <3> QED
      BY <1>1, <3>1 DEF SourceChange, SourceRows
  <2>2. Published!SourceChange
    BY <1>1, <2>1, SameOperators DEF SourceChange, Published!SourceChange
  <2> QED
    BY <2>2 DEF Published!Next
<1>2. ASSUME NEW u \in Updaters, ClearTable(u)
      PROVE  Published!Next
  <2>1. /\ pc[u] = "clear" /\ mainTable' = [rows |-> NoRows, asOf |-> seen[u]]
        /\ history' = history /\ sourceLog' = sourceLog
    BY <1>2 DEF ClearTable, Goto
  <2>2. /\ seen[u] \in 1..Len(sourceLog) /\ mainTable.asOf <= seen[u]
        /\ sourceLog[seen[u]] = NoRows
    BY <2>1 DEF IInv, UpdaterInv, TypeInv, TypeOK
  <2>3. Staged(sourceLog[seen[u]]) = NoRows
    BY <2>2, StagedNoRows
  <2>4. Changed(NoRows, LatestRows(history)) = {}
    BY DataAssumption DEF Changed, NoRows
  <2>5. Published!Record(NoRows)
    BY <2>1, <2>4, SameOperators DEF Published!Record
  <2>6. Published!Publish
    BY <2>1, <2>2, <2>3, <2>5, SameOperators DEF Published!Publish
  <2> QED
    BY <2>6 DEF Published!Next
<1>3. ASSUME NEW u \in Updaters, CommitTable(u)
      PROVE  Published!Next
  <2> DEFINE rows == Staged(sourceLog[seen[u]])
             new == NewVersions(rows, LatestRows(history), txTime[u])
  <2>1. /\ pc[u] = "commit" /\ mainTable' = loading[u]
        /\ history' = history \cup pending[u] /\ sourceLog' = sourceLog
    BY <1>3 DEF CommitTable, Goto
  <2>2. UpdaterInv(u)
    BY DEF IInv
  <2>3. /\ seen[u] \in 1..Len(sourceLog) /\ mainTable.asOf <= seen[u]
        /\ loading[u] = [rows |-> rows, asOf |-> seen[u]]
        /\ txTime[u] \in 1..MaxStamp /\ LaterThan(txTime[u], history)
        /\ pending[u] = IF KeepsHistory THEN new ELSE {}
    BY <2>1, <2>2 DEF UpdaterInv, TypeInv, TypeOK
  <2>4. Published!Record(rows)
    <3>1. CASE KeepsHistory /\ Changed(rows, LatestRows(history)) # {}
      BY <2>1, <2>3, <3>1, SameOperators DEF Published!Record
    <3>2. CASE ~ (KeepsHistory /\ Changed(rows, LatestRows(history)) # {})
      <4>1. history' = history
        BY <2>1, <2>3, <3>2 DEF NewVersions
      <4> QED
        BY <3>2, <4>1, SameOperators DEF Published!Record
    <3> QED
      BY <3>1, <3>2
  <2>5. Published!Publish
    BY <2>1, <2>3, <2>4, SameOperators DEF Published!Publish
  <2> QED
    BY <2>5 DEF Published!Next
<1>4. ASSUME NEW u \in Updaters, Step(u) \/ Fail(u), ~ CommitTable(u), ~ ClearTable(u)
      PROVE  UNCHANGED <<sourceLog, mainTable, history>>
  BY <1>4 DEF Step, Fail, StartUpdate, ExtractRows, ExtractNone, CreateLatestHistory,
     BeginTransaction, StageTable1, StageTable2, MergeTable, CountRows, UpdateCatalog,
     shared
<1> QED
  BY <1>1, <1>2, <1>3, <1>4 DEF Next

\* stage_merge(), with its extraction, failures and all, is indistinguishable
\* from replacing the table and extending its history in one step.
THEOREM Refinement == OneSafeUpdater => (Spec => ImplementsPublishedTable)
<1> SUFFICES ASSUME OneSafeUpdater PROVE Spec => ImplementsPublishedTable
  OBVIOUS
<1>1. Init => TypeInv /\ IInv /\ Published!Init
  BY TypeInit, IInvInit, RefinementInit
<1>2. TypeInv /\ IInv /\ [Next]_vars => (TypeInv /\ IInv)'
  BY TypeStep, IInvStep
<1>3. TypeInv /\ IInv /\ [Next]_vars => [Published!Next]_<<sourceLog, mainTable, history>>
  BY RefinementStep
<1> QED
  BY <1>1, <1>2, <1>3, PTL
  DEF Spec, ImplementsPublishedTable, Published!Spec, Published!abstractVars

\* An update never replaces the main table with older data.
THEOREM MainNeverOlder == OneSafeUpdater => (Spec => NeverOlder)
<1> SUFFICES ASSUME OneSafeUpdater PROVE Spec => NeverOlder
  OBVIOUS
<1>1. Init => TypeInv /\ IInv
  BY TypeInit, IInvInit
<1>2. TypeInv /\ IInv /\ [Next]_vars => (TypeInv /\ IInv)'
  BY TypeStep, IInvStep
<1>3. TypeInv /\ IInv /\ [Next]_vars => [mainTable.asOf <= mainTable'.asOf]_vars
  <2> SUFFICES ASSUME TypeInv, IInv, Next PROVE mainTable.asOf <= mainTable'.asOf
    OBVIOUS
  <2>1. CASE Published!Next
    BY <2>1 DEF Published!Next, Published!SourceChange, Published!Publish, TypeInv, TypeOK, Copy
  <2>2. CASE mainTable' = mainTable
    BY <2>2 DEF TypeInv, TypeOK, Copy
  <2> QED
    BY <2>1, <2>2, RefinementStep DEF vars
<1> QED
  BY <1>1, <1>2, <1>3, PTL DEF Spec, NeverOlder

=============================================================================
