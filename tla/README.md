# A TLA+ model of LDP

[LDP](https://github.com/library-data-platform/ldp) copies the data of a FOLIO
library system into a PostgreSQL database for reporting.  An update extracts
every table from the source database to temporary files, stages each file into
a new table, merges the changed records into a history table, and replaces the
main table.  This directory holds TLA+ modules of its core, configurations to
check them with TLC, and proofs for TLAPS.

Paths below are relative to the repository, `src/update.cpp` for example;
`PROJECT.json` has the same paths with the directory of the checkout (`src/`)
in front, and maps every definition to the lines that it models.

## 1. The system

| Component | State | Operations | Hard behaviours |
|---|---|---|---|
| Extraction, `src/extract.cpp` | files `tmp/update/<table>_*.json`, count file | `retrieve_direct`, `try_retrieve_direct` | unchecked writes; no row found; files left by errors |
| Staging, `src/stage.cpp` | loading table `ldp_<table>` | `stage_table_1` (types of columns), `stage_table_2` (COPY), `add_pkey_and_indexes` | missing count file; ignored parse errors; data too long |
| Merging, `src/merge.cpp` | `history.<table>`, main table, temporary `history_latest_<table>` | `create_latest_history_table`, `merge_table`, `drop_table`, `place_table` | snapshot taken before BEGIN; failure between statements; time stamps as a key |
| Update run, `src/update.cpp` | worker process, `worker_ext_files`, `tmp/update/` | `run_update`, `stage_merge`, `run_stage_merge`, `wait_stage_merge` | extraction while a worker stages; fork, wait, failing error handlers |
| Foreign keys, `src/update.cpp` | constraints, `dbsystem.foreign_key_constraints`, `dbconfig.foreign_keys` | `remove_foreign_key_constraints`, `process_foreign_keys`, detection | no transaction; constraints that refuse the next update's statements |
| Initialization and upgrade, `src/init.cpp`, `src/dbup1.cpp`, `src/schema.cpp` | database version, schemas, tables, catalog | `init_database`, `upgrade_database`, `database_upgrade_1..35` | interruption without a transaction; repetition; divergence from a new database |
| Server and commands, `src/ldp.cpp` | `dbconfig.general`, timers | `server_loop`, `time_for_full_update`, `ldp_exec` | restart after errors; the schedule is never advanced; commands beside the server |
| Column types and names, `src/stage.cpp`, `src/schema.cpp`, `src/camelcase.cpp` | statistics of the columns | `process_json_record`, `select_type`, `decode_camel_case` | mixed types, boundaries of numbers |
| Users and grants, `src/users.cpp`, `src/ldp.cpp` | `ldp_users.conf`, grants | `read_users`, `update-users` | a replaced table loses its grants; a list read before a long update |
| Anonymization, dropped fields, optional columns | lists of fields | filters of a JSON object, ALTER TABLE | none across steps |
| Configuration, options, log, utilities, Okapi | | parsing, wrappers; Okapi extraction is not called any more | none across steps |

How they interact:

- `ldp update` calls `run_update()` once; `ldp server` asks the database once a
  minute whether the time has come, and then calls it in its own process
  (`single_process` is true, and no option changes it).  `ldp update-users`
  takes the same way, and leaves `run_update()` after the users.
- The loop of `run_update()` extracts one table from every source, waits for
  the worker of the table before, and forks a worker that calls
  `stage_merge()`.  Parent and worker share the directory `tmp/update/` and the
  database, and nothing else; what a worker writes into its copy of the schema
  object, the columns of its table, is lost when it ends.
- Every process has database connections of its own.  A failing statement
  throws; the connection is closed and PostgreSQL rolls its transaction back.
- After the loop, the comments and foreign keys of all tables are processed by
  the parent.  The constraints it adds are removed by the first `stage_merge()`
  of the next update, which finds them in their registry.
- Nothing keeps two `ldp` processes apart: the lock in `src/ldp.cpp:57-101` is
  commented out.

What makes the components correct: the main table is one whole snapshot of the
source and never an older one; the history has every version that was ever
published exactly once; an error in one table leaves the others alone; a worker
never loses its files; every registered constraint exists; a recorded database
version is a true one; a table is stored as a whole, in columns that show what
the source says; a user who has been given access keeps it as tables are
replaced; and a server goes on, alone, whatever happens.

`PROJECT.json` lists the hazards line by line, each with the properties that
would be violated if it went wrong.

## 2. Modules

```
HistoryTables ---- PublishedTable            the abstract table
      |                  ^ implements
      +---------- StageMerge --- MCStageMerge
      |                  |
HistoryTablesProofs --- StageMergeProofs

ColumnNames, ColumnTypes --- StageColumns --- MCStageColumns, StageColumnsProofs

UpdateRun --- MCUpdateRun, UpdateRunProofs
Server --- MCServer, ServerProofs
ForeignKeys --- MCForeignKeys, ForeignKeysProofs
UpgradeStatements --- DatabaseUpgrade --- RepeatedUpgrades --- MCDatabaseUpgrade, DatabaseUpgradeProofs
```

**HistoryTables** has the data and the queries: what a file, a loading table
and a history table hold, the rows that `create_latest_history_table()` selects
(`LatestRows`), and those that `merge_table()` inserts (`Changed`,
`NewVersions`).  A JSON object is a value; what staging does to it is
`Staged`: an object that does not fit the data attribute becomes NULL.

**StageMerge** is the update of one table.  `pc[u]` is the next statement of
the `ldp` process u, and there is one action per statement: `StartUpdate`,
`ExtractRows`/`ExtractNone`, `ClearTable`, `CreateLatestHistory`,
`BeginTransaction`, `StageTable1`, `StageTable2`, `MergeTable`, `CommitTable`,
`CountRows`, `UpdateCatalog`.  `Fail` is possible at every one of them.  What a
transaction has not committed is in `loading` and `pending`; the main table,
the history and the catalog are what others see.  `sourceLog` has all states
that the source has been in, and `asOf` and `seen` remember, for the properties
only, which of them was extracted; `missed` in the catalog, that the last update
to commit has not reached it.  Dropping the old table, renaming the new
one and COMMIT are one action, as they are for everybody else.

**PublishedTable** is the promise to a reader: in one step the main table is
replaced by the staged rows of one source state, not an older one, and the
history gains the changed versions.

**ColumnTypes**, **ColumnNames** and **StageColumns** look into the staging that
is one step in StageMerge.  A value is its kind, and of a string its form (a
UUID, a date, something that only looks like one, other) and its length.
`Filtered` is what anonymization and dropped fields make of it, `Counted` the
statistics, `SelectType` and `DeclaredLength` the column, `WrittenValue` the
cell, `Accepted` what PostgreSQL takes.  `DecodeCamelCase` works on characters,
with the window of three that the code has; `Words` is the definition that its
comment gives.  StageColumns runs the two passes record by record:
`AnalyzeRecord`, `SelectColumns`, `CreateLoadingTable`, `WriteTuple` or
`RejectTuple`, `EndCopy`.  A rapidjson accessor that is called on a value of
another type returns garbage, any number of `Garbage`.

**UpdateRun** is one run of `run_update()`.  A process is at the head of the
loop (`extract`, for every source in turn), waits for its worker, forks, stages
(a worker), stages inline (a single process), or handles an error.  `fork()`
copies `table`, `workerPid`, `workerFiles` and `columns`, so that a worker whose
error handler fails (`HandlerFail`) continues the loop just as the code does.
`opt` holds the command line options; `Skipped` and `Parallel` are derived from
them as in the loop.  `waitpid()` for a process that is not a child, or that has
been waited for, leaves the status uninitialized: `Waited` then allows both
results.  `suggested` are the tables that detection has suggested foreign keys
for: at most those whose `columns` are in the schema object of the process.

**Server** has the processes of one database: the server, the commands `update`
and `update-users` that an administrator runs beside it, and workers that escape
into the loop of a server.  `Begin` reads the list of users, `GrantUser` gives
one of them access to the tables that exist, `ReplaceTable` replaces a table by
one that only the users of the list can read.  `Recover`, `Restart`, `LogError`
and `LogFail` are the handlers of `ldp_exec()` and `server_loop()`.  `Tick` lets
time pass for the sleeps and `error_timer`.  `alone` and `promised` remember,
for the properties only, which `update-users` no update has overlapped, and for
whom it has reported success.  After an escape two processes use one connection;
what then happens at a query (`PollShared`) is an error, or waiting forever.

**ForeignKeys** has the tables in the order of the schema, their rows, the
constraints and the registry.  Updating a table is one step, since StageMerge
has its inside; every statement of `process_foreign_keys()` is a step of its
own, and may fail or be the last.  Row i refers to row i of the referenced
table, which is enough to make a reference valid or dangling.  There are only
foreign keys between different tables, with one column each.

**UpgradeStatements** and **DatabaseUpgrade** are the 35 upgrades.  A
statement is a record of what must exist, what must not, what it removes and
adds; the database is a set of objects: schemas, tables, columns, constraints
and rows of the catalog.  Statements that later ones depend on are all there, in
the order of the code.  `ExecuteStatement` executes one statement of an
upgrade without a transaction, `ExecuteTransaction` a whole upgrade between
BEGIN and COMMIT, `Interrupt` ends the command anywhere.  `Expected[v]` is what
an uninterrupted upgrade to version v leaves.  The databases to begin with
(`Databases`) are this one; one whose tables were added by the releases of the
time, with `tenant_id` or without the type uuid (`Aged`); and one that was created
without the table that only upgrade 20 adds.  `DefaultTables` is the schema of
`make_default_schema()`, and `Unlisted` the table that upgrade 20 adds beyond it.
**RepeatedUpgrades** has the facts
about the lists from which it follows that an upgrade can be repeated, and the
invariant of their proof.

Definitions that begin with "Variant" in their comment are plausible mistakes;
`PROJECT.json` ("mutants") pairs each with the property that notices it.  They
are not part of any specification.

## 3. What TLC checks

| Run | Bounds | Shows |
|---|---|---|
| `sm_one` | 2 IDs, 2 objects and an oversized one, 1 process, 2 changes, 1 failure | one process at a time: `MainIsSnapshot`, `LatestHistoryMatchesMain`, `NoRedundantVersions`, `CatalogIsTrue`, `HistoryOnlyGrows`, `NeverOlder`, the refinement `ImplementsPublishedTable`, `Converges` and `CatalogRecovers` |
| `st_all` | 12 fields, 25 values, pairs and triples of them, all selections of three fields, all IDs | staging: `StringsFit`, `RefusedForCause`, `ColumnsShowSource`, `NamesDecoded` |
| `ur_all` | 4 tables (one anonymized), 2 sources, all 16 combinations of options, 9 processes, 4 failures | the loop: files, workers, errors, detection, termination |
| `sv_all` | 1 user, 2 tables, the server, one command at a time, one escaping worker, 2 failures, delays of one tick | grants, restarts, and that the server goes on |
| `fk_all` | 3 tables, 3 keys, 1 row ID, 2 changes, 1 failure | registry, enforcement, replacement and recovery |
| `du_all` | every version to begin with, 2 interruptions | upgrades: true versions, the schema of a new database, completion |

Six runs more have a violation as their result.  Each contradicts a sentence
of the documentation or a comment, quoted in `PROJECT.json` ("findings"):

- `sm_overlap`: a second `ldp update` removes the files of the first one, which
  then publishes an empty table (a missing count file counts as no rows).
- `sm_disk`: the writes of the extraction and the result of the parser are
  ignored, so a truncated file is published.
- `ur_outage`: if the database cannot be reached by a worker and by its error
  handler, the worker escapes into the loop of its parent, and one of them
  stages files that the other has deleted.
- `ur_extractonly`: `--extract-only` clears the tables that have no source rows.
- `fk_stale`: clearing a table is refused by a constraint of the last update
  when the table comes before every table that is replaced.
- `du_views`: upgrades 27 and 34 ignore errors, and record the version.

Why the bounds are enough:

- *StageMerge*: a version chain needs an object that changes and changes back,
  or is deleted and comes back: two changes and two objects.  One record may
  change while another does not: two IDs.  A failure leaves a file, a version
  or a stale count behind for the next update, and the number of updates is not
  bounded.  Three source states give at most three time stamps to a history, so
  that with five, `MaxStamp` is never the reason why a transaction does not begin
  in `sm_one`.
- *StageColumns*: a type depends on whether a field has strings, numbers,
  decimals and Booleans, and on whether all of its strings are UUIDs or dates;
  three values make every combination that matters, with the third one
  disagreeing.  The values are those on both sides of every limit, with numbers
  of 8 bits for 32, 1000 for 10^10, and lengths of 16, 40 and 50 for those of
  the code.  The names have the shapes of `test/camelcase_test.cpp`.
- *Server*: the grants of different users are independent, so one is enough to
  lose access; a process in the first and another in the second table need two
  tables.  Two failures are a worker's and its error handler's (the escape), or
  an update's and that of the report of its error.  Time stands for multiples of
  a delay: with one tick each, a server can be interrupted before, at and after
  the end of either.
- *UpdateRun*: a worker escapes after two failures; four allow two escapes,
  also of a worker's worker.  Nine processes are never used up, or
  `Terminates` would not hold, because `Fork` would wait for one.  The first
  table follows nothing, the last is waited for after the loop, and the second
  is skipped, so that a worker stays over a skipped table.  Both sources have
  rows of a table, or the first one, or none: the second one is what a cleared
  table has left to delete.
- *ForeignKeys*: the three keys make a chain and a fork in both directions.
  The failure may be the crash between a constraint and its registration, whose
  effects the two changes and any number of later updates then meet.
- *DatabaseUpgrade*: an upgrade has no memory but the objects.  The second
  interruption hits the repetition that follows the first.  From version 14 on, the
  number of interruptions is shown not to matter (section 4).

`sm_overlap` switches off the check for deadlocks: `MaxStamp` stops it when the
time stamps are used up.  What survives two overlapping processes, the growth of
the history, is not checked in a run with two, but proved for any number
(section 4).

**Fairness.** `StageMerge!FairSpec` and `ForeignKeys!FairSpec` let a started
process go on, and start another update after it, as cron or the server do.
`Fail`, `Crash` and `SourceChange` are not fair: they need not happen.
`UpdateRun!FairSpec` is weak fairness of each process, that is, of the
operating system's scheduler; failures are among the steps of a process but
bounded, and none is ever forced, since another step is possible beside it.
`Server!FairSpec` is weak fairness of every process and of the clock.  Nothing
obliges the administrator to run a command, or to change the users or the
schedule.  `DatabaseUpgrade!FairSpec` says that the administrator repeats
`upgrade-database` until the database is up to date, as the message of
`validate_database_latest_version()` demands.

**What the results mean.** The properties of `sm_one` do not hold of two
overlapping processes: that is the point of `sm_overlap`.  `CatalogIsTrue` names
when the catalog may differ from the tables: between COMMIT and the counts, after
an update that has ended there, and when the main table has been cleared, which
the code does not tell the catalog.  `CatalogRecovers` shows that the next update
repairs it, as long as the source has rows of the table; a table that stays
without rows keeps the counts that it had.  Those on workers in
`ur_all` assume at most one failure in a parallel update (`OneFailure`):
`ur_outage` shows why.  `Enforced` leaves out keys whose referencing table is
itself referred to: rows to delete may then be protected by the constraint
that was just added, the refused DELETE is only logged at level detail, and the
constraint is not added.  `PromiseKept` is about an `update-users` that no update overlaps: an update that
runs beside it has read the list of users before, and takes the access away
again with the tables it then replaces, although `doc/Admin_Guide.md:462` has no
such condition.  `AccessConverges` shows that this lasts until the next update.  `KeepsUpdating` says that updates are
repeated for as long as they are due: the lines that would move the time on are
commented out (`src/ldp.cpp:236-237`), so that a server updates every minute, not
"once per day" (`doc/User_Guide.md:59`), which is what cron does for `ldp update`.  `RefusedForCause` and `ColumnsShowSource`
list what makes the code refuse a whole table (a UUID column with one number,
10^10, two fields of one name, ...), and what it stores as something else (wide
integers, numbers above 10^10, structures).  A string above 10485760 bytes is
refused by the `VARCHAR` that is declared for it, so that the code which would
store NULL for it (`src/stage.cpp:389`) is never reached.  `SuggestionsCurrent`
shows that parallel updates suggest no foreign keys; `doc/Admin_Guide.md` only
says of `parallel_update` that updates are slower without.

`Recovers` assumes that in the end every table has
rows in the source: when a crash leaves a constraint unregistered and its table
then has no rows any more, nothing ever removes that constraint, and the
referenced table is not replaced again.  `OnlyOldUpgradesRefuse` is exact in one direction: the
upgrades to version 14 and before can leave an interrupted database in which
the repeated command fails at a `CREATE TABLE` or `DROP CONSTRAINT` that was
executed before; everything later can be repeated.

An upgraded database is not the same as one that init-database creates.  Upgrade
20 adds `finance_ledger_fiscal_years` (`src/dbup1.cpp:1367`), a table that is
commented out in the schema (`src/schema.cpp:425-427`), and no later upgrade drops
it: its main table, its history and its row in the catalog stay, and no update
ever writes to them.  Upgrades 27 and 34 go through the tables of the schema, and
leave `tenant_id` and a varchar `id` in it when an older release has added it.
`UpgradedHasSchema` and `VersionIsTrue` therefore name this table as an exception
(`OfSchema`, `Settled`); every other table is like a new one, and any other table
that an upgrade added beyond the schema, or failed to add, would violate
`UpgradedHasSchema` or the computed facts of RepeatedUpgrades.

## 4. What is proved

`HistoryTablesProofs` has lemmas about the queries for every set of IDs and
objects: a merge keeps the key of the history (`MergeKeepsKey`), makes the
latest rows match (`MergeMatches`) and adds no repetition
(`MergeAddsNoRepetition`).

`StageMergeProofs` proves, for any number of records, objects, processes, time
stamps, changes and failures:

- `TypeCorrect`: `TypeOK`, and with it that the history is finite.
- `Invariance`: the inductive invariant `IInv`, under `OneSafeUpdater`: one
  process, and a disk that does not run full.  The four invariants of the main
  table and the history alone are not inductive: they need `UpdaterInv`, which
  says for every point of an update that the file, then the loading table, hold
  the source state last seen, that the copy of the latest history made before
  BEGIN is still right, and that the time stamp is later than the history.
  From it follow `MainIsAlwaysSnapshot`, `HistoryKeepsUp` and `HistoryIsLean`.
- `HistoryAlwaysGrows`: no version is ever lost, and none appears without
  the main table that shows it, for any number of overlapping processes.
- `CatalogIsAlwaysTrue`, under `SingleUpdater`: whatever fails, the catalog has
  the counts of the tables but for the three cases named.  The invariant needs
  `CountsInv`: what has been counted after COMMIT stays right until it is written.
  The disk may run full.
- `Refinement`: StageMerge implements PublishedTable, and so `MainNeverOlder`.
  This covers tables whose versions are not recorded (the SRS types), too.

`UpdateRunProofs` proves every safety property of `ur_all`, for any tables,
sources, options, processes and failures.  Its invariant `IInv` has two sides:

- With one failure at most, or without workers (`Calm`), only the first process
  runs the loop.  `WorkerInv` says that a live worker is its `workerPid`, not yet
  reaped, and of a table before the current one; `TableInv` what has become of
  every table so far, and which files the current one has; `ColumnsInv` what its
  schema object has been given.  From them follow `FilesStayWhileStaging`,
  `NeverTwoWorkers`, `FinishesAlone`, `TablesAccountedFor` and
  `SuggestionsAreCurrent`.
- Whatever fails, escaped workers run the loop beside their parents.
  `LeftoversAreFailures` holds all the same: `OrphanInv` says that a process is
  waited for by a living parent, `DebtInv` that what a process has noted in
  `worker_ext_files` is the table its worker still stages, or one that has failed,
  and `FilesInv` that a live process will delete every file of a table that has
  not failed.  Since a parent has a lower number than its children (`FamilyInv`),
  no process is left when the first one exits (`AllDead`, by well-foundedness).
  An exception that leaves the loop breaks this, hence the condition on
  `unwound`.  `SavedFilesStay` needs `KeptInv` only.

`ForeignKeysProofs` proves, for any tables, order, keys and failures,
`TypeCorrect`, `RegistryAlwaysTrue`, `AlwaysRefreshed` and `AlwaysEnforced`.  To be
inductive they need to know that a constraint exists when its turn comes to be
registered (`RegistryInv`), that until something fails no other constraint is
unregistered and every table so far has been replaced (`RefreshInv`), and that the
exceptions of the current foreign key are right, and then gone (`EnforceInv`).

`StageColumnsProofs` proves, for any records, fields and limits, `TypeCorrect`,
`StringsAlwaysFit`, `AlwaysRefusedForCause`, `ColumnsAlwaysShowSource` and
`NamesAlwaysDecoded`.  The properties compare the table with the values of the
source, which the code does not have any more when it writes the table: only
statistics, then columns.  Hence the invariant: `CountsInv` says what the
statistics know of the values counted so far (whether there are strings, whether
all of them are UUIDs or dates, how long the longest is, and of what other kinds
there are values), `ColumnsInv` that the columns follow from them, `RowsInv` that
the rows are the values in those columns, and `RefusedForCause` belongs to it
too.  The longest proofs go through the types of a column, and show for each that COPY
takes what is written for the values unless one of the causes holds
(`TakenUnlessCause`), that each cause makes it refuse one (`NotTakenForCause`), and
that a value which is not lossy is shown (`ShownUnlessLossy`).  They have found a
case that no bounded run had met, and that the properties now name: a date of 64
MB is written as NULL, and so it is not refused although it does not exist, and
not shown.

`DatabaseUpgradeProofs` proves `TypeCorrect` from whatever version, with any views
and interruptions; and for databases of version 14 or later without views
(`Recent`), `UpgradedAlwaysHasSchema`, `VersionAlwaysTrue` and
`OnlyOldUpgradesAreRefused`, for any number of interruptions, where TLC has two.
The work is divided.  The lists of statements are data, and names that are put
together from strings are beyond the provers: TLC computes, in the `ASSUME`s of
RepeatedUpgrades, what uninterrupted upgrades make of the databases of every
release from version 14 on (`UninterruptedAssumption`), but for the table that is
not in the schema, and that the upgrades
without a transaction (15, 27 and 34) are `Repeatable`: no statement touches what
an earlier one depends on or has done, and what may end the command changes
nothing.  From this, not from going through the states, follows that
interruptions do no harm: a repeated statement has no effect
(`RepeatedStatement`) and is no more refused than before (`RepeatedUnrefused`),
so that the objects are always those after some of the statements of an
uninterrupted upgrade, and never fewer than the command has executed
(`ObjectsInv`); a transaction leaves all or nothing.  `SetInduction` is induction over the natural
numbers, from the theorem on well-founded minima; it also shows that the recursive
definitions of `ExecutedAll` and `Uninterrupted` have solutions.  The older
upgrades are not repeatable (they stop where they find their own traces), so that
for them the properties are only model-checked.

`ServerProofs` proves `TypeCorrect`, `PromiseAlwaysKept`, `AlwaysOneServer` and
`AlwaysRestartsApart` for any users, tables, processes, delays and failures.  The
invariant has a part for each.  A promise is kept because every process that
will replace a table has the user in its list already, or has still to come to
the user in the file (`PromiseInv`); restarts keep apart because what is left of
a sleep and the timer add up to the delay (`DelayInv`); a second server needs two
failures (`ServerInv`).

The assumptions are those on the constants (`DataAssumption`,
`StageMergeAssumption`, `ForeignKeysAssumption`, `ColumnTypesAssumption`,
`StageColumnsAssumption`, `ServerAssumption`, `UpdateRunAssumption`,
`DatabaseUpgradeAssumption`), and the three computed facts of RepeatedUpgrades
(`ObjectsAssumption`, `RepeatableAssumption`, `UninterruptedAssumption`); TLC
evaluates all of them in the runs.

Only model-checked: all liveness (`Converges`, `CatalogRecovers`, `Terminates`, `Recovers`,
`AccessConverges`, `KeepsUpdating`, `UpgradeCompletes`), which TLAPS does not
handle under fairness; and the upgrades of databases before version 14.

## 5. What is not modelled

- Merging, the history and the catalog know only IDs and data of a record
  (StageMerge); the columns are in StageColumns, and the two meet in the step
  `StageTable2`: a table that StageColumns refuses is a `Fail` there.
- The clock: time stamps of transactions differ and grow with every BEGIN
  (`NextStamp`), which the key (id, updated) of the history relies on.  Were two
  overlapping merges to begin at the same microsecond, the key would refuse the
  second one, and its update would be rolled back.
- The other columns of the catalog: `updated`, and the documentation.
- Records of one ID in two sources, and `add_pkey_and_indexes()`, whose errors
  are warnings: the primary key of a main table is added after COMMIT.
- `opt.load_from_dir`, a test option.
- The values that detection of foreign keys compares; and that it, comments and
  constraints may each fail in the middle is one step (`FinishFail`).
- The fallback of `retrieve_direct()` to the table of an older release of FOLIO.
- `run_update_process()`, which needs `single_process` to be false, and the
  signal handlers of init-database and upgrade-database, which only print.
- Grants on schemas and history tables, and those of init-database; the
  parsing of options, configuration and lists; the log.
- Two `upgrade-database` commands at the same time, Redshift, and the columns of
  main tables in upgrades (an update replaces the table).
- `src/paging.cpp` and the extraction from Okapi, which nothing calls any more.

## 6. Plan

Done, in this order, the most important behaviour first: HistoryTables,
PublishedTable, StageMerge with its proofs; UpdateRun; UpgradeStatements and
DatabaseUpgrade; ForeignKeys with its first proofs; ColumnTypes, ColumnNames and
StageColumns with proofs; Server, with users and grants, and its proofs; several
sources and the detection of foreign keys in UpdateRun; the proofs of UpdateRun
and the rest of those of ForeignKeys; the proofs of the catalog, of the columns
and of the upgrades from version 14 on.

To do:

1. Records of one ID in several sources, in StageMerge: what the key of the
   history then does to the transaction, and the key that is added after it.
2. Two `upgrade-database` commands at the same time.
