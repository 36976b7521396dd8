----------------------------- MODULE UpdateRun ------------------------------
(***************************************************************************)
(* One run of run_update(): the loop over the tables of the schema, which  *)
(* extracts a table from every source to temporary files while a forked    *)
(* worker stages and merges the table before it.  A fork copies the whole loop: a worker     *)
(* whose error handler fails too leaves run_stage_merge() by an exception  *)
(* and goes on with the loop of its parent.                                *)
(*                                                                         *)
(* What happens inside of one table's transaction is in StageMerge; here   *)
(* it succeeds or fails as a whole.                                        *)
(***************************************************************************)
EXTENDS Naturals, FiniteSets

CONSTANTS
    NumTables,     \* the tables of the schema are 1..NumTables
    NumSources,    \* the enabled sources are 1..NumSources
    Contents,      \* what may have rows: sets of pairs of a table and a source
    Anonymized,    \* tables excluded by anonymization
    Options,       \* the options that an update may be run with
    MaxProcs,      \* bound: processes, the first one included
    MaxFailures    \* bound: statements that fail, processes that are killed

Tables == 1..NumTables
Sources == 1..NumSources
Procs == 1..MaxProcs
Main == 1
NoProc == 0
NoTable == 0

ASSUME UpdateRunAssumption ==
    /\ NumTables \in Nat \ {0} /\ NumSources \in Nat \ {0}
    /\ Contents \subseteq SUBSET (Tables \X Sources)
    /\ Anonymized \subseteq Tables
    /\ Options \subseteq [parallel_update : BOOLEAN, extract_only : BOOLEAN,
                           savetemps : BOOLEAN, table : Tables \cup {NoTable}]
    /\ MaxProcs \in Nat \ {0}
    /\ MaxFailures \in Nat

VARIABLES
    opt,          \* the options of this update; table is that of --table, if any
    hasRows,      \* the tables that have rows, each with the source
    files,        \* the tables and sources with files in tmp/update/
    dir,          \* tmp/update/ exists
    published,    \* what became of every main table
    suggested,    \* the referencing tables in dbsystem.suggested_foreign_keys
    failed,       \* the tables of which some step has failed
    failures,     \* how many failures have happened
    pc,           \* where every process is
    table,        \* the table that every process works on
    source,       \* the source it is read from, or will be
    columns,      \* the tables whose columns its schema object has been given
    parent,       \* the process that has forked it
    reaped,       \* the processes that waitpid() has returned
    workerPid,    \* worker_pid
    workerFiles   \* worker_ext_files: the table whose files it names

given == <<opt, hasRows>>
environment == <<given, files, dir, published, suggested, failed, failures>>
place == <<table, source, columns>>
workers == <<parent, reaped, workerPid, workerFiles>>
vars == <<environment, pc, place, workers>>

Init ==
    /\ opt \in Options
    /\ hasRows \in Contents
    /\ files \in {{}, Tables \X Sources}
    /\ dir \in BOOLEAN
    /\ files # {} => dir
    /\ published = [t \in Tables |-> "old"]
    /\ suggested \in {{}, Tables}
    /\ failed = {}
    /\ failures = 0
    /\ pc = [p \in Procs |-> IF p = Main THEN "start" ELSE "unborn"]
    /\ table = [p \in Procs |-> NoTable]
    /\ source = [p \in Procs |-> 1]
    /\ columns = [p \in Procs |-> {}]
    /\ parent = [p \in Procs |-> NoProc]
    /\ reaped = {}
    /\ workerPid = [p \in Procs |-> NoProc]
    /\ workerFiles = [p \in Procs |-> NoTable]

\* The tables that the loop skips.
Skipped == Anonymized \cup (IF opt.table = NoTable THEN {} ELSE Tables \ {opt.table})

\* Tables are staged by forked workers.
Parallel == opt.parallel_update /\ opt.table = NoTable

\* The files of a table, one for every source.
FilesOf(t) == {t} \X Sources

\* A table that a source has no rows of is cleared, and its skip is set.
Cleared(t) == FilesOf(t) \ hasRows # {}

\* Variant: the files are always deleted.
DeletedAlways(present, t) == present \ FilesOf(t)

\* What the destructor of extraction_files, for table t, leaves.
Deleted(present, t) == IF opt.savetemps THEN present ELSE present \ FilesOf(t)

\* What staging a table publishes: without the count file of a source, it loads
\* no rows of that source and succeeds.
Staged(t) == IF FilesOf(t) \subseteq files THEN "new" ELSE "partial"

Failure == failures < MaxFailures /\ failures' = failures + 1

\* Variant: the loop runs one table too far.
ToTableAfterLast(p) ==
    /\ table' = [table EXCEPT ![p] = @ + 1]
    /\ source' = [source EXCEPT ![p] = 1]
    /\ pc' = [pc EXCEPT ![p] = IF table[p] <= NumTables THEN "extract" ELSE "lastwait"]

\* The head of the loop: the next table, or what follows the loop.
ToNextTable(p) ==
    /\ table' = [table EXCEPT ![p] = @ + 1]
    /\ source' = [source EXCEPT ![p] = 1]
    /\ pc' = [pc EXCEPT ![p] = IF table[p] < NumTables THEN "extract" ELSE "lastwait"]

\* stage_table_1() appends the columns of the table to the schema object of the
\* process it runs in.
LearnColumns(p) == columns' = [columns EXCEPT ![p] = @ \cup {table[p]}]

Goto(p, from, to) == pc[p] = from /\ pc' = [pc EXCEPT ![p] = to]

\* make_update_tmp_dir(), and the loop begins.
Start(p) ==
    /\ pc[p] = "start"
    /\ files' = {}
    /\ dir' = TRUE
    /\ ToNextTable(p)
    /\ UNCHANGED <<given, suggested, published, failed, failures, workers, columns>>

SkipTable(p) ==
    /\ pc[p] = "extract"
    /\ table[p] \in Skipped
    /\ ToNextTable(p)
    /\ UNCHANGED <<environment, workers, columns>>

-----------------------------------------------------------------------------
(* Extraction                                                              *)

\* The end of the loop over the sources: the files are no longer needed if the
\* table has been cleared, or if nothing is to be staged.
Extracted(p) ==
    LET t == table[p]
        written == files \cup {<<t, source[p]>>}
    IN  IF source[p] < NumSources
        THEN /\ files' = written
             /\ source' = [source EXCEPT ![p] = @ + 1]
             /\ UNCHANGED <<pc, table>>
        ELSE IF Cleared(t) \/ opt.extract_only
             THEN files' = Deleted(written, t) /\ ToNextTable(p)
             ELSE /\ files' = written
                  /\ pc' = [pc EXCEPT ![p] = IF Parallel THEN "wait" ELSE "inline"]
                  /\ UNCHANGED <<table, source>>

ExtractRows(p) ==
    /\ pc[p] = "extract"
    /\ table[p] \notin Skipped
    /\ <<table[p], source[p]>> \in hasRows
    /\ dir
    /\ Extracted(p)
    /\ UNCHANGED <<given, suggested, dir, published, failed, failures, workers,
                   columns>>

\* Without rows of one source the main table is cleared, also if another source
\* has rows, or if opt.extract_only.
ExtractNone(p) ==
    /\ pc[p] = "extract"
    /\ table[p] \notin Skipped
    /\ <<table[p], source[p]>> \notin hasRows
    /\ dir
    /\ published' = [published EXCEPT ![table[p]] = "cleared"]
    /\ Extracted(p)
    /\ UNCHANGED <<given, suggested, dir, failed, failures, workers, columns>>

\* An exception leaves the files behind: nothing deletes ext_files.
ExtractFail(p) ==
    /\ table[p] \notin Skipped
    /\ Goto(p, "extract", "error")
    /\ \/ dir /\ Failure /\ files' \in {files, files \cup {<<table[p], source[p]>>}}
       \/ ~ dir /\ UNCHANGED <<failures, files>>
    /\ failed' = failed \cup {table[p]}
    /\ UNCHANGED <<given, suggested, dir, published, place, workers>>

-----------------------------------------------------------------------------
(* Parallel update                                                         *)

Dead == {"exited", "unwound", "killed"}

\* Variant: waitpid() with WNOHANG.
Polled(p, ok) ==
    LET q == workerPid[p]
    IN  /\ ok = (pc[q] # "killed")
        /\ reaped' = IF pc[q] \in Dead THEN reaped \cup {q} ELSE reaped

\* waitpid() blocks until the worker ends; WIFEXITED() is true for exit(1) as
\* well.  For a process that is not an unreaped child it fails, and leaves the
\* status uninitialized.
Waited(p, ok) ==
    LET q == workerPid[p]
    IN  IF parent[q] = p /\ q \notin reaped
        THEN pc[q] \in Dead /\ ok = (pc[q] # "killed") /\ reaped' = reaped \cup {q}
        ELSE UNCHANGED reaped

\* Variant: a killed worker makes its parent leave out the next table.
WaitWorkerOrSkip(p) ==
    /\ pc[p] = "wait"
    /\ IF workerPid[p] = NoProc
       THEN /\ pc' = [pc EXCEPT ![p] = "fork"]
            /\ UNCHANGED <<files, table, source, reaped, workerPid, workerFiles>>
       ELSE \E ok \in BOOLEAN :
              /\ Waited(p, ok)
              /\ workerPid' = [workerPid EXCEPT ![p] = NoProc]
              /\ workerFiles' = [workerFiles EXCEPT ![p] = NoTable]
              /\ IF ok
                 THEN /\ files' = Deleted(files, workerFiles[p])
                      /\ pc' = [pc EXCEPT ![p] = "fork"]
                      /\ UNCHANGED <<table, source>>
                 ELSE ToNextTable(p) /\ UNCHANGED files
    /\ UNCHANGED <<given, suggested, dir, published, failed, failures, parent,
                   columns>>

\* wait_stage_merge() for the previous worker, whose files are then deleted,
\* unless it was killed.
WaitWorker(p) ==
    /\ Goto(p, "wait", "fork")
    /\ IF workerPid[p] = NoProc
       THEN UNCHANGED <<files, reaped, workerPid, workerFiles>>
       ELSE \E ok \in BOOLEAN :
              /\ Waited(p, ok)
              /\ IF ok
                 THEN /\ files' = Deleted(files, workerFiles[p])
                      /\ workerPid' = [workerPid EXCEPT ![p] = NoProc]
                      /\ workerFiles' = [workerFiles EXCEPT ![p] = NoTable]
                 ELSE UNCHANGED <<files, workerPid, workerFiles>>
    /\ UNCHANGED <<given, suggested, dir, published, failed, failures, place, parent>>

\* Variant: the parent deletes the files as soon as it has forked.
ForkAndDelete(p) ==
    /\ pc[p] = "fork"
    /\ \E q \in Procs :
        /\ pc[q] = "unborn"
        /\ \A r \in 1..(q - 1) : pc[r] # "unborn"
        /\ pc' = [pc EXCEPT ![q] = "stage",
                            ![p] = IF table[p] < NumTables THEN "extract" ELSE "lastwait"]
        /\ table' = [table EXCEPT ![q] = table[p], ![p] = @ + 1]
        /\ source' = [source EXCEPT ![p] = 1]
        /\ columns' = [columns EXCEPT ![q] = columns[p]]
        /\ parent' = [parent EXCEPT ![q] = p]
        /\ workerPid' = [workerPid EXCEPT ![q] = workerPid[p], ![p] = q]
    /\ files' = Deleted(files, table[p])
    /\ UNCHANGED <<given, suggested, dir, published, failed, failures, reaped,
                   workerFiles>>

\* The child starts with a copy of its parent's variables.
Fork(p) ==
    /\ pc[p] = "fork"
    /\ \E q \in Procs :
        /\ pc[q] = "unborn"
        /\ \A r \in 1..(q - 1) : pc[r] # "unborn"
        /\ pc' = [pc EXCEPT ![q] = "stage",
                            ![p] = IF table[p] < NumTables THEN "extract" ELSE "lastwait"]
        /\ table' = [table EXCEPT ![q] = table[p], ![p] = @ + 1]
        /\ source' = [source EXCEPT ![p] = 1]
        /\ columns' = [columns EXCEPT ![q] = columns[p]]
        /\ parent' = [parent EXCEPT ![q] = p]
        /\ workerPid' = [workerPid EXCEPT ![q] = workerPid[p], ![p] = q]
        /\ workerFiles' = [workerFiles EXCEPT ![q] = workerFiles[p], ![p] = table[p]]
    /\ UNCHANGED <<environment, reaped>>

ForkFail(p) ==
    /\ Goto(p, "fork", "error")
    /\ Failure
    /\ failed' = failed \cup {table[p]}
    /\ UNCHANGED <<given, suggested, files, dir, published, place, workers>>

\* run_stage_merge()
StageTable(q) ==
    /\ Goto(q, "stage", "exited")
    /\ published' = [published EXCEPT ![table[q]] = Staged(table[q])]
    /\ UNCHANGED <<given, suggested, files, dir, failed, failures, place, workers>>

\* stage_merge() throws; the handler reports it and exits.
StageFail(q) ==
    /\ Goto(q, "stage", "handler")
    /\ Failure
    /\ LearnColumns(q) \/ UNCHANGED columns
    /\ failed' = failed \cup {table[q]}
    /\ UNCHANGED <<given, suggested, files, dir, published, table, source, workers>>

HandlerExit(q) ==
    /\ Goto(q, "handler", "exited")
    /\ UNCHANGED <<environment, place, workers>>

\* The handler cannot connect to the database, and throws out of the child's
\* branch into the handler of run_update().
HandlerFail(q) ==
    /\ Goto(q, "handler", "error")
    /\ Failure
    /\ UNCHANGED <<given, suggested, files, dir, published, failed, place, workers>>

KillWorker(q) ==
    /\ q # Main
    /\ Goto(q, "stage", "killed")
    /\ Failure
    /\ failed' = failed \cup {table[q]}
    /\ UNCHANGED <<given, suggested, files, dir, published, place, workers>>

-----------------------------------------------------------------------------
(* Single-process update, errors, and the end                              *)

\* Variant: the files are not deleted.
InlineTableLeaking(p) ==
    /\ pc[p] = "inline"
    /\ published' = [published EXCEPT ![table[p]] = Staged(table[p])]
    /\ IF FilesOf(table[p]) \cap files # {} THEN LearnColumns(p) ELSE UNCHANGED columns
    /\ ToNextTable(p)
    /\ UNCHANGED <<given, suggested, files, dir, failed, failures, workers>>

\* stage_merge() in the process itself; delete ext_files.
InlineTable(p) ==
    /\ pc[p] = "inline"
    /\ published' = [published EXCEPT ![table[p]] = Staged(table[p])]
    /\ files' = Deleted(files, table[p])
    /\ IF FilesOf(table[p]) \cap files # {} THEN LearnColumns(p) ELSE UNCHANGED columns
    /\ ToNextTable(p)
    /\ UNCHANGED <<given, suggested, dir, failed, failures, workers>>

InlineFail(p) ==
    /\ Goto(p, "inline", "inlineerror")
    /\ Failure
    /\ failed' = failed \cup {table[p]}
    /\ LearnColumns(p) \/ UNCHANGED columns
    /\ UNCHANGED <<given, suggested, files, dir, published, table, source, workers>>

\* The exception is logged, and the files stay.
LogInlineError(p) ==
    /\ pc[p] = "inlineerror"
    /\ ToNextTable(p)
    /\ UNCHANGED <<environment, columns, workers>>

\* The handler cannot connect to the database: the handler of the loop is next.
LogInlineFail(p) ==
    /\ Goto(p, "inlineerror", "error")
    /\ Failure
    /\ UNCHANGED <<given, suggested, files, dir, published, failed, place, workers>>

\* The handler of the loop logs the error and goes on with the next table.
LogError(p) ==
    /\ pc[p] = "error"
    /\ ToNextTable(p)
    /\ UNCHANGED <<environment, workers, columns>>

\* The destructor of ext_dir: rmdir() fails while there are files.
RemoveDir == dir' = (dir /\ (opt.savetemps \/ files # {}))

\* The handler throws too: run_update() is left, and the process ends.
Unwind(p) ==
    /\ Goto(p, "error", "unwound")
    /\ Failure
    /\ RemoveDir
    /\ UNCHANGED <<given, suggested, files, published, failed, place, workers>>

\* Variant: the last worker is not waited for.
LeaveLastWorker(p) ==
    /\ Goto(p, "lastwait", "finish")
    /\ UNCHANGED <<environment, place, workers>>

\* Variant: the last worker is waited for until it has exited normally.
WaitForExit(p) ==
    /\ pc[p] = "lastwait"
    /\ IF workerPid[p] # NoProc /\ pc[workerPid[p]] # "exited"
       THEN UNCHANGED vars
       ELSE /\ Goto(p, "lastwait", "finish")
            /\ files' = Deleted(files, workerFiles[p])
            /\ workerFiles' = [workerFiles EXCEPT ![p] = NoTable]
            /\ UNCHANGED <<given, suggested, dir, published, failed, failures, place,
                           parent, reaped, workerPid>>

\* After the loop: the last worker is waited for, and its files are deleted
\* whatever has become of it.
LastWait(p) ==
    /\ Goto(p, "lastwait", "finish")
    /\ IF opt.parallel_update /\ workerPid[p] # NoProc
       THEN \E ok \in BOOLEAN : Waited(p, ok)
       ELSE UNCHANGED reaped
    /\ files' = Deleted(files, workerFiles[p])
    /\ workerFiles' = [workerFiles EXCEPT ![p] = NoTable]
    /\ UNCHANGED <<given, suggested, dir, published, failed, failures, place, parent,
                   workerPid>>

\* Variant: the suggestions are only cleared if detection is enabled.
FinishKeepingSuggestions(p) ==
    /\ Goto(p, "finish", "exited")
    /\ \E detect \in BOOLEAN : suggested' = IF detect THEN columns[p] ELSE suggested
    /\ RemoveDir
    /\ UNCHANGED <<given, files, published, failed, failures, place, workers>>

\* Optional columns and comments, detection, which searches the columns in the
\* schema object of this process, if detect_foreign_keys is set, and the
\* constraints of ForeignKeys; then the process ends.
Finish(p) ==
    /\ Goto(p, "finish", "exited")
    /\ \E detect \in BOOLEAN : suggested' = IF detect THEN columns[p] ELSE {}
    /\ RemoveDir
    /\ UNCHANGED <<given, files, published, failed, failures, place, workers>>

\* No handler is left: the suggestions are the old ones, cleared, or committed.
FinishFail(p) ==
    /\ Goto(p, "finish", "unwound")
    /\ Failure
    /\ suggested' \in {suggested, {}, columns[p]}
    /\ RemoveDir
    /\ UNCHANGED <<given, files, published, failed, place, workers>>

Step(p) ==
    \/ Start(p)
    \/ SkipTable(p)
    \/ ExtractRows(p)
    \/ ExtractNone(p)
    \/ ExtractFail(p)
    \/ WaitWorker(p)
    \/ Fork(p)
    \/ ForkFail(p)
    \/ StageTable(p)
    \/ StageFail(p)
    \/ HandlerExit(p)
    \/ HandlerFail(p)
    \/ KillWorker(p)
    \/ InlineTable(p)
    \/ InlineFail(p)
    \/ LogInlineError(p)
    \/ LogInlineFail(p)
    \/ LogError(p)
    \/ Unwind(p)
    \/ LastWait(p)
    \/ Finish(p)
    \/ FinishFail(p)

Ended == \A p \in Procs : pc[p] \in Dead \cup {"unborn"}

Next ==
    \/ \E p \in Procs : Step(p)
    \/ Ended /\ UNCHANGED vars

Spec == Init /\ [][Next]_vars

\* The operating system runs every process.
FairSpec == Spec /\ \A p \in Procs : WF_vars(Step(p))

-----------------------------------------------------------------------------
(* Properties                                                              *)

Phases == {"unborn", "start", "extract", "wait", "fork", "stage", "handler", "inline",
           "inlineerror", "error", "lastwait", "finish"} \cup Dead

\* Every variable has its type.
TypeOK ==
    /\ opt \in Options
    /\ hasRows \subseteq Tables \X Sources /\ files \subseteq Tables \X Sources
    /\ failed \subseteq Tables
    /\ suggested \subseteq Tables
    /\ columns \in [Procs -> SUBSET Tables]
    /\ dir \in BOOLEAN
    /\ published \in [Tables -> {"old", "new", "partial", "cleared"}]
    /\ failures \in 0..MaxFailures
    /\ pc \in [Procs -> Phases]
    /\ table \in [Procs -> 0..(NumTables + 1)]
    /\ source \in [Procs -> Sources]
    /\ parent \in [Procs -> Procs \cup {NoProc}]
    /\ reaped \subseteq Procs
    /\ workerPid \in [Procs -> Procs \cup {NoProc}]
    /\ workerFiles \in [Procs -> Tables \cup {NoTable}]

\* A worker leaves its branch of the fork only if its error handler fails as
\* well: the properties of parallel updates are for one failure at most.
OneFailure == failures <= 1

\* The parent does not delete the files that a worker is still staging.
FilesWhileStaging ==
    OneFailure => \A q \in Procs : pc[q] = "stage" => FilesOf(table[q]) \subseteq files

\* Two workers never stage at the same time: the wait comes before the fork.
OneWorker ==
    OneFailure => \A p, q \in Procs :
        pc[p] \in {"stage", "handler"} /\ pc[q] \in {"stage", "handler"} => p = q

\* Comments, detection and foreign key processing, which read and change all of
\* the tables, never run while a table is being replaced.
FinishAlone ==
    OneFailure => \A p, q \in Procs :
        pc[p] = "finish" /\ p # q => pc[q] \in Dead \cup {"unborn"}

\* Every table is accounted for when the run ends: it is new, with the rows of
\* all of the sources, or was cleared because some source has none, or some step
\* of it has failed.
NoTableForgotten ==
    pc[Main] = "exited" /\ (OneFailure \/ ~ Parallel) =>
        \A t \in Tables \ (Skipped \cup failed) :
            published[t] = IF Cleared(t) THEN "cleared"
                           ELSE IF opt.extract_only THEN "old" ELSE "new"

\* The only files that stay are those of failed tables, however many workers have
\* escaped into the loop, unless an exception has torn a process out of it.
LeftoversExplained ==
    pc[Main] = "exited" /\ ~ opt.savetemps /\ (\A p \in Procs : pc[p] # "unwound")
        => files \subseteq failed \X Sources /\ (dir <=> files # {})

\* With --savetemps, the files of all of the tables stay.
FilesKept ==
    pc[Main] = "exited" /\ opt.savetemps => (Tables \ (Skipped \cup failed)) \X Sources \subseteq files

\* Foreign keys are never suggested for a table that this update has not staged,
\* nor, by a parallel update, for any table: the columns that its workers have
\* found are lost with them.
SuggestionsCurrent ==
    pc[Main] = "exited" /\ OneFailure =>
        suggested \subseteq IF Parallel THEN {} ELSE failed \cup {t \in Tables : published[t] = "new"}

\* A run ends, with all of its processes: nobody waits for anybody forever.
Terminates == <>Ended

\* A table is never published from files that another process has deleted.
NeverStagedFromNothing == \A t \in Tables : published[t] # "partial"

\* With --extract-only, the database is not changed.
ExtractOnlyLeavesDatabase ==
    opt.extract_only => \A t \in Tables : published[t] = "old"

=============================================================================
