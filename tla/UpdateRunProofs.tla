-------------------------- MODULE UpdateRunProofs --------------------------
(***************************************************************************)
(* UpdateRun for any tables, sources, options and failures.  With one      *)
(* failure at most, or without workers, no process but the first one ever  *)
(* runs the loop; the files are accounted for even if workers escape into  *)
(* it, unless an exception leaves the loop of one of them.                 *)
(***************************************************************************)
EXTENDS UpdateRun, WellFoundedInduction, TLAPS

InLoop == {"extract", "wait", "fork", "stage", "handler", "inline", "inlineerror", "error"}
AfterLoop == {"lastwait", "finish", "exited"}

\* Where a process is fits its table, and whether there are workers.
PlaceInv ==
    /\ \A p \in Procs :
        /\ pc[p] = "start" => p = Main /\ table[p] = NoTable
        /\ pc[p] \in InLoop => table[p] \in Tables
        /\ pc[p] \in {"stage", "handler", "killed", "unborn"} => p # Main
        /\ pc[p] \in {"handler", "killed", "error", "inlineerror"} => table[p] \in failed
    /\ pc[Main] \in AfterLoop => table[Main] = NumTables + 1
    /\ ~ Parallel => /\ \A p \in Procs \ {Main} : pc[p] = "unborn"
                     /\ pc[Main] \notin {"wait", "fork"}
    /\ \A p \in Procs : pc[p] \in {"inline", "inlineerror"} => ~ Parallel

TypeInv == TypeOK /\ PlaceInv

-----------------------------------------------------------------------------
(* One process runs the loop                                               *)

\* Too little has failed for a worker to leave its branch of the fork.
Calm == failures <= 1 \/ ~ Parallel

Active(q) == pc[q] \in {"stage", "handler"}

\* What is staged: a table with rows and files of every source.
Stageable(t) == FilesOf(t) \subseteq files /\ ~ Cleared(t) /\ ~ opt.extract_only

\* A worker is the one that the first process knows and has still to wait for.
WorkerInv ==
    /\ pc[Main] \notin {"start", "exited", "unwound"} => dir
    /\ pc[Main] = "error" => failures >= 1
    /\ \A q \in Procs \ {Main} :
        /\ pc[q] \in {"unborn", "stage", "handler", "exited", "killed"}
        /\ pc[q] = "handler" => failures = 1
        /\ Active(q) =>
            /\ workerPid[Main] = q /\ parent[q] = Main /\ q \notin reaped
            /\ pc[Main] \in {"extract", "wait", "error", "lastwait"}
            /\ table[q] < table[Main]
        /\ pc[q] = "stage" => Stageable(table[q])

\* What becomes of a table that nothing has failed of.
Outcome(t) ==
    IF Cleared(t) THEN "cleared" ELSE IF opt.extract_only THEN "old" ELSE "new"

\* The tables before the current one have been published, or are being staged;
\* those after it are as they were.
TableInv ==
    /\ \A t \in Tables \ (Skipped \cup failed) :
        t < table[Main] =>
            \/ published[t] = Outcome(t)
            \/ \E q \in Procs \ {Main} : pc[q] = "stage" /\ table[q] = t
    /\ \A t \in Tables : t > table[Main] => published[t] = "old"
    /\ pc[Main] = "extract" =>
        LET t == table[Main]
            read == {s \in Sources : s < source[Main]}
        IN  /\ \A s \in read : <<t, s>> \in files
            /\ published[t] =
                    IF \A s \in read : <<t, s>> \in hasRows THEN "old" ELSE "cleared"
    /\ pc[Main] \in {"wait", "fork", "inline"} => Stageable(table[Main])
    /\ IF pc[Main] = "start" THEN workerFiles[Main] = NoTable
       ELSE workerFiles[Main] < table[Main]

\* The columns in the schema object of the first process.
ColumnsInv ==
    /\ columns[Main] \subseteq
            failed \cup {t \in Tables : t < table[Main] /\ published[t] = "new"}
    /\ pc[Main] = "exited" =>
        suggested \subseteq
            IF Parallel THEN {} ELSE failed \cup {t \in Tables : published[t] = "new"}

CalmInv == Calm => WorkerInv /\ TableInv /\ ColumnsInv

LostInv == Parallel => columns[Main] = {}

-----------------------------------------------------------------------------
(* Temporary files                                                         *)

\* With --savetemps files are only added.
KeptInv ==
    opt.savetemps =>
        /\ \A t \in Tables \ (Skipped \cup failed) :
            t < table[Main] => FilesOf(t) \subseteq files
        /\ pc[Main] = "extract" =>
            \A s \in Sources : s < source[Main] => <<table[Main], s>> \in files
        /\ pc[Main] \in {"wait", "fork", "inline"} => FilesOf(table[Main]) \subseteq files

Live(p) == pc[p] \notin Dead \cup {"unborn"}
Whole == \A p \in Procs : pc[p] # "unwound"

\* The processes are numbered in the order of their forks.
FamilyInv ==
    /\ \A p, q \in Procs : pc[p] = "unborn" /\ p < q => pc[q] = "unborn"
    /\ \A q \in Procs : q \in reaped => pc[q] \in Dead
    /\ \A q \in Procs : parent[q] \in Procs =>
        /\ parent[q] < q
        /\ pc[parent[q]] \notin {"unborn", "start", "stage", "handler", "killed"}
    /\ \A q \in Procs : pc[q] = "unborn" => parent[q] = NoProc /\ workerFiles[q] = NoTable
    /\ pc[Main] = "start" => \A q \in Procs \ {Main} : pc[q] = "unborn"

\* Nobody dies before its worker.
OrphanInv ==
    \A q \in Procs \ {Main} : Live(q) =>
        /\ parent[q] \in Procs
        /\ workerPid[parent[q]] = q /\ q \notin reaped
        /\ pc[parent[q]] \in {"extract", "wait", "error", "lastwait"}

\* The worker of p that p has not waited for.
HasWorker(p) ==
    workerPid[p] \in Procs /\ parent[workerPid[p]] = p /\ workerPid[p] \notin reaped

\* The table whose files p deletes when its worker has ended, unless it has failed.
Debt(p) ==
    \/ workerFiles[p] = NoTable
    \/ workerFiles[p] \in failed
    \/ /\ HasWorker(p) /\ pc[p] # "fork"
       /\ pc[workerPid[p]] \in {"stage", "killed"} => table[workerPid[p]] = workerFiles[p]

DebtInv == \A p \in Procs : Debt(p)

\* A process that will delete the files of table t.
Owes(p, t) ==
    \/ workerFiles[p] = t
    \/ table[p] = t /\ t \notin Skipped /\ pc[p] \in {"extract", "wait", "fork", "inline"}

FilesInv ==
    ~ opt.savetemps /\ pc[Main] # "start" =>
        \A t \in Tables, s \in Sources : <<t, s>> \in files =>
            t \in failed \/ \E p \in Procs : Live(p) /\ Owes(p, t)

DirInv ==
    /\ files # {} => dir
    /\ \A p \in Procs : pc[p] = "finish" => workerFiles[p] = NoTable
    /\ pc[Main] = "exited" /\ ~ opt.savetemps /\ Whole => (dir => files # {})

LeftoversInv == Whole => OrphanInv /\ DebtInv /\ FilesInv

IInv == TypeInv /\ CalmInv /\ LostInv /\ KeptInv /\ FamilyInv /\ LeftoversInv /\ DirInv

-----------------------------------------------------------------------------
(* Types                                                                   *)

\* Every variable has its type before the update.
LEMMA TypeInit == Init => TypeInv
<1> SUFFICES ASSUME Init PROVE TypeInv
  OBVIOUS
<1> USE UpdateRunAssumption DEF Init, Tables, Sources, Procs, Main, NoProc, NoTable
<1>1. TypeOK
  BY DEF TypeOK, Phases, Dead
<1>2. PlaceInv
  BY DEF PlaceInv, InLoop, AfterLoop, Parallel
<1> QED
  BY <1>1, <1>2 DEF TypeInv

\* What the steps write are tables, sources and files.
LEMMA Ranges ==
    ASSUME TypeInv, NEW p \in Procs
    PROVE  /\ NumTables \in Nat \ {0} /\ MaxFailures \in Nat /\ 1 \in Sources
           /\ 1 \in 0..(NumTables + 1) /\ NumTables + 1 \in 0..(NumTables + 1)
           /\ table[p] \in 0..(NumTables + 1) /\ source[p] \in Sources
           /\ pc[p] = "start" => table[p] = 0
           /\ pc[p] \in InLoop => table[p] \in Tables /\ table[p] + 1 \in 0..(NumTables + 1)
           /\ source[p] < NumSources => source[p] + 1 \in Sources
           /\ pc[p] \in InLoop => <<table[p], source[p]>> \in Tables \X Sources
           /\ \A present, t : Deleted(present, t) \subseteq present
           /\ Failure => failures' \in 0..MaxFailures
BY UpdateRunAssumption
DEF TypeInv, TypeOK, PlaceInv, Tables, Sources, NoTable, Deleted, Failure

\* The options and the sources do not change.
LEMMA GivenStep ==
    ASSUME NEW p, Step(p)
    PROVE  /\ opt' = opt /\ hasRows' = hasRows
           /\ Parallel' = Parallel /\ Skipped' = Skipped
           /\ \A t : Cleared(t)' = Cleared(t)
<1>1. opt' = opt /\ hasRows' = hasRows
  BY DEF Step, given, environment,
        Start, SkipTable, ExtractRows, ExtractNone, ExtractFail, WaitWorker,
        Fork, ForkFail, StageTable, StageFail, HandlerExit, HandlerFail,
        KillWorker, InlineTable, InlineFail, LogInlineError, LogInlineFail,
        LogError, Unwind, LastWait, Finish, FinishFail
<1> QED
  BY <1>1 DEF Parallel, Skipped, Cleared

\* Every step keeps the types.
LEMMA TypeStep == TypeInv /\ [Next]_vars => TypeInv'
<1> SUFFICES ASSUME TypeInv, [Next]_vars PROVE TypeInv'
  OBVIOUS
<1> USE DEF TypeInv, given, environment, place, workers
<1>1. ASSUME NEW p \in Procs, Step(p) PROVE TypeOK'
  <2> USE DEF TypeOK, Phases, Dead, InLoop
  <2>0. /\ 1 \in Sources /\ table[p] \in 0..(NumTables + 1) /\ source[p] \in Sources
        /\ pc[p] \in InLoop \cup {"start"} => table[p] + 1 \in 0..(NumTables + 1)
        /\ pc[p] \in InLoop => table[p] \in Tables /\ <<table[p], source[p]>> \in Tables \X Sources
        /\ source[p] < NumSources => source[p] + 1 \in Sources
        /\ \A present, t : Deleted(present, t) \subseteq present
        /\ Failure => failures' \in 0..MaxFailures
    BY Ranges
  <2>1. CASE Start(p)
    BY <2>0, <2>1 DEF Start, ToNextTable
  <2>2. CASE SkipTable(p)
    BY <2>0, <2>2 DEF SkipTable, ToNextTable
  <2>3. CASE ExtractRows(p)
    BY <2>0, <2>3 DEF ExtractRows, Extracted, ToNextTable
  <2>4. CASE ExtractNone(p)
    BY <2>0, <2>4 DEF ExtractNone, Extracted, ToNextTable
  <2>5. CASE ExtractFail(p)
    BY <2>0, <2>5 DEF ExtractFail, Goto
  <2>6. CASE WaitWorker(p)
    BY <2>0, <2>6 DEF WaitWorker, Goto, Waited
  <2>7. CASE Fork(p)
    BY <2>0, <2>7 DEF Fork
  <2>8. CASE ForkFail(p)
    BY <2>0, <2>8 DEF ForkFail, Goto
  <2>9. CASE StageTable(p)
    BY <2>0, <2>9 DEF StageTable, Goto, Staged
  <2>10. CASE StageFail(p)
    BY <2>0, <2>10 DEF StageFail, Goto, LearnColumns
  <2>11. CASE HandlerExit(p)
    BY <2>0, <2>11 DEF HandlerExit, Goto
  <2>12. CASE HandlerFail(p)
    BY <2>0, <2>12 DEF HandlerFail, Goto
  <2>13. CASE KillWorker(p)
    BY <2>0, <2>13 DEF KillWorker, Goto
  <2>14. CASE InlineTable(p)
    BY <2>0, <2>14 DEF InlineTable, LearnColumns, ToNextTable, Staged
  <2>15. CASE InlineFail(p)
    BY <2>0, <2>15 DEF InlineFail, Goto, LearnColumns
  <2>16. CASE LogInlineError(p)
    BY <2>0, <2>16 DEF LogInlineError, ToNextTable
  <2>17. CASE LogInlineFail(p)
    BY <2>0, <2>17 DEF LogInlineFail, Goto
  <2>18. CASE LogError(p)
    BY <2>0, <2>18 DEF LogError, ToNextTable
  <2>19. CASE Unwind(p)
    BY <2>0, <2>19 DEF Unwind, Goto, RemoveDir
  <2>20. CASE LastWait(p)
    BY <2>0, <2>20 DEF LastWait, Goto, Waited
  <2>21. CASE Finish(p)
    BY <2>0, <2>21 DEF Finish, Goto, RemoveDir
  <2>22. CASE FinishFail(p)
    BY <2>0, <2>22 DEF FinishFail, Goto, RemoveDir
  <2> QED
    BY <1>1, <2>1, <2>2, <2>3, <2>4, <2>5, <2>6, <2>7, <2>8, <2>9, <2>10, <2>11, <2>12, <2>13, <2>14, <2>15, <2>16, <2>17, <2>18, <2>19, <2>20, <2>21, <2>22 DEF Step
<1>2. ASSUME NEW p \in Procs, Step(p) PROVE PlaceInv'
  <2> USE DEF PlaceInv, InLoop, AfterLoop
  <2>0. /\ table \in [Procs -> 0..(NumTables + 1)] /\ pc \in [Procs -> Phases]
        /\ Main \in Procs /\ table[p] \in Nat /\ NumTables \in Nat \ {0}
        /\ \A t \in 0..(NumTables + 1) : t \in Tables <=> t # 0 /\ t # NumTables + 1
        /\ pc[p] \in InLoop \cup {"start"} => table[p] + 1 \in 1..(NumTables + 1)
        /\ table[p] < NumTables => table[p] + 1 \in Tables
        /\ NoTable = 0 /\ Parallel' = Parallel
    <3>1. Parallel' = Parallel
      BY <1>2, GivenStep
    <3>2. NumTables \in Nat \ {0} /\ Main \in Procs
      BY UpdateRunAssumption DEF Main, Procs
    <3>3. table \in [Procs -> 0..(NumTables + 1)] /\ pc \in [Procs -> Phases]
      BY DEF TypeOK
    <3>4. pc[p] \in InLoop \cup {"start"} => table[p] \in 0..NumTables
      <4>1. pc[p] \in InLoop => table[p] \in Tables
        BY DEF PlaceInv
      <4>2. pc[p] = "start" => table[p] = NoTable
        BY DEF PlaceInv
      <4> QED
        BY <3>2, <4>1, <4>2 DEF Tables, NoTable
    <3> QED
      BY <3>1, <3>2, <3>3, <3>4 DEF Tables, NoTable
  <2>1. CASE Start(p)
    BY <2>0, <2>1 DEF Start, ToNextTable
  <2>2. CASE SkipTable(p)
    BY <2>0, <2>2 DEF SkipTable, ToNextTable
  <2>3. CASE ExtractRows(p)
    BY <2>0, <2>3 DEF ExtractRows, Extracted, ToNextTable
  <2>4. CASE ExtractNone(p)
    BY <2>0, <2>4 DEF ExtractNone, Extracted, ToNextTable
  <2>5. CASE ExtractFail(p)
    BY <2>0, <2>5 DEF ExtractFail, Goto
  <2>6. CASE WaitWorker(p)
    BY <2>0, <2>6 DEF WaitWorker, Goto
  <2>7. CASE Fork(p)
    BY <2>0, <2>7 DEF Fork
  <2>8. CASE ForkFail(p)
    BY <2>0, <2>8 DEF ForkFail, Goto
  <2>9. CASE StageTable(p)
    BY <2>0, <2>9 DEF StageTable, Goto
  <2>10. CASE StageFail(p)
    BY <2>0, <2>10 DEF StageFail, Goto
  <2>11. CASE HandlerExit(p)
    BY <2>0, <2>11 DEF HandlerExit, Goto
  <2>12. CASE HandlerFail(p)
    BY <2>0, <2>12 DEF HandlerFail, Goto
  <2>13. CASE KillWorker(p)
    BY <2>0, <2>13 DEF KillWorker, Goto
  <2>14. CASE InlineTable(p)
    BY <2>0, <2>14 DEF InlineTable, ToNextTable
  <2>15. CASE InlineFail(p)
    BY <2>0, <2>15 DEF InlineFail, Goto
  <2>16. CASE LogInlineError(p)
    BY <2>0, <2>16 DEF LogInlineError, ToNextTable
  <2>17. CASE LogInlineFail(p)
    BY <2>0, <2>17 DEF LogInlineFail, Goto
  <2>18. CASE LogError(p)
    BY <2>0, <2>18 DEF LogError, ToNextTable
  <2>19. CASE Unwind(p)
    BY <2>0, <2>19 DEF Unwind, Goto
  <2>20. CASE LastWait(p)
    BY <2>0, <2>20 DEF LastWait, Goto
  <2>21. CASE Finish(p)
    BY <2>0, <2>21 DEF Finish, Goto
  <2>22. CASE FinishFail(p)
    BY <2>0, <2>22 DEF FinishFail, Goto
  <2> QED
    BY <1>2, <2>1, <2>2, <2>3, <2>4, <2>5, <2>6, <2>7, <2>8, <2>9, <2>10, <2>11,
       <2>12, <2>13, <2>14, <2>15, <2>16, <2>17, <2>18, <2>19, <2>20, <2>21, <2>22 DEF Step
<1>3. CASE UNCHANGED vars
  BY <1>3 DEF vars, TypeOK, PlaceInv, Parallel
<1> QED
  BY <1>1, <1>2, <1>3 DEF Next

\* Every variable always has its type, for any tables, sources and failures.
THEOREM TypeCorrect == Spec => []TypeOK
<1>1. TypeInv => TypeOK
  BY DEF TypeInv
<1> QED
  BY <1>1, TypeInit, TypeStep, PTL DEF Spec

-----------------------------------------------------------------------------
(* Processes                                                               *)

\* Where a process is that has read a table from a source.
LEMMA AfterSource ==
    ASSUME TypeInv, NEW p \in Procs, pc[p] = "extract", Extracted(p)
    PROVE  /\ \E x \in {"extract", "lastwait", "wait", "inline"} : pc' = [pc EXCEPT ![p] = x]
           /\ \E t \in {table[p], table[p] + 1} : table' = [table EXCEPT ![p] = t]
           /\ pc'[p] = "inline" => ~ Parallel
<1>1. pc \in [Procs -> Phases] /\ table \in [Procs -> 0..(NumTables + 1)]
  BY DEF TypeInv, TypeOK
<1>2. CASE pc' = pc /\ table' = table
  BY <1>1, <1>2
<1>3. CASE ToNextTable(p)
  BY <1>1, <1>3 DEF ToNextTable
<1>4. CASE table' = table /\ pc' = [pc EXCEPT ![p] = IF Parallel THEN "wait" ELSE "inline"]
  BY <1>1, <1>4
<1> QED
  BY <1>2, <1>3, <1>4 DEF Extracted

\* A step is one of one process, except that a fork begins another one.
LEMMA OneAtATime ==
    ASSUME TypeInv, NEW p \in Procs, Step(p), NEW q \in Procs \ {p}
    PROVE  /\ pc[q] # "unborn" => pc'[q] = pc[q] /\ table'[q] = table[q]
           /\ pc[q] = "unborn" /\ pc'[q] # "unborn" =>
                Fork(p) /\ pc'[q] = "stage" /\ table'[q] = table[p]
<1> USE DEF given, environment, place, workers
<1>0. pc \in [Procs -> Phases] /\ table \in [Procs -> 0..(NumTables + 1)]
  BY DEF TypeInv, TypeOK
<1>1. CASE Start(p)
  BY <1>0, <1>1 DEF Start, ToNextTable
<1>2. CASE SkipTable(p)
  BY <1>0, <1>2 DEF SkipTable, ToNextTable
<1>3. CASE ExtractRows(p)
  BY <1>0, AfterSource, <1>3 DEF ExtractRows
<1>4. CASE ExtractNone(p)
  BY <1>0, AfterSource, <1>4 DEF ExtractNone
<1>5. CASE ExtractFail(p)
  BY <1>0, <1>5 DEF ExtractFail, Goto
<1>6. CASE WaitWorker(p)
  BY <1>0, <1>6 DEF WaitWorker, Goto
<1>7. CASE Fork(p)
  BY <1>0, <1>7 DEF Fork
<1>8. CASE ForkFail(p)
  BY <1>0, <1>8 DEF ForkFail, Goto
<1>9. CASE StageTable(p)
  BY <1>0, <1>9 DEF StageTable, Goto
<1>10. CASE StageFail(p)
  BY <1>0, <1>10 DEF StageFail, Goto
<1>11. CASE HandlerExit(p)
  BY <1>0, <1>11 DEF HandlerExit, Goto
<1>12. CASE HandlerFail(p)
  BY <1>0, <1>12 DEF HandlerFail, Goto
<1>13. CASE KillWorker(p)
  BY <1>0, <1>13 DEF KillWorker, Goto
<1>14. CASE InlineTable(p)
  BY <1>0, <1>14 DEF InlineTable, ToNextTable
<1>15. CASE InlineFail(p)
  BY <1>0, <1>15 DEF InlineFail, Goto
<1>16. CASE LogInlineError(p)
  BY <1>0, <1>16 DEF LogInlineError, ToNextTable
<1>17. CASE LogInlineFail(p)
  BY <1>0, <1>17 DEF LogInlineFail, Goto
<1>18. CASE LogError(p)
  BY <1>0, <1>18 DEF LogError, ToNextTable
<1>19. CASE Unwind(p)
  BY <1>0, <1>19 DEF Unwind, Goto
<1>20. CASE LastWait(p)
  BY <1>0, <1>20 DEF LastWait, Goto
<1>21. CASE Finish(p)
  BY <1>0, <1>21 DEF Finish, Goto
<1>22. CASE FinishFail(p)
  BY <1>0, <1>22 DEF FinishFail, Goto
<1> QED
  BY <1>1, <1>2, <1>3, <1>4, <1>5, <1>6, <1>7, <1>8, <1>9, <1>10, <1>11, <1>12,
     <1>13, <1>14, <1>15, <1>16, <1>17, <1>18, <1>19, <1>20, <1>21, <1>22 DEF Step

\* The first process is the only one at first.
LEMMA FamilyInit == Init => FamilyInv
BY DEF Init, FamilyInv, Procs, Main, NoProc, NoTable

\* Numbers are given in order, and no process waits for a worker that has not ended.
LEMMA FamilyStep == TypeInv /\ FamilyInv /\ [Next]_vars => FamilyInv'
<1> SUFFICES ASSUME TypeInv, FamilyInv, [Next]_vars PROVE FamilyInv'
  OBVIOUS
<1> USE DEF FamilyInv, Dead, given, environment, place, workers
<1>1. ASSUME NEW p \in Procs, Step(p) PROVE FamilyInv'
  <2>0. /\ pc \in [Procs -> Phases] /\ parent \in [Procs -> Procs \cup {NoProc}]
        /\ workerFiles \in [Procs -> Tables \cup {NoTable}]
        /\ NoProc \notin Procs /\ Procs \subseteq Nat /\ Main \in Procs
    BY UpdateRunAssumption DEF TypeInv, TypeOK, Procs, NoProc, Main
  <2>1. CASE Start(p)
    BY <2>0, <2>1 DEF Start, ToNextTable
  <2>2. CASE SkipTable(p)
    BY <2>0, <2>2 DEF SkipTable, ToNextTable
  <2>3. CASE ExtractRows(p) \/ ExtractNone(p)
    <3>1. PICK x \in {"extract", "lastwait", "wait", "inline"} : pc' = [pc EXCEPT ![p] = x]
      BY <2>3, AfterSource DEF ExtractRows, ExtractNone
    <3>2. /\ pc[p] = "extract" /\ parent' = parent /\ reaped' = reaped
          /\ workerFiles' = workerFiles
      BY <2>3 DEF ExtractRows, ExtractNone
    <3> QED
      BY <2>0, <3>1, <3>2
  <2>5. CASE ExtractFail(p)
    BY <2>0, <2>5 DEF ExtractFail, Goto
  <2>6. CASE WaitWorker(p)
    BY <2>0, <2>6 DEF WaitWorker, Goto, Waited
  <2>7. CASE Fork(p)
    <3>1. PICK r \in Procs :
            /\ pc[p] = "fork" /\ pc[r] = "unborn" /\ \A o \in 1..(r - 1) : pc[o] # "unborn"
            /\ pc' = [pc EXCEPT ![r] = "stage",
                                ![p] = IF table[p] < NumTables THEN "extract" ELSE "lastwait"]
            /\ parent' = [parent EXCEPT ![r] = p]
            /\ workerFiles' = [workerFiles EXCEPT ![r] = workerFiles[p], ![p] = table[p]]
            /\ reaped' = reaped
      BY <2>7 DEF Fork
    <3>2. p < r /\ \A o \in Procs : o < r => pc[o] # "unborn"
      BY <2>0, <3>1 DEF Procs
    <3>3. \A q \in Procs : parent[q] # r
      BY <2>0, <3>1
    <3>4. \A q, o \in Procs : pc'[q] = "unborn" /\ q < o => pc'[o] = "unborn"
      BY <2>0, <3>1, <3>2
    <3>5. \A q \in Procs : parent'[q] \in Procs =>
            /\ parent'[q] < q
            /\ pc'[parent'[q]] \notin {"unborn", "start", "stage", "handler", "killed"}
      BY <2>0, <3>1, <3>2, <3>3
    <3>6. pc'[Main] = "start" => \A q \in Procs \ {Main} : pc'[q] = "unborn"
      BY <2>0, <3>1
    <3>7. \A q \in Procs : q \in reaped' => pc'[q] \in Dead
      BY <2>0, <3>1
    <3>8. \A q \in Procs : pc'[q] = "unborn" => parent'[q] = NoProc /\ workerFiles'[q] = NoTable
      BY <2>0, <3>1
    <3> QED
      BY <3>4, <3>5, <3>6, <3>7, <3>8
  <2>8. CASE ForkFail(p)
    BY <2>0, <2>8 DEF ForkFail, Goto
  <2>9. CASE StageTable(p)
    BY <2>0, <2>9 DEF StageTable, Goto
  <2>10. CASE StageFail(p)
    BY <2>0, <2>10 DEF StageFail, Goto
  <2>11. CASE HandlerExit(p)
    BY <2>0, <2>11 DEF HandlerExit, Goto
  <2>12. CASE HandlerFail(p)
    BY <2>0, <2>12 DEF HandlerFail, Goto
  <2>13. CASE KillWorker(p)
    BY <2>0, <2>13 DEF KillWorker, Goto
  <2>14. CASE InlineTable(p)
    BY <2>0, <2>14 DEF InlineTable, ToNextTable
  <2>15. CASE InlineFail(p)
    BY <2>0, <2>15 DEF InlineFail, Goto
  <2>16. CASE LogInlineError(p)
    BY <2>0, <2>16 DEF LogInlineError, ToNextTable
  <2>17. CASE LogInlineFail(p)
    BY <2>0, <2>17 DEF LogInlineFail, Goto
  <2>18. CASE LogError(p)
    BY <2>0, <2>18 DEF LogError, ToNextTable
  <2>19. CASE Unwind(p)
    BY <2>0, <2>19 DEF Unwind, Goto
  <2>20. CASE LastWait(p)
    BY <2>0, <2>20 DEF LastWait, Goto, Waited
  <2>21. CASE Finish(p)
    BY <2>0, <2>21 DEF Finish, Goto
  <2>22. CASE FinishFail(p)
    BY <2>0, <2>22 DEF FinishFail, Goto
  <2> QED
    BY <1>1, <2>1, <2>2, <2>3, <2>5, <2>6, <2>7, <2>8, <2>9, <2>10, <2>11,
       <2>12, <2>13, <2>14, <2>15, <2>16, <2>17, <2>18, <2>19, <2>20, <2>21, <2>22 DEF Step
<1>2. CASE UNCHANGED vars
  BY <1>2 DEF vars
<1> QED
  BY <1>1, <1>2 DEF Next

-----------------------------------------------------------------------------
(* One process runs the loop                                               *)

\* The files of a table are told from those of other tables.
LEMMA Files ==
    /\ \A t, present : FilesOf(t) \subseteq present <=> \A s \in Sources : <<t, s>> \in present
    /\ \A t, u, s, present : t # u /\ <<t, s>> \in present => <<t, s>> \in Deleted(present, u)
    /\ \A t : Cleared(t) <=> \E s \in Sources : <<t, s>> \notin hasRows
<1>1. \A t, present : FilesOf(t) \subseteq present <=> \A s \in Sources : <<t, s>> \in present
  BY DEF FilesOf
<1>2. \A t, u, s, present : t # u /\ <<t, s>> \in present => <<t, s>> \in Deleted(present, u)
  BY DEF FilesOf, Deleted
<1>3. \A t : Cleared(t) <=> \E s \in Sources : <<t, s>> \notin hasRows
  <2>1. \A t : Cleared(t) <=> ~ FilesOf(t) \subseteq hasRows
    BY DEF Cleared
  <2> QED
    BY <1>1, <2>1
<1> QED
  BY <1>1, <1>2, <1>3

\* Who deletes a file: the process that has read it, or the one that has forked
\* the worker of its table.
LEMMA FilesLost ==
    ASSUME TypeInv, NEW p \in Procs, Step(p), NEW t, NEW s, <<t, s>> \in files \ files'
    PROVE  \/ pc[p] = "start"
           \/ /\ ~ opt.savetemps /\ pc[p] \in {"extract", "inline"}
              /\ t = table[p] /\ table'[p] = t + 1
           \/ /\ ~ opt.savetemps /\ pc[p] \in {"wait", "lastwait"} /\ t = workerFiles[p]
              /\ pc'[p] \in {"fork", "finish"}
<1> USE DEF given, environment, place, workers
<1>0. pc \in [Procs -> Phases] /\ table \in [Procs -> 0..(NumTables + 1)]
  BY DEF TypeInv, TypeOK
<1>1. \A u, present : <<t, s>> \in present \ Deleted(present, u) => t = u /\ ~ opt.savetemps
  BY Files DEF Deleted
<1>2. pc[p] \notin {"start", "extract", "inline", "wait", "lastwait"} => files' = files
  BY DEF Step, Goto,
     Start, SkipTable, ExtractRows, ExtractNone, ExtractFail, WaitWorker, Fork,
     ForkFail, StageTable, StageFail, HandlerExit, HandlerFail, KillWorker,
     InlineTable, InlineFail, LogInlineError, LogInlineFail, LogError, Unwind,
     LastWait, Finish, FinishFail
<1>3. CASE ExtractRows(p)
  BY <1>0, <1>1, <1>3 DEF ExtractRows, Extracted, ToNextTable
<1>4. CASE ExtractNone(p)
  BY <1>0, <1>1, <1>4 DEF ExtractNone, Extracted, ToNextTable
<1>5. CASE ExtractFail(p)
  BY <1>5 DEF ExtractFail
<1>6. CASE WaitWorker(p)
  BY <1>0, <1>1, <1>6 DEF WaitWorker, Goto
<1>7. CASE InlineTable(p)
  BY <1>0, <1>1, <1>7 DEF InlineTable, ToNextTable
<1>8. CASE InlineFail(p)
  BY <1>8 DEF InlineFail
<1>9. CASE LastWait(p)
  BY <1>0, <1>1, <1>9 DEF LastWait, Goto
<1>10. CASE SkipTable(p)
  BY <1>10 DEF SkipTable
<1> QED
  BY <1>2, <1>3, <1>4, <1>5, <1>6, <1>7, <1>8, <1>9, <1>10 DEF Step, Goto,
     Start, Fork, ForkFail, StageTable, StageFail, HandlerExit, HandlerFail,
     KillWorker, LogInlineError, LogInlineFail, LogError, Unwind, Finish, FinishFail

\* Only a process that is alive takes a step.
LEMMA Acting ==
    ASSUME NEW p, Step(p)
    PROVE  Live(p)
BY DEF Step, Goto, Live, Dead,
   Start, SkipTable, ExtractRows, ExtractNone, ExtractFail, WaitWorker, Fork,
   ForkFail, StageTable, StageFail, HandlerExit, HandlerFail, KillWorker,
   InlineTable, InlineFail, LogInlineError, LogInlineFail, LogError, Unwind,
   LastWait, Finish, FinishFail

\* Which step leads to where.
LEMMA ReachedBy ==
    ASSUME TypeInv, NEW p \in Procs, Step(p)
    PROVE  /\ pc'[p] \notin {"unborn", "start", "stage"}
           /\ pc'[p] = "fork" => WaitWorker(p)
           /\ pc'[p] = "killed" => KillWorker(p)
           /\ pc'[p] = "finish" => LastWait(p)
           /\ pc'[p] = "exited" => StageTable(p) \/ HandlerExit(p) \/ Finish(p)
           /\ pc'[p] = "unwound" => Unwind(p) \/ FinishFail(p)
           /\ pc[p] = "start" => Start(p)
<1>0. pc \in [Procs -> Phases]
  BY DEF TypeInv, TypeOK
<1>1. CASE Start(p)
  BY <1>0, <1>1 DEF Start, ToNextTable
<1>2. CASE SkipTable(p)
  BY <1>0, <1>2 DEF SkipTable, ToNextTable
<1>3. CASE ExtractRows(p)
  BY <1>0, AfterSource, <1>3 DEF ExtractRows
<1>4. CASE ExtractNone(p)
  BY <1>0, AfterSource, <1>4 DEF ExtractNone
<1>5. CASE ExtractFail(p)
  BY <1>0, <1>5 DEF ExtractFail, Goto
<1>6. CASE WaitWorker(p)
  BY <1>0, <1>6 DEF WaitWorker, Goto
<1>7. CASE Fork(p)
  BY <1>0, <1>7 DEF Fork
<1>8. CASE ForkFail(p)
  BY <1>0, <1>8 DEF ForkFail, Goto
<1>9. CASE StageTable(p)
  BY <1>0, <1>9 DEF StageTable, Goto
<1>10. CASE StageFail(p)
  BY <1>0, <1>10 DEF StageFail, Goto
<1>11. CASE HandlerExit(p)
  BY <1>0, <1>11 DEF HandlerExit, Goto
<1>12. CASE HandlerFail(p)
  BY <1>0, <1>12 DEF HandlerFail, Goto
<1>13. CASE KillWorker(p)
  BY <1>0, <1>13 DEF KillWorker, Goto
<1>14. CASE InlineTable(p)
  BY <1>0, <1>14 DEF InlineTable, ToNextTable
<1>15. CASE InlineFail(p)
  BY <1>0, <1>15 DEF InlineFail, Goto
<1>16. CASE LogInlineError(p)
  BY <1>0, <1>16 DEF LogInlineError, ToNextTable
<1>17. CASE LogInlineFail(p)
  BY <1>0, <1>17 DEF LogInlineFail, Goto
<1>18. CASE LogError(p)
  BY <1>0, <1>18 DEF LogError, ToNextTable
<1>19. CASE Unwind(p)
  BY <1>0, <1>19 DEF Unwind, Goto
<1>20. CASE LastWait(p)
  BY <1>0, <1>20 DEF LastWait, Goto
<1>21. CASE Finish(p)
  BY <1>0, <1>21 DEF Finish, Goto
<1>22. CASE FinishFail(p)
  BY <1>0, <1>22 DEF FinishFail, Goto
<1> QED
  BY <1>1, <1>2, <1>3, <1>4, <1>5, <1>6, <1>7, <1>8, <1>9, <1>10, <1>11, <1>12,
     <1>13, <1>14, <1>15, <1>16, <1>17, <1>18, <1>19, <1>20, <1>21, <1>22 DEF Step

\* How far another process has read is its own.
LEMMA SourceBy ==
    ASSUME TypeInv, NEW p \in Procs, Step(p), NEW q \in Procs \ {p}
    PROVE  source'[q] = source[q]
<1>0. source \in [Procs -> Sources]
  BY DEF TypeInv, TypeOK
<1>1. source' = source \/ source' = [source EXCEPT ![p] = 1]
      \/ source' = [source EXCEPT ![p] = @ + 1]
  BY DEF Step, ToNextTable, Extracted, place,
     Start, SkipTable, ExtractRows, ExtractNone, ExtractFail, WaitWorker, Fork,
     ForkFail, StageTable, StageFail, HandlerExit, HandlerFail, KillWorker,
     InlineTable, InlineFail, LogInlineError, LogInlineFail, LogError, Unwind,
     LastWait, Finish, FinishFail
<1> QED
  BY <1>0, <1>1

\* What changes a main table: its clearing, and its staging.
LEMMA PublishedBy ==
    ASSUME TypeInv, NEW p \in Procs, Step(p), NEW t \in Tables
    PROVE  \/ published'[t] = published[t]
           \/ t = table[p] /\ (ExtractNone(p) \/ StageTable(p) \/ InlineTable(p))
<1>1. published \in [Tables -> {"old", "new", "partial", "cleared"}]
  BY DEF TypeInv, TypeOK
<1> QED
  BY <1>1 DEF Step, environment,
     Start, SkipTable, ExtractRows, ExtractNone, ExtractFail, WaitWorker, Fork,
     ForkFail, StageTable, StageFail, HandlerExit, HandlerFail, KillWorker,
     InlineTable, InlineFail, LogInlineError, LogInlineFail, LogError, Unwind,
     LastWait, Finish, FinishFail

\* When a process comes to another table.
LEMMA TableBy ==
    ASSUME TypeInv, NEW p \in Procs, Step(p), table'[p] # table[p]
    PROVE  /\ table'[p] = table[p] + 1 /\ source'[p] = 1
           /\ pc'[p] = IF table[p] < NumTables THEN "extract" ELSE "lastwait"
<1> USE DEF given, environment, place, workers
<1>0. /\ pc \in [Procs -> Phases] /\ table \in [Procs -> 0..(NumTables + 1)]
      /\ source \in [Procs -> Sources]
  BY DEF TypeInv, TypeOK
<1>1. ~ ToNextTable(p) => Fork(p)
  BY <1>0 DEF Step, ToNextTable, Extracted, Goto,
     Start, SkipTable, ExtractRows, ExtractNone, ExtractFail, WaitWorker, Fork,
     ForkFail, StageTable, StageFail, HandlerExit, HandlerFail, KillWorker,
     InlineTable, InlineFail, LogInlineError, LogInlineFail, LogError, Unwind,
     LastWait, Finish, FinishFail
<1>2. CASE Fork(p)
  BY <1>0, <1>2 DEF Fork
<1>3. CASE ToNextTable(p)
  BY <1>0, <1>3 DEF ToNextTable
<1> QED
  BY <1>1, <1>2, <1>3

\* What a process remembers of its worker.
LEMMA WorkerFilesBy ==
    ASSUME TypeInv, NEW p \in Procs, Step(p)
    PROVE  /\ \/ workerFiles'[p] \in {workerFiles[p], NoTable}
              \/ Fork(p) /\ workerFiles'[p] = table[p]
           /\ \A q \in Procs \ {p} : pc[q] # "unborn" =>
                workerFiles'[q] = workerFiles[q] /\ workerPid'[q] = workerPid[q]
           /\ workerPid'[p] = workerPid[p] \/ Fork(p) \/ WaitWorker(p)
           /\ workerFiles'[p] = workerFiles[p] \/ Fork(p) \/ WaitWorker(p) \/ LastWait(p)
<1> USE DEF workers
<1>0. /\ workerFiles \in [Procs -> Tables \cup {NoTable}]
      /\ workerPid \in [Procs -> Procs \cup {NoProc}]
  BY DEF TypeInv, TypeOK
<1>1. CASE Fork(p)
  <2>1. PICK r \in Procs :
          /\ pc[r] = "unborn"
          /\ workerPid' = [workerPid EXCEPT ![r] = workerPid[p], ![p] = r]
          /\ workerFiles' = [workerFiles EXCEPT ![r] = workerFiles[p], ![p] = table[p]]
    BY <1>1 DEF Fork
  <2> QED
    BY <1>0, <1>1, <2>1
<1>2. CASE WaitWorker(p)
  BY <1>0, <1>2 DEF WaitWorker
<1>3. CASE LastWait(p)
  BY <1>0, <1>3 DEF LastWait
<1>4. \/ workerFiles' = workerFiles /\ workerPid' = workerPid
      \/ Fork(p) \/ WaitWorker(p) \/ LastWait(p)
  BY DEF Step,
     Start, SkipTable, ExtractRows, ExtractNone, ExtractFail, ForkFail, StageTable,
     StageFail, HandlerExit, HandlerFail, KillWorker, InlineTable, InlineFail,
     LogInlineError, LogInlineFail, LogError, Unwind, Finish, FinishFail
<1> QED
  BY <1>1, <1>2, <1>3, <1>4

\* What the first process learns of the columns: those of the tables it stages itself.
LEMMA ColumnsBy ==
    ASSUME TypeInv, NEW p \in Procs, Step(p)
    PROVE  \/ columns'[Main] = columns[Main]
           \/ /\ p = Main /\ (InlineTable(p) \/ InlineFail(p))
              /\ columns'[Main] = columns[Main] \cup {table[Main]}
<1> USE DEF place
<1>0. columns \in [Procs -> SUBSET Tables] /\ Main \in Procs /\ pc[Main] \notin {"stage", "unborn"}
  BY UpdateRunAssumption DEF TypeInv, TypeOK, PlaceInv, Procs, Main
<1>1. CASE Fork(p)
  BY <1>0, <1>1 DEF Fork
<1>2. CASE StageFail(p)
  BY <1>0, <1>2 DEF StageFail, Goto, LearnColumns
<1>3. CASE InlineTable(p)
  BY <1>0, <1>3 DEF InlineTable, LearnColumns
<1>4. CASE InlineFail(p)
  BY <1>0, <1>4 DEF InlineFail, LearnColumns
<1>5. columns' = columns \/ Fork(p) \/ StageFail(p) \/ InlineTable(p) \/ InlineFail(p)
  BY DEF Step,
     Start, SkipTable, ExtractRows, ExtractNone, ExtractFail, WaitWorker, ForkFail,
     StageTable, HandlerExit, HandlerFail, KillWorker, LogInlineError,
     LogInlineFail, LogError, Unwind, LastWait, Finish, FinishFail
<1> QED
  BY <1>1, <1>2, <1>3, <1>4, <1>5

\* The first process comes to one table after the other, and failed tables stay failed.
LEMMA MainTable ==
    ASSUME TypeInv, NEW p \in Procs, Step(p)
    PROVE  /\ Main \in Procs /\ table[Main] \in Nat /\ table'[Main] \in Nat
           /\ table'[Main] \in {table[Main], table[Main] + 1}
           /\ p # Main => table'[Main] = table[Main] /\ pc'[Main] = pc[Main]
           /\ failed \subseteq failed'
<1>0. Main \in Procs /\ NumTables \in Nat /\ table \in [Procs -> 0..(NumTables + 1)]
  BY UpdateRunAssumption DEF TypeInv, TypeOK, Procs, Main
<1>1. p = Main => table'[Main] \in {table[Main], table[Main] + 1}
  BY <1>0, TableBy
<1>2. p # Main => table'[Main] = table[Main] /\ pc'[Main] = pc[Main]
  <2>1. pc[Main] # "unborn"
    BY <1>0 DEF TypeInv, PlaceInv
  <2> QED
    BY <1>0, <2>1, OneAtATime
<1>3. failed \subseteq failed'
  BY DEF Step, environment,
     Start, SkipTable, ExtractRows, ExtractNone, ExtractFail, WaitWorker, Fork,
     ForkFail, StageTable, StageFail, HandlerExit, HandlerFail, KillWorker,
     InlineTable, InlineFail, LogInlineError, LogInlineFail, LogError, Unwind,
     LastWait, Finish, FinishFail
<1> QED
  BY <1>0, <1>1, <1>2, <1>3

\* The steps that bring a process to another table, and those that do not.
LEMMA MovesOn ==
    ASSUME TypeInv, NEW p \in Procs, Step(p)
    PROVE  /\ table'[p] # table[p] =>
                \/ Start(p) \/ SkipTable(p) \/ ExtractRows(p) \/ ExtractNone(p) \/ Fork(p)
                \/ InlineTable(p) \/ LogInlineError(p) \/ LogError(p)
           /\ table'[p] = table[p] /\ pc'[p] \in {"extract", "wait", "fork", "inline"} =>
                ExtractRows(p) \/ ExtractNone(p) \/ WaitWorker(p)
<1>0. /\ pc \in [Procs -> Phases] /\ table \in [Procs -> 0..(NumTables + 1)]
      /\ table[p] \in Nat
  BY UpdateRunAssumption DEF TypeInv, TypeOK
<1>1. table'[p] = table[p] => ~ ToNextTable(p) /\ ~ Fork(p)
  BY <1>0 DEF ToNextTable, Fork
<1>2. table'[p] # table[p] =>
        \/ Start(p) \/ SkipTable(p) \/ ExtractRows(p) \/ ExtractNone(p) \/ Fork(p)
        \/ InlineTable(p) \/ LogInlineError(p) \/ LogError(p)
  BY DEF Step, place,
     ExtractFail, WaitWorker, ForkFail, StageTable, StageFail, HandlerExit,
     HandlerFail, KillWorker, InlineFail, LogInlineFail, Unwind, LastWait, Finish,
     FinishFail
<1>3. ASSUME table'[p] = table[p], pc'[p] \in {"extract", "wait", "fork", "inline"}
      PROVE  ExtractRows(p) \/ ExtractNone(p) \/ WaitWorker(p)
  BY <1>0, <1>1, <1>3 DEF Step, Goto,
     Start, SkipTable, ExtractFail, ForkFail, StageTable, StageFail, HandlerExit,
     HandlerFail, KillWorker, InlineTable, InlineFail, LogInlineError,
     LogInlineFail, LogError, Unwind, LastWait, Finish, FinishFail
<1> QED
  BY <1>2, <1>3

\* The steps of the first process.
LEMMA MainSteps ==
    ASSUME TypeInv, Step(Main)
    PROVE
        \/ Start(Main)
        \/ SkipTable(Main)
        \/ ExtractRows(Main)
        \/ ExtractNone(Main)
        \/ ExtractFail(Main)
        \/ WaitWorker(Main)
        \/ Fork(Main)
        \/ ForkFail(Main)
        \/ InlineTable(Main)
        \/ InlineFail(Main)
        \/ LogInlineError(Main)
        \/ LogInlineFail(Main)
        \/ LogError(Main)
        \/ Unwind(Main)
        \/ LastWait(Main)
        \/ Finish(Main)
        \/ FinishFail(Main)
<1>1. pc[Main] \notin {"stage", "handler"}
  BY UpdateRunAssumption DEF TypeInv, PlaceInv, Procs, Main
<1> QED
  BY <1>1 DEF Step, Goto, StageTable, StageFail, HandlerExit, HandlerFail, KillWorker

\* The steps of a worker that does not leave its branch of the fork.
LEMMA WorkerSteps ==
    ASSUME TypeInv, WorkerInv, Calm', NEW p \in Procs, Step(p), p # Main
    PROVE  StageTable(p) \/ StageFail(p) \/ HandlerExit(p) \/ KillWorker(p)
<1>1. pc[p] \in {"unborn", "stage", "handler", "exited", "killed"}
  BY DEF WorkerInv
<1>2. ~ HandlerFail(p)
  <2> SUFFICES ASSUME HandlerFail(p) PROVE FALSE
    OBVIOUS
  <2>1. failures = 1 /\ failures' = 2 /\ Parallel
    BY DEF HandlerFail, Goto, Failure, WorkerInv, TypeInv, PlaceInv
  <2>2. Parallel' = Parallel
    BY GivenStep
  <2> QED
    BY <2>1, <2>2 DEF Calm
<1> QED
  BY <1>1, <1>2 DEF Step, Goto,
     Start, SkipTable, ExtractRows, ExtractNone, ExtractFail, WaitWorker, Fork,
     ForkFail, InlineTable, InlineFail, LogInlineError, LogInlineFail, LogError,
     Unwind, LastWait, Finish, FinishFail

\* The first process waits for its worker before it forks another one, or leaves
\* the loop.
LEMMA WorkerStep ==
    ASSUME TypeInv, FamilyInv, Calm, Calm', WorkerInv, TableInv, NEW p \in Procs, Step(p)
    PROVE  WorkerInv'
<1> USE DEF given, environment, place, workers, Dead
<1>0. /\ pc \in [Procs -> Phases] /\ table \in [Procs -> 0..(NumTables + 1)]
      /\ parent \in [Procs -> Procs \cup {NoProc}]
      /\ workerPid \in [Procs -> Procs \cup {NoProc}]
      /\ Main \in Procs /\ NoProc \notin Procs /\ \A q \in Procs : table[q] \in Nat
      /\ failures \in Nat /\ reaped \subseteq Procs
      /\ \A q \in Procs \ {Main} : pc[q] # "unborn" => Parallel
      /\ \A q \in Procs \ {Main} : pc[q] = "handler" => ~ Failure
      /\ \A q \in Procs \ {Main} : pc[q] # "unborn" /\ Failure => failures' = 1
  <2>1. /\ pc \in [Procs -> Phases] /\ table \in [Procs -> 0..(NumTables + 1)]
        /\ parent \in [Procs -> Procs \cup {NoProc}]
        /\ workerPid \in [Procs -> Procs \cup {NoProc}]
        /\ Main \in Procs /\ NoProc \notin Procs /\ \A q \in Procs : table[q] \in Nat
        /\ failures \in Nat /\ reaped \subseteq Procs
    BY UpdateRunAssumption DEF TypeInv, TypeOK, Procs, Main, NoProc
  <2>2. \A q \in Procs \ {Main} : pc[q] # "unborn" => Parallel
    BY DEF TypeInv, PlaceInv
  <2>3. Parallel' = Parallel
    BY GivenStep
  <2>4. \A q \in Procs \ {Main} : pc[q] = "handler" => ~ Failure
    BY <2>2, <2>3 DEF WorkerInv, Failure, Calm
  <2>5. \A q \in Procs \ {Main} : pc[q] # "unborn" /\ Failure => failures' = 1
    BY <2>1, <2>2, <2>3 DEF Failure, Calm
  <2> QED
    BY <2>1, <2>2, <2>4, <2>5
<1>1. ASSUME NEW q \in Procs \ {Main}
      PROVE  /\ pc'[q] \in {"unborn", "stage", "handler", "exited", "killed"}
             /\ pc'[q] = "handler" => failures' = 1
             /\ Active(q)' =>
                /\ workerPid'[Main] = q /\ parent'[q] = Main /\ q \notin reaped'
                /\ pc'[Main] \in {"extract", "wait", "error", "lastwait"}
                /\ table'[q] < table'[Main]
  <2> USE <1>0 DEF WorkerInv, Active
  <2>1. CASE p = Main
    <3>0. Step(Main)
      BY <2>1
    <3>1. CASE Start(Main)
      BY <2>1, <3>1 DEF Start, ToNextTable
    <3>2. CASE SkipTable(Main)
      BY <2>1, <3>2 DEF SkipTable, ToNextTable
    <3>3. CASE ExtractRows(Main)
      <4>1. PICK x \in {"extract", "lastwait", "wait", "inline"} : pc' = [pc EXCEPT ![Main] = x]
        BY <3>3, AfterSource DEF ExtractRows
      <4>2. PICK t \in {table[Main], table[Main] + 1} : table' = [table EXCEPT ![Main] = t]
        BY <3>3, AfterSource DEF ExtractRows
      <4>3. pc'[Main] = "inline" => ~ Parallel
        BY <3>3, AfterSource DEF ExtractRows
      <4> QED
        BY <2>1, <3>3, <4>1, <4>2, <4>3 DEF ExtractRows
    <3>4. CASE ExtractNone(Main)
      <4>1. PICK x \in {"extract", "lastwait", "wait", "inline"} : pc' = [pc EXCEPT ![Main] = x]
        BY <3>4, AfterSource DEF ExtractNone
      <4>2. PICK t \in {table[Main], table[Main] + 1} : table' = [table EXCEPT ![Main] = t]
        BY <3>4, AfterSource DEF ExtractNone
      <4>3. pc'[Main] = "inline" => ~ Parallel
        BY <3>4, AfterSource DEF ExtractNone
      <4> QED
        BY <2>1, <3>4, <4>1, <4>2, <4>3 DEF ExtractNone
    <3>5. CASE ExtractFail(Main)
      BY <2>1, <3>5 DEF ExtractFail, Goto
    <3>6. CASE WaitWorker(Main)
      BY <2>1, <3>6 DEF WaitWorker, Goto, Waited
    <3>7. CASE Fork(Main)
      <4>1. PICK r \in Procs :
              /\ pc[Main] = "fork" /\ pc[r] = "unborn"
              /\ pc' = [pc EXCEPT ![r] = "stage",
                                  ![Main] = IF table[Main] < NumTables THEN "extract"
                                            ELSE "lastwait"]
              /\ table' = [table EXCEPT ![r] = table[Main], ![Main] = @ + 1]
              /\ parent' = [parent EXCEPT ![r] = Main]
              /\ workerPid' = [workerPid EXCEPT ![r] = workerPid[Main], ![Main] = r]
        BY <3>7 DEF Fork
      <4>2. reaped' = reaped /\ failures' = failures /\ r \notin reaped
        BY <3>7, <4>1 DEF Fork, FamilyInv
      <4> QED
        BY <4>1, <4>2
    <3>8. CASE ForkFail(Main)
      BY <2>1, <3>8 DEF ForkFail, Goto
    <3>9. CASE InlineTable(Main)
      BY <2>1, <3>9 DEF InlineTable, ToNextTable
    <3>10. CASE InlineFail(Main)
      BY <2>1, <3>10 DEF InlineFail, Goto
    <3>11. CASE LogInlineError(Main)
      BY <2>1, <3>11 DEF LogInlineError, ToNextTable
    <3>12. CASE LogInlineFail(Main)
      BY <2>1, <3>12 DEF LogInlineFail, Goto
    <3>13. CASE LogError(Main)
      BY <2>1, <3>13 DEF LogError, ToNextTable
    <3>14. CASE Unwind(Main)
      BY <2>1, <3>14 DEF Unwind, Goto, Failure
    <3>15. CASE LastWait(Main)
      BY <2>1, <3>15 DEF LastWait, Goto, Waited, Parallel
    <3>16. CASE Finish(Main)
      BY <2>1, <3>16 DEF Finish, Goto
    <3>17. CASE FinishFail(Main)
      BY <2>1, <3>17 DEF FinishFail, Goto
    <3> QED
      BY <3>0, MainSteps, <3>1, <3>2, <3>3, <3>4, <3>5, <3>6, <3>7, <3>8, <3>9,
         <3>10, <3>11, <3>12, <3>13, <3>14, <3>15, <3>16, <3>17
  <2>2. CASE p # Main
    <3>1. CASE StageTable(p)
      BY <2>2, <3>1 DEF StageTable, Goto
    <3>2. CASE StageFail(p)
      BY <2>2, <3>2 DEF StageFail, Goto
    <3>3. CASE HandlerExit(p)
      BY <2>2, <3>3 DEF HandlerExit, Goto
    <3>4. CASE KillWorker(p)
      BY <2>2, <3>4 DEF KillWorker, Goto
    <3> QED
      BY <2>2, WorkerSteps, <3>1, <3>2, <3>3, <3>4
  <2> QED
    BY <2>1, <2>2
<1>2. ASSUME NEW q \in Procs \ {Main}, pc'[q] = "stage"
      PROVE  Stageable(table[q])'
  <2>0. /\ \A t : Stageable(t) => ~ Cleared(t)' /\ ~ opt'.extract_only
        /\ \A t : FilesOf(t) \subseteq files' /\ Stageable(t) => Stageable(t)'
    BY GivenStep DEF Stageable
  <2>1. CASE pc[q] = "stage"
    <3>1. Active(q) /\ Stageable(table[q])
      BY <2>1 DEF WorkerInv, Active
    <3>2. p # q
      BY <1>0, <1>2, <2>1, WorkerSteps DEF StageTable, StageFail, HandlerExit, KillWorker, Goto
    <3>3. table'[q] = table[q]
      BY <2>1, <3>2, OneAtATime
    <3>4. ASSUME NEW s \in Sources, <<table[q], s>> \notin files' PROVE FALSE
      <4>1. <<table[q], s>> \in files
        BY <3>1, Files DEF Stageable
      <4>2. p = Main
        BY <1>0, <3>4, <4>1, WorkerSteps
        DEF StageTable, StageFail, HandlerExit, KillWorker, environment
      <4>3. /\ pc[Main] \in {"extract", "wait", "error", "lastwait"} /\ table[q] < table[Main]
            /\ pc'[Main] \in {"extract", "wait", "error", "lastwait"}
        BY <1>1, <1>2, <3>1 DEF WorkerInv, Active
      <4> QED
        BY <1>0, <3>4, <4>1, <4>2, <4>3, FilesLost
    <3> QED
      BY <2>0, <3>1, <3>3, <3>4, Files
  <2>2. CASE pc[q] # "stage"
    <3>1. p = Main
      BY <1>0, <1>2, <2>2, WorkerSteps DEF StageTable, StageFail, HandlerExit, KillWorker, Goto
    <3>2. Fork(p) /\ table'[q] = table[p]
      BY <1>2, <2>2, <3>1, OneAtATime
    <3>3. pc[Main] = "fork" /\ files' = files
      BY <3>1, <3>2 DEF Fork
    <3> QED
      BY <2>0, <3>1, <3>2, <3>3 DEF TableInv, Stageable
  <2> QED
    BY <2>1, <2>2
<1>3. /\ pc'[Main] \notin {"start", "exited", "unwound"} => dir'
      /\ pc'[Main] = "error" => failures' >= 1
  <2> USE <1>0 DEF WorkerInv
  <2>1. CASE p = Main
    <3>0. Step(Main)
      BY <2>1
    <3>1. CASE Start(Main)
      BY <2>1, <3>1 DEF Start, ToNextTable
    <3>2. CASE SkipTable(Main)
      BY <2>1, <3>2 DEF SkipTable, ToNextTable
    <3>3. CASE ExtractRows(Main)
      BY <2>1, AfterSource, <3>3 DEF ExtractRows
    <3>4. CASE ExtractNone(Main)
      BY <2>1, AfterSource, <3>4 DEF ExtractNone
    <3>5. CASE ExtractFail(Main)
      BY <2>1, <3>5 DEF ExtractFail, Goto, Failure
    <3>6. CASE WaitWorker(Main)
      BY <2>1, <3>6 DEF WaitWorker, Goto
    <3>7. CASE Fork(Main)
      BY <2>1, <3>7 DEF Fork
    <3>8. CASE ForkFail(Main)
      BY <2>1, <3>8 DEF ForkFail, Goto, Failure
    <3>9. CASE InlineTable(Main)
      BY <2>1, <3>9 DEF InlineTable, ToNextTable
    <3>10. CASE InlineFail(Main)
      BY <2>1, <3>10 DEF InlineFail, Goto
    <3>11. CASE LogInlineError(Main)
      BY <2>1, <3>11 DEF LogInlineError, ToNextTable
    <3>12. CASE LogInlineFail(Main)
      BY <2>1, <3>12 DEF LogInlineFail, Goto, Failure
    <3>13. CASE LogError(Main)
      BY <2>1, <3>13 DEF LogError, ToNextTable
    <3>14. CASE Unwind(Main)
      BY <2>1, <3>14 DEF Unwind, Goto
    <3>15. CASE LastWait(Main)
      BY <2>1, <3>15 DEF LastWait, Goto
    <3>16. CASE Finish(Main)
      BY <2>1, <3>16 DEF Finish, Goto
    <3>17. CASE FinishFail(Main)
      BY <2>1, <3>17 DEF FinishFail, Goto
    <3> QED
      BY <3>0, MainSteps, <3>1, <3>2, <3>3, <3>4, <3>5, <3>6, <3>7, <3>8, <3>9,
         <3>10, <3>11, <3>12, <3>13, <3>14, <3>15, <3>16, <3>17
  <2>2. CASE p # Main
    <3>1. CASE StageTable(p)
      BY <2>2, <3>1 DEF StageTable, Goto
    <3>2. CASE StageFail(p)
      BY <2>2, <3>2 DEF StageFail, Goto, Failure
    <3>3. CASE HandlerExit(p)
      BY <2>2, <3>3 DEF HandlerExit, Goto
    <3>4. CASE KillWorker(p)
      BY <2>2, <3>4 DEF KillWorker, Goto, Failure
    <3> QED
      BY <2>2, WorkerSteps, <3>1, <3>2, <3>3, <3>4
  <2> QED
    BY <2>1, <2>2
<1> QED
  BY <1>1, <1>2, <1>3 DEF WorkerInv, Active

\* A table that has been read is known by what its sources had.
LEMMA ReadStep ==
    ASSUME TypeInv, TableInv, ExtractRows(Main) \/ ExtractNone(Main)
    PROVE  LET t == table[Main]
               read == {s \in Sources : s < source[Main] + 1}
           IN  /\ published'[t] =
                    IF \A s \in read : <<t, s>> \in hasRows THEN "old" ELSE "cleared"
               /\ table'[Main] = t => \A s \in read : <<t, s>> \in files'
               /\ source'[Main] = source[Main] + 1 \/ source[Main] = NumSources
               /\ source[Main] = NumSources =>
                    ((\A s \in read : <<t, s>> \in hasRows) <=> ~ Cleared(t))
<1> DEFINE t == table[Main]
           before == {s \in Sources : s < source[Main]}
           read == {s \in Sources : s < source[Main] + 1}
<1>0. /\ Sources = 1..NumSources /\ NumSources \in Nat /\ source[Main] \in Sources
      /\ Main \in Procs /\ t \in Tables
      /\ table \in [Procs -> 0..(NumTables + 1)] /\ source \in [Procs -> Sources]
      /\ published \in [Tables -> {"old", "new", "partial", "cleared"}]
  BY UpdateRunAssumption
  DEF TypeInv, TypeOK, PlaceInv, InLoop, ExtractRows, ExtractNone, Sources, Main, Procs
<1>1. read = before \cup {source[Main]}
  BY <1>0
<1>2. /\ \A s \in before : <<t, s>> \in files
      /\ published[t] = IF \A s \in before : <<t, s>> \in hasRows THEN "old" ELSE "cleared"
  BY DEF TableInv, ExtractRows, ExtractNone
<1>3. published'[t] = IF \A s \in read : <<t, s>> \in hasRows THEN "old" ELSE "cleared"
  <2>1. CASE ExtractRows(Main)
    BY <1>1, <1>2, <2>1 DEF ExtractRows
  <2>2. CASE ExtractNone(Main)
    BY <1>0, <1>1, <1>2, <2>2 DEF ExtractNone
  <2> QED
    BY <2>1, <2>2
<1>4. table'[Main] = t => files' = files \cup {<<t, source[Main]>>}
  BY <1>0 DEF ExtractRows, ExtractNone, Extracted, ToNextTable
<1>5. source'[Main] = source[Main] + 1 \/ source[Main] = NumSources
  BY <1>0 DEF ExtractRows, ExtractNone, Extracted
<1>6. source[Main] = NumSources => read = Sources
  BY <1>0
<1> HIDE DEF t, before, read
<1>7. table'[Main] = t => \A s \in read : <<t, s>> \in files'
  BY <1>1, <1>2, <1>4
<1>8. source[Main] = NumSources => ((\A s \in read : <<t, s>> \in hasRows) <=> ~ Cleared(t))
  BY <1>6, Files
<1> QED
  BY <1>3, <1>5, <1>7, <1>8 DEF t, read

\* The first process accounts for one table after the other.
LEMMA TableStep ==
    ASSUME TypeInv, TypeInv', Calm', WorkerInv, TableInv, NEW p \in Procs, Step(p)
    PROVE  TableInv'
<1>0. /\ pc \in [Procs -> Phases] /\ table \in [Procs -> 0..(NumTables + 1)]
      /\ workerFiles \in [Procs -> Tables \cup {NoTable}]
      /\ NumTables \in Nat /\ Main \in Procs /\ table[Main] \in Nat
      /\ Tables \subseteq Nat /\ NoTable = 0
      /\ \A s \in Sources : s \in Nat /\ s >= 1
      /\ source[Main] < NumSources \/ source[Main] = NumSources
      /\ workerFiles[Main] \in Nat
  <2>1. Sources = 1..NumSources /\ NumSources \in Nat /\ Main \in Procs
    BY UpdateRunAssumption DEF Sources, Main, Procs
  <2>2. source[Main] \in Sources
    BY <2>1 DEF TypeInv, TypeOK
  <2>3. \A s \in Sources : s \in Nat /\ s >= 1 /\ (s < NumSources \/ s = NumSources)
    BY <2>1
  <2>4. workerFiles[Main] \in Tables \cup {NoTable}
    BY <2>1 DEF TypeInv, TypeOK
  <2>5. Tables \subseteq Nat /\ NoTable = 0 /\ 0 \in Nat
    BY UpdateRunAssumption DEF Tables, NoTable
  <2>6. workerFiles[Main] \in Nat
    BY <2>4, <2>5
  <2> QED
    BY <2>1, <2>2, <2>3, <2>5, <2>6, UpdateRunAssumption DEF TypeInv, TypeOK, Tables
<1>1. /\ table'[Main] \in Nat /\ table'[Main] \in {table[Main], table[Main] + 1}
      /\ p # Main => table'[Main] = table[Main] /\ pc'[Main] = pc[Main]
  BY MainTable
<1>w. ASSUME p # Main
      PROVE  /\ StageTable(p) \/ StageFail(p) \/ HandlerExit(p) \/ KillWorker(p)
             /\ files' = files /\ source' = source /\ workerFiles' = workerFiles
             /\ table[p] < table[Main]
  <2>1. StageTable(p) \/ StageFail(p) \/ HandlerExit(p) \/ KillWorker(p)
    BY <1>w, WorkerSteps
  <2> QED
    BY <1>w, <2>1
    DEF StageTable, StageFail, HandlerExit, KillWorker, Goto, WorkerInv, Active, environment,
        place, workers
<1>2. ASSUME NEW t \in Tables \ (Skipped \cup failed)', t < table'[Main]
      PROVE  \/ published'[t] = Outcome(t)'
             \/ \E q \in Procs \ {Main} : pc'[q] = "stage" /\ table'[q] = t
  <2>0. /\ Outcome(t)' = Outcome(t) /\ Skipped' = Skipped
        /\ t \notin Skipped /\ t \notin failed /\ t \notin failed'
    <3>1. /\ opt' = opt /\ hasRows' = hasRows /\ Skipped' = Skipped
          /\ \A u : Cleared(u)' = Cleared(u)
      BY GivenStep
    <3>2. failed \subseteq failed'
      BY MainTable
    <3> QED
      BY <1>2, <3>1, <3>2 DEF Outcome
  <2>1. CASE t < table[Main] /\ published[t] = Outcome(t)
    <3>1. StageTable(p) /\ p # Main /\ t = table[p] => published'[t] = Outcome(t)
      BY DEF StageTable, Goto, WorkerInv, Stageable, Staged, Outcome, TypeInv, TypeOK
    <3>2. p # Main => ~ ExtractNone(p) /\ ~ InlineTable(p)
      BY DEF ExtractNone, InlineTable, WorkerInv
    <3>3. p = Main => t # table[p]
      BY <1>0, <2>1
    <3> QED
      BY <2>0, <2>1, <3>1, <3>2, <3>3, PublishedBy
  <2>2. CASE t < table[Main] /\ published[t] # Outcome(t)
    <3>1. PICK q \in Procs \ {Main} : pc[q] = "stage" /\ table[q] = t
      BY <2>0, <2>2 DEF TableInv
    <3>2. CASE p = q
      <4>1. StageTable(p) => published'[t] = Outcome(t)
        BY <3>1, <3>2 DEF StageTable, WorkerInv, Stageable, Staged, Outcome, TypeInv, TypeOK
      <4> QED
        BY <2>0, <3>1, <3>2, <4>1, WorkerSteps DEF StageFail, HandlerExit, KillWorker, Goto
    <3>3. CASE p # q
      BY <3>1, <3>3, OneAtATime
    <3> QED
      BY <3>2, <3>3
  <2>3. CASE t = table[Main]
    <3>1. p = Main /\ table'[p] = table[p] + 1
      BY <1>0, <1>1, <1>2, <2>3
    <3>2. CASE SkipTable(Main)
      BY <2>0, <2>3, <3>2 DEF SkipTable
    <3>3. CASE ExtractRows(Main) \/ ExtractNone(Main)
      <4>1. ~ source[Main] < NumSources /\ (Cleared(t) \/ opt.extract_only)
        BY <1>0, <2>3, <3>1, <3>3 DEF ExtractRows, ExtractNone, Extracted
      <4>2. source[Main] = NumSources
        BY <1>0, <4>1
      <4> QED
        BY <2>0, <2>3, <3>3, <4>1, <4>2, ReadStep DEF Outcome
    <3>4. CASE Fork(Main)
      <4>1. PICK q \in Procs :
              /\ pc[Main] = "fork" /\ pc[q] = "unborn"
              /\ pc' = [pc EXCEPT ![q] = "stage",
                                  ![Main] = IF table[Main] < NumTables THEN "extract"
                                            ELSE "lastwait"]
              /\ table' = [table EXCEPT ![q] = table[Main], ![Main] = @ + 1]
        BY <3>4 DEF Fork
      <4> QED
        BY <1>0, <2>3, <4>1
    <3>5. CASE InlineTable(Main)
      BY <2>0, <2>3, <3>5 DEF InlineTable, TableInv, Stageable, Staged, Outcome, TypeInv, TypeOK
    <3>6. CASE LogInlineError(Main) \/ LogError(Main)
      BY <2>0, <2>3, <3>1, <3>6 DEF LogInlineError, LogError, TypeInv, PlaceInv
    <3>7. ~ Start(Main)
      BY <1>0, <2>3 DEF Start, TypeInv, PlaceInv, Tables
    <3> QED
      BY <1>0, <3>1, <3>2, <3>3, <3>4, <3>5, <3>6, <3>7, MainSteps DEF place,
         ExtractFail, WaitWorker, ForkFail, InlineFail, LogInlineFail, Unwind,
         LastWait, Finish, FinishFail
  <2>4. t < table[Main] \/ t = table[Main]
    <3>1. t \in Nat
      BY <1>0
    <3> QED
      BY <1>0, <1>1, <1>2, <3>1
  <2> QED
    BY <2>1, <2>2, <2>3, <2>4
<1>3. ASSUME NEW t \in Tables, t > table'[Main]
      PROVE  published'[t] = "old"
  <2>1. t > table[Main] /\ published[t] = "old"
    BY <1>0, <1>1, <1>3 DEF TableInv
  <2>2. t # table[p] \/ ~ (ExtractNone(p) \/ StageTable(p) \/ InlineTable(p))
    <3>1. CASE p = Main
      BY <1>0, <2>1, <3>1
    <3>2. CASE p # Main
      <4>1. StageTable(p) => table[p] < table[Main]
        BY <1>0, <3>2 DEF StageTable, Goto, WorkerInv, Active
      <4>2. ~ ExtractNone(p) /\ ~ InlineTable(p)
        BY <3>2 DEF ExtractNone, InlineTable, WorkerInv
      <4> QED
        BY <1>0, <2>1, <4>1, <4>2
    <3> QED
      BY <3>1, <3>2
  <2> QED
    BY <2>1, <2>2, PublishedBy
<1>4. ASSUME pc'[Main] = "extract"
      PROVE  LET t == table'[Main]
                 read == {s \in Sources : s < source'[Main]}
             IN  /\ \A s \in read : <<t, s>> \in files'
                 /\ published'[t] =
                        IF \A s \in read : <<t, s>> \in hasRows' THEN "old" ELSE "cleared"
  <2>0. hasRows' = hasRows /\ Sources \subseteq Nat \ {0}
    BY UpdateRunAssumption, GivenStep DEF Sources
  <2>1. CASE p # Main
    <3>1. table'[Main] = table[Main] /\ pc[Main] = "extract" /\ table[Main] \in Tables
      BY <1>0, <1>1, <1>4, <2>1 DEF TypeInv, PlaceInv, InLoop
    <3>2. published'[table[Main]] = published[table[Main]]
      BY <1>0, <1>w, <2>1, <3>1, PublishedBy
    <3> QED
      BY <1>w, <2>0, <2>1, <3>1, <3>2 DEF TableInv
  <2>2. CASE p = Main /\ table'[Main] = table[Main]
    <3>1. ExtractRows(Main) \/ ExtractNone(Main)
      <4>1. ~ ToNextTable(Main) /\ ~ Fork(Main)
        BY <1>0, <2>2 DEF ToNextTable, Fork
      <4> QED
        BY <1>0, <1>4, <2>2, <4>1, MainSteps DEF Goto,
           Start, SkipTable, ExtractFail, WaitWorker, ForkFail, InlineTable,
           InlineFail, LogInlineError, LogInlineFail, LogError, Unwind, LastWait,
           Finish, FinishFail
    <3>2. source'[Main] = source[Main] + 1
      BY <1>0, <1>4, <2>2, <3>1 DEF ExtractRows, ExtractNone, Extracted, ToNextTable, TypeInv, TypeOK
    <3> QED
      BY <2>0, <2>2, <3>1, <3>2, ReadStep
  <2>3. CASE p = Main /\ table'[Main] # table[Main]
    <3>1. /\ table'[Main] = table[Main] + 1 /\ source'[Main] = 1
          /\ table[Main] < NumTables
      BY <1>0, <1>4, <2>3, TableBy
    <3>2. published'[table'[Main]] = "old"
      <4>1. table[Main] + 1 \in Tables
        BY <1>0, <3>1 DEF Tables
      <4> QED
        BY <1>0, <2>3, <3>1, <4>1, PublishedBy DEF TableInv
    <3>3. \A s \in Sources : ~ s < source'[Main]
      BY <1>0, <3>1
    <3> QED
      BY <3>2, <3>3
  <2> QED
    BY <2>1, <2>2, <2>3
<1>5. ASSUME pc'[Main] \in {"wait", "fork", "inline"}
      PROVE  Stageable(table[Main])'
  <2>0. /\ \A t : Cleared(t)' = Cleared(t)
        /\ opt' = opt
    BY GivenStep
  <2>1. CASE p # Main
    BY <1>1, <1>5, <1>w, <2>0, <2>1 DEF TableInv, Stageable
  <2>2. CASE p = Main /\ (ExtractRows(Main) \/ ExtractNone(Main))
    <3>1. source[Main] = NumSources /\ ~ Cleared(table[Main]) /\ ~ opt.extract_only
          /\ table'[Main] = table[Main]
      <4>1. ~ ToNextTable(Main)
        BY <1>0, <1>5 DEF ToNextTable
      <4> QED
        BY <1>0, <1>5, <2>2, <4>1 DEF ExtractRows, ExtractNone, Extracted
    <3>2. \A s \in Sources : s < source[Main] + 1
      BY <3>1, UpdateRunAssumption DEF Sources
    <3>3. FilesOf(table[Main]) \subseteq files'
      BY <2>2, <3>1, <3>2, ReadStep, Files
    <3> QED
      BY <2>0, <3>1, <3>3 DEF Stageable
  <2>3. CASE p = Main /\ ~ (ExtractRows(Main) \/ ExtractNone(Main))
    <3>1. WaitWorker(Main)
      BY <1>0, <1>5, <2>3, MainSteps DEF ToNextTable, Goto, Fork,
         Start, SkipTable, ExtractFail, ForkFail, InlineTable, InlineFail,
         LogInlineError, LogInlineFail, LogError, Unwind, LastWait, Finish,
         FinishFail
    <3>2. Stageable(table[Main]) /\ workerFiles[Main] < table[Main] /\ table' = table
          /\ pc[Main] = "wait"
      BY <3>1 DEF TableInv, WaitWorker, Goto, place
    <3>3. FilesOf(table[Main]) \subseteq files'
      BY <1>0, <2>3, <3>2, Files, FilesLost DEF Stageable
    <3> QED
      BY <2>0, <3>2, <3>3 DEF Stageable
  <2> QED
    BY <2>1, <2>2, <2>3
<1>6. IF pc'[Main] = "start" THEN workerFiles'[Main] = NoTable
      ELSE workerFiles'[Main] < table'[Main]
  <2>0. /\ IF pc[Main] = "start" THEN workerFiles[Main] = NoTable
           ELSE workerFiles[Main] < table[Main]
        /\ pc[Main] = "start" => table[Main] = NoTable
    BY <1>0 DEF TableInv, TypeInv, PlaceInv
  <2>1. CASE p # Main
    BY <1>1, <1>w, <2>0, <2>1
  <2>2. CASE p = Main
    <3>0. Step(Main)
      BY <2>2
    <3>1. CASE Start(Main)
      BY <1>0, <2>0, <3>1 DEF Start, ToNextTable, workers
    <3>2. CASE Fork(Main)
      BY <1>0, <3>2, WorkerFilesBy DEF Fork
    <3>3. CASE ~ Start(Main) /\ ~ Fork(Main)
      <4>1. pc[Main] # "start"
        BY <3>0, <3>3, MainSteps DEF Goto,
           SkipTable, ExtractRows, ExtractNone, ExtractFail, WaitWorker, ForkFail,
           InlineTable, InlineFail, LogInlineError, LogInlineFail, LogError, Unwind,
           LastWait, Finish, FinishFail
      <4>2. workerFiles'[Main] \in {workerFiles[Main], NoTable}
        BY <1>0, <2>2, <3>3, WorkerFilesBy
      <4>3. workerFiles'[Main] < table'[Main]
        <5>1. workerFiles'[Main] = workerFiles[Main] \/ workerFiles'[Main] = 0
          BY <1>0, <4>2
        <5> QED
          BY <1>0, <1>1, <2>0, <4>1, <5>1
      <4>4. pc'[Main] # "start"
        <5>1. pc'[Main] = "start" => table'[Main] = NoTable
          BY <1>0 DEF TypeInv, PlaceInv
        <5>2. workerFiles'[Main] = workerFiles[Main] \/ workerFiles'[Main] = 0
          BY <1>0, <4>2
        <5> QED
          BY <1>0, <1>1, <4>3, <5>1, <5>2
      <4> QED
        BY <4>3, <4>4
    <3> QED
      BY <3>1, <3>2, <3>3
  <2> QED
    BY <2>1, <2>2
<1> QED
  BY <1>2, <1>3, <1>4, <1>5, <1>6 DEF TableInv

\* The first process of a parallel update learns of no columns.
LEMMA LostStep ==
    ASSUME TypeInv, LostInv, NEW p \in Procs, Step(p)
    PROVE  LostInv'
<1>1. InlineTable(p) \/ InlineFail(p) => ~ Parallel
  BY DEF InlineTable, InlineFail, Goto, TypeInv, PlaceInv
<1> QED
  BY <1>1, ColumnsBy, GivenStep DEF LostInv

\* The columns that the first process knows are of tables that it has staged.
LEMMA ColumnsStep ==
    ASSUME TypeInv, TypeInv', Calm', WorkerInv, TableInv, ColumnsInv, LostInv,
           NEW p \in Procs, Step(p)
    PROVE  ColumnsInv'
<1>0. /\ Main \in Procs /\ NumTables \in Nat /\ Tables \subseteq Nat
      /\ pc \in [Procs -> Phases] /\ table \in [Procs -> 0..(NumTables + 1)]
      /\ table[Main] \in Nat /\ published \in [Tables -> {"old", "new", "partial", "cleared"}]
      /\ columns[Main] \subseteq Tables
  <2>1. Main \in Procs /\ NumTables \in Nat /\ Tables \subseteq Nat
    BY UpdateRunAssumption DEF Procs, Main, Tables
  <2> QED
    BY <2>1 DEF TypeInv, TypeOK
<1>1. failed \subseteq failed' /\ Parallel' = Parallel
  BY MainTable, GivenStep
<1>2. ASSUME NEW t \in Tables, t < table[Main], published[t] = "new"
      PROVE  published'[t] = "new" /\ t < table'[Main]
  <2>1. t < table'[Main] /\ t \in Nat
    BY <1>0, <1>2, MainTable
  <2>2. ASSUME t = table[p] /\ (ExtractNone(p) \/ StageTable(p) \/ InlineTable(p))
        PROVE  published'[t] = "new"
    <3>1. p # Main
      BY <1>2, <2>1, <2>2, <1>0
    <3>2. StageTable(p)
      BY <2>2, <3>1 DEF ExtractNone, InlineTable, WorkerInv
    <3> QED
      BY <1>0, <2>2, <3>1, <3>2 DEF StageTable, Goto, WorkerInv, Stageable, Staged
  <2> QED
    BY <1>2, <2>1, <2>2, PublishedBy
<1>3. ASSUME NEW t \in columns'[Main]
      PROVE  t \in failed' \cup {u \in Tables : u < table'[Main] /\ published'[u] = "new"}
  <2>1. CASE t \in columns[Main]
    BY <1>0, <1>1, <1>2, <2>1 DEF ColumnsInv
  <2>2. CASE t \notin columns[Main]
    <3>1. p = Main /\ t = table[Main] /\ (InlineTable(p) \/ InlineFail(p))
      BY <1>3, <2>2, ColumnsBy
    <3>2. t \in Tables /\ t \in Nat
      BY <1>0, <3>1 DEF InlineTable, InlineFail, Goto, TypeInv, PlaceInv, InLoop
    <3>3. CASE InlineFail(p)
      BY <3>1, <3>3 DEF InlineFail
    <3>4. CASE InlineTable(p)
      <4>1. published'[t] = "new"
        BY <1>0, <3>1, <3>2, <3>4 DEF InlineTable, TableInv, Stageable, Staged
      <4>2. table'[Main] = t + 1
        BY <1>0, <3>1, <3>4 DEF InlineTable, ToNextTable
      <4> QED
        BY <3>2, <4>1, <4>2
    <3> QED
      BY <3>1, <3>3, <3>4
  <2> QED
    BY <2>1, <2>2
<1>4. ASSUME pc'[Main] = "exited"
      PROVE  suggested' \subseteq IF Parallel THEN {}
                                  ELSE failed' \cup {t \in Tables : published'[t] = "new"}
  <2>1. CASE p # Main
    BY <1>4, <2>1, WorkerSteps, MainTable
    DEF StageTable, StageFail, HandlerExit, KillWorker, Goto, WorkerInv, Active
  <2>2. CASE p = Main
    <3>1. Finish(Main)
      BY <1>0, <1>4, <2>2, ReachedBy DEF StageTable, HandlerExit, Goto, TypeInv, PlaceInv
    <3>2. suggested' \subseteq columns[Main] /\ published' = published
      BY <3>1 DEF Finish
    <3> QED
      BY <1>0, <1>1, <3>2 DEF ColumnsInv, LostInv
  <2> QED
    BY <2>1, <2>2
<1> QED
  BY <1>1, <1>3, <1>4 DEF ColumnsInv

\* With one failure at most, or without workers, the first process runs the loop alone.
LEMMA CalmStep ==
    ASSUME TypeInv, TypeInv', FamilyInv, LostInv, CalmInv, NEW p \in Procs, Step(p)
    PROVE  CalmInv'
<1>1. Calm' => Calm
  <2>1. failures' = failures \/ failures' = failures + 1
    BY DEF Step, Failure, environment,
       Start, SkipTable, ExtractRows, ExtractNone, ExtractFail, WaitWorker, Fork,
       ForkFail, StageTable, StageFail, HandlerExit, HandlerFail, KillWorker,
       InlineTable, InlineFail, LogInlineError, LogInlineFail, LogError, Unwind,
       LastWait, Finish, FinishFail
  <2>2. failures \in Nat
    BY UpdateRunAssumption DEF TypeInv, TypeOK
  <2> QED
    BY <2>1, <2>2, GivenStep DEF Calm
<1> QED
  BY <1>1, WorkerStep, TableStep, ColumnsStep DEF CalmInv

-----------------------------------------------------------------------------
(* Temporary files                                                         *)

\* With --savetemps, only the beginning of the run deletes files.
LEMMA KeptStep ==
    ASSUME TypeInv, KeptInv, NEW p \in Procs, Step(p)
    PROVE  KeptInv'
<1> SUFFICES ASSUME opt.savetemps PROVE KeptInv'
  BY GivenStep DEF KeptInv
<1>0. /\ Main \in Procs /\ NumTables \in Nat /\ Tables = 1..NumTables
      /\ Sources = 1..NumSources /\ NumSources \in Nat
      /\ pc \in [Procs -> Phases] /\ table \in [Procs -> 0..(NumTables + 1)]
      /\ source \in [Procs -> Sources] /\ opt' = opt /\ Skipped' = Skipped
      /\ failed \subseteq failed' /\ table[Main] \in Nat
      /\ table'[Main] \in {table[Main], table[Main] + 1}
      /\ p # Main => /\ table'[Main] = table[Main] /\ pc'[Main] = pc[Main]
                     /\ source'[Main] = source[Main]
  <2>1. Main \in Procs /\ NumTables \in Nat /\ NumSources \in Nat
    BY UpdateRunAssumption DEF Main, Procs
  <2> QED
    BY <2>1, GivenStep, MainTable, SourceBy DEF TypeInv, TypeOK, Tables, Sources
<1>1. CASE pc[p] = "start"
  <2>1. p = Main /\ table[Main] = 0
    BY <1>0, <1>1 DEF TypeInv, PlaceInv, NoTable
  <2>2. Start(Main)
    BY <1>1, <2>1 DEF Step, Goto,
       SkipTable, ExtractRows, ExtractNone, ExtractFail, WaitWorker, Fork, ForkFail,
       StageTable, StageFail, HandlerExit, HandlerFail, KillWorker, InlineTable,
       InlineFail, LogInlineError, LogInlineFail, LogError, Unwind, LastWait,
       Finish, FinishFail
  <2>3. table'[Main] = 1 /\ source'[Main] = 1 /\ pc'[Main] \in {"extract", "lastwait"}
    BY <1>0, <2>1, <2>2 DEF Start, ToNextTable
  <2> QED
    BY <1>0, <2>3 DEF KeptInv
<1>2. CASE pc[p] # "start"
  <2>0. \A t, s : <<t, s>> \in files => <<t, s>> \in files'
    BY <1>2, FilesLost
  <2>1. \A t : FilesOf(t) \subseteq files => FilesOf(t) \subseteq files'
    BY <2>0, Files
  <2>2. CASE p # Main
    BY <1>0, <2>0, <2>1, <2>2 DEF KeptInv
  <2>3. CASE p = Main
    <3>0. Step(Main)
      BY <2>3
    <3>1. ASSUME ExtractRows(Main) \/ ExtractNone(Main)
          PROVE  /\ \A s \in Sources : s < source[Main] + 1 => <<table[Main], s>> \in files'
                 /\ source[Main] = NumSources => FilesOf(table[Main]) \subseteq files'
                 /\ table'[Main] = table[Main] =>
                        \/ pc'[Main] = "extract" /\ source'[Main] = source[Main] + 1
                        \/ pc'[Main] # "extract" /\ source[Main] = NumSources
                 /\ table'[Main] # table[Main] => source[Main] = NumSources
      <4>1. files' = files \cup {<<table[Main], source[Main]>>}
        BY <3>1 DEF ExtractRows, ExtractNone, Extracted, Deleted
      <4>2. \A s \in Sources : s < source[Main] => <<table[Main], s>> \in files
        BY <3>1 DEF KeptInv, ExtractRows, ExtractNone
      <4>3. \A s \in Sources : s < source[Main] + 1 => s < source[Main] \/ s = source[Main]
        BY <1>0
      <4>4. source[Main] < NumSources \/ source[Main] = NumSources
        BY <1>0
      <4>5. source[Main] = NumSources => \A s \in Sources : s < source[Main] + 1
        BY <1>0
      <4>6. \A s \in Sources : s < source[Main] + 1 => <<table[Main], s>> \in files'
        BY <4>1, <4>2, <4>3
      <4>7. source[Main] = NumSources => FilesOf(table[Main]) \subseteq files'
        BY <4>5, <4>6, Files
      <4>8. /\ table'[Main] = table[Main] =>
                \/ pc'[Main] = "extract" /\ source'[Main] = source[Main] + 1
                \/ pc'[Main] # "extract" /\ source[Main] = NumSources
            /\ table'[Main] # table[Main] => source[Main] = NumSources
        BY <1>0, <3>1, <4>4 DEF ExtractRows, ExtractNone, Extracted, ToNextTable
      <4> QED
        BY <4>6, <4>7, <4>8
    <3>2. ASSUME table'[Main] # table[Main], table[Main] \in Tables \ (Skipped \cup failed)'
          PROVE  FilesOf(table[Main]) \subseteq files'
      <4>1. pc[Main] \in {"fork", "inline"} => FilesOf(table[Main]) \subseteq files
        BY DEF KeptInv
      <4>2. ~ Start(Main) /\ ~ SkipTable(Main) /\ ~ LogInlineError(Main) /\ ~ LogError(Main)
        BY <1>0, <1>2, <2>3, <3>2
        DEF Start, SkipTable, LogInlineError, LogError, TypeInv, PlaceInv
      <4> QED
        BY <1>0, <2>1, <2>3, <3>1, <3>2, <4>1, <4>2, MovesOn DEF Fork, InlineTable
    <3>3. ASSUME NEW t \in Tables \ (Skipped \cup failed)', t < table'[Main]
          PROVE  FilesOf(t) \subseteq files'
      BY <1>0, <2>1, <3>2, <3>3 DEF KeptInv
    <3>4. ASSUME pc'[Main] = "extract", NEW s \in Sources, s < source'[Main]
          PROVE  <<table'[Main], s>> \in files'
      <4>1. table'[Main] = table[Main]
        <5>1. s >= 1
          BY <1>0
        <5> QED
          BY <1>0, <2>3, <3>4, <5>1, TableBy
      <4>2. ~ WaitWorker(Main)
        BY <1>0, <3>4 DEF WaitWorker, Goto
      <4> QED
        BY <1>0, <2>3, <3>1, <3>4, <4>1, <4>2, MovesOn
    <3>5. ASSUME pc'[Main] \in {"wait", "fork", "inline"}
          PROVE  FilesOf(table'[Main]) \subseteq files'
      <4>1. table'[Main] = table[Main]
        BY <1>0, <2>3, <3>5, TableBy
      <4>2. WaitWorker(Main) => FilesOf(table[Main]) \subseteq files
        BY DEF WaitWorker, Goto, KeptInv
      <4> QED
        BY <1>0, <2>1, <2>3, <3>1, <3>5, <4>1, <4>2, MovesOn
    <3> QED
      BY <3>3, <3>4, <3>5 DEF KeptInv, FilesOf
  <2> QED
    BY <2>2, <2>3
<1> QED
  BY <1>1, <1>2

\* Who is reaped: the worker that a process waits for.
LEMMA ReapedBy ==
    ASSUME TypeInv, NEW p \in Procs, Step(p), NEW q \in Procs, q \notin reaped
    PROVE  /\ q \in reaped' =>
                parent[q] = p /\ pc[q] \in Dead /\ (WaitWorker(p) \/ LastWait(p))
           /\ pc[q] # "unborn" => parent'[q] = parent[q]
<1> USE DEF workers
<1>0. parent \in [Procs -> Procs \cup {NoProc}]
  BY DEF TypeInv, TypeOK
<1>1. CASE WaitWorker(p)
  BY <1>1 DEF WaitWorker, Waited
<1>2. CASE LastWait(p)
  BY <1>2 DEF LastWait, Waited
<1>3. CASE Fork(p)
  BY <1>0, <1>3 DEF Fork
<1>4. (reaped' = reaped /\ parent' = parent) \/ Fork(p) \/ WaitWorker(p) \/ LastWait(p)
  BY DEF Step,
     Start, SkipTable, ExtractRows, ExtractNone, ExtractFail, ForkFail, StageTable,
     StageFail, HandlerExit, HandlerFail, KillWorker, InlineTable, InlineFail,
     LogInlineError, LogInlineFail, LogError, Unwind, Finish, FinishFail
<1> QED
  BY <1>1, <1>2, <1>3, <1>4

\* No process ends, or goes on to another worker, before its worker has ended.
LEMMA OrphanStep ==
    ASSUME TypeInv, FamilyInv, OrphanInv, Whole', NEW p \in Procs, Step(p)
    PROVE  OrphanInv'
<1>0. /\ pc \in [Procs -> Phases] /\ parent \in [Procs -> Procs \cup {NoProc}]
      /\ workerPid \in [Procs -> Procs \cup {NoProc}]
      /\ table \in [Procs -> 0..(NumTables + 1)]
      /\ NoProc \notin Procs /\ Main \in Procs /\ Procs \subseteq Nat
  <2>1. NoProc \notin Procs /\ Main \in Procs /\ Procs \subseteq Nat
    BY UpdateRunAssumption DEF Procs, Main, NoProc
  <2> QED
    BY <2>1 DEF TypeInv, TypeOK
<1>1. pc[p] \notin Dead \cup {"unborn"}
  BY Acting DEF Live
<1> SUFFICES ASSUME NEW q \in Procs \ {Main}, Live(q)'
             PROVE  /\ parent'[q] \in Procs
                    /\ workerPid'[parent'[q]] = q /\ q \notin reaped'
                    /\ pc'[parent'[q]] \in {"extract", "wait", "error", "lastwait"}
  BY DEF OrphanInv, Live
<1>2. CASE pc[q] = "unborn"
  <2>1. p # q /\ Fork(p)
    BY <1>1, <1>2, OneAtATime DEF Live
  <2>2. PICK r \in Procs :
          /\ pc[p] = "fork" /\ pc[r] = "unborn" /\ \A o \in 1..(r - 1) : pc[o] # "unborn"
          /\ pc' = [pc EXCEPT ![r] = "stage",
                              ![p] = IF table[p] < NumTables THEN "extract" ELSE "lastwait"]
          /\ parent' = [parent EXCEPT ![r] = p]
          /\ workerPid' = [workerPid EXCEPT ![r] = workerPid[p], ![p] = r]
    BY <2>1 DEF Fork
  <2>3. r = q
    BY <1>0, <1>2, <2>1, <2>2 DEF Live
  <2>4. q \notin reaped'
    BY <1>2, <2>1 DEF Fork, FamilyInv, Dead
  <2> QED
    BY <1>0, <2>1, <2>2, <2>3, <2>4
<1>3. CASE pc[q] # "unborn"
  <2>1. Live(q)
    BY <1>1, <1>3, OneAtATime DEF Live
  <2> DEFINE f == parent[q]
  <2>2. /\ f \in Procs /\ workerPid[f] = q /\ q \notin reaped
        /\ pc[f] \in {"extract", "wait", "error", "lastwait"}
    BY <2>1 DEF OrphanInv
  <2>3. parent'[q] = f /\ q \notin reaped'
    BY <1>3, <2>1, <2>2, ReapedBy DEF Live
  <2>4. CASE p # f
    BY <2>2, <2>3, <2>4, OneAtATime, WorkerFilesBy
  <2>5. CASE p = f
    <3>1. Parallel
      BY <1>3 DEF TypeInv, PlaceInv
    <3>2. ~ WaitWorker(p) /\ ~ LastWait(p)
      BY <1>0, <2>1, <2>2, <2>5, <3>1 DEF WaitWorker, LastWait, Waited, Live, Parallel
    <3>3. workerPid'[p] = q
      BY <2>2, <2>5, <3>2, WorkerFilesBy DEF Fork
    <3>4. pc'[p] \in {"extract", "wait", "error", "lastwait"}
      <4>1. CASE ExtractRows(p) \/ ExtractNone(p)
        BY <1>0, <3>1, <4>1, AfterSource DEF ExtractRows, ExtractNone
      <4>2. CASE SkipTable(p) \/ LogError(p)
        BY <1>0, <4>2 DEF SkipTable, LogError, ToNextTable
      <4>3. CASE ExtractFail(p)
        BY <1>0, <4>3 DEF ExtractFail, Goto
      <4>4. ~ Unwind(p)
        BY <1>0 DEF Unwind, Goto, Whole
      <4> QED
        BY <2>2, <2>5, <3>2, <4>1, <4>2, <4>3, <4>4 DEF Step, Goto,
           Start, Fork, ForkFail, StageTable, StageFail, HandlerExit, HandlerFail,
           KillWorker, InlineTable, InlineFail, LogInlineError, LogInlineFail,
           Finish, FinishFail
    <3> QED
      BY <2>2, <2>3, <2>5, <3>3, <3>4
  <2> QED
    BY <2>4, <2>5
<1> QED
  BY <1>2, <1>3

\* What a process owes when its worker has ended, it still owes after a step.
LEMMA DebtStep ==
    ASSUME TypeInv, FamilyInv, DebtInv, NEW p \in Procs, Step(p)
    PROVE  DebtInv'
<1>0. /\ pc \in [Procs -> Phases] /\ parent \in [Procs -> Procs \cup {NoProc}]
      /\ workerPid \in [Procs -> Procs \cup {NoProc}]
      /\ workerFiles \in [Procs -> Tables \cup {NoTable}]
      /\ table \in [Procs -> 0..(NumTables + 1)]
      /\ NoProc \notin Procs /\ Procs \subseteq Nat
      /\ failed \subseteq failed'
  <2>1. NoProc \notin Procs /\ Procs \subseteq Nat
    BY UpdateRunAssumption DEF Procs, NoProc
  <2> QED
    BY <2>1, MainTable DEF TypeInv, TypeOK
<1>1. FamilyInv'
  BY FamilyStep DEF Next
<1> SUFFICES ASSUME NEW q \in Procs PROVE Debt(q)'
  BY DEF DebtInv
<1>2. Debt(q) /\ Debt(p)
  BY DEF DebtInv
<1>3. CASE q # p /\ pc'[q] = "unborn"
  BY <1>1, <1>3 DEF FamilyInv, Debt
<1>4. CASE q # p /\ pc[q] = "unborn" /\ pc'[q] # "unborn"
  <2>1. Fork(p) /\ pc[p] = "fork"
    BY <1>4, OneAtATime DEF Fork
  <2>2. workerFiles'[q] = workerFiles[p]
    BY <1>0, <1>4, <2>1 DEF Fork
  <2>3. workerFiles[p] = NoTable \/ workerFiles[p] \in failed
    BY <1>2, <2>1 DEF Debt
  <2> QED
    BY <1>0, <2>2, <2>3 DEF Debt
<1>5. CASE q # p /\ pc[q] # "unborn"
  <2>1. /\ workerFiles'[q] = workerFiles[q] /\ workerPid'[q] = workerPid[q]
        /\ pc'[q] = pc[q]
    BY <1>5, OneAtATime, WorkerFilesBy
  <2>2. CASE workerFiles[q] = NoTable \/ workerFiles[q] \in failed
    BY <1>0, <2>1, <2>2 DEF Debt
  <2>3. CASE workerFiles[q] # NoTable /\ workerFiles[q] \notin failed
    <3> DEFINE w == workerPid[q]
    <3>1. /\ w \in Procs /\ parent[w] = q /\ w \notin reaped /\ pc[q] # "fork"
          /\ pc[w] \in {"stage", "killed"} => table[w] = workerFiles[q]
      BY <1>2, <2>3 DEF Debt, HasWorker
    <3>2. pc[w] # "unborn"
      BY <1>0, <3>1 DEF FamilyInv
    <3>3. parent'[w] = q /\ w \notin reaped'
      BY <1>5, <3>1, <3>2, ReapedBy
    <3>4. pc'[w] \in {"stage", "killed"} => table'[w] = workerFiles[q]
      <4>1. CASE w # p
        BY <3>1, <3>2, <4>1, OneAtATime
      <4>2. CASE w = p
        BY <3>1, <4>2, ReachedBy DEF KillWorker, Goto, place
      <4> QED
        BY <4>1, <4>2
    <3> QED
      BY <2>1, <3>1, <3>3, <3>4 DEF Debt, HasWorker
  <2> QED
    BY <2>2, <2>3
<1>6. CASE q = p
  <2>1. CASE Fork(p)
    <3>1. PICK r \in Procs :
            /\ pc[p] = "fork" /\ pc[r] = "unborn"
            /\ pc' = [pc EXCEPT ![r] = "stage",
                                ![p] = IF table[p] < NumTables THEN "extract" ELSE "lastwait"]
            /\ table' = [table EXCEPT ![r] = table[p], ![p] = @ + 1]
            /\ parent' = [parent EXCEPT ![r] = p]
            /\ workerPid' = [workerPid EXCEPT ![r] = workerPid[p], ![p] = r]
            /\ workerFiles' = [workerFiles EXCEPT ![r] = workerFiles[p], ![p] = table[p]]
            /\ reaped' = reaped
      BY <2>1 DEF Fork
    <3>2. r \notin reaped
      BY <3>1 DEF FamilyInv, Dead
    <3> QED
      BY <1>0, <1>6, <3>1, <3>2 DEF Debt, HasWorker
  <2>2. CASE WaitWorker(p)
    <3>1. CASE workerPid[p] = NoProc
      BY <1>0, <1>2, <1>6, <2>2, <3>1 DEF WaitWorker, Debt, HasWorker
    <3>2. CASE workerPid[p] # NoProc
      <4>1. PICK ok \in BOOLEAN :
              /\ Waited(p, ok)
              /\ workerFiles' = IF ok THEN [workerFiles EXCEPT ![p] = NoTable] ELSE workerFiles
        BY <2>2, <3>2 DEF WaitWorker
      <4>2. CASE ok
        BY <1>0, <1>6, <4>1, <4>2 DEF Debt
      <4>3. CASE ~ ok
        <5>1. HasWorker(p) => workerPid[p] \in Procs /\ pc[workerPid[p]] = "killed"
          BY <4>1, <4>3 DEF Waited, HasWorker, Dead
        <5>2. HasWorker(p) => table[workerPid[p]] \in failed
          BY <5>1 DEF TypeInv, PlaceInv
        <5> QED
          BY <1>0, <1>2, <1>6, <4>1, <4>3, <5>1, <5>2 DEF Debt
      <4> QED
        BY <4>2, <4>3
    <3> QED
      BY <3>1, <3>2
  <2>3. CASE LastWait(p)
    BY <1>0, <1>6, <2>3 DEF LastWait, Debt
  <2>4. CASE ~ Fork(p) /\ ~ WaitWorker(p) /\ ~ LastWait(p)
    <3> DEFINE w == workerPid[p]
    <3>1. /\ workerFiles'[p] \in {workerFiles[p], NoTable} /\ workerPid'[p] = w
          /\ pc'[p] # "fork"
      BY <2>4, ReachedBy, WorkerFilesBy
    <3>2. CASE workerFiles'[p] = NoTable \/ workerFiles[p] \in failed
      BY <1>0, <1>6, <3>1, <3>2 DEF Debt
    <3>3. CASE workerFiles'[p] = workerFiles[p] /\ HasWorker(p)
      <4>1. w \in Procs /\ parent[w] = p /\ w \notin reaped
        BY <3>3 DEF HasWorker
      <4>2. w # p /\ pc[w] # "unborn"
        <5>1. p < w /\ (pc[w] = "unborn" => parent[w] = NoProc)
          BY <4>1 DEF FamilyInv
        <5>2. w \in Nat /\ p # NoProc
          BY <1>0, <4>1
        <5> HIDE DEF w
        <5> QED
          BY <4>1, <5>1, <5>2
      <4>3. parent'[w] = p /\ w \notin reaped' /\ pc'[w] = pc[w] /\ table'[w] = table[w]
        BY <2>4, <4>1, <4>2, ReapedBy, OneAtATime
      <4> QED
        BY <1>0, <1>2, <1>6, <3>1, <3>3, <4>1, <4>3 DEF Debt, HasWorker
    <3> QED
      BY <1>2, <3>1, <3>2, <3>3 DEF Debt
  <2> QED
    BY <2>1, <2>2, <2>3, <2>4
<1> QED
  BY <1>3, <1>4, <1>5, <1>6

\* A process that reads the files of a table owes them, or has deleted them.
LEMMA ReadOwed ==
    ASSUME TypeInv, NEW p \in Procs, ExtractRows(p) \/ ExtractNone(p), ~ opt.savetemps,
           opt' = opt, Skipped' = Skipped,
           NEW t, t = table[p], NEW s \in Sources, <<t, s>> \in files'
    PROVE  Live(p)' /\ Owes(p, t)'
<1>0. pc \in [Procs -> Phases] /\ table \in [Procs -> 0..(NumTables + 1)]
  BY DEF TypeInv, TypeOK
<1>1. \A present : <<t, s>> \notin Deleted(present, t)
  BY DEF Deleted, FilesOf
<1>2. /\ pc[p] = "extract" /\ table[p] \notin Skipped /\ Extracted(p)
  BY DEF ExtractRows, ExtractNone
<1>3. table' = table /\ pc'[p] \in {"extract", "wait", "inline"}
  BY <1>0, <1>1, <1>2 DEF Extracted
<1> QED
  BY <1>2, <1>3 DEF Live, Owes, Dead

\* A file stays owed, is deleted, or is one of a failed table.
LEMMA FilesStep ==
    ASSUME TypeInv, FamilyInv, DebtInv, DirInv, FilesInv, Whole', NEW p \in Procs, Step(p)
    PROVE  FilesInv'
<1>0. /\ pc \in [Procs -> Phases] /\ table \in [Procs -> 0..(NumTables + 1)]
      /\ workerFiles \in [Procs -> Tables \cup {NoTable}] /\ NoTable \notin Tables
      /\ files \subseteq Tables \X Sources
      /\ opt' = opt /\ Skipped' = Skipped /\ failed \subseteq failed'
  BY GivenStep, MainTable DEF TypeInv, TypeOK, Tables, NoTable
<1> SUFFICES ASSUME ~ opt.savetemps, NEW t \in Tables, NEW s \in Sources, <<t, s>> \in files',
                    t \notin failed'
             PROVE  \E q \in Procs : Live(q)' /\ Owes(q, t)'
  BY <1>0 DEF FilesInv
<1>1. CASE pc[p] = "start"
  BY <1>1, ReachedBy DEF Start
<1>2. CASE pc[p] # "start" /\ <<t, s>> \notin files
  <2>1. \A u, present : <<t, s>> \in Deleted(present, u) => <<t, s>> \in present
    BY DEF Deleted
  <2>2. ~ WaitWorker(p) /\ ~ InlineTable(p) /\ ~ LastWait(p)
    BY <1>2, <2>1 DEF WaitWorker, InlineTable, LastWait
  <2>3. ~ ExtractFail(p)
    BY <1>2 DEF ExtractFail
  <2>4. ExtractRows(p) \/ ExtractNone(p)
    BY <1>2, <2>2, <2>3 DEF Step, environment, Goto,
       Start, SkipTable, Fork, ForkFail, StageTable, StageFail, HandlerExit,
       HandlerFail, KillWorker, InlineFail, LogInlineError, LogInlineFail, LogError,
       Unwind, Finish, FinishFail
  <2>5. t = table[p] /\ t \notin Skipped /\ pc[p] = "extract"
    BY <1>2, <2>1, <2>4 DEF ExtractRows, ExtractNone, Extracted
  <2> QED
    BY <1>0, <2>4, <2>5, ReadOwed
<1>3. CASE pc[p] # "start" /\ <<t, s>> \in files
  <2>1. PICK q \in Procs : Live(q) /\ Owes(q, t)
    <3>1. pc[Main] # "start"
      <4>1. pc[p] # "unborn"
        BY Acting DEF Live
      <4> QED
        BY <1>3, <4>1 DEF FamilyInv
    <3> QED
      BY <1>0, <1>3, <3>1 DEF FilesInv
  <2>2. CASE q # p
    BY <1>0, <2>1, <2>2, OneAtATime, WorkerFilesBy DEF Live, Owes
  <2>3. CASE q = p /\ workerFiles[p] = t
    <3>1. pc[p] \notin {"stage", "handler", "finish"}
      BY <1>0, <2>3 DEF DebtInv, Debt, HasWorker, FamilyInv, DirInv
    <3>2. pc'[p] \notin {"unborn", "exited", "killed", "unwound"}
      BY <1>0, <3>1, ReachedBy
      DEF StageTable, HandlerExit, KillWorker, Finish, FinishFail, Goto, Whole
    <3>3. CASE Fork(p)
      <4>1. PICK r \in Procs :
              /\ pc[p] = "fork" /\ pc[r] = "unborn"
              /\ pc' = [pc EXCEPT ![r] = "stage",
                                  ![p] = IF table[p] < NumTables THEN "extract" ELSE "lastwait"]
              /\ workerFiles' = [workerFiles EXCEPT ![r] = workerFiles[p], ![p] = table[p]]
        BY <3>3 DEF Fork
      <4>2. pc'[r] = "stage" /\ workerFiles'[r] = t
        BY <1>0, <2>3, <4>1
      <4> QED
        BY <4>2 DEF Live, Owes, Dead
    <3>4. CASE WaitWorker(p) \/ LastWait(p)
      <4>1. <<t, s>> \notin Deleted(files, t)
        BY DEF Deleted, FilesOf
      <4>2. workerFiles'[p] = t
        BY <1>0, <2>3, <3>4, <4>1 DEF WaitWorker, LastWait
      <4> QED
        BY <3>2, <4>2 DEF Live, Owes, Dead
    <3>5. CASE ~ Fork(p) /\ ~ WaitWorker(p) /\ ~ LastWait(p)
      BY <2>3, <3>2, <3>5, WorkerFilesBy DEF Live, Owes, Dead
    <3> QED
      BY <3>3, <3>4, <3>5
  <2>4. CASE /\ q = p /\ workerFiles[p] # t /\ table[p] = t /\ t \notin Skipped
             /\ pc[p] \in {"extract", "wait", "fork", "inline"}
    <3>1. CASE ExtractRows(p) \/ ExtractNone(p)
      BY <1>0, <2>4, <3>1, ReadOwed
    <3>2. CASE WaitWorker(p)
      BY <1>0, <2>4, <3>2 DEF WaitWorker, Goto, place, Live, Owes, Dead
    <3>3. CASE Fork(p)
      <4>1. PICK r \in Procs :
              /\ pc[p] = "fork" /\ pc[r] = "unborn"
              /\ pc' = [pc EXCEPT ![r] = "stage",
                                  ![p] = IF table[p] < NumTables THEN "extract" ELSE "lastwait"]
              /\ workerFiles' = [workerFiles EXCEPT ![r] = workerFiles[p], ![p] = table[p]]
        BY <3>3 DEF Fork
      <4>2. pc'[p] \in {"extract", "lastwait"} /\ workerFiles'[p] = t
        BY <1>0, <2>4, <4>1
      <4> QED
        BY <4>2 DEF Live, Owes, Dead
    <3>4. CASE InlineTable(p)
      BY <1>3, <2>4, <3>4 DEF InlineTable, Deleted, FilesOf
    <3>5. CASE SkipTable(p) \/ ExtractFail(p) \/ ForkFail(p) \/ InlineFail(p)
      BY <2>4, <3>5 DEF SkipTable, ExtractFail, ForkFail, InlineFail
    <3> QED
      BY <2>4, <3>1, <3>2, <3>3, <3>4, <3>5 DEF Step, Goto,
         Start, StageTable, StageFail, HandlerExit, HandlerFail, KillWorker,
         LogInlineError, LogInlineFail, LogError, Unwind, LastWait, Finish,
         FinishFail
  <2> QED
    BY <2>1, <2>2, <2>3, <2>4 DEF Owes
<1> QED
  BY <1>1, <1>2, <1>3

\* The process that was forked first, of some.
LEMMA Eldest ==
    ASSUME NEW S, S \subseteq Nat, S # {}
    PROVE  \E x \in S : \A y \in S : ~ y < x
<1>1. \E x \in S : \A y \in S : ~ <<y, x>> \in OpToRel(<, Nat)
  BY NatLessThanWellFounded, WFMin, Zenon
<1>2. \A x, y \in S : y < x => <<y, x>> \in OpToRel(<, Nat)
  BY Zenon DEF OpToRel
<1> QED
  BY <1>1, <1>2

\* When the first process has ended, or finishes, so have all of the others.
LEMMA AllDead ==
    ASSUME TypeInv, FamilyInv, OrphanInv,
           pc[Main] \notin {"extract", "wait", "error", "lastwait"},
           NEW q \in Procs \ {Main}
    PROVE  ~ Live(q)
<1> DEFINE S == {o \in Procs \ {Main} : Live(o)}
<1> SUFFICES ASSUME S # {} PROVE FALSE
  OBVIOUS
<1>1. PICK x \in S : \A y \in S : ~ y < x
  <2>1. S \subseteq Nat
    BY UpdateRunAssumption DEF Procs
  <2> HIDE DEF S
  <2> QED
    BY <2>1, Eldest
<1>2. parent[x] \in Procs /\ pc[parent[x]] \in {"extract", "wait", "error", "lastwait"}
  BY DEF OrphanInv
<1>3. parent[x] < x
  BY <1>2 DEF FamilyInv
<1>4. parent[x] \in S
  BY <1>2 DEF Live, Dead
<1> QED
  BY <1>1, <1>3, <1>4

\* The directory stays while it has files, and goes with the first process.
LEMMA DirStep ==
    ASSUME TypeInv, FamilyInv, DirInv, Whole' => OrphanInv, NEW p \in Procs, Step(p)
    PROVE  DirInv'
<1>0. Main \in Procs /\ pc[Main] \notin {"stage", "handler"}
  BY UpdateRunAssumption DEF Procs, Main, TypeInv, PlaceInv
<1>1. files' # {} => dir'
  <2>1. \A present, t : Deleted(present, t) \subseteq present
    BY DEF Deleted
  <2>2. CASE ExtractRows(p) \/ ExtractNone(p) \/ ExtractFail(p)
    BY <2>2 DEF ExtractRows, ExtractNone, ExtractFail, DirInv
  <2>3. CASE WaitWorker(p) \/ InlineTable(p) \/ LastWait(p)
    BY <2>1, <2>3 DEF WaitWorker, InlineTable, LastWait, DirInv
  <2>4. CASE Unwind(p) \/ Finish(p) \/ FinishFail(p)
    BY <2>4 DEF Unwind, Finish, FinishFail, RemoveDir, DirInv
  <2> QED
    BY <2>2, <2>3, <2>4 DEF DirInv, Step, environment,
       Start, SkipTable, Fork, ForkFail, StageTable, StageFail, HandlerExit,
       HandlerFail, KillWorker, InlineFail, LogInlineError, LogInlineFail, LogError
<1>2. ASSUME NEW q \in Procs, pc'[q] = "finish" PROVE workerFiles'[q] = NoTable
  <2>1. workerFiles \in [Procs -> Tables \cup {NoTable}]
    BY DEF TypeInv, TypeOK
  <2>2. CASE q = p
    BY <1>2, <2>1, <2>2, ReachedBy DEF LastWait
  <2>3. CASE q # p
    BY <1>2, <2>3, OneAtATime, WorkerFilesBy DEF DirInv
  <2> QED
    BY <2>2, <2>3
<1>3. ASSUME pc'[Main] = "exited", ~ opt.savetemps, Whole' PROVE dir' => files' # {}
  <2>1. CASE p = Main
    <3>1. Finish(Main)
      BY <1>0, <1>3, <2>1, ReachedBy DEF StageTable, HandlerExit, Goto
    <3> QED
      BY <1>3, <3>1 DEF Finish, RemoveDir
  <2>2. CASE p # Main
    BY <1>3, <2>2, MainTable, Acting, AllDead
  <2> QED
    BY <2>1, <2>2
<1> QED
  BY <1>1, <1>2, <1>3, GivenStep DEF DirInv

-----------------------------------------------------------------------------
(* The invariant                                                           *)

\* The invariant holds before the update.
LEMMA InvInit == Init => IInv
<1> SUFFICES ASSUME Init PROVE IInv
  OBVIOUS
<1>0. /\ Main \in Procs /\ Tables \subseteq Nat \ {0} /\ NoTable = 0
      /\ \A q \in Procs \ {Main} : pc[q] = "unborn"
      /\ pc[Main] = "start" /\ table[Main] = 0 /\ columns[Main] = {}
      /\ \A q \in Procs : workerFiles[q] = NoTable
  BY UpdateRunAssumption DEF Init, Procs, Main, Tables, NoTable
<1>1. WorkerInv
  BY <1>0 DEF WorkerInv, Active
<1>2. TableInv
  BY <1>0 DEF Init, TableInv
<1>3. ColumnsInv /\ LostInv
  BY <1>0 DEF ColumnsInv, LostInv
<1>4. KeptInv
  <2>1. \A t \in Tables : ~ t < 0
    BY UpdateRunAssumption DEF Tables
  <2> QED
    BY <1>0, <2>1 DEF KeptInv
<1>5. OrphanInv /\ DebtInv /\ FilesInv
  BY <1>0 DEF OrphanInv, DebtInv, Debt, FilesInv, Live
<1>6. DirInv
  BY <1>0 DEF Init, DirInv
<1> QED
  BY <1>1, <1>2, <1>3, <1>4, <1>5, <1>6, TypeInit, FamilyInit
  DEF IInv, CalmInv, LeftoversInv

\* Every step keeps the invariant.
LEMMA InvStep == IInv /\ [Next]_vars => IInv'
<1> SUFFICES ASSUME IInv, [Next]_vars PROVE IInv'
  OBVIOUS
<1>1. TypeInv' /\ FamilyInv'
  BY TypeStep, FamilyStep DEF IInv
<1>2. ASSUME NEW p \in Procs, Step(p) PROVE IInv'
  <2>1. CalmInv' /\ LostInv' /\ KeptInv'
    BY <1>1, <1>2, CalmStep, LostStep, KeptStep DEF IInv
  <2>2. Whole' => Whole
    BY <1>2, Acting, OneAtATime DEF IInv, Whole, Live, Dead
  <2>3. LeftoversInv'
    BY <1>2, <2>2, OrphanStep, DebtStep, FilesStep DEF IInv, LeftoversInv
  <2>4. DirInv'
    BY <1>2, <2>2, DirStep DEF IInv, LeftoversInv
  <2> QED
    BY <1>1, <2>1, <2>3, <2>4 DEF IInv
<1>3. CASE UNCHANGED vars
  <2> USE <1>3 DEF vars, given, environment, place, workers
  <2>1. CalmInv' /\ LostInv' /\ KeptInv'
    BY DEF IInv, CalmInv, Calm, WorkerInv, Active, Stageable, Cleared, TableInv,
       Outcome, ColumnsInv, LostInv, KeptInv, Parallel, Skipped
  <2>2. LeftoversInv' /\ DirInv'
    BY DEF IInv, LeftoversInv, Whole, OrphanInv, DebtInv, Debt, HasWorker, FilesInv,
       Live, Owes, DirInv, Skipped
  <2> QED
    BY <1>1, <2>1, <2>2 DEF IInv
<1> QED
  BY <1>2, <1>3 DEF Next

\* The invariant always holds.
LEMMA Invariance == Spec => []IInv
BY InvInit, InvStep, PTL DEF Spec

-----------------------------------------------------------------------------
(* What an update run guarantees                                           *)

\* wait_stage_merge() comes before the deletion of a worker's files: with one
\* failure at most, they are there as long as the worker stages its table.
THEOREM FilesStayWhileStaging == Spec => []FilesWhileStaging
<1>1. IInv => FilesWhileStaging
  BY DEF IInv, TypeInv, PlaceInv, CalmInv, Calm, WorkerInv, Stageable,
     FilesWhileStaging, OneFailure
<1> QED
  BY <1>1, Invariance, PTL

\* The loop waits for its worker before it forks the next one: with one failure
\* at most, no two workers are in run_stage_merge() at the same time.
THEOREM NeverTwoWorkers == Spec => []OneWorker
<1>1. IInv => OneWorker
  BY DEF IInv, TypeInv, PlaceInv, CalmInv, Calm, WorkerInv, Active, OneWorker, OneFailure
<1> QED
  BY <1>1, Invariance, PTL

\* What follows the loop of run_update() runs alone, with one failure at most:
\* the last worker has been waited for.
THEOREM FinishesAlone == Spec => []FinishAlone
<1>1. IInv => FinishAlone
  BY DEF IInv, CalmInv, Calm, WorkerInv, Active, FinishAlone, OneFailure, Dead
<1> QED
  BY <1>1, Invariance, PTL

\* No table is forgotten: with one failure at most, or without workers, a table
\* that no step of has failed has been replaced or cleared as its rows say.
THEOREM TablesAccountedFor == Spec => []NoTableForgotten
<1>1. IInv => NoTableForgotten
  <2> SUFFICES ASSUME IInv, pc[Main] = "exited", Calm,
                      NEW t \in Tables \ (Skipped \cup failed)
               PROVE  published[t] = Outcome(t)
    BY DEF NoTableForgotten, Calm, OneFailure, Outcome
  <2>1. t < table[Main]
    BY UpdateRunAssumption DEF IInv, TypeInv, PlaceInv, AfterLoop, Tables
  <2>2. \A q \in Procs \ {Main} : pc[q] # "stage"
    BY DEF IInv, CalmInv, WorkerInv, Active
  <2> QED
    BY <2>1, <2>2 DEF IInv, CalmInv, TableInv
<1> QED
  BY <1>1, Invariance, PTL

\* However much fails: when the first process exits, every file that is left is
\* one of a failed table, and rmdir() has removed the directory if there is none,
\* unless an exception has left the loop of some process.
THEOREM LeftoversAreFailures == Spec => []LeftoversExplained
<1>1. IInv => LeftoversExplained
  <2> SUFFICES ASSUME IInv, pc[Main] = "exited", ~ opt.savetemps, Whole
               PROVE  files \subseteq failed \X Sources /\ (dir <=> files # {})
    BY DEF LeftoversExplained, Whole
  <2>1. \A q \in Procs : ~ Live(q)
    BY AllDead DEF IInv, LeftoversInv, Live, Dead
  <2>2. files \subseteq Tables \X Sources
    BY DEF IInv, TypeInv, TypeOK
  <2>3. files \subseteq failed \X Sources
    BY <2>1, <2>2 DEF IInv, LeftoversInv, FilesInv
  <2> QED
    BY <2>3 DEF IInv, DirInv
<1> QED
  BY <1>1, Invariance, PTL

\* With --savetemps, the files of every table that has not failed are still there
\* when the first process exits, however much fails.
THEOREM SavedFilesStay == Spec => []FilesKept
<1>1. IInv => FilesKept
  <2> SUFFICES ASSUME IInv, pc[Main] = "exited", opt.savetemps,
                      NEW t \in Tables \ (Skipped \cup failed)
               PROVE  FilesOf(t) \subseteq files
    BY DEF FilesKept, FilesOf
  <2>1. t < table[Main]
    BY UpdateRunAssumption DEF IInv, TypeInv, PlaceInv, AfterLoop, Tables
  <2> QED
    BY <2>1 DEF IInv, KeptInv
<1> QED
  BY <1>1, Invariance, PTL

\* Foreign key detection sees the columns that the first process itself has
\* learned: with one failure at most, it suggests nothing for tables that this
\* update has not staged, and nothing at all after a parallel update.
THEOREM SuggestionsAreCurrent == Spec => []SuggestionsCurrent
<1>1. IInv => SuggestionsCurrent
  BY DEF IInv, CalmInv, Calm, ColumnsInv, SuggestionsCurrent, OneFailure
<1> QED
  BY <1>1, Invariance, PTL
=============================================================================
