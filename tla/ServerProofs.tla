----------------------------- MODULE ServerProofs -----------------------------
(***************************************************************************)
(* Proofs about Server, for any users, tables, processes, delays and       *)
(* number of failures.                                                     *)
(***************************************************************************)
EXTENDS Server, TLAPS

-----------------------------------------------------------------------------
(* Who can read the tables                                                 *)

\* Without a superuser, nobody is granted access.
NobodyWithoutSuperuser ==
    ~ superuser =>
        promised = {} /\ \A p \in Procs : run[p].todo = {} /\ run[p].list = {}

\* A promise is for a listed user, and whoever is replacing tables knows of the
\* user, or is about to.
PromisesKnown ==
    /\ promised \subseteq listed
    /\ \A p \in Procs : pc[p] = "tables" => promised \subseteq run[p].list
    /\ \A p \in Procs : pc[p] = "users" /\ command[p] # "update-users" =>
          promised \subseteq run[p].list \cup run[p].todo

\* What an update-users has granted stays until an update begins.
AloneGranted ==
    \A p \in alone :
        /\ pc[p] = "users" /\ command[p] = "update-users"
        /\ \A q \in Procs : pc[q] \in {"users", "tables"} => command[q] = "update-users"
        /\ \A t \in Tables : run[p].list \subseteq access[t]

\* update-users never comes to the tables.
TablesByUpdates == \A p \in Procs : pc[p] = "tables" => command[p] # "update-users"

PromiseInv ==
    NobodyWithoutSuperuser /\ PromisesKnown /\ AloneGranted /\ TablesByUpdates /\ PromiseKept

(* When the server is restarted                                            *)

\* The sleep and the time before it are long enough together.
DelayInv ==
    \A p \in Procs : pc[p] = "restart" =>
        command[p] = "server" /\ elapsed[p] + timer[p] >= ErrorDelay

(* Which process is the server                                             *)

ServerInv ==
    /\ command[Server] = "server"
    /\ \A p \in Shells : command[p] \in Commands
    /\ pc[Server] # "exited"
    /\ failures <= 1 => shared = {} /\ \A p \in Spares : pc[p] = "exited"
    /\ \A p \in Procs : pc[p] = "hung" => failures > 1

IInv == TypeOK /\ PromiseInv /\ DelayInv /\ ServerInv

\* The loop stays within its bounds.
LEMMA OneOnType ==
    ASSUME NEW r \in Runs, r.table \in Tables
    PROVE  OneOn(r) \in Runs
BY ServerAssumption DEF Runs, OneOn, Locals, Tables

LEMMA IInvInit == Init => IInv
<1> SUFFICES ASSUME Init PROVE IInv
    OBVIOUS
<1> USE ServerAssumption DEF Init, Tables, Procs, Commands
<1>1. TypeOK
    BY DEF TypeOK, NoRun, Locals, Runs
<1>2. PromiseInv
    BY DEF PromiseInv, NobodyWithoutSuperuser, PromisesKnown, AloneGranted,
           TablesByUpdates, PromiseKept, Updating, NoRun, Locals
<1>3. DelayInv
    BY DEF DelayInv
<1>4. ServerInv
    BY DEF ServerInv
<1> QED
    BY <1>1, <1>2, <1>3, <1>4 DEF IInv

LEMMA TypeStep == TypeOK /\ [Next]_vars => TypeOK'
<1> SUFFICES ASSUME TypeOK, [Next]_vars PROVE TypeOK'
    OBVIOUS
<1> USE ServerAssumption DEF TypeOK, Procs, Commands, administration, times, ghosts
<1>1. ASSUME NEW p \in Procs, Step(p) \/ Run(p) PROVE TypeOK'
  <2>1. CASE Recover(p)
    BY <2>1 DEF Recover, Goto
  <2>2. CASE Restart(p)
    BY <2>2 DEF Restart, Goto
  <2>3. CASE Connect(p)
    BY <2>3 DEF Connect, Goto
  <2>4. CASE ConnectFail(p)
    BY <2>4 DEF ConnectFail, Goto, Fail
  <2>5. CASE Begin(p)
    BY <2>5 DEF Locals, Runs, Begin, Goto, Updating
  <2>6. CASE NotDue(p)
    BY <2>6 DEF NoRun, Locals, Runs, NotDue, Ended
  <2>7. CASE PollFail(p)
    BY <2>7 DEF PollFail, Goto, Fail
  <2>8. CASE PollShared(p)
    BY <2>8 DEF PollShared, Goto
  <2>9. CASE Wake(p)
    BY <2>9 DEF Wake, Goto
  <2>10. CASE \E u \in Users : GrantUser(p, u)
    BY <2>10 DEF Locals, Runs, GrantUser
  <2>11. CASE \E u \in Users : GrantFail(p, u)
    BY <2>11 DEF Locals, Runs, GrantFail, Fail
  <2>12. CASE UsersFail(p)
    BY <2>12 DEF NoRun, Locals, Runs, UsersFail, Throw, Fail
  <2>13. CASE EndUsers(p)
    BY <2>13 DEF EndUsers, Goto
  <2>14. CASE ReportUsers(p)
    BY <2>14 DEF NoRun, Locals, Runs, ReportUsers, Ended
  <2>15. CASE ReplaceTable(p)
    <3>1. run[p].list \in SUBSET Users
        BY <1>1 DEF Runs
    <3> QED
        BY <2>15, <3>1, OneOnType DEF ReplaceTable, NextTable
  <2>16. CASE KeepTable(p)
    BY <2>16, OneOnType DEF KeepTable, NextTable
  <2>17. CASE TableFail(p)
    BY <2>17, OneOnType DEF TableFail, NextTable, Fail
  <2>18. CASE Escape(p)
    <3>1. PICK q \in Spares : Doubled(p, q)
        BY <2>18 DEF Escape
    <3>2. q \in Procs /\ OneOn(run[p]) \in Runs
        BY <3>1, OneOnType DEF Doubled
    <3>3. run' \in [Procs -> Runs]
        BY <3>1, <3>2 DEF Doubled
    <3> QED
        BY <2>18, <3>1, <3>2, <3>3 DEF Escape, Doubled, Fail
  <2>19. CASE UpdateFail(p)
    BY <2>19 DEF NoRun, Locals, Runs, UpdateFail, Throw, Fail
  <2>20. CASE EndTables(p)
    BY <2>20 DEF NoRun, Locals, Runs, EndTables, Ended
  <2>21. CASE LogError(p)
    BY <2>21 DEF NoRun, Locals, Runs, LogError, Ended
  <2>22. CASE LogFail(p)
    BY <2>22 DEF LogFail, Goto, Fail
  <2>23. CASE Run(p)
    BY <2>23 DEF Run, Goto
  <2> QED
    BY <1>1, <2>1, <2>2, <2>3, <2>4, <2>5, <2>6, <2>7, <2>8, <2>9, <2>10, <2>11, <2>12,
       <2>13, <2>14, <2>15, <2>16, <2>17, <2>18, <2>19, <2>20, <2>21, <2>22, <2>23
       DEF Step
<1>2. CASE Tick
    BY <1>2 DEF Tick
<1>3. CASE ChangeUsers
    BY <1>3 DEF ChangeUsers
<1>4. CASE ChangeDue
    BY <1>4 DEF ChangeDue
<1>5. CASE UNCHANGED vars
    BY <1>5 DEF vars
<1> QED
    BY <1>1, <1>2, <1>3, <1>4, <1>5 DEF Next

LEMMA PromiseStep == TypeOK /\ PromiseInv /\ [Next]_vars => PromiseInv'
<1> SUFFICES ASSUME TypeOK, PromiseInv, [Next]_vars PROVE PromiseInv'
    OBVIOUS
<1> USE ServerAssumption DEF TypeOK, Runs, PromiseInv, NobodyWithoutSuperuser, PromisesKnown,
           AloneGranted, TablesByUpdates, PromiseKept, administration, ghosts
<1>1. ASSUME NEW p \in Procs, Step(p) \/ Run(p) PROVE PromiseInv'
  <2>1. CASE Recover(p)
    BY <2>1 DEF Recover, Goto
  <2>2. CASE Restart(p)
    BY <2>2 DEF Restart, Goto
  <2>3. CASE Connect(p)
    BY <2>3 DEF Connect, Goto
  <2>4. CASE ConnectFail(p)
    BY <2>4 DEF ConnectFail, Goto
  <2>5. CASE Begin(p)
    BY <2>5 DEF Begin, Goto, Updating, Locals
  <2>6. CASE NotDue(p)
    BY <2>6 DEF NotDue, Ended, NoRun, Locals
  <2>7. CASE PollFail(p)
    BY <2>7 DEF PollFail, Goto
  <2>8. CASE PollShared(p)
    BY <2>8 DEF PollShared, Goto
  <2>9. CASE Wake(p)
    BY <2>9 DEF Wake, Goto
  <2>10. CASE \E u \in Users : GrantUser(p, u)
    BY <2>10 DEF GrantUser, Locals
  <2>11. CASE \E u \in Users : GrantFail(p, u)
    BY <2>11 DEF GrantFail, Locals
  <2>12. CASE UsersFail(p)
    BY <2>12 DEF UsersFail, Throw, NoRun, Locals
  <2>13. CASE EndUsers(p)
    BY <2>13 DEF EndUsers, Goto
  <2>14. CASE ReportUsers(p)
    BY <2>14 DEF ReportUsers, Ended, NoRun, Locals
  <2>15. CASE ReplaceTable(p)
    BY <2>15 DEF ReplaceTable, NextTable, OneOn, Locals
  <2>16. CASE KeepTable(p)
    BY <2>16 DEF KeepTable, NextTable, OneOn, Locals
  <2>17. CASE TableFail(p)
    BY <2>17 DEF TableFail, NextTable, OneOn, Locals
  <2>18. CASE Escape(p)
    <3>1. PICK q \in Spares : Doubled(p, q)
        BY <2>18 DEF Escape
    <3>2. q \in Procs /\ q # p /\ command[p] # "update-users" /\ alone = {}
        BY <3>1 DEF Doubled, Procs
    <3>3. \A r \in Procs : r # q =>
            pc'[r] = pc[r] /\ command'[r] = command[r]
              /\ run'[r].todo = run[r].todo /\ run'[r].list = run[r].list
        BY <3>1, <3>2 DEF Doubled, OneOn, Locals
    <3>4. /\ pc'[q] = "tables" /\ command'[q] = command[p]
          /\ run'[q].todo = run[p].todo /\ run'[q].list = run[p].list
        BY <3>1, <3>2 DEF Doubled, OneOn, Locals
    <3> QED
        BY <2>18, <3>1, <3>2, <3>3, <3>4 DEF Escape, Doubled
  <2>19. CASE UpdateFail(p)
    BY <2>19 DEF UpdateFail, Throw, NoRun, Locals
  <2>20. CASE EndTables(p)
    BY <2>20 DEF EndTables, Ended, NoRun, Locals
  <2>21. CASE LogError(p)
    BY <2>21 DEF LogError, Ended, NoRun, Locals
  <2>22. CASE LogFail(p)
    BY <2>22 DEF LogFail, Goto
  <2>23. CASE Run(p)
    BY <2>23 DEF Run, Goto
  <2> QED
    BY <1>1, <2>1, <2>2, <2>3, <2>4, <2>5, <2>6, <2>7, <2>8, <2>9, <2>10, <2>11, <2>12,
       <2>13, <2>14, <2>15, <2>16, <2>17, <2>18, <2>19, <2>20, <2>21, <2>22, <2>23
       DEF Step
<1>2. CASE Tick
    BY <1>2 DEF Tick
<1>3. CASE ChangeUsers
    BY <1>3 DEF ChangeUsers
<1>4. CASE ChangeDue
    BY <1>4 DEF ChangeDue
<1>5. CASE UNCHANGED vars
    BY <1>5 DEF vars
<1> QED
    BY <1>1, <1>2, <1>3, <1>4, <1>5 DEF Next

LEMMA DelayStep == TypeOK /\ DelayInv /\ [Next]_vars => DelayInv'
<1> SUFFICES ASSUME TypeOK, DelayInv, [Next]_vars PROVE DelayInv'
    OBVIOUS
<1> USE ServerAssumption DEF TypeOK, DelayInv, times, administration
<1>1. ASSUME NEW p \in Procs, Step(p) \/ Run(p) PROVE DelayInv'
  <2>1. CASE Recover(p)
    BY <2>1 DEF Recover, Goto
  <2>2. CASE Restart(p)
    BY <2>2 DEF Restart, Goto
  <2>3. CASE Connect(p)
    BY <2>3 DEF Connect, Goto
  <2>4. CASE ConnectFail(p)
    BY <2>4 DEF ConnectFail, Goto
  <2>5. CASE Begin(p)
    BY <2>5 DEF Begin, Goto, Updating, Locals
  <2>6. CASE NotDue(p)
    BY <2>6 DEF NotDue, Ended, NoRun, Locals
  <2>7. CASE PollFail(p)
    BY <2>7 DEF PollFail, Goto
  <2>8. CASE PollShared(p)
    BY <2>8 DEF PollShared, Goto
  <2>9. CASE Wake(p)
    BY <2>9 DEF Wake, Goto
  <2>10. CASE \E u \in Users : GrantUser(p, u)
    BY <2>10 DEF GrantUser, Locals
  <2>11. CASE \E u \in Users : GrantFail(p, u)
    BY <2>11 DEF GrantFail, Locals
  <2>12. CASE UsersFail(p)
    BY <2>12 DEF UsersFail, Throw, NoRun, Locals
  <2>13. CASE EndUsers(p)
    BY <2>13 DEF EndUsers, Goto
  <2>14. CASE ReportUsers(p)
    BY <2>14 DEF ReportUsers, Ended, NoRun, Locals
  <2>15. CASE ReplaceTable(p)
    BY <2>15 DEF ReplaceTable, NextTable, OneOn, Locals
  <2>16. CASE KeepTable(p)
    BY <2>16 DEF KeepTable, NextTable, OneOn, Locals
  <2>17. CASE TableFail(p)
    BY <2>17 DEF TableFail, NextTable, OneOn, Locals
  <2>18. CASE Escape(p)
    BY <2>18 DEF Escape, Doubled, OneOn, Locals
  <2>19. CASE UpdateFail(p)
    BY <2>19 DEF UpdateFail, Throw, NoRun, Locals
  <2>20. CASE EndTables(p)
    BY <2>20 DEF EndTables, Ended, NoRun, Locals
  <2>21. CASE LogError(p)
    BY <2>21 DEF LogError, Ended, NoRun, Locals
  <2>22. CASE LogFail(p)
    BY <2>22 DEF LogFail, Goto
  <2>23. CASE Run(p)
    BY <2>23 DEF Run, Goto
  <2> QED
    BY <1>1, <2>1, <2>2, <2>3, <2>4, <2>5, <2>6, <2>7, <2>8, <2>9, <2>10, <2>11, <2>12,
       <2>13, <2>14, <2>15, <2>16, <2>17, <2>18, <2>19, <2>20, <2>21, <2>22, <2>23
       DEF Step
<1>2. CASE Tick
    BY <1>2 DEF Tick
<1>3. CASE ChangeUsers
    BY <1>3 DEF ChangeUsers
<1>4. CASE ChangeDue
    BY <1>4 DEF ChangeDue
<1>5. CASE UNCHANGED vars
    BY <1>5 DEF vars
<1> QED
    BY <1>1, <1>2, <1>3, <1>4, <1>5 DEF Next

LEMMA ServerStep == TypeOK /\ ServerInv /\ [Next]_vars => ServerInv'
<1> SUFFICES ASSUME TypeOK, ServerInv, [Next]_vars PROVE ServerInv'
    OBVIOUS
<1> USE ServerAssumption DEF TypeOK, ServerInv, Procs, Commands, administration
<1>1. ASSUME NEW p \in Procs, Step(p) \/ Run(p) PROVE ServerInv'
  <2>1. CASE Recover(p)
    BY <2>1 DEF Recover, Goto
  <2>2. CASE Restart(p)
    BY <2>2 DEF Restart, Goto
  <2>3. CASE Connect(p)
    BY <2>3 DEF Connect, Goto
  <2>4. CASE ConnectFail(p)
    BY <2>4 DEF ConnectFail, Goto, Fail
  <2>5. CASE Begin(p)
    BY <2>5 DEF Begin, Goto, Updating, Locals
  <2>6. CASE NotDue(p)
    BY <2>6 DEF NotDue, Ended, NoRun, Locals
  <2>7. CASE PollFail(p)
    BY <2>7 DEF PollFail, Goto, Fail
  <2>8. CASE PollShared(p)
    BY <2>8 DEF PollShared, Goto
  <2>9. CASE Wake(p)
    BY <2>9 DEF Wake, Goto
  <2>10. CASE \E u \in Users : GrantUser(p, u)
    BY <2>10 DEF GrantUser, Locals
  <2>11. CASE \E u \in Users : GrantFail(p, u)
    BY <2>11 DEF GrantFail, Locals, Fail
  <2>12. CASE UsersFail(p)
    BY <2>12 DEF UsersFail, Throw, NoRun, Locals, Fail
  <2>13. CASE EndUsers(p)
    BY <2>13 DEF EndUsers, Goto
  <2>14. CASE ReportUsers(p)
    BY <2>14 DEF ReportUsers, Ended, NoRun, Locals
  <2>15. CASE ReplaceTable(p)
    BY <2>15 DEF ReplaceTable, NextTable, OneOn, Locals
  <2>16. CASE KeepTable(p)
    BY <2>16 DEF KeepTable, NextTable, OneOn, Locals
  <2>17. CASE TableFail(p)
    BY <2>17 DEF TableFail, NextTable, OneOn, Locals, Fail
  <2>18. CASE Escape(p)
    BY <2>18 DEF Escape, Doubled, OneOn, Locals, Fail
  <2>19. CASE UpdateFail(p)
    BY <2>19 DEF UpdateFail, Throw, NoRun, Locals, Fail
  <2>20. CASE EndTables(p)
    BY <2>20 DEF EndTables, Ended, NoRun, Locals
  <2>21. CASE LogError(p)
    BY <2>21 DEF LogError, Ended, NoRun, Locals
  <2>22. CASE LogFail(p)
    BY <2>22 DEF LogFail, Goto, Fail
  <2>23. CASE Run(p)
    BY <2>23 DEF Run, Goto
  <2> QED
    BY <1>1, <2>1, <2>2, <2>3, <2>4, <2>5, <2>6, <2>7, <2>8, <2>9, <2>10, <2>11, <2>12,
       <2>13, <2>14, <2>15, <2>16, <2>17, <2>18, <2>19, <2>20, <2>21, <2>22, <2>23
       DEF Step
<1>2. CASE Tick
    BY <1>2 DEF Tick
<1>3. CASE ChangeUsers
    BY <1>3 DEF ChangeUsers
<1>4. CASE ChangeDue
    BY <1>4 DEF ChangeDue
<1>5. CASE UNCHANGED vars
    BY <1>5 DEF vars
<1> QED
    BY <1>1, <1>2, <1>3, <1>4, <1>5 DEF Next

-----------------------------------------------------------------------------
(* The theorems                                                            *)

LEMMA Inductive == Spec => []IInv
<1>1. IInv /\ [Next]_vars => IInv'
    BY TypeStep, PromiseStep, DelayStep, ServerStep DEF IInv
<1> QED
    BY IInvInit, <1>1, PTL DEF Spec

\* Every variable of the server, the commands and escaped workers keeps its type.
THEOREM TypeCorrect == Spec => []TypeOK
<1>1. IInv => TypeOK
    BY DEF IInv
<1> QED
    BY Inductive, <1>1, PTL

\* A user whom update-users has reported as updated, with no update running beside
\* it, can read every table, whatever updates replace the tables afterwards.
THEOREM PromiseAlwaysKept == Spec => []PromiseKept
<1>1. IInv => PromiseKept
    BY DEF IInv, PromiseInv
<1> QED
    BY Inductive, <1>1, PTL

\* With one failure at most, the server goes on forever, and no worker becomes a
\* second one.
THEOREM AlwaysOneServer == Spec => []OneServer
<1>1. IInv => OneServer
    BY ServerAssumption DEF IInv, ServerInv, OneServer, TypeOK, Procs, Commands
<1> QED
    BY Inductive, <1>1, PTL

\* The server is started again no sooner than ErrorDelay after it was started.
THEOREM AlwaysRestartsApart == Spec => RestartsApart
<1>1. ASSUME TypeOK, DelayInv, [Next]_vars,
             NEW p \in Procs, pc[p] = "restart", pc'[p] = "start"
      PROVE  elapsed[p] >= ErrorDelay
  <2>1. PICK q \in Procs : Step(q) \/ Run(q)
      BY <1>1 DEF Next, Tick, ChangeUsers, ChangeDue, vars
  <2>2. q = p
      BY <1>1, <2>1
      DEF TypeOK, Step, Recover, Restart, Connect, ConnectFail, Begin, NotDue, PollFail,
          PollShared, Wake, GrantUser, GrantFail, UsersFail, EndUsers, ReportUsers,
          ReplaceTable, KeepTable, TableFail, Escape, UpdateFail, EndTables, LogError,
          LogFail, Run, Goto, Ended, Throw, Doubled
  <2>3. timer[p] = 0
      BY <1>1, <2>1, <2>2
      DEF TypeOK, Step, Recover, Restart, Connect, ConnectFail, Begin, NotDue, PollFail,
          PollShared, Wake, GrantUser, GrantFail, UsersFail, EndUsers, ReportUsers,
          ReplaceTable, KeepTable, TableFail, Escape, UpdateFail, EndTables, LogError,
          LogFail, Run, Goto, Ended, Throw, Doubled
  <2> QED
      BY <1>1, <2>3, ServerAssumption DEF TypeOK, DelayInv
<1>2. IInv /\ [Next]_vars =>
        [\A p \in Procs : pc[p] = "restart" /\ pc'[p] = "start" => elapsed[p] >= ErrorDelay]_vars
    BY <1>1 DEF IInv
<1> QED
    BY Inductive, <1>2, PTL DEF Spec, RestartsApart

=============================================================================
