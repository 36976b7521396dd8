-------------------------------- MODULE Server --------------------------------
(***************************************************************************)
(* The processes that update one database: the server, which is restarted  *)
(* after an error and polls the database for the time of the next update,  *)
(* and the commands "update" and "update-users", which an administrator    *)
(* runs beside it.  All of them pass through run_update(), which first     *)
(* grants access to the users of ldp_users.conf and then replaces the      *)
(* tables one by one; nothing locks the processes out of each other.       *)
(*                                                                         *)
(* What the replacement of a table does to its rows is in StageMerge, how  *)
(* the loop over the tables runs is in UpdateRun; here a replacement only  *)
(* decides who can read the table.  Time is counted in units of            *)
(* PollInterval or less.                                                   *)
(***************************************************************************)
EXTENDS Naturals

CONSTANTS
    Users,          \* the users that may be listed in ldp_users.conf
    NumTables,      \* the tables of the schema are 1..NumTables
    Server,         \* the process started as "ldp server"
    Shells,         \* bound: processes that the administrator runs commands in
    Spares,         \* bound: processes that a fork may return
    PollInterval,   \* 60 seconds
    ErrorDelay,     \* 300 seconds
    MaxFailures     \* bound: statements and connections that fail

Tables == 1..NumTables
Procs == {Server} \cup Shells \cup Spares
Commands == {"update", "update-users"}

ASSUME ServerAssumption ==
    /\ NumTables \in Nat \ {0}
    /\ Server \notin Shells \cup Spares
    /\ Shells \cap Spares = {}
    /\ PollInterval \in Nat \ {0} /\ ErrorDelay \in Nat \ {0}
    /\ MaxFailures \in Nat

VARIABLES
    superuser,  \* database_super_user and its password are configured
    due,        \* enable_full_updates, and next_full_update has passed
    listed,     \* the users in ldp_users.conf
    access,     \* the users that can select from every main table
    failures,   \* how many failures have happened
    command,    \* the command that every process runs
    pc,         \* where every process is
    run,        \* the local variables of run_update() in every process
    timer,      \* what is left of a sleep
    elapsed,    \* error_timer, up to ErrorDelay
    shared,     \* the processes whose connection was shared by a fork
    alone,      \* ghost: the update-users that no update has run beside
    promised    \* ghost: the users that update-users has reported as updated

administration == <<superuser, due, listed>>
times == <<timer, elapsed>>
ghosts == <<alone, promised>>
vars == <<administration, access, failures, command, pc, run, times, shared, ghosts>>

\* The local variables of run_update(): todo are the users of the file that
\* read_users() has not come to, list are those that replaced tables are for,
\* ok is what read_users() will return, and table the one being worked on.
Locals(todo, list, ok, table) ==
    [todo |-> todo, list |-> list, ok |-> ok, table |-> table]

Runs == [todo : SUBSET Users, list : SUBSET Users, ok : BOOLEAN,
         table : 1..(NumTables + 1)]

NoRun == Locals({}, {}, TRUE, 1)

Init ==
    /\ superuser \in BOOLEAN
    /\ due \in BOOLEAN
    /\ listed \in SUBSET Users
    /\ access = [t \in Tables |-> {}]
    /\ failures = 0
    /\ command = [p \in Procs |-> IF p = Server THEN "server" ELSE "update"]
    /\ pc = [p \in Procs |-> IF p = Server THEN "start" ELSE "exited"]
    /\ run = [p \in Procs |-> NoRun]
    /\ timer = [p \in Procs |-> 0]
    /\ elapsed = [p \in Procs |-> 0]
    /\ shared = {}
    /\ alone = {}
    /\ promised = {}

Goto(p, from, to) == pc[p] = from /\ pc' = [pc EXCEPT ![p] = to]

Fail(n) == failures + n <= MaxFailures /\ failures' = failures + n

\* Variant: the server is always restarted at once.
RestartAtOnce(p) ==
    /\ Goto(p, "error", IF command[p] = "server" THEN "restart" ELSE "exited")
    /\ UNCHANGED <<administration, access, failures, command, run, times, shared, ghosts>>

\* The handler of ldp_exec() for the server, of main_ldp() for a command.
Recover(p) ==
    /\ Goto(p, "error", IF command[p] = "server" THEN "restart" ELSE "exited")
    /\ timer' = [timer EXCEPT ![p] = IF command[p] = "server" /\ elapsed[p] < ErrorDelay
                                     THEN ErrorDelay ELSE 0]
    /\ UNCHANGED <<administration, access, failures, command, run, elapsed, shared, ghosts>>

\* The next round of the loop of ldp_exec().
Restart(p) ==
    /\ timer[p] = 0
    /\ Goto(p, "restart", "start")
    /\ elapsed' = [elapsed EXCEPT ![p] = 0]
    /\ UNCHANGED <<administration, access, failures, command, run, timer, shared, ghosts>>

\* The administrator runs a command.
Run(p) ==
    /\ p \in Shells
    /\ Goto(p, "exited", "start")
    /\ \E c \in Commands : command' = [command EXCEPT ![p] = c]
    /\ UNCHANGED <<administration, access, failures, run, times, shared, ghosts>>

\* server_loop() checks the version of the database and connects to it.
Connect(p) ==
    /\ Goto(p, "start", "poll")
    /\ shared' = shared \ {p}
    /\ UNCHANGED <<administration, access, failures, command, run, times, ghosts>>

ConnectFail(p) ==
    /\ Goto(p, "start", "error")
    /\ Fail(1)
    /\ UNCHANGED <<administration, access, command, run, times, shared, ghosts>>

-----------------------------------------------------------------------------
(* server_loop()                                                           *)

\* The processes in an update, which replaces tables for the users in its list.
Updating == {p \in Procs : command[p] # "update-users" /\ pc[p] \in {"users", "tables"}}

\* run_update() begins: read_users() reads the file, unless nobody could use it.
Begin(p) ==
    /\ Goto(p, "poll", "users")
    /\ command[p] = "server" => due
    /\ run' = [run EXCEPT ![p] =
                  Locals(IF superuser THEN listed ELSE {}, {}, superuser, 1)]
    /\ alone' = IF command[p] # "update-users" THEN {}
                ELSE IF Updating = {} THEN alone \cup {p} ELSE alone
    /\ UNCHANGED <<administration, access, failures, command, times, shared, promised>>

\* The end of the loop's body: the server sleeps, a command is done.
Ended(p) ==
    /\ pc' = [pc EXCEPT ![p] = IF command[p] = "server" THEN "sleep" ELSE "exited"]
    /\ timer' = [timer EXCEPT ![p] = IF command[p] = "server" THEN PollInterval ELSE 0]
    /\ run' = [run EXCEPT ![p] = NoRun]

NotDue(p) ==
    /\ pc[p] = "poll"
    /\ command[p] = "server"
    /\ ~ due
    /\ Ended(p)
    /\ UNCHANGED <<administration, access, failures, command, elapsed, shared, ghosts>>

\* The query fails, or returns anything but one row.
PollFail(p) ==
    /\ command[p] = "server"
    /\ Goto(p, "poll", "error")
    /\ Fail(1)
    /\ UNCHANGED <<administration, access, command, run, times, shared, ghosts>>

\* Two processes use one connection: either may get an error, or the other's
\* answer, so that it waits for its own forever.
PollShared(p) ==
    /\ p \in shared
    /\ command[p] = "server"
    /\ Goto(p, "poll", "error") \/ Goto(p, "poll", "hung")
    /\ UNCHANGED <<administration, access, failures, command, run, times, shared, ghosts>>

Wake(p) ==
    /\ timer[p] = 0
    /\ Goto(p, "sleep", "poll")
    /\ UNCHANGED <<administration, access, failures, command, run, times, shared, ghosts>>

-----------------------------------------------------------------------------
(* run_update(): the users                                                 *)

\* Variant: the user is not added to the list for the tables to come.
GrantUserOnce(p, u) ==
    /\ pc[p] = "users"
    /\ u \in run[p].todo
    /\ run' = [run EXCEPT ![p] = Locals(@.todo \ {u}, @.list, @.ok, @.table)]
    /\ access' = [t \in Tables |-> access[t] \cup {u}]
    /\ UNCHANGED <<administration, failures, command, pc, times, shared, ghosts>>

\* All of the grants to one user, on the tables that exist.
GrantUser(p, u) ==
    /\ pc[p] = "users"
    /\ u \in run[p].todo
    /\ run' = [run EXCEPT ![p] =
                  Locals(@.todo \ {u}, @.list \cup {u}, @.ok, @.table)]
    /\ access' = [t \in Tables |-> access[t] \cup {u}]
    /\ UNCHANGED <<administration, failures, command, pc, times, shared, ghosts>>

\* One of the grants fails, after or before the one on the main tables: the
\* user is left out of the list.
GrantFail(p, u) ==
    /\ pc[p] = "users"
    /\ u \in run[p].todo
    /\ Fail(1)
    /\ UNCHANGED access \/ access' = [t \in Tables |-> access[t] \cup {u}]
    /\ run' = [run EXCEPT ![p] = Locals(@.todo \ {u}, @.list, FALSE, @.table)]
    /\ promised' = IF command[p] = "update-users" THEN promised ELSE promised \ {u}
    /\ UNCHANGED <<administration, command, pc, times, shared, alone>>

\* run_update() throws.
Throw(p) ==
    /\ pc' = [pc EXCEPT ![p] = "handler"]
    /\ run' = [run EXCEPT ![p] = NoRun]

\* read_users() cannot connect as the superuser.
UsersFail(p) ==
    /\ superuser
    /\ pc[p] = "users"
    /\ Throw(p)
    /\ Fail(1)
    /\ alone' = alone \ {p}
    /\ UNCHANGED <<administration, access, command, times, shared, promised>>

\* After the users an update comes to the tables.
EndUsers(p) ==
    /\ Goto(p, "users", "tables")
    /\ run[p].todo = {}
    /\ command[p] # "update-users"
    /\ UNCHANGED <<administration, access, failures, command, run, times, shared, ghosts>>

\* update-users is done, and reports success if no grant has failed.
ReportUsers(p) ==
    /\ pc[p] = "users"
    /\ run[p].todo = {}
    /\ command[p] = "update-users"
    /\ Ended(p)
    /\ promised' = IF run[p].ok /\ p \in alone
                   THEN promised \cup (run[p].list \cap listed) ELSE promised
    /\ alone' = alone \ {p}
    /\ UNCHANGED <<administration, access, failures, command, elapsed, shared>>

-----------------------------------------------------------------------------
(* run_update(): the tables                                                *)

\* The local variables when the loop goes on with the next table.
OneOn(r) == Locals(r.todo, r.list, r.ok, r.table + 1)

\* Variant: the loop does not end after the last table.
NextTableAlways(p) ==
    /\ pc[p] = "tables"
    /\ run' = [run EXCEPT ![p] = OneOn(@)]

NextTable(p) ==
    /\ pc[p] = "tables"
    /\ run[p].table \in Tables
    /\ run' = [run EXCEPT ![p] = OneOn(@)]

\* Variant: the list of users is not passed on.
ReplaceTableForNobody(p) ==
    /\ NextTable(p)
    /\ access' = [access EXCEPT ![run[p].table] = {}]
    /\ UNCHANGED <<administration, failures, command, pc, times, shared, ghosts>>

\* The table is dropped, and the one that takes its name was created for the
\* users of the list.
ReplaceTable(p) ==
    /\ NextTable(p)
    /\ access' = [access EXCEPT ![run[p].table] = run[p].list]
    /\ UNCHANGED <<administration, failures, command, pc, times, shared, ghosts>>

\* The table is excluded, or was cleared because the source has no rows.
KeepTable(p) ==
    /\ NextTable(p)
    /\ UNCHANGED <<administration, access, failures, command, pc, times, shared, ghosts>>

\* Some step of the table fails: its error is logged, and the loop goes on.
TableFail(p) ==
    /\ NextTable(p)
    /\ Fail(1)
    /\ UNCHANGED <<administration, access, command, pc, times, shared, ghosts>>

\* The process q goes on with the next table, in the place of p.
Doubled(p, q) ==
    /\ pc[p] = "tables"
    /\ run[p].table \in Tables
    /\ q \in Spares
    /\ pc[q] = "exited"
    /\ pc' = [pc EXCEPT ![q] = "tables"]
    /\ command' = [command EXCEPT ![q] = command[p]]
    /\ run' = [run EXCEPT ![p] = OneOn(@), ![q] = OneOn(run[p])]
    /\ elapsed' = [elapsed EXCEPT ![q] = elapsed[p]]
    /\ shared' = shared \cup {p, q}

\* Variant: the error handler of the worker does not end it.
EscapeAfterError(p) ==
    /\ Fail(1)
    /\ \E q \in Spares : Doubled(p, q)
    /\ UNCHANGED <<administration, access, timer, ghosts>>

\* The worker of a parallel update fails, and so does its error handler: the
\* exception is caught by the loop that the worker has inherited, and it goes on
\* with the next table like its parent.
Escape(p) ==
    /\ Fail(2)
    /\ \E q \in Spares : Doubled(p, q)
    /\ UNCHANGED <<administration, access, timer, ghosts>>

\* run_update() throws: before and after the loop if a statement fails, in the
\* loop only if a statement of its error handler fails too.
UpdateFail(p) ==
    /\ pc[p] = "tables"
    /\ Throw(p)
    /\ Fail(IF run[p].table \in {1, NumTables + 1} THEN 1 ELSE 2)
    /\ UNCHANGED <<administration, access, command, times, shared, ghosts>>

EndTables(p) ==
    /\ pc[p] = "tables"
    /\ run[p].table \notin Tables
    /\ Ended(p)
    /\ UNCHANGED <<administration, access, failures, command, elapsed, shared, ghosts>>

\* Variant: an update that fails ends the server.
GiveUp(p) ==
    /\ Goto(p, "handler", "exited")
    /\ UNCHANGED <<administration, access, failures, command, run, times, shared, ghosts>>

\* server_loop() catches what run_update() throws: it is only logged.
LogError(p) ==
    /\ pc[p] = "handler"
    /\ Ended(p)
    /\ UNCHANGED <<administration, access, failures, command, elapsed, shared, ghosts>>

LogFail(p) ==
    /\ Goto(p, "handler", "error")
    /\ Fail(1)
    /\ UNCHANGED <<administration, access, command, run, times, shared, ghosts>>

Step(p) ==
    \/ Recover(p) \/ Restart(p) \/ Connect(p) \/ ConnectFail(p)
    \/ Begin(p) \/ NotDue(p) \/ PollFail(p) \/ PollShared(p) \/ Wake(p)
    \/ \E u \in Users : GrantUser(p, u) \/ GrantFail(p, u)
    \/ UsersFail(p) \/ EndUsers(p) \/ ReportUsers(p)
    \/ ReplaceTable(p) \/ KeepTable(p) \/ TableFail(p) \/ Escape(p) \/ UpdateFail(p)
    \/ EndTables(p) \/ LogError(p) \/ LogFail(p)

-----------------------------------------------------------------------------
(* Time, and the administrator                                             *)

Tick ==
    /\ timer' = [p \in Procs |-> IF timer[p] > 0 THEN timer[p] - 1 ELSE 0]
    /\ elapsed' = [p \in Procs |-> IF command[p] = "server" /\ elapsed[p] < ErrorDelay
                                   THEN elapsed[p] + 1 ELSE elapsed[p]]
    /\ UNCHANGED <<administration, access, failures, command, pc, run, shared, ghosts>>

ChangeUsers ==
    /\ \E u \in Users : listed' = (listed \ {u}) \cup ({u} \ listed)
    /\ promised' = promised \cap listed'
    /\ UNCHANGED <<superuser, due, access, failures, command, pc, run, times, shared,
                   alone>>

\* enable_full_updates or next_full_update is changed, or the time has come.
ChangeDue ==
    /\ due' = ~ due
    /\ UNCHANGED <<superuser, listed, access, failures, command, pc, run, times, shared,
                   ghosts>>

Next ==
    \/ \E p \in Procs : Step(p) \/ Run(p)
    \/ Tick
    \/ ChangeUsers
    \/ ChangeDue

Spec == Init /\ [][Next]_vars

\* The operating system runs every process, and time passes; nobody has to run
\* a command or to change the configuration.
FairSpec == Spec /\ WF_vars(Tick) /\ \A p \in Procs : WF_vars(Step(p))

-----------------------------------------------------------------------------
(* Properties                                                              *)

\* Every variable has its type.
TypeOK ==
    /\ superuser \in BOOLEAN /\ due \in BOOLEAN
    /\ listed \subseteq Users
    /\ access \in [Tables -> SUBSET Users]
    /\ failures \in 0..MaxFailures
    /\ command \in [Procs -> Commands \cup {"server"}]
    /\ pc \in [Procs -> {"exited", "start", "poll", "users", "tables", "handler",
                         "sleep", "error", "restart", "hung"}]
    /\ run \in [Procs -> Runs]
    /\ timer \in [Procs -> Nat]
    /\ elapsed \in [Procs -> 0..ErrorDelay]
    /\ shared \subseteq Procs /\ alone \subseteq Procs
    /\ promised \subseteq Users

\* A user for whom update-users has reported success, with no update running
\* beside it, can read every table from then on, as tables are replaced by any
\* number of updates, until an administrator removes the user from the file or
\* an update logs that its grant has failed.
PromiseKept == \A u \in promised, t \in Tables : u \in access[t]

\* However an error strikes, the server is started again no sooner than
\* ErrorDelay after it was started before.
RestartsApart ==
    [][\A p \in Procs : pc[p] = "restart" /\ pc'[p] = "start" => elapsed[p] >= ErrorDelay]_vars

\* As long as there is one failure at most, the process started as the server
\* goes on forever, and no other process becomes a server.
OneServer ==
    failures <= 1 =>
        {p \in Procs : command[p] = "server" /\ pc[p] \notin {"exited", "hung"}} = {Server}

\* A user who stays in the file can in the end read every table and keeps this
\* access, whatever other users are listed and whichever failures have happened,
\* if updates stay due and no worker has become a second server.
AccessConverges ==
    \A u \in Users :
        superuser /\ <>[](u \in listed) /\ <>[]due /\ [](shared = {})
            => <>[](\A t \in Tables : u \in access[t])

\* The server never stops updating while updates are due.
KeepsUpdating ==
    <>[]due /\ [](shared = {})
        => []<>(pc[Server] = "tables")
=============================================================================
