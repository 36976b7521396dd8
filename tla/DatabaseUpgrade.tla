-------------------------- MODULE DatabaseUpgrade --------------------------
(***************************************************************************)
(* The commands init-database and upgrade-database on one database.  An    *)
(* upgrade executes the statements of every later version in turn.  It can *)
(* be interrupted between any two statements, and started again; what was  *)
(* executed outside of a transaction stays.                                *)
(***************************************************************************)
EXTENDS UpgradeStatements

CONSTANTS
    StartVersions,     \* the versions of the database to begin with
    Viewed,            \* the tables of which users have defined views
    MaxInterruptions   \* bound: interrupted commands

NoVersion == -1   \* the database has not been initialized

ASSUME DatabaseUpgradeAssumption ==
    /\ StartVersions \subseteq (0..Latest) \cup {NoVersion}
    /\ MaxInterruptions \in Nat

VARIABLES
    objects,        \* the objects of the database, as committed
    version,        \* the version in its table main
    pc,             \* "idle", or "upgrade" while upgrade-database runs
    next,           \* the next statement of the upgrade to version + 1
    interruptions   \* how many commands have been interrupted

vars == <<objects, version, pc, next, interruptions>>

\* What every version holds, when no upgrade to it has been interrupted.
\* (The quantifier lets TLC evaluate the version before only once.)
Expected[v \in 0..Latest] ==
    IF v = 0 THEN Version0
    ELSE UNION {ExecutedAll(S, Statements[v]) : S \in {Expected[v - 1]}}

\* The releases of the time added tables with tenant_id, until version 26, and
\* without the type uuid, until version 33.  Upgrades 27 and 34 change this for the
\* tables of the schema.
AddedAs(last, changed, v) ==
    LET added == UNION {Range(Added(w)) : w \in {w \in 13..last : w <= v}}
    IN  IF v >= changed THEN added \cap Unlisted ELSE added

Aged(v) ==
    LET uuids == UNION {{MainPart("uuid", t), HistoryPart("uuid", t)} :
                            t \in AddedAs(33, 34, v)}
        tenants == UNION {{MainPart("tenant_id", t), HistoryPart("tenant_id", t)} :
                            t \in AddedAs(26, 27, v)}
    IN  (Expected[v] \ uuids) \cup tenants

\* Without the tables that only upgrades add.
OfSchema(S) == {x \in S : x[2] \notin Unlisted}

\* A database of version v has been upgraded by this release, by older ones, or
\* created by an older one that had commented the table out.
Databases(v) == {Expected[v], Aged(v), OfSchema(Aged(v))}

Init ==
    /\ version \in StartVersions
    /\ objects \in IF version = NoVersion THEN {{}} ELSE Databases(version)
    /\ pc = "idle"
    /\ next = 1
    /\ interruptions = 0

\* All of init_database() is one transaction.  It is refused when there is a
\* version.
InitDatabase ==
    /\ pc = "idle"
    /\ version = NoVersion
    /\ objects' = Fresh
    /\ version' = Latest
    /\ UNCHANGED <<pc, next, interruptions>>

\* Variant: the upgrade to the next version is passed over.
StartUpgradeLate ==
    /\ pc = "idle"
    /\ version \in 0..(Latest - 1)
    /\ pc' = "upgrade"
    /\ next' = 1
    /\ version' = IF version + 1 < Latest THEN version + 1 ELSE version
    /\ UNCHANGED <<objects, interruptions>>

\* upgrade_database() begins from the version that it reads.
StartUpgrade ==
    /\ pc = "idle"
    /\ version \in 0..(Latest - 1)
    /\ pc' = "upgrade"
    /\ next' = 1
    /\ UNCHANGED <<objects, version, interruptions>>

\* Variant: the next upgrade goes on where the last one has ended.
RecordedOnly(v) ==
    /\ version' = v
    /\ pc' = IF v < Latest THEN "upgrade" ELSE "idle"
    /\ UNCHANGED next

\* A version has been recorded: on to the next one, if any.
Recorded(v) ==
    /\ version' = v
    /\ next' = 1
    /\ pc' = IF v < Latest THEN "upgrade" ELSE "idle"

\* PostgreSQL refuses to change a column that a view depends on.
RefusedByView(s) == s.alters \cap Viewed # {}

\* Whether a refused statement will end the command: in a transaction, any of
\* its statements, otherwise the next one.
Blocked ==
    LET statements == Statements[version + 1]
        reached == IF version + 1 \in Transactional
                   THEN next..Len(statements) ELSE {next}
        before(k) == ExecutedAll(objects, SubSeq(statements, next, k - 1))
    IN  \E k \in reached :
            /\ ~ statements[k].try
            /\ Refused(before(k), statements[k]) \/ RefusedByView(statements[k])

\* Variant: the error of a statement is ignored.
ExecuteStatementAnyhow ==
    /\ pc = "upgrade"
    /\ version + 1 \notin Transactional
    /\ LET statements == Statements[version + 1]
       IN  /\ objects' = Executed(objects, statements[next])
           /\ IF next = Len(statements)
              THEN Recorded(version + 1)
              ELSE next' = next + 1 /\ UNCHANGED <<version, pc>>
    /\ UNCHANGED interruptions

\* One statement of an upgrade without a transaction; the last one records the
\* version.
ExecuteStatement ==
    /\ pc = "upgrade"
    /\ version + 1 \notin Transactional
    /\ ~ Blocked
    /\ LET statements == Statements[version + 1]
       IN  /\ objects' = IF RefusedByView(statements[next])
                         THEN objects
                         ELSE Executed(objects, statements[next])
           /\ IF next = Len(statements)
              THEN Recorded(version + 1)
              ELSE next' = next + 1 /\ UNCHANGED <<version, pc>>
    /\ UNCHANGED interruptions

\* An upgrade between BEGIN and COMMIT.
ExecuteTransaction ==
    /\ pc = "upgrade"
    /\ version + 1 \in Transactional
    /\ ~ Blocked
    /\ objects' = ExecutedAll(objects, Statements[version + 1])
    /\ Recorded(version + 1)
    /\ UNCHANGED interruptions

\* A refused statement ends the command with an error message.
Refuse ==
    /\ pc = "upgrade"
    /\ Blocked
    /\ pc' = "idle"
    /\ next' = 1
    /\ UNCHANGED <<objects, version, interruptions>>

\* Variant: what a transaction has executed stays.
InterruptCommitted ==
    /\ pc = "upgrade"
    /\ interruptions < MaxInterruptions
    /\ interruptions' = interruptions + 1
    /\ pc' = "idle"
    /\ next' = 1
    /\ \E k \in 0..Len(Statements[version + 1]) :
        objects' = IF version + 1 \in Transactional
                   THEN ExecutedAll(objects, SubSeq(Statements[version + 1], 1, k))
                   ELSE objects
    /\ UNCHANGED version

\* The process or its connection ends: an open transaction is rolled back.
Interrupt ==
    /\ pc = "upgrade"
    /\ interruptions < MaxInterruptions
    /\ interruptions' = interruptions + 1
    /\ pc' = "idle"
    /\ next' = 1
    /\ UNCHANGED <<objects, version>>

Done == version = Latest /\ pc = "idle" /\ UNCHANGED vars

Next ==
    \/ InitDatabase
    \/ StartUpgrade
    \/ ExecuteStatement
    \/ ExecuteTransaction
    \/ Refuse
    \/ Interrupt
    \/ Done

Spec == Init /\ [][Next]_vars

\* The administrator repeats the command until the database is up to date.
FairSpec == Spec /\ WF_vars(Next)

-----------------------------------------------------------------------------
(* Properties                                                              *)

\* Every variable has its type.
TypeOK ==
    /\ \A x \in objects : x \in STRING \X STRING
    /\ version \in (0..Latest) \cup {NoVersion}
    /\ pc \in {"idle", "upgrade"}
    /\ next \in Nat \ {0}
    /\ pc = "upgrade" => version \in 0..(Latest - 1) /\ next <= Len(Statements[version + 1])
    /\ interruptions \in 0..MaxInterruptions

\* Without the columns that depend on the release that has added the table, until
\* upgrades 27 and 34 have changed them.  For a table that is not in the schema
\* they never do: it keeps tenant_id, and an id that is no uuid.
Settled(S, v) ==
    {x \in S :
        /\ v < 34 \/ x[2] \in Unlisted => x[1] \notin {"main uuid", "history uuid"}
        /\ v < 27 \/ x[2] \in Unlisted => x[1] \notin {"main tenant_id", "history tenant_id"}}

\* What an uninterrupted upgrade to version v leaves, with or without a table
\* that is not in the schema.
AsExpected(S, v) ==
    \E E \in {Expected[v], OfSchema(Expected[v])} : Settled(S, v) = Settled(E, v)

\* A version is recorded only when the database has just what an uninterrupted
\* upgrade gives it, however often the upgrade has been interrupted and begun
\* again.
VersionIsTrue ==
    [][version' # version /\ version # NoVersion => AsExpected(objects', version')]_vars

\* As to the tables of the schema, an upgraded database is like one that
\* init-database has created: the upgrades have added every table, its history,
\* and one row in the catalog.  Beyond that it may only have what VersionIsTrue
\* leaves to finance_ledger_fiscal_years, which init-database does not create.
UpgradedHasSchema == version = Latest => OfSchema(objects) = Fresh

\* Only upgrades to the versions until 14 can be refused after an interruption;
\* the later ones can always be repeated.
OnlyOldUpgradesRefuse == [][Refuse => version < 14]_vars

\* A database of version 14 or later is brought up to date, whatever is
\* interrupted on the way.
UpgradeCompletes == version >= 14 ~> version = Latest

=============================================================================
