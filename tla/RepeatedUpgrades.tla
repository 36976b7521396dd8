-------------------------- MODULE RepeatedUpgrades --------------------------
(***************************************************************************)
(* Why an upgrade of a database of version 14 or later can be repeated, as *)
(* often as it is interrupted: facts about the lists of statements, which  *)
(* TLC computes, and the invariant that follows from them.                 *)
(***************************************************************************)
EXTENDS DatabaseUpgrade

AnyObject == STRING \X STRING

StatementSet ==
    [needs : SUBSET AnyObject, forbids : SUBSET AnyObject, unless : SUBSET AnyObject,
     takes : SUBSET AnyObject, puts : SUBSET AnyObject,
     rows : SUBSET STRING, alters : SUBSET STRING, try : BOOLEAN]

\* The lists and the databases have the right form.  (That a string, or one put
\* together, is in STRING is computed by TLC, too.)
ASSUME ObjectsAssumption ==
    /\ \A v \in 1..Latest : Statements[v] \in Seq(StatementSet) /\ Statements[v] # <<>>
    /\ \A v \in 0..Latest : Databases(v) \subseteq SUBSET AnyObject
    /\ Fresh \subseteq AnyObject
    /\ {"catalog", "duplicate catalog row"} \subseteq STRING

\* What a statement depends on, or makes so.
Scope(s) == s.needs \cup s.forbids \cup s.unless \cup s.takes \cup s.puts

\* No statement touches what an earlier one depends on or has made so, and none
\* adds rows.  Only attempts change anything: whether one of the others is
\* refused stays the same.
Repeatable(statements) ==
    \A k \in DOMAIN statements :
        /\ statements[k].rows = {}
        /\ statements[k].try \/ statements[k].takes \cup statements[k].puts = {}
        /\ \A j \in 1..(k - 1) :
            (statements[k].takes \cup statements[k].puts) \cap Scope(statements[j]) = {}

\* The upgrades without a transaction, from the 15th on.
ASSUME RepeatableAssumption ==
    \A v \in (15..Latest) \ Transactional : Repeatable(Statements[v])

\* The databases of each version that begin with some version from 14 on, and are
\* upgraded without an interruption.
Uninterrupted[v \in 14..Latest] ==
    Databases(v) \cup
    (IF v = 14 THEN {} ELSE {ExecutedAll(S, Statements[v]) : S \in Uninterrupted[v - 1]})

\* An upgrade that nothing interrupts is not refused.
Unrefused(S, statements) ==
    \A k \in DOMAIN statements :
        statements[k].try \/ ~ Refused(ExecutedAll(S, SubSeq(statements, 1, k - 1)), statements[k])

\* What uninterrupted upgrades come to, and that init-database comes to the same as
\* some of them.
ASSUME UninterruptedAssumption ==
    /\ Fresh \in Uninterrupted[Latest]
    /\ \A v \in 14..Latest : \A S \in Uninterrupted[v] :
        /\ AsExpected(S, v)
        /\ v = Latest => OfSchema(S) = Fresh
        /\ v < Latest => Unrefused(S, Statements[v + 1])

-----------------------------------------------------------------------------
(* The invariant                                                           *)

\* The objects after the first k statements of the upgrade to version v + 1.
Reached(S, v, k) == ExecutedAll(S, SubSeq(Statements[v + 1], 1, k))

\* However often the upgrade has been interrupted, the database is where an
\* uninterrupted one would be after some of the statements, and the command has
\* not come further than that.
ObjectsInv ==
    version # NoVersion =>
        IF version = Latest THEN objects \in Uninterrupted[Latest]
        ELSE \E S \in Uninterrupted[version], k \in 0..Len(Statements[version + 1]) :
                /\ objects = Reached(S, version, k)
                /\ version + 1 \in Transactional => k = 0
                /\ pc = "upgrade" => next <= k + 1

RecentInv ==
    /\ version = NoVersion \/ version >= 14
    /\ pc = "upgrade" /\ version + 1 \in Transactional => next = 1

IInv == TypeOK /\ RecentInv /\ ObjectsInv

\* The database begins with version 14 or later, or none, and users have not
\* defined views on its tables.
Recent == StartVersions \subseteq (14..Latest) \cup {NoVersion} /\ Viewed = {}

=============================================================================
