---------------------------- MODULE ForeignKeys ----------------------------
(***************************************************************************)
(* Foreign key constraints across updates: the constraints in the          *)
(* database, and their registry dbsystem.foreign_key_constraints, by which *)
(* the next update finds the constraints it has to remove before it can    *)
(* replace a table.  A constraint is added, and then registered, without a *)
(* transaction; it is removed within the transaction that replaces the     *)
(* first table of an update.                                               *)
(*                                                                         *)
(* A foreign key is a pair <<referencing table, referenced table>>.  Row i *)
(* of the referencing table refers to row i of the referenced one.         *)
(***************************************************************************)
EXTENDS Naturals, Sequences

CONSTANTS
    Order,         \* the tables, in the order of the schema
    Keys,          \* the foreign keys in dbconfig.foreign_keys
    Ids,           \* row IDs
    MaxChanges,    \* bound: changes of the source
    MaxFailures    \* bound: failed statements and crashes

Tables == {Order[n] : n \in DOMAIN Order}

ASSUME ForeignKeysAssumption ==
    /\ Order \in Seq(Tables)
    /\ Len(Order) > 0
    /\ Keys \subseteq Tables \X Tables
    /\ \A k \in Keys : k[1] # k[2]
    /\ MaxChanges \in Nat
    /\ MaxFailures \in Nat

VARIABLES
    source,        \* the rows of every table in the source
    changes,       \* how many changes of the source have happened
    content,       \* the rows of every main table
    extracted,     \* the rows that this update has found in the source
    constraints,   \* the foreign key constraints of the database
    registry,      \* the rows of dbsystem.foreign_key_constraints
    pc,            \* what the update does next
    position,      \* the position of the table that is updated
    enabled,       \* the foreign keys selected for process_foreign_keys()
    todo,          \* those that it has not begun with
    key,           \* the one that it is at
    exceptions,    \* the rows in temp_foreign_key_exceptions
    clean,         \* nothing has failed in this update
    failures       \* how many failures have happened

vars == <<source, changes, content, extracted, constraints, registry, pc, position,
          enabled, todo, key, exceptions, clean, failures>>

database == <<content, constraints, registry>>
loop == <<enabled, todo, key, exceptions>>
environment == <<source, changes, clean, failures>>

NoKey == <<>>

Init ==
    /\ source \in [Tables -> SUBSET Ids]
    /\ changes = 0
    /\ content = [t \in Tables |-> {}]
    /\ extracted = [t \in Tables |-> {}]
    /\ constraints = {}
    /\ registry = {}
    /\ pc = "idle"
    /\ position = 1
    /\ enabled = {}
    /\ todo = {}
    /\ key = NoKey
    /\ exceptions = {}
    /\ clean = TRUE
    /\ failures = 0

SourceChange ==
    /\ changes < MaxChanges
    /\ changes' = changes + 1
    /\ \E t \in Tables, rows \in SUBSET Ids :
          /\ rows # source[t]
          /\ source' = [source EXCEPT ![t] = rows]
    /\ UNCHANGED <<database, extracted, pc, position, loop, clean, failures>>

StartUpdate ==
    /\ pc = "idle"
    /\ pc' = "table"
    /\ position' = 1
    /\ clean' = TRUE
    /\ UNCHANGED <<source, changes, failures, database, extracted, loop>>

-----------------------------------------------------------------------------
(* The loop over the tables                                                *)

table == Order[position]

\* Variant: the loop ends one table too late.
NextTableLate ==
    /\ position' = position + 1
    /\ pc' = IF position <= Len(Order) THEN "table" ELSE "keys"

NextTable ==
    /\ position' = position + 1
    /\ pc' = IF position < Len(Order) THEN "table" ELSE "keys"

Extract ==
    /\ pc = "table"
    /\ extracted' = [extracted EXCEPT ![table] = source[table]]

\* The registered constraints can be dropped, and then the table, unless some
\* other constraint refers to it.
Replaceable ==
    /\ registry \subseteq constraints
    /\ \A k \in constraints \ registry : k[2] # table

\* Variant: the registry is not cleared.
ReplaceKeepingRegistry ==
    /\ Extract
    /\ source[table] # {}
    /\ Replaceable
    /\ constraints' = {k \in constraints \ registry : k[1] # table}
    /\ content' = [content EXCEPT ![table] = source[table]]
    /\ NextTable
    /\ UNCHANGED <<registry, environment, loop>>

\* stage_merge(), in one transaction: remove_foreign_key_constraints(),
\* drop_table() and place_table().
ReplaceTable ==
    /\ Extract
    /\ source[table] # {}
    /\ Replaceable
    /\ constraints' = {k \in constraints \ registry : k[1] # table}
    /\ registry' = {}
    /\ content' = [content EXCEPT ![table] = source[table]]
    /\ NextTable
    /\ UNCHANGED <<environment, loop>>

\* PostgreSQL refuses, and the transaction is rolled back.
ReplaceRefused ==
    /\ Extract
    /\ source[table] # {}
    /\ ~ Replaceable
    /\ NextTable
    /\ UNCHANGED <<database, environment, loop>>

\* No row of the main table is referred to by way of a constraint.
Deletable(t, rows) ==
    \A k \in constraints : k[2] = t => rows \cap content[k[1]] = {}

\* A table without source rows is cleared, not replaced.
ClearTable ==
    /\ Extract
    /\ source[table] = {}
    /\ content' = IF Deletable(table, content[table])
                  THEN [content EXCEPT ![table] = {}]
                  ELSE content
    /\ NextTable
    /\ UNCHANGED <<constraints, registry, environment, loop>>

\* Extraction, staging or merging fails; its transaction is rolled back.
TableFails ==
    /\ pc = "table"
    /\ failures < MaxFailures
    /\ failures' = failures + 1
    /\ clean' = FALSE
    /\ NextTable
    /\ UNCHANGED <<source, changes, database, extracted, loop>>

-----------------------------------------------------------------------------
(* process_foreign_keys()                                                  *)

\* force_foreign_key_constraints is not set: nothing is changed.
SkipKeys ==
    /\ pc = "keys"
    /\ pc' = "idle"
    /\ UNCHANGED <<database, environment, extracted, position, loop>>

\* The foreign keys are selected in no particular order.
SelectKeys ==
    /\ pc = "keys"
    /\ pc' = "next"
    /\ \E selected \in SUBSET Keys : enabled' = selected /\ todo' = selected
    /\ UNCHANGED <<database, environment, extracted, position, key, exceptions>>

\* Variant: the rows that nothing refers to are taken for exceptions.
SelectUnreferenced ==
    /\ pc = "next"
    /\ \E k \in todo :
        /\ key' = k
        /\ todo' = todo \ {k}
        /\ exceptions' = content[k[2]] \ content[k[1]]
    /\ pc' = "delete"
    /\ UNCHANGED <<database, environment, extracted, position, enabled>>

\* temp_foreign_key_exceptions for the next foreign key.
SelectExceptions ==
    /\ pc = "next"
    /\ \E k \in todo :
        /\ key' = k
        /\ todo' = todo \ {k}
        /\ exceptions' = content[k[1]] \ content[k[2]]
    /\ pc' = "delete"
    /\ UNCHANGED <<database, environment, extracted, position, enabled>>

\* An error, also one about rows that a constraint refers to, is only logged.
DeleteExceptions ==
    /\ pc = "delete"
    /\ content' = IF Deletable(key[1], exceptions)
                  THEN [content EXCEPT ![key[1]] = @ \ exceptions]
                  ELSE content
    /\ exceptions' = {}
    /\ pc' = "add"
    /\ UNCHANGED <<constraints, registry, environment, extracted, position,
                   enabled, todo, key>>

\* Variant: a refused constraint is registered as well.
AddUnchecked ==
    /\ pc = "add"
    /\ constraints' = IF content[key[1]] \subseteq content[key[2]]
                      THEN constraints \cup {key} ELSE constraints
    /\ pc' = "register"
    /\ UNCHANGED <<content, registry, environment, extracted, position, loop>>

\* ALTER TABLE ... ADD CONSTRAINT is refused if it exists, or does not hold.
AddConstraint ==
    /\ pc = "add"
    /\ IF key \notin constraints /\ content[key[1]] \subseteq content[key[2]]
       THEN constraints' = constraints \cup {key} /\ pc' = "register"
       ELSE pc' = "next" /\ UNCHANGED constraints
    /\ UNCHANGED <<content, registry, environment, extracted, position, loop>>

RegisterConstraint ==
    /\ pc = "register"
    /\ registry' = registry \cup {key}
    /\ pc' = "next"
    /\ UNCHANGED <<content, constraints, environment, extracted, position, loop>>

\* One of the statements fails: its error is logged.  A failed DELETE is
\* followed by the ALTER TABLE, the others by the next foreign key.
StatementFails ==
    /\ pc \in {"delete", "add", "register"}
    /\ failures < MaxFailures
    /\ failures' = failures + 1
    /\ clean' = FALSE
    /\ pc' = IF pc = "delete" THEN "add" ELSE "next"
    /\ exceptions' = {}
    /\ UNCHANGED <<source, changes, database, extracted, position, enabled, todo, key>>

EndUpdate ==
    /\ pc = "next"
    /\ todo = {}
    /\ pc' = "idle"
    /\ key' = NoKey
    /\ UNCHANGED <<database, environment, extracted, position, enabled, todo, exceptions>>

\* The process ends between two statements.
Crash ==
    /\ pc # "idle"
    /\ failures < MaxFailures
    /\ failures' = failures + 1
    /\ clean' = FALSE
    /\ pc' = "idle"
    /\ key' = NoKey
    /\ todo' = {}
    /\ exceptions' = {}
    /\ UNCHANGED <<source, changes, database, extracted, position, enabled>>

Step ==
    \/ StartUpdate
    \/ ReplaceTable
    \/ ReplaceRefused
    \/ ClearTable
    \/ SkipKeys
    \/ SelectKeys
    \/ SelectExceptions
    \/ DeleteExceptions
    \/ AddConstraint
    \/ RegisterConstraint
    \/ EndUpdate

Next ==
    \/ Step
    \/ SourceChange
    \/ TableFails
    \/ StatementFails
    \/ Crash

Spec == Init /\ [][Next]_vars

\* Updates are run again and again.
FairSpec == Spec /\ WF_vars(Step)

-----------------------------------------------------------------------------
(* Properties                                                              *)

\* Every variable has its type.
TypeOK ==
    /\ source \in [Tables -> SUBSET Ids]
    /\ changes \in Nat
    /\ content \in [Tables -> SUBSET Ids]
    /\ extracted \in [Tables -> SUBSET Ids]
    /\ constraints \subseteq Keys
    /\ registry \subseteq Keys
    /\ pc \in {"idle", "table", "keys", "next", "delete", "add", "register"}
    /\ position \in 1..(Len(Order) + 1)
    /\ pc = "table" => position \in DOMAIN Order
    /\ enabled \subseteq Keys
    /\ todo \subseteq Keys
    /\ key \in Keys \cup {NoKey}
    /\ pc \in {"delete", "add", "register"} => key \in Keys
    /\ exceptions \subseteq Ids
    /\ clean \in BOOLEAN
    /\ failures \in Nat

\* Every registered constraint exists: otherwise DROP CONSTRAINT would fail in
\* stage_merge(), for every table and in every update to come.
RegistryIsTrue == registry \subseteq constraints

\* At the end of the loop, the main tables are as the update has found them in
\* the source, as long as nothing has failed in this update.
NothingStale == pc = "keys" /\ clean => content = extracted

\* Every table that has rows in the source has been replaced.
AllReplaced == \A t \in Tables : extracted[t] # {} => content[t] = extracted[t]

\* As long as nothing has ever failed, the constraints of the last update do not
\* keep any table from being replaced.
Refreshed == pc = "keys" /\ failures = 0 => AllReplaced

\* After an update in which nothing has failed, every enabled foreign key is
\* enforced, unless the rows to delete from its referencing table may be referred
\* to by way of another foreign key.
Enforced ==
    pc = "next" /\ todo = {} /\ clean =>
        \A k \in enabled : (\A j \in Keys : j[2] # k[1]) => k \in constraints

\* Constraints that a crash has left unregistered refuse to let tables be
\* replaced, but not forever: the updates after the last failure recover, if every
\* table has rows in the source.  (A constraint of a table without rows would stay,
\* because only replacing that table removes it.)
Recovers ==
    <>[](\A t \in Tables : source[t] # {}) => <>[](pc = "keys" => AllReplaced)

\* What makes RegistryIsTrue inductive: a constraint exists when its turn comes
\* to be registered.
RegistryInv ==
    /\ RegistryIsTrue
    /\ pc = "register" => key \in constraints

=============================================================================
