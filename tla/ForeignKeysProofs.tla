------------------------- MODULE ForeignKeysProofs -------------------------
(***************************************************************************)
(* Proofs about ForeignKeys, for any tables, foreign keys and failures.    *)
(***************************************************************************)
EXTENDS ForeignKeys, TLAPS

\* As long as nothing has failed, only the constraint that was just added is not
\* registered, and the tables up to the current one have been replaced.
RefreshInv ==
    failures = 0 =>
        /\ \A k \in constraints \ registry : pc = "register" /\ k = key
        /\ pc \in {"table", "keys"} =>
            \A n \in DOMAIN Order :
                (n < position \/ pc = "keys") /\ extracted[Order[n]] # {}
                    => content[Order[n]] = extracted[Order[n]]

\* No foreign key refers to the referencing table of k.
Unreferenced(k) == \A j \in Keys : j[2] # k[1]

InKeys == pc \in {"next", "delete", "add", "register"}

\* The foreign keys that an update has dealt with are enforced, and the current
\* one can be, when its exceptions have been deleted.
EnforceInv ==
    InKeys /\ clean =>
        /\ \A k \in enabled \ todo :
            Unreferenced(k) => k \in constraints \/ (pc \in {"delete", "add"} /\ k = key)
        /\ pc = "delete" => exceptions = content[key[1]] \ content[key[2]]
        /\ pc = "add" /\ Unreferenced(key) => content[key[1]] \subseteq content[key[2]]

\* An update never names a table that the schema does not have, and a foreign
\* key is only worked on when it is a configured one.
THEOREM TypeCorrect == Spec => []TypeOK
<1> USE DEF TypeOK
<1>a. /\ Len(Order) \in Nat
      /\ Len(Order) > 0
      /\ DOMAIN Order = 1..Len(Order)
      /\ \A n \in DOMAIN Order : Order[n] \in Tables
  BY ForeignKeysAssumption
<1>b. \A k \in Keys : k[1] \in Tables /\ k[2] \in Tables
  BY ForeignKeysAssumption
<1>c. MaxChanges \in Nat /\ MaxFailures \in Nat
  BY ForeignKeysAssumption
<1>1. Init => TypeOK
  BY <1>a DEF Init
<1>2. TypeOK /\ [Next]_vars => TypeOK'
  <2> SUFFICES ASSUME TypeOK, [Next]_vars PROVE TypeOK'
    OBVIOUS
  <2> USE DEF database, loop, environment
  <2>1. pc = "table" => table \in Tables
    BY <1>a DEF table
  <2>2. ASSUME NextTable, pc = "table"
        PROVE  /\ position' \in 1..(Len(Order) + 1)
               /\ pc' = "table" => position' \in DOMAIN Order
               /\ pc' \in {"table", "keys"}
    BY <1>a, <2>2 DEF NextTable
  <2>3. CASE StartUpdate
    BY <1>a, <2>3 DEF StartUpdate
  <2>4. CASE ReplaceTable
    BY <2>1, <2>2, <2>4 DEF ReplaceTable, Extract
  <2>5. CASE ReplaceRefused
    BY <2>1, <2>2, <2>5 DEF ReplaceRefused, Extract
  <2>6. CASE ClearTable
    BY <2>1, <2>2, <2>6 DEF ClearTable, Extract
  <2>7. CASE SkipKeys
    BY <2>7 DEF SkipKeys
  <2>8. CASE SelectKeys
    BY <2>8 DEF SelectKeys
  <2>9. CASE SelectExceptions
    BY <1>b, <2>9 DEF SelectExceptions
  <2>10. CASE DeleteExceptions
    BY <1>b, <2>10 DEF DeleteExceptions
  <2>11. CASE AddConstraint
    BY <2>11 DEF AddConstraint
  <2>12. CASE RegisterConstraint
    BY <2>12 DEF RegisterConstraint
  <2>13. CASE EndUpdate
    BY <2>13 DEF EndUpdate
  <2>14. CASE SourceChange
    BY <2>14 DEF SourceChange
  <2>f. ASSUME failures' = failures + 1 PROVE failures' \in Nat
    BY <2>f
  <2>c. ASSUME clean' = FALSE PROVE clean' \in BOOLEAN
    BY <2>c
  <2>15. CASE TableFails
    BY <2>2, <2>f, <2>c, <2>15 DEF TableFails
  <2>16. CASE StatementFails
    BY <2>f, <2>c, <2>16 DEF StatementFails
  <2>17. CASE Crash
    BY <2>f, <2>c, <2>17 DEF Crash
  <2>18. CASE UNCHANGED vars
    BY <2>18 DEF vars
  <2>19. QED
    BY <2>3, <2>4, <2>5, <2>6, <2>7, <2>8, <2>9, <2>10, <2>11, <2>12, <2>13,
       <2>14, <2>15, <2>16, <2>17, <2>18 DEF Next, Step
<1>3. QED
  BY <1>1, <1>2, PTL DEF Spec

\* Whatever fails, and wherever the process ends, every registered constraint
\* exists, so that remove_foreign_key_constraints() does not fail because of one
\* that is missing.
THEOREM RegistryAlwaysTrue == Spec => []RegistryIsTrue
<1> USE DEF RegistryInv, RegistryIsTrue
<1>1. Init => RegistryInv
  BY DEF Init
<1>2. RegistryInv /\ [Next]_vars => RegistryInv'
  <2> SUFFICES ASSUME RegistryInv, [Next]_vars PROVE RegistryInv'
    OBVIOUS
  <2> USE DEF database, loop, environment
  <2>1. ASSUME NextTable PROVE pc' # "register"
    BY <2>1 DEF NextTable
  <2>2. CASE ReplaceTable
    BY <2>1, <2>2 DEF ReplaceTable
  <2>3. CASE ReplaceRefused \/ ClearTable \/ TableFails
    BY <2>1, <2>3 DEF ReplaceRefused, ClearTable, TableFails
  <2>4. CASE StartUpdate \/ SkipKeys \/ SelectKeys \/ SelectExceptions \/ EndUpdate
    BY <2>4 DEF StartUpdate, SkipKeys, SelectKeys, SelectExceptions, EndUpdate
  <2>5. CASE DeleteExceptions \/ SourceChange \/ Crash
    BY <2>5 DEF DeleteExceptions, SourceChange, Crash
  <2>6. CASE AddConstraint
    BY <2>6 DEF AddConstraint
  <2>7. CASE RegisterConstraint
    BY <2>7 DEF RegisterConstraint
  <2>8. CASE StatementFails
    BY <2>8 DEF StatementFails
  <2>9. CASE UNCHANGED vars
    BY <2>9 DEF vars
  <2>10. QED
    BY <2>2, <2>3, <2>4, <2>5, <2>6, <2>7, <2>8, <2>9 DEF Next, Step
<1>3. RegistryInv => RegistryIsTrue
  OBVIOUS
<1>4. QED
  BY <1>1, <1>2, <1>3, PTL DEF Spec


-----------------------------------------------------------------------------
(* Constraints of the last update, and of this one                         *)

\* The invariants about types and the registry, together.
LEMMA Registered == Spec => [](TypeOK /\ RegistryIsTrue)
BY TypeCorrect, RegistryAlwaysTrue, PTL

\* Every step keeps the tables fresh.
LEMMA RefreshStep ==
    TypeOK /\ TypeOK' /\ RegistryIsTrue /\ RefreshInv /\ [Next]_vars => RefreshInv'
<1> SUFFICES ASSUME TypeOK, TypeOK', RegistryIsTrue, RefreshInv, [Next]_vars,
                    failures' = 0
             PROVE  RefreshInv'
  BY DEF RefreshInv
<1> USE DEF database, loop, environment
<1>a. Len(Order) \in Nat /\ DOMAIN Order = 1..Len(Order)
  BY ForeignKeysAssumption
<1>b. failures = 0
  <2>1. failures' = failures \/ failures' = failures + 1
    BY DEF Next, Step, vars, StartUpdate, ReplaceTable, ReplaceRefused, ClearTable,
       SkipKeys, SelectKeys, SelectExceptions, DeleteExceptions, AddConstraint,
       RegisterConstraint, EndUpdate, SourceChange, TableFails, StatementFails, Crash
  <2> QED
    BY <2>1 DEF TypeOK
<1>c. ~ TableFails /\ ~ StatementFails /\ ~ Crash
  BY <1>b DEF TableFails, StatementFails, Crash
<1>d. \A k \in constraints \ registry : pc = "register" /\ k = key
  BY <1>b DEF RefreshInv
<1>1. ASSUME ReplaceTable \/ ReplaceRefused \/ ClearTable PROVE RefreshInv'
  <2>1. /\ pc = "table" /\ position \in DOMAIN Order /\ table \in Tables
        /\ extracted' = [extracted EXCEPT ![table] = source[table]]
        /\ pc' \in {"table", "keys"} /\ position' = position + 1
        /\ pc' = "keys" => ~ position < Len(Order)
    BY <1>1 DEF ReplaceTable, ReplaceRefused, ClearTable, Extract, NextTable, TypeOK,
       table, Tables
  <2>2. constraints \subseteq registry
    BY <1>d, <2>1
  <2>3. Replaceable
    BY <2>2 DEF Replaceable, RegistryIsTrue
  <2>4. constraints' \subseteq registry'
    BY <1>1, <2>2, <2>3 DEF ReplaceTable, ReplaceRefused, ClearTable
  <2>5. extracted \in [Tables -> SUBSET Ids] /\ content \in [Tables -> SUBSET Ids]
    BY DEF TypeOK
  <2>6. extracted'[table] # {} => content'[table] = extracted'[table]
    BY <1>1, <2>1, <2>3, <2>5 DEF ReplaceTable, ReplaceRefused, ClearTable
  <2>7. ASSUME NEW t \in Tables \ {table}
        PROVE  extracted'[t] = extracted[t] /\ content'[t] = content[t]
    BY <1>1, <2>1, <2>5, <2>7 DEF ReplaceTable, ReplaceRefused, ClearTable
  <2>8. ASSUME NEW n \in DOMAIN Order, n < position' \/ pc' = "keys"
        PROVE  extracted'[Order[n]] # {} => content'[Order[n]] = extracted'[Order[n]]
    <3>1. n < position \/ n = position
      BY <1>a, <2>1, <2>8
    <3>2. CASE Order[n] = table
      BY <2>6, <3>2
    <3>3. CASE Order[n] # table
      <4>1. n < position /\ Order[n] \in Tables
        BY <3>1, <3>3 DEF table, Tables
      <4> QED
        BY <1>b, <2>1, <2>7, <3>3, <4>1 DEF RefreshInv
    <3> QED
      BY <3>2, <3>3
  <2> QED
    BY <2>4, <2>8 DEF RefreshInv
<1>2. CASE StartUpdate
  BY <1>a, <1>d, <1>2 DEF StartUpdate, RefreshInv
<1>3. CASE SkipKeys \/ SelectKeys \/ SelectExceptions \/ DeleteExceptions \/ EndUpdate
  BY <1>d, <1>3 DEF SkipKeys, SelectKeys, SelectExceptions, DeleteExceptions, EndUpdate,
     RefreshInv
<1>4. CASE AddConstraint \/ RegisterConstraint
  BY <1>d, <1>4 DEF AddConstraint, RegisterConstraint, RefreshInv
<1>5. CASE SourceChange \/ UNCHANGED vars
  BY <1>b, <1>5 DEF SourceChange, vars, RefreshInv
<1> QED
  BY <1>c, <1>1, <1>2, <1>3, <1>4, <1>5 DEF Next, Step

\* As long as nothing has failed, remove_foreign_key_constraints() finds every
\* constraint of the last update, so that every table with rows is replaced.
THEOREM AlwaysRefreshed == Spec => []Refreshed
<1>1. Init => RefreshInv
  BY DEF Init, RefreshInv
<1>2. TypeOK /\ RefreshInv => Refreshed
  BY DEF TypeOK, RefreshInv, Refreshed, AllReplaced, Tables
<1> QED
  BY <1>1, <1>2, RefreshStep, Registered, PTL DEF Spec

\* Every step keeps the foreign keys that were dealt with enforced.
LEMMA EnforceStep == TypeOK /\ EnforceInv /\ [Next]_vars => EnforceInv'
<1> SUFFICES ASSUME TypeOK, EnforceInv, [Next]_vars, InKeys', clean'
             PROVE  EnforceInv'
  BY DEF EnforceInv
<1> USE DEF database, loop, environment, InKeys
<1>a. \A k \in Keys : k[1] \in Tables /\ k[2] \in Tables /\ k[1] # k[2]
  BY ForeignKeysAssumption
<1>b. ~ StartUpdate /\ ~ ReplaceTable /\ ~ ReplaceRefused /\ ~ ClearTable
      /\ ~ SkipKeys /\ ~ EndUpdate /\ ~ TableFails /\ ~ StatementFails /\ ~ Crash
  BY DEF StartUpdate, ReplaceTable, ReplaceRefused, ClearTable, SkipKeys, EndUpdate,
     TableFails, StatementFails, Crash, NextTable
<1>1. CASE SelectKeys
  BY <1>1 DEF SelectKeys, EnforceInv
<1>2. CASE SelectExceptions
  <2>1. PICK k \in todo :
          /\ pc = "next" /\ pc' = "delete" /\ key' = k /\ todo' = todo \ {k}
          /\ exceptions' = content[k[1]] \ content[k[2]]
    BY <1>2 DEF SelectExceptions
  <2>2. /\ content' = content /\ constraints' = constraints
        /\ enabled' = enabled /\ clean' = clean
    BY <1>2 DEF SelectExceptions
  <2>3. \A j \in enabled \ todo : Unreferenced(j) => j \in constraints
    BY <2>1, <2>2 DEF EnforceInv
  <2>4. \A j \in enabled' \ todo' : j \in enabled \ todo \/ j = k
    BY <2>1, <2>2
  <2> QED
    BY <2>1, <2>2, <2>3, <2>4 DEF EnforceInv, Unreferenced
<1>3. CASE DeleteExceptions
  <2>1. /\ key \in Keys /\ exceptions = content[key[1]] \ content[key[2]]
        /\ content \in [Tables -> SUBSET Ids] /\ constraints \subseteq Keys
    BY <1>3 DEF DeleteExceptions, EnforceInv, TypeOK
  <2>2. Unreferenced(key) => content'[key[1]] \subseteq content'[key[2]]
    <3> SUFFICES ASSUME Unreferenced(key) PROVE content'[key[1]] \subseteq content'[key[2]]
      OBVIOUS
    <3>1. Deletable(key[1], exceptions)
      BY <2>1 DEF Deletable, Unreferenced
    <3>2. content' = [content EXCEPT ![key[1]] = @ \ exceptions]
      BY <1>3, <3>1 DEF DeleteExceptions
    <3> QED
      BY <1>a, <2>1, <3>2
  <2> QED
    BY <1>3, <2>2 DEF DeleteExceptions, EnforceInv, Unreferenced
<1>4. CASE AddConstraint
  BY <1>4 DEF AddConstraint, EnforceInv, Unreferenced
<1>5. CASE RegisterConstraint
  BY <1>5 DEF RegisterConstraint, EnforceInv, Unreferenced
<1>6. CASE SourceChange \/ UNCHANGED vars
  BY <1>6 DEF SourceChange, vars, EnforceInv, Unreferenced
<1> QED
  BY <1>b, <1>1, <1>2, <1>3, <1>4, <1>5, <1>6 DEF Next, Step

\* process_foreign_keys() enforces every enabled foreign key whose exceptions
\* nothing protects, unless one of its statements has failed.
THEOREM AlwaysEnforced == Spec => []Enforced
<1>1. Init => EnforceInv
  BY DEF Init, EnforceInv, InKeys
<1>2. EnforceInv => Enforced
  BY DEF EnforceInv, InKeys, Enforced, Unreferenced
<1> QED
  BY <1>1, <1>2, EnforceStep, TypeCorrect, PTL DEF Spec

=============================================================================
