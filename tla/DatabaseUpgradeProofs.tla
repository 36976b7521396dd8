----------------------- MODULE DatabaseUpgradeProofs ------------------------
(***************************************************************************)
(* Proofs about DatabaseUpgrade: an upgrade may be interrupted and begun   *)
(* again any number of times.                                              *)
(***************************************************************************)
EXTENDS RepeatedUpgrades, WellFoundedInduction, SequenceTheorems, TLAPS

-----------------------------------------------------------------------------
(* Recursion over lists of statements                                      *)

\* Induction over the natural numbers, for a set of them.
LEMMA SetInduction ==
    ASSUME NEW T, 0 \in T, \A n \in Nat : n \in T => n + 1 \in T
    PROVE  Nat \subseteq T
<1> SUFFICES ASSUME Nat \ T # {} PROVE FALSE
  OBVIOUS
<1>1. PICK n \in Nat \ T : \A m \in Nat \ T : ~ (<<m, n>> \in OpToRel(<, Nat))
  BY NatLessThanWellFounded, WFMin, Zenon
<1>2. n - 1 \in Nat /\ n - 1 \notin T
  <2>1. n - 1 \in Nat /\ (n - 1) + 1 = n
    OBVIOUS
  <2> QED
    BY <2>1
<1>3. <<n - 1, n>> \in OpToRel(<, Nat)
  BY <1>2 DEF OpToRel
<1> QED
  BY <1>1, <1>2, <1>3

\* f has the objects after every statement of the list st.
IsExecution(f, S, st, l) ==
    f[0] = S /\ \A k \in 1..l : f[k] = Executed(f[k - 1], st[k])

\* ExecutedAll executes one statement after the other: its recursive definition
\* has a solution.
LEMMA ExecutedAllSteps ==
    ASSUME NEW S, NEW st, Len(st) \in Nat
    PROVE  \E f : ExecutedAll(S, st) = f[Len(st)] /\ IsExecution(f, S, st, Len(st))
<1> DEFINE Def(f, n) == [k \in 0..n |-> IF k = 0 THEN S
                                       ELSE UNION {Executed(R, st[k]) : R \in {f[k - 1]}}]
           T == {n \in Nat : \E f : f = Def(f, n)}
           after[k \in 0..Len(st)] ==
                 IF k = 0 THEN S
                 ELSE UNION {Executed(R, st[k]) : R \in {after[k - 1]}}
<1>1. 0 \in T
  <2> DEFINE g == [k \in 0..0 |-> S]
  <2>1. g = Def(g, 0)
    OBVIOUS
  <2> QED
    BY <2>1
<1>2. ASSUME NEW n \in Nat, n \in T PROVE n + 1 \in T
  <2>1. PICK f : f = Def(f, n)
    BY <1>2
  <2> DEFINE g == [k \in 0..(n + 1) |-> IF k = n + 1
                     THEN UNION {Executed(R, st[k]) : R \in {f[n]}} ELSE f[k]]
  <2>2. \A k \in 0..n : f[k] = IF k = 0 THEN S
                                   ELSE UNION {Executed(R, st[k]) : R \in {f[k - 1]}}
    BY <2>1
  <2>3. \A k \in 0..n : g[k] = f[k]
    BY <1>2
  <2>4. g[n + 1] = UNION {Executed(R, st[n + 1]) : R \in {g[n]}}
    BY <1>2, <2>3
  <2>5. ASSUME NEW k \in 0..(n + 1)
        PROVE  g[k] = IF k = 0 THEN S ELSE UNION {Executed(R, st[k]) : R \in {g[k - 1]}}
    <3>1. CASE k = n + 1
      BY <1>2, <2>4, <3>1
    <3>2. CASE k \in 0..n
      <4>1. k # 0 => k - 1 \in 0..n
        BY <1>2, <3>2
      <4> HIDE DEF g
      <4> QED
        BY <2>2, <2>3, <3>2, <4>1
    <3> QED
      BY <1>2, <3>1, <3>2
  <2>6. g = Def(g, n + 1)
    BY <2>5
  <2> HIDE DEF g
  <2>7. \E h : h = Def(h, n + 1)
    BY <2>6
  <2> QED
    BY <1>2, <2>7
<1>3. PICK f : f = Def(f, Len(st))
  BY <1>1, <1>2, SetInduction
<1>4. after = Def(after, Len(st))
  BY <1>3
<1>5. ExecutedAll(S, st) = after[Len(st)]
  BY DEF ExecutedAll
<1>6. \A k \in 0..Len(st) : after[k] = IF k = 0 THEN S
                                      ELSE UNION {Executed(R, st[k]) : R \in {after[k - 1]}}
  BY <1>4
<1> HIDE DEF after
<1>7. ASSUME NEW k \in 0..Len(st)
      PROVE  after[k] = IF k = 0 THEN S ELSE Executed(after[k - 1], st[k])
  <2>1. UNION {Executed(R, st[k]) : R \in {after[k - 1]}} = Executed(after[k - 1], st[k])
    OBVIOUS
  <2> QED
    BY <1>6, <2>1
<1>8. IsExecution(after, S, st, Len(st))
  BY <1>7 DEF IsExecution
<1> QED
  BY <1>5, <1>8

\* The steps determine the result.
LEMMA StepsUnique ==
    ASSUME NEW S, NEW st, NEW l \in Nat, NEW f, NEW g,
           IsExecution(f, S, st, l), IsExecution(g, S, st, l)
    PROVE  \A k \in 0..l : f[k] = g[k]
<1> DEFINE T == {n \in Nat : n <= l => f[n] = g[n]}
<1>1. 0 \in T
  BY DEF IsExecution
<1>2. ASSUME NEW n \in Nat, n \in T PROVE n + 1 \in T
  <2> SUFFICES ASSUME n + 1 <= l PROVE f[n + 1] = g[n + 1]
    OBVIOUS
  <2>1. n + 1 \in 1..l /\ (n + 1) - 1 = n
    OBVIOUS
  <2>2. f[n] = g[n]
    BY <1>2
  <2>3. f[n + 1] = Executed(f[(n + 1) - 1], st[n + 1]) /\ g[n + 1] = Executed(g[(n + 1) - 1], st[n + 1])
    BY <2>1 DEF IsExecution
  <2> QED
    BY <2>1, <2>2, <2>3
<1> HIDE DEF T
<1>3. Nat \subseteq T
  BY <1>1, <1>2, SetInduction
<1> QED
  BY <1>3 DEF T

\* One more statement.
LEMMA ExecutedPrefix ==
    ASSUME NEW S, NEW X, NEW st \in Seq(X)
    PROVE  /\ ExecutedAll(S, SubSeq(st, 1, 0)) = S
           /\ SubSeq(st, 1, Len(st)) = st
           /\ \A k \in 1..Len(st) :
                ExecutedAll(S, SubSeq(st, 1, k)) =
                    Executed(ExecutedAll(S, SubSeq(st, 1, k - 1)), st[k])
<1>1. ASSUME NEW k \in 0..Len(st)
      PROVE  Len(SubSeq(st, 1, k)) = k /\ \A i \in 1..k : SubSeq(st, 1, k)[i] = st[i]
  OBVIOUS
<1>2. ExecutedAll(S, SubSeq(st, 1, 0)) = S
  <2> DEFINE p == SubSeq(st, 1, 0)
  <2>1. Len(p) = 0 /\ Len(p) \in Nat
    OBVIOUS
  <2> HIDE DEF p
  <2>2. PICK f : ExecutedAll(S, p) = f[Len(p)] /\ IsExecution(f, S, p, Len(p))
    BY <2>1, ExecutedAllSteps
  <2> QED
    BY <2>1, <2>2 DEF p, IsExecution
<1>3. SubSeq(st, 1, Len(st)) = st
  OBVIOUS
<1>4. ASSUME NEW k \in 1..Len(st)
      PROVE  ExecutedAll(S, SubSeq(st, 1, k)) =
                 Executed(ExecutedAll(S, SubSeq(st, 1, k - 1)), st[k])
  <2> DEFINE p == SubSeq(st, 1, k)
             q == SubSeq(st, 1, k - 1)
  <2>1. /\ Len(p) = k /\ \A i \in 1..k : p[i] = st[i]
        /\ Len(q) = k - 1 /\ \A i \in 1..(k - 1) : q[i] = st[i]
    BY <1>1
  <2> HIDE DEF p, q
  <2>2. PICK f : ExecutedAll(S, p) = f[k] /\ IsExecution(f, S, p, k)
    BY <2>1, ExecutedAllSteps
  <2>3. PICK l \in Nat : l = k - 1
    OBVIOUS
  <2>4. PICK g : ExecutedAll(S, q) = g[l] /\ IsExecution(g, S, q, l)
    BY <2>1, <2>3, ExecutedAllSteps
  <2>5. IsExecution(f, S, st, l) /\ IsExecution(g, S, st, l)
    BY <2>1, <2>2, <2>3, <2>4 DEF IsExecution
  <2>6. f[l] = g[l]
    BY <2>5, StepsUnique
  <2>7. f[k] = Executed(f[l], st[k])
    BY <2>1, <2>2, <2>3 DEF IsExecution
  <2>8. ExecutedAll(S, p) = Executed(ExecutedAll(S, q), st[k])
    BY <2>2, <2>4, <2>6, <2>7
  <2> QED
    BY <2>8 DEF p, q
<1> QED
  BY <1>2, <1>3, <1>4

\* Statements make objects of objects.
LEMMA ExecutedType ==
    ASSUME NEW S \in SUBSET AnyObject, NEW s \in StatementSet
    PROVE  Executed(S, s) \in SUBSET AnyObject
<1>1. s.puts \subseteq AnyObject /\ s.rows \subseteq STRING
  BY DEF StatementSet
<1>2. ASSUME NEW x \in CatalogRows(S, s) PROVE x \in AnyObject
  <2>1. PICK t \in s.rows : x = <<"catalog", t>> \/ x = <<"duplicate catalog row", t>>
    BY DEF CatalogRows
  <2>2. t \in STRING
    BY <1>1
  <2>3. <<"catalog", t>> \in AnyObject /\ <<"duplicate catalog row", t>> \in AnyObject
    BY <2>2, ObjectsAssumption DEF AnyObject
  <2> QED
    BY <2>1, <2>3
<1> QED
  BY <1>1, <1>2 DEF Executed

LEMMA ExecutedAllType ==
    ASSUME NEW S \in SUBSET AnyObject, NEW st \in Seq(StatementSet)
    PROVE  ExecutedAll(S, st) \in SUBSET AnyObject
<1>0. Len(st) \in Nat
  OBVIOUS
<1>1. PICK f : ExecutedAll(S, st) = f[Len(st)] /\ IsExecution(f, S, st, Len(st))
  BY <1>0, ExecutedAllSteps
<1> DEFINE T == {n \in Nat : n <= Len(st) => f[n] \in SUBSET AnyObject}
<1>2. 0 \in T
  BY <1>1 DEF IsExecution
<1>3. ASSUME NEW n \in Nat, n \in T PROVE n + 1 \in T
  <2> SUFFICES ASSUME n + 1 <= Len(st) PROVE f[n + 1] \in SUBSET AnyObject
    OBVIOUS
  <2>1. n + 1 \in 1..Len(st) /\ (n + 1) - 1 = n /\ st[n + 1] \in StatementSet
    OBVIOUS
  <2>2. f[n + 1] = Executed(f[n], st[n + 1])
    BY <1>1, <2>1 DEF IsExecution
  <2>3. f[n] \in SUBSET AnyObject
    BY <1>3
  <2> QED
    BY <2>1, <2>2, <2>3, ExecutedType
<1> HIDE DEF T
<1>4. Nat \subseteq T
  BY <1>2, <1>3, SetInduction
<1> QED
  BY <1>1, <1>4 DEF T

\* No statement, no effect.
LEMMA ExecutedNone ==
    ASSUME NEW S, NEW X, NEW st \in Seq(X), NEW n \in Nat
    PROVE  ExecutedAll(S, SubSeq(st, n, n - 1)) = S
<1> DEFINE p == SubSeq(st, n, n - 1)
<1>1. Len(p) = 0 /\ Len(p) \in Nat
  OBVIOUS
<1> HIDE DEF p
<1>2. PICK f : ExecutedAll(S, p) = f[Len(p)] /\ IsExecution(f, S, p, Len(p))
  BY <1>1, ExecutedAllSteps
<1> QED
  BY <1>1, <1>2 DEF p, IsExecution

\* The recursive definition of Uninterrupted has a solution, too.
LEMMA UninterruptedSteps ==
    \A v \in 14..Latest :
        Uninterrupted[v] = Databases(v) \cup
            (IF v = 14 THEN {} ELSE {ExecutedAll(S, Statements[v]) : S \in Uninterrupted[v - 1]})
<1> DEFINE Value(f, v) == Databases(v) \cup
                (IF v = 14 THEN {} ELSE {ExecutedAll(S, Statements[v]) : S \in f[v - 1]})
           Def(f, n) == [v \in 14..n |-> Value(f, v)]
           T == {n \in Nat : \E f : f = Def(f, n)}
<1>1. 0 \in T
  <2> DEFINE g == [v \in 14..0 |-> {}]
  <2>1. g = Def(g, 0)
    OBVIOUS
  <2> QED
    BY <2>1
<1>2. ASSUME NEW n \in Nat, n \in T PROVE n + 1 \in T
  <2>1. PICK f : f = Def(f, n)
    BY <1>2
  <2> DEFINE g == [v \in 14..(n + 1) |-> IF v = n + 1 THEN Value(f, v) ELSE f[v]]
  <2>2. \A v \in 14..n : f[v] = Value(f, v) /\ g[v] = f[v]
    <3> HIDE DEF Value
    <3> QED
      BY <2>1
  <2>3. n + 1 >= 14 => g[n + 1] = Value(f, n + 1)
    <3> HIDE DEF Value
    <3> QED
      OBVIOUS
  <2>4. ASSUME NEW v \in 14..(n + 1) PROVE g[v] = Value(g, v)
    <3>1. v = 14 \/ g[v - 1] = f[v - 1]
      <4>1. v = 14 \/ v - 1 \in 14..n
        OBVIOUS
      <4> QED
        BY <2>2, <4>1
    <3>2. Value(f, v) = Value(g, v)
      <4> HIDE DEF g
      <4> QED
        BY <3>1
    <3>3. v = n + 1 \/ v \in 14..n
      OBVIOUS
    <3> HIDE DEF g, Value
    <3> QED
      BY <2>2, <2>3, <3>2, <3>3
  <2>5. g = Def(g, n + 1)
    <3>1. g = [v \in 14..(n + 1) |-> g[v]]
      OBVIOUS
    <3> HIDE DEF g, Value
    <3> QED
      BY <2>4, <3>1
  <2> HIDE DEF g, Def
  <2>6. \E h : h = Def(h, n + 1)
    BY <2>5
  <2> QED
    BY <1>2, <2>6
<1> HIDE DEF T, Def
<1>3. Nat \subseteq T
  BY <1>1, <1>2, SetInduction
<1>4. PICK f : f = Def(f, Latest)
  BY <1>3 DEF T, Latest
<1>5. Uninterrupted = Def(Uninterrupted, Latest)
  BY <1>4 DEF Uninterrupted, Def
<1> HIDE DEF Value
<1>6. \A v \in 14..Latest : Uninterrupted[v] = Value(Uninterrupted, v)
  BY <1>5 DEF Def
<1> QED
  BY <1>6 DEF Value

-----------------------------------------------------------------------------
(* Repeating statements                                                    *)

\* A statement that touches nothing of another one's scope does not change it.
LEMMA Unaffected ==
    ASSUME NEW S, NEW s, NEW t, t.rows = {}, (t.takes \cup t.puts) \cap Scope(s) = {}
    PROVE  Executed(S, t) \cap Scope(s) = S \cap Scope(s)
<1>1. CatalogRows(S, t) = {}
  BY DEF CatalogRows
<1> HIDE DEF Scope
<1> QED
  BY <1>1 DEF Executed

\* Whether a statement is refused, or has nothing to do, depends on its scope.
LEMMA SameRefusal ==
    ASSUME NEW R, NEW S, NEW s, R \cap Scope(s) = S \cap Scope(s)
    PROVE  (Refused(R, s) <=> Refused(S, s)) /\ (Skipped(R, s) <=> Skipped(S, s))
<1>1. \A x \in s.needs \cup s.forbids \cup s.unless : x \in R <=> x \in S
  BY DEF Scope
<1>2. Skipped(R, s) <=> Skipped(S, s)
  BY <1>1 DEF Skipped
<1> QED
  BY <1>1, <1>2 DEF Refused

\* A statement has no effect on objects which are as it leaves them.
LEMMA AlreadyExecuted ==
    ASSUME NEW R, NEW S, NEW s, s.rows = {},
           R \cap Scope(s) = Executed(S, s) \cap Scope(s)
    PROVE  Executed(R, s) = R
<1>1. CASE Refused(S, s) \/ Skipped(S, s)
  <2>1. R \cap Scope(s) = S \cap Scope(s)
    BY <1>1 DEF Executed
  <2> QED
    BY <1>1, <2>1, SameRefusal DEF Executed
<1>2. CASE ~ (Refused(S, s) \/ Skipped(S, s))
  <2>1. CatalogRows(S, s) = {} /\ CatalogRows(R, s) = {}
    BY DEF CatalogRows
  <2>2. Executed(S, s) = (S \ s.takes) \cup s.puts
    BY <1>2, <2>1 DEF Executed
  <2>3. s.puts \subseteq R /\ s.takes \cap R \subseteq s.puts
    BY <2>2 DEF Scope
  <2>4. (R \ s.takes) \cup s.puts = R
    BY <2>3
  <2> QED
    BY <2>1, <2>4 DEF Executed
<1> QED
  BY <1>1, <1>2

\* The later statements leave the scope of an earlier one as it is.
LEMMA PrefixAgrees ==
    ASSUME NEW S, NEW st \in Seq(StatementSet), Repeatable(st),
           NEW j \in 1..Len(st), NEW k \in j..Len(st)
    PROVE  ExecutedAll(S, SubSeq(st, 1, k)) \cap Scope(st[j]) =
               ExecutedAll(S, SubSeq(st, 1, j)) \cap Scope(st[j])
<1> DEFINE E(n) == ExecutedAll(S, SubSeq(st, 1, n))
           T == {n \in Nat : j + n <= Len(st) => E(j + n) \cap Scope(st[j]) = E(j) \cap Scope(st[j])}
<1>1. 0 \in T
  OBVIOUS
<1>2. ASSUME NEW n \in Nat, n \in T PROVE n + 1 \in T
  <2> SUFFICES ASSUME j + (n + 1) <= Len(st)
               PROVE  E(j + (n + 1)) \cap Scope(st[j]) = E(j) \cap Scope(st[j])
    OBVIOUS
  <2>1. PICK i \in 1..Len(st) : i = j + (n + 1) /\ i - 1 = j + n /\ j \in 1..(i - 1)
    OBVIOUS
  <2>2. E(i) = Executed(E(i - 1), st[i])
    BY ExecutedPrefix
  <2>3. st[i].rows = {} /\ (st[i].takes \cup st[i].puts) \cap Scope(st[j]) = {}
    BY <2>1 DEF Repeatable
  <2> HIDE DEF E
  <2>4. E(i) \cap Scope(st[j]) = E(i - 1) \cap Scope(st[j])
    BY <2>2, <2>3, Unaffected
  <2>5. E(i - 1) \cap Scope(st[j]) = E(j) \cap Scope(st[j])
    BY <1>2, <2>1
  <2> QED
    BY <2>1, <2>4, <2>5
<1> HIDE DEF T
<1>3. k - j \in T
  BY <1>1, <1>2, SetInduction
<1>4. j + (k - j) = k
  OBVIOUS
<1> QED
  BY <1>3, <1>4 DEF T

\* To repeat a statement has no effect, ...
LEMMA RepeatedStatement ==
    ASSUME NEW S, NEW st \in Seq(StatementSet), Repeatable(st),
           NEW j \in 1..Len(st), NEW k \in j..Len(st)
    PROVE  Executed(ExecutedAll(S, SubSeq(st, 1, k)), st[j]) = ExecutedAll(S, SubSeq(st, 1, k))
<1>1. ExecutedAll(S, SubSeq(st, 1, j)) = Executed(ExecutedAll(S, SubSeq(st, 1, j - 1)), st[j])
  BY ExecutedPrefix
<1>2. st[j].rows = {}
  BY DEF Repeatable
<1> QED
  BY <1>1, <1>2, PrefixAgrees, AlreadyExecuted

\* ... and a repeated statement is no more refused than before.
LEMMA RepeatedUnrefused ==
    ASSUME NEW S, NEW st \in Seq(StatementSet), Repeatable(st), Unrefused(S, st),
           NEW j \in 1..Len(st), ~ st[j].try, NEW k \in (j - 1)..Len(st)
    PROVE  ~ Refused(ExecutedAll(S, SubSeq(st, 1, k)), st[j])
<1> DEFINE E(n) == ExecutedAll(S, SubSeq(st, 1, n))
<1>1. ~ Refused(E(j - 1), st[j])
  BY DEF Unrefused
<1>2. CASE k = j - 1
  BY <1>1, <1>2
<1>3. CASE k \in j..Len(st)
  <2>1. E(j) = Executed(E(j - 1), st[j])
    BY ExecutedPrefix
  <2>2. st[j].rows = {} /\ st[j].takes = {} /\ st[j].puts = {}
    BY DEF Repeatable
  <2>3. E(k) \cap Scope(st[j]) = E(j) \cap Scope(st[j])
    BY <1>3, PrefixAgrees
  <2> HIDE DEF E
  <2>4. CatalogRows(E(j - 1), st[j]) = {}
    BY <2>2 DEF CatalogRows
  <2>5. E(j) = E(j - 1)
    BY <2>1, <2>2, <2>4 DEF Executed
  <2>6. ~ Refused(E(k), st[j])
    BY <1>1, <2>3, <2>5, SameRefusal
  <2> QED
    BY <2>6 DEF E
<1> QED
  BY <1>2, <1>3

-----------------------------------------------------------------------------
(* Type correctness                                                        *)

LEMMA StatementsType ==
    ASSUME NEW v \in 1..Latest
    PROVE  /\ Statements[v] \in Seq(StatementSet)
           /\ Len(Statements[v]) \in Nat \ {0}
<1>1. Statements[v] \in Seq(StatementSet) /\ Statements[v] # <<>>
  BY ObjectsAssumption
<1> QED
  BY <1>1

LEMMA TypeInit == Init => TypeOK
<1> SUFFICES ASSUME Init PROVE TypeOK
  OBVIOUS
<1>1. version \in (0..Latest) \cup {NoVersion}
  BY DatabaseUpgradeAssumption DEF Init
<1>2. objects \in SUBSET AnyObject
  <2>1. CASE version = NoVersion
    BY <2>1 DEF Init
  <2>2. CASE version \in 0..Latest /\ version # NoVersion
    BY <2>2, ObjectsAssumption DEF Init
  <2> QED
    BY <1>1, <2>1, <2>2 DEF NoVersion
<1> QED
  BY <1>1, <1>2, DatabaseUpgradeAssumption DEF Init, TypeOK, AnyObject

\* The next version, or none.
LEMMA RecordedType ==
    ASSUME NEW v \in 1..Latest, Recorded(v)
    PROVE  /\ version' \in (0..Latest) \cup {NoVersion}
           /\ pc' \in {"idle", "upgrade"}
           /\ next' \in Nat \ {0}
           /\ pc' = "upgrade" => version' \in 0..(Latest - 1) /\ next' <= Len(Statements[version' + 1])
<1>1. v < Latest => v + 1 \in 1..Latest /\ Len(Statements[v + 1]) \in Nat \ {0}
  <2> HAVE v < Latest
  <2>1. v + 1 \in 1..Latest
    BY DEF Latest
  <2> QED
    BY <2>1, StatementsType
<1> QED
  BY <1>1 DEF Recorded, Latest

LEMMA TypeStep == TypeOK /\ [Next]_vars => TypeOK'
<1> SUFFICES ASSUME TypeOK, [Next]_vars PROVE TypeOK'
  OBVIOUS
<1>0. /\ objects \in SUBSET AnyObject
      /\ version \in (0..Latest) \cup {NoVersion}
      /\ pc \in {"idle", "upgrade"}
      /\ next \in Nat \ {0}
      /\ pc = "upgrade" => version \in 0..(Latest - 1) /\ next <= Len(Statements[version + 1])
      /\ interruptions \in 0..MaxInterruptions /\ MaxInterruptions \in Nat
  BY DatabaseUpgradeAssumption DEF TypeOK, AnyObject
<1> SUFFICES
      /\ objects' \in SUBSET AnyObject
      /\ version' \in (0..Latest) \cup {NoVersion}
      /\ pc' \in {"idle", "upgrade"}
      /\ next' \in Nat \ {0}
      /\ pc' = "upgrade" => version' \in 0..(Latest - 1) /\ next' <= Len(Statements[version' + 1])
      /\ interruptions' \in 0..MaxInterruptions
  BY DEF TypeOK, AnyObject
<1>1. CASE InitDatabase
  <2>1. objects' \in SUBSET AnyObject
    BY <1>1, ObjectsAssumption DEF InitDatabase
  <2>2. version' \in (0..Latest) \cup {NoVersion}
    BY <1>1 DEF InitDatabase, Latest
  <2>3. pc' = "idle" /\ pc' = pc /\ next' = next /\ interruptions' = interruptions
    BY <1>1 DEF InitDatabase
  <2> QED
    BY <1>0, <2>1, <2>2, <2>3
<1>2. CASE StartUpgrade
  <2>1. version + 1 \in 1..Latest
    BY <1>2 DEF StartUpgrade, Latest
  <2>2. Len(Statements[version + 1]) \in Nat \ {0}
    BY <2>1, StatementsType
  <2> QED
    BY <1>0, <1>2, <2>2 DEF StartUpgrade
<1>3. CASE ExecuteStatement
  <2> DEFINE st == Statements[version + 1]
  <2>1. version \in 0..(Latest - 1) /\ version + 1 \in 1..Latest
    BY <1>0, <1>3 DEF ExecuteStatement, Latest
  <2>2. st \in Seq(StatementSet) /\ Len(st) \in Nat \ {0}
    BY <2>1, StatementsType
  <2>3. next \in 1..Len(st) /\ st[next] \in StatementSet
    BY <1>0, <1>3, <2>2 DEF ExecuteStatement
  <2>4. objects' \in SUBSET AnyObject
    <3>1. objects' = objects \/ objects' = Executed(objects, st[next])
      BY <1>3 DEF ExecuteStatement
    <3> QED
      BY <1>0, <2>3, <3>1, ExecutedType
  <2>5. CASE next = Len(st)
    <3>1. Recorded(version + 1) /\ interruptions' = interruptions
      BY <1>3, <2>5 DEF ExecuteStatement
    <3> QED
      BY <1>0, <2>1, <2>4, <3>1, RecordedType
  <2>6. CASE next # Len(st)
    <3>1. next' = next + 1 /\ UNCHANGED <<version, pc, interruptions>>
      BY <1>3, <2>6 DEF ExecuteStatement
    <3> QED
      BY <1>0, <2>1, <2>2, <2>3, <2>4, <2>6, <3>1
  <2> QED
    BY <2>5, <2>6
<1>4. CASE ExecuteTransaction
  <2>1. version \in 0..(Latest - 1) /\ version + 1 \in 1..Latest
    BY <1>0, <1>4 DEF ExecuteTransaction, Latest
  <2>2. Statements[version + 1] \in Seq(StatementSet)
    BY <2>1, StatementsType
  <2>3. objects' \in SUBSET AnyObject
    BY <1>0, <1>4, <2>2, ExecutedAllType DEF ExecuteTransaction
  <2>4. Recorded(version + 1) /\ interruptions' = interruptions
    BY <1>4 DEF ExecuteTransaction
  <2> QED
    BY <1>0, <2>1, <2>3, <2>4, RecordedType
<1>5. CASE Refuse
  BY <1>0, <1>5 DEF Refuse
<1>6. CASE Interrupt
  BY <1>0, <1>6 DEF Interrupt
<1>7. CASE UNCHANGED vars
  BY <1>0, <1>7 DEF vars
<1>8. CASE Done
  BY <1>7, <1>8 DEF Done
<1> QED
  BY <1>1, <1>2, <1>3, <1>4, <1>5, <1>6, <1>7, <1>8 DEF Next

\* Every variable has its type, from whatever version upgrade_database() begins.
THEOREM TypeCorrect == Spec => []TypeOK
<1> QED
  BY TypeInit, TypeStep, PTL DEF Spec

-----------------------------------------------------------------------------
(* The invariant                                                           *)

\* The facts about the lists of statements, where a step needs them.
LEMMA UpgradeFacts ==
    ASSUME NEW v \in 14..(Latest - 1), NEW S \in Uninterrupted[v]
    PROVE  /\ v + 1 \in 1..Latest
           /\ Statements[v + 1] \in Seq(StatementSet)
           /\ Len(Statements[v + 1]) \in Nat \ {0}
           /\ Unrefused(S, Statements[v + 1])
           /\ v + 1 \notin Transactional => Repeatable(Statements[v + 1])
           /\ Reached(S, v, 0) = S
           /\ Reached(S, v, Len(Statements[v + 1])) = ExecutedAll(S, Statements[v + 1])
           /\ ExecutedAll(S, Statements[v + 1]) \in Uninterrupted[v + 1]
<1>1. v + 1 \in 1..Latest /\ v \in 14..Latest /\ v < Latest /\ v + 1 \in 14..Latest /\ v + 1 # 14
  BY DEF Latest
<1>2. Statements[v + 1] \in Seq(StatementSet) /\ Len(Statements[v + 1]) \in Nat \ {0}
  BY <1>1, StatementsType
<1>3. Unrefused(S, Statements[v + 1])
  BY <1>1, UninterruptedAssumption
<1>4. v + 1 \notin Transactional => Repeatable(Statements[v + 1])
  <2>1. v + 1 \in 15..Latest
    BY <1>1
  <2> QED
    BY <2>1, RepeatableAssumption
<1>5. /\ Reached(S, v, 0) = S
      /\ Reached(S, v, Len(Statements[v + 1])) = ExecutedAll(S, Statements[v + 1])
  BY <1>2, ExecutedPrefix DEF Reached
<1>6. ExecutedAll(S, Statements[v + 1]) \in Uninterrupted[v + 1]
  <2>1. (v + 1) - 1 = v
    OBVIOUS
  <2> QED
    BY <1>1, <2>1, UninterruptedSteps
<1> QED
  BY <1>1, <1>2, <1>3, <1>4, <1>5, <1>6

LEMMA ReachedStep ==
    ASSUME NEW v \in 14..(Latest - 1), NEW S, NEW k \in 1..Len(Statements[v + 1])
    PROVE  Reached(S, v, k) = Executed(Reached(S, v, k - 1), Statements[v + 1][k])
<1> DEFINE st == Statements[v + 1]
<1>1. v + 1 \in 1..Latest
  BY DEF Latest
<1>2. st \in Seq(StatementSet)
  BY <1>1, StatementsType
<1> HIDE DEF st
<1>3. k \in 1..Len(st)
  BY DEF st
<1>4. ExecutedAll(S, SubSeq(st, 1, k)) = Executed(ExecutedAll(S, SubSeq(st, 1, k - 1)), st[k])
  BY <1>2, <1>3, ExecutedPrefix
<1> QED
  BY <1>4 DEF Reached, st

LEMMA IInvInit == Recent => (Init => IInv)
<1> SUFFICES ASSUME Recent, Init PROVE IInv
  OBVIOUS
<1>1. version \in 14..Latest \/ version = NoVersion
  BY DEF Recent, Init
<1>2. pc = "idle"
  BY DEF Init
<1>3. RecentInv
  BY <1>1, <1>2 DEF RecentInv
<1>4. ASSUME version # NoVersion PROVE objects \in Uninterrupted[version]
  <2>1. version \in 14..Latest /\ objects \in Databases(version)
    BY <1>1, <1>4 DEF Init
  <2> QED
    BY <2>1, UninterruptedSteps
<1>5. ObjectsInv
  <2>1. CASE version = NoVersion
    BY <2>1 DEF ObjectsInv
  <2>2. CASE version = Latest /\ version # NoVersion
    <3>1. version \in 14..Latest
      BY <1>1, <2>2
    <3> QED
      BY <1>4, <2>2, <3>1 DEF ObjectsInv
  <2>3. CASE version \in 14..(Latest - 1) /\ version # NoVersion
    <3>1. objects \in Uninterrupted[version]
      BY <1>4, <2>3
    <3>2. Len(Statements[version + 1]) \in Nat \ {0} /\ objects = Reached(objects, version, 0)
      BY <2>3, <3>1, UpgradeFacts
    <3>3. 0 \in 0..Len(Statements[version + 1])
      BY <3>2
    <3>4. version # Latest
      BY <2>3 DEF Latest
    <3> QED
      BY <1>2, <3>1, <3>2, <3>3, <3>4 DEF ObjectsInv
  <2> QED
    BY <1>1, <2>1, <2>2, <2>3 DEF Latest
<1> QED
  BY <1>3, <1>5, TypeInit DEF IInv

\* Where an upgrade is.
LEMMA Underway ==
    ASSUME IInv, pc = "upgrade"
    PROVE  /\ version \in 14..(Latest - 1)
           /\ next \in 1..Len(Statements[version + 1])
           /\ version + 1 \in Transactional => next = 1
           /\ \E S \in Uninterrupted[version], k \in 0..Len(Statements[version + 1]) :
                /\ objects = Reached(S, version, k)
                /\ version + 1 \in Transactional => k = 0
                /\ next <= k + 1
<1>1. version \in 0..(Latest - 1) /\ next \in Nat \ {0} /\ next <= Len(Statements[version + 1])
  BY DEF IInv, TypeOK
<1>2. version # NoVersion /\ version # Latest /\ version + 1 \in 1..Latest
  BY <1>1 DEF NoVersion, Latest
<1>3. Len(Statements[version + 1]) \in Nat
  BY <1>2, StatementsType
<1>4. version \in 14..(Latest - 1) /\ (version + 1 \in Transactional => next = 1)
  BY <1>1, <1>2 DEF IInv, RecentInv, Latest
<1>5. next \in 1..Len(Statements[version + 1])
  BY <1>1, <1>3
<1> QED
  BY <1>2, <1>4, <1>5 DEF IInv, ObjectsInv

\* No later upgrade is refused.
LEMMA NeverBlocked ==
    ASSUME Viewed = {}, IInv, pc = "upgrade"
    PROVE  ~ Blocked
<1> DEFINE st == Statements[version + 1]
<1>1. /\ version \in 14..(Latest - 1)
      /\ next \in 1..Len(st)
      /\ version + 1 \in Transactional => next = 1
  BY Underway
<1>2. PICK S \in Uninterrupted[version], k \in 0..Len(st) :
         /\ objects = Reached(S, version, k)
         /\ version + 1 \in Transactional => k = 0
         /\ next <= k + 1
  BY Underway
<1>3. /\ st \in Seq(StatementSet) /\ Len(st) \in Nat
      /\ Unrefused(S, st)
      /\ version + 1 \notin Transactional => Repeatable(st)
      /\ Reached(S, version, 0) = S
  BY <1>1, UpgradeFacts
<1>4. \A s : ~ RefusedByView(s)
  BY DEF RefusedByView
<1>5. CASE version + 1 \in Transactional
  <2>1. objects = S
    BY <1>2, <1>3, <1>5
  <2>2. \A i \in DOMAIN st : st[i].try \/ ~ Refused(ExecutedAll(objects, SubSeq(st, 1, i - 1)), st[i])
    BY <1>3, <2>1 DEF Unrefused
  <2>3. \A i \in 1..Len(st) : i \in DOMAIN st
    BY <1>3
  <2> QED
    BY <1>1, <1>4, <1>5, <2>2, <2>3 DEF Blocked
<1>6. CASE version + 1 \notin Transactional
  <2>1. ExecutedAll(objects, SubSeq(st, next, next - 1)) = objects
    BY <1>1, <1>3, ExecutedNone
  <2>2. ASSUME ~ st[next].try PROVE ~ Refused(objects, st[next])
    <3>1. k \in (next - 1)..Len(st)
      BY <1>1, <1>2
    <3>2. ~ Refused(ExecutedAll(S, SubSeq(st, 1, k)), st[next])
      BY <1>1, <1>3, <1>6, <2>2, <3>1, RepeatedUnrefused
    <3> QED
      BY <1>2, <3>2 DEF Reached
  <2> QED
    BY <1>4, <1>6, <2>1, <2>2 DEF Blocked
<1> QED
  BY <1>5, <1>6

\* What a completed upgrade leaves.
LEMMA RecordedInv ==
    ASSUME NEW v \in 15..Latest, Recorded(v), objects' \in Uninterrupted[v]
    PROVE  RecentInv' /\ ObjectsInv'
<1>1. version' = v /\ next' = 1
  BY DEF Recorded
<1>2. RecentInv'
  BY <1>1 DEF RecentInv
<1>3. CASE v = Latest
  <2> QED
    BY <1>1, <1>2, <1>3 DEF ObjectsInv
<1>4. CASE v # Latest
  <2>1. v \in 14..(Latest - 1)
    BY <1>4 DEF Latest
  <2> DEFINE S == objects'
  <2>2. Len(Statements[v + 1]) \in Nat \ {0} /\ Reached(S, v, 0) = S
    BY <2>1, UpgradeFacts
  <2>3. 0 \in 0..Len(Statements[v + 1]) /\ next' <= 0 + 1
    BY <1>1, <2>2
  <2> QED
    BY <1>1, <1>2, <1>4, <2>2, <2>3 DEF ObjectsInv
<1> QED
  BY <1>3, <1>4

\* One more statement of an upgrade without a transaction, or one again.
LEMMA StatementStep ==
    ASSUME Viewed = {}, IInv, ExecuteStatement
    PROVE  /\ RecentInv' /\ ObjectsInv'
           /\ version' # version => version' \in 15..Latest /\ objects' \in Uninterrupted[version']
<1> DEFINE st == Statements[version + 1]
<1>0. pc = "upgrade" /\ version + 1 \notin Transactional
  BY DEF ExecuteStatement
<1>1. version \in 14..(Latest - 1) /\ next \in 1..Len(st)
  BY <1>0, Underway
<1>2. PICK S \in Uninterrupted[version], k \in 0..Len(st) :
         objects = Reached(S, version, k) /\ next <= k + 1
  BY <1>0, Underway
<1>3. /\ st \in Seq(StatementSet) /\ Len(st) \in Nat
      /\ Repeatable(st)
      /\ Reached(S, version, Len(st)) = ExecutedAll(S, st)
      /\ ExecutedAll(S, st) \in Uninterrupted[version + 1]
  BY <1>0, <1>1, UpgradeFacts
<1>4. objects' = Executed(objects, st[next])
  BY DEF ExecuteStatement, RefusedByView
<1>5. PICK l \in 0..Len(st) : objects' = Reached(S, version, l) /\ next <= l
  <2>1. CASE next = k + 1
    <3>1. objects' = Executed(Reached(S, version, next - 1), st[next])
      BY <1>2, <1>4, <2>1
    <3>2. objects' = Reached(S, version, next)
      BY <1>1, <3>1, ReachedStep
    <3> QED
      BY <1>1, <1>3, <3>2
  <2>2. CASE next <= k
    <3>1. k \in next..Len(st)
      BY <1>1, <2>2
    <3>2. objects' = objects
      BY <1>1, <1>2, <1>3, <1>4, <3>1, RepeatedStatement DEF Reached
    <3> QED
      BY <1>2, <2>2, <3>2
  <2> QED
    BY <1>1, <1>2, <2>1, <2>2
<1>6. CASE next = Len(st)
  <2>1. objects' \in Uninterrupted[version + 1]
    BY <1>3, <1>5, <1>6
  <2>2. Recorded(version + 1)
    BY <1>6 DEF ExecuteStatement
  <2>3. version + 1 \in 15..Latest
    BY <1>1 DEF Latest
  <2>4. version' = version + 1
    BY <2>2 DEF Recorded
  <2> QED
    BY <2>1, <2>2, <2>3, <2>4, RecordedInv
<1>7. CASE next # Len(st)
  <2>1. next' = next + 1 /\ version' = version /\ pc' = pc
    BY <1>7 DEF ExecuteStatement
  <2>2. RecentInv'
    BY <1>0, <1>1, <2>1 DEF RecentInv
  <2>3. version # Latest /\ next' <= l + 1
    BY <1>1, <1>5, <2>1 DEF Latest
  <2>4. ObjectsInv'
    BY <1>0, <1>5, <2>1, <2>3 DEF ObjectsInv
  <2> QED
    BY <2>1, <2>2, <2>4
<1> QED
  BY <1>6, <1>7

\* All statements of an upgrade with a transaction.
LEMMA TransactionStep ==
    ASSUME IInv, ExecuteTransaction
    PROVE  /\ RecentInv' /\ ObjectsInv'
           /\ version' # version => version' \in 15..Latest /\ objects' \in Uninterrupted[version']
<1>0. pc = "upgrade" /\ version + 1 \in Transactional
  BY DEF ExecuteTransaction
<1>1. version \in 14..(Latest - 1)
  BY <1>0, Underway
<1>2. PICK S \in Uninterrupted[version] : objects = Reached(S, version, 0)
  BY <1>0, Underway
<1>3. Reached(S, version, 0) = S /\ ExecutedAll(S, Statements[version + 1]) \in Uninterrupted[version + 1]
  BY <1>1, UpgradeFacts
<1>4. objects' \in Uninterrupted[version + 1] /\ Recorded(version + 1)
  BY <1>2, <1>3 DEF ExecuteTransaction
<1>5. version + 1 \in 15..Latest
  BY <1>1 DEF Latest
<1>6. version' = version + 1
  BY <1>4 DEF Recorded
<1> QED
  BY <1>4, <1>5, <1>6, RecordedInv

\* An upgrade that does not run has come nowhere.
LEMMA StoppedStep ==
    ASSUME IInv, UNCHANGED <<objects, version>>, pc' = "idle" \/ (pc' = "upgrade" /\ next' = 1)
    PROVE  RecentInv' /\ ObjectsInv'
<1>1. RecentInv'
  BY DEF IInv, RecentInv
<1>2. CASE version = NoVersion \/ version = Latest
  BY <1>1, <1>2 DEF IInv, ObjectsInv
<1>3. CASE version # NoVersion /\ version # Latest
  <2>1. PICK S \in Uninterrupted[version], k \in 0..Len(Statements[version + 1]) :
           /\ objects = Reached(S, version, k)
           /\ version + 1 \in Transactional => k = 0
    BY <1>3 DEF IInv, ObjectsInv
  <2>2. pc' = "upgrade" => next' <= k + 1
    OBVIOUS
  <2> QED
    BY <1>1, <1>3, <2>1, <2>2 DEF ObjectsInv
<1> QED
  BY <1>1, <1>2, <1>3

LEMMA IInvStep == Recent /\ IInv /\ [Next]_vars => IInv'
<1> SUFFICES ASSUME Recent, IInv, [Next]_vars PROVE RecentInv' /\ ObjectsInv'
  BY TypeStep DEF IInv
<1>0. Viewed = {}
  BY DEF Recent
<1>1. CASE InitDatabase
  <2>1. objects' = Fresh /\ version' = Latest /\ pc' = "idle"
    BY <1>1 DEF InitDatabase
  <2>2. objects' \in Uninterrupted[Latest]
    BY <2>1, UninterruptedAssumption
  <2> QED
    BY <2>1, <2>2 DEF RecentInv, ObjectsInv, Latest
<1>2. CASE StartUpgrade
  <2>1. pc' = "upgrade" /\ next' = 1 /\ UNCHANGED <<objects, version>>
    BY <1>2 DEF StartUpgrade
  <2> QED
    BY <2>1, StoppedStep
<1>3. CASE ExecuteStatement
  BY <1>0, <1>3, StatementStep
<1>4. CASE ExecuteTransaction
  BY <1>4, TransactionStep
<1>5. CASE Refuse
  BY <1>5, StoppedStep DEF Refuse
<1>6. CASE Interrupt
  BY <1>6, StoppedStep DEF Interrupt
<1>7. CASE UNCHANGED vars
  BY <1>7 DEF vars, IInv, RecentInv, ObjectsInv
<1>8. CASE Done
  BY <1>7, <1>8 DEF Done
<1> QED
  BY <1>1, <1>2, <1>3, <1>4, <1>5, <1>6, <1>7, <1>8 DEF Next

LEMMA Invariance == Recent => (Spec => []IInv)
<1> SUFFICES ASSUME Recent PROVE Spec => []IInv
  OBVIOUS
<1>1. Init => IInv
  BY IInvInit
<1>2. IInv /\ [Next]_vars => IInv'
  BY IInvStep
<1> QED
  BY <1>1, <1>2, PTL DEF Spec

-----------------------------------------------------------------------------
(* The properties                                                          *)

\* However often upgrade_database() has been interrupted and begun again on the
\* way, the database has in the end every object that init_database() creates for
\* the tables of the schema, and no other object of these.
THEOREM UpgradedAlwaysHasSchema == Recent => (Spec => []UpgradedHasSchema)
<1> SUFFICES ASSUME Recent PROVE Spec => []UpgradedHasSchema
  OBVIOUS
<1>1. IInv => UpgradedHasSchema
  <2> SUFFICES ASSUME IInv, version = Latest PROVE OfSchema(objects) = Fresh
    BY DEF UpgradedHasSchema
  <2>1. objects \in Uninterrupted[Latest] /\ Latest \in 14..Latest
    BY DEF IInv, ObjectsInv, Latest, NoVersion
  <2> QED
    BY <2>1, UninterruptedAssumption
<1> QED
  BY <1>1, Invariance, PTL

\* The statement that records a version is executed when the database is what an
\* upgrade that nothing has interrupted makes of it; only the table that is not in
\* the schema may be missing, or have the columns of the release that added it.
THEOREM VersionAlwaysTrue == Recent => (Spec => VersionIsTrue)
<1> SUFFICES ASSUME Recent PROVE Spec => VersionIsTrue
  OBVIOUS
<1>1. ASSUME IInv, [Next]_vars, version' # version, version # NoVersion
      PROVE  AsExpected(objects', version')
  <2>1. version' \in 15..Latest /\ objects' \in Uninterrupted[version']
    <3>1. CASE ExecuteStatement
      BY <1>1, <3>1, StatementStep DEF Recent
    <3>2. CASE ExecuteTransaction
      BY <1>1, <3>2, TransactionStep
    <3> QED
      BY <1>1, <3>1, <3>2 DEF Next, InitDatabase, StartUpgrade, Refuse, Interrupt, Done, vars
  <2>2. version' \in 14..Latest
    BY <2>1
  <2> QED
    BY <2>1, <2>2, UninterruptedAssumption
<1>2. IInv /\ [Next]_vars
        => [version' # version /\ version # NoVersion => AsExpected(objects', version')]_vars
  BY <1>1
<1> QED
  BY <1>2, Invariance, PTL DEF Spec, VersionIsTrue

\* No upgrade from version 14 on is refused, neither the first time nor when it is
\* begun again.
THEOREM OnlyOldUpgradesAreRefused == Recent => (Spec => OnlyOldUpgradesRefuse)
<1> SUFFICES ASSUME Recent PROVE Spec => OnlyOldUpgradesRefuse
  OBVIOUS
<1>1. IInv => ~ Refuse
  BY NeverBlocked DEF Recent, Refuse
<1>2. IInv /\ [Next]_vars => [Refuse => version < 14]_vars
  BY <1>1
<1> QED
  BY <1>2, Invariance, PTL DEF Spec, OnlyOldUpgradesRefuse

=============================================================================
