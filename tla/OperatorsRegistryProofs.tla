------------------------ MODULE OperatorsRegistryProofs ------------------------
(***************************************************************************)
(* Only audited keys may be funded and the exits are accounted for, with   *)
(* any operators, keys and audits: however keys are added, removed and so  *)
(* reordered, and whatever counts River and the oracle bring.              *)
(***************************************************************************)
EXTENDS OperatorsRegistry, Sums, SequenceTheorems, TLAPS

-----------------------------------------------------------------------------
(* The inductive invariant                                                 *)

\* The slots below an operator's count of keys hold keys.
KeysArePresent ==
  \A i \in Indexes :
    /\ operators[i].keys <= MaxKeys
    /\ \A k \in 0..(operators[i].keys - 1) : validatorKeys[i][k] \in Key

\* What the last audit read of an operator is what the operator has, unless an
\* edit after it says so.
SnapshotIsSound ==
  /\ snapshot.block < block
  /\ DOMAIN snapshot.count \subseteq Indexes
  /\ \A i \in DOMAIN snapshot.count :
       /\ snapshot.count[i] \in 0..MaxKeys
       /\ \A k \in 0..(snapshot.count[i] - 1) : snapshot.table[i][k] \in Key
       /\ ~EditedSinceSnapshot(operators[i]) => snapshot.table[i] = validatorKeys[i]

IInv ==
  /\ TypeOK
  /\ KeysArePresent
  /\ SnapshotIsSound
  /\ OnlyAuditedKeysAreFundable
  /\ CountsAreOrdered
  /\ ExitsAreAccounted

-----------------------------------------------------------------------------
(* Smallest elements, ranks and sums                                       *)

LEMMA FiniteSetsHaveMin ==
  ASSUME NEW S, IsFiniteSet(S), S # {}, \A x \in S : x \in Int
  PROVE  Min(S) \in S /\ \A y \in S : Min(S) <= y
BY LeastElement DEF Min

LEMMA MaxOfTwo ==
  ASSUME NEW a \in Int, NEW b \in Int
  PROVE  Max({a, b}) = IF a >= b THEN a ELSE b
BY DEF Max

LEMMA MinOfTwo ==
  ASSUME NEW a \in Int, NEW b \in Int
  PROVE  Min({a, b}) = IF a <= b THEN a ELSE b
BY DEF Min

\* A finite set of integers has an element of every rank.
LEMMA RanksExist ==
  ASSUME NEW S, IsFiniteSet(S), \A x \in S : x \in Int, NEW n \in 1..Cardinality(S)
  PROVE  \E k \in S : Cardinality({j \in S : j > k}) = n - 1
<1> DEFINE Ranked(T) ==
             \A m \in 1..Cardinality(T) :
               \E k \in T : Cardinality({j \in T : j > k}) = m - 1
           C == {T \in SUBSET S : ~Ranked(T)}
<1>1. C = {}
  <2> SUFFICES ASSUME C # {} PROVE FALSE OBVIOUS
  <2>1. PICK T \in C : \A U \in C : U \subseteq T => U = T
    <3>1. C \in SUBSET (SUBSET S) OBVIOUS
    <3> HIDE DEF C
    <3> QED BY <3>1, SmallestSubset
  <2>2. IsFiniteSet(T) /\ \A j \in T : j \in Int BY <2>1, FS_Subset
  <2>3. T # {}
    <3>1. Ranked({}) BY FS_EmptySet
    <3> HIDE DEF Ranked
    <3> QED BY <2>1, <3>1
  <2> DEFINE x == Min(T)
             R == T \ {x}
  <2>4. x \in T /\ \A y \in T : x <= y BY <2>2, <2>3, FiniteSetsHaveMin
  <2> HIDE DEF x
  <2>5. /\ IsFiniteSet(R)
        /\ Cardinality(T) \in Nat
        /\ Cardinality(R) = Cardinality(T) - 1
    BY <2>2, <2>4, FS_RemoveElement, FS_CardinalityType
  <2>6. Ranked(R) BY <2>1, <2>4
  <2>7. ASSUME NEW m \in 1..Cardinality(T)
        PROVE  \E k \in T : Cardinality({j \in T : j > k}) = m - 1
    <3>1. CASE m = Cardinality(T)
      <4>1. {j \in T : j > x} = R
        <5>1. \A j \in T : j > x <=> j # x BY <2>2, <2>4
        <5> QED BY <5>1
      <4> HIDE DEF R
      <4> QED BY <2>4, <2>5, <3>1, <4>1
    <3>2. CASE m # Cardinality(T)
      <4>1. m \in 1..Cardinality(R) BY <2>5, <3>2
      <4>2. PICK k \in R : Cardinality({j \in R : j > k}) = m - 1 BY <2>6, <4>1
      <4>3. {j \in R : j > k} = {j \in T : j > k} BY <2>2, <2>4
      <4> QED BY <4>2, <4>3
    <3> QED BY <3>1, <3>2
  <2> QED BY <2>1, <2>7
<1>2. Ranked(S)
  <2> HIDE DEF Ranked
  <2> QED BY <1>1
<1> QED BY <1>2

\* A function that has its sum, and one more element with the value zero.
LEMMA SumWithZero ==
  ASSUME NEW f, NEW g, NEW y, IsFiniteSet(DOMAIN f), y \notin DOMAIN f,
         DOMAIN g = DOMAIN f \cup {y}, g[y] = 0,
         \A x \in DOMAIN f : f[x] \in Int /\ g[x] = f[x]
  PROVE  SumFunction(g) = SumFunction(f)
<1> DEFINE S == DOMAIN f
           T == DOMAIN g
<1>1. IsFiniteSet(T) BY FS_AddElement
<1>2. (\A x \in T : g[x] \in Int) /\ y \in T /\ T \ {y} = S /\ g[y] = 0 OBVIOUS
<1>3. SumFunctionOnSet(f, S) = SumFunctionOnSet(g, S) BY SumOfEqual
<1>4. SumFunctionOnSet(f, S) \in Int BY SumIsInt
<1> HIDE DEF S, T
<1>5. SumFunctionOnSet(g, T) = g[y] + SumFunctionOnSet(g, T \ {y})
  BY <1>1, <1>2, SumWithout
<1>6. SumFunctionOnSet(g, T) = 0 + SumFunctionOnSet(f, S)
  BY <1>2, <1>3, <1>5
<1>7. SumFunctionOnSet(g, T) = SumFunctionOnSet(f, S) BY <1>4, <1>6
<1> QED BY <1>7 DEF SumFunction, S, T

\* Values added on a part of a function's domain add their sum to its sum.
LEMMA SumWithAdded ==
  ASSUME NEW f, NEW g, NEW a, IsFiniteSet(DOMAIN f), DOMAIN g = DOMAIN f,
         DOMAIN a \subseteq DOMAIN f,
         \A x \in DOMAIN f : f[x] \in Int,
         \A x \in DOMAIN a : a[x] \in Int,
         \A x \in DOMAIN f : g[x] = IF x \in DOMAIN a THEN f[x] + a[x] ELSE f[x]
  PROVE  SumFunction(g) = SumFunction(f) + SumFunction(a)
<1> DEFINE S == DOMAIN f
           T == DOMAIN a
           e == [x \in S |-> IF x \in T THEN a[x] ELSE 0]
<1>1. /\ \A x \in S : f[x] \in Int /\ e[x] \in Int /\ g[x] = f[x] + e[x]
      /\ \A x \in S \ T : e[x] = 0
      /\ \A x \in T : e[x] = a[x]
  OBVIOUS
<1>2. IsFiniteSet(S) /\ IsFiniteSet(T) /\ T \in SUBSET S BY FS_Subset
<1>3. SumFunction(g) = SumFunctionOnSet(g, S) /\ SumFunction(f) = SumFunctionOnSet(f, S)
      /\ SumFunction(a) = SumFunctionOnSet(a, T)
  BY DEF SumFunction
<1> HIDE DEF e, S, T
<1>4. SumFunctionOnSet(g, S) = SumFunctionOnSet(f, S) + SumFunctionOnSet(e, S)
  BY <1>1, <1>2, SumOfPlus
<1>5. SumFunctionOnSet(e, S) = SumFunctionOnSet(e, T)
  BY <1>1, <1>2, SumOverSupport
<1>6. SumFunctionOnSet(e, T) = SumFunctionOnSet(a, T)
  BY <1>1, <1>2, SumOfEqual
<1> QED BY <1>3, <1>4, <1>5, <1>6

-----------------------------------------------------------------------------
(* The keys a removal leaves                                               *)

\* g holds the tables the loop of removeValidators goes through in n turns.
Loops(g, table, total, removed, n) ==
  g = [m \in 0..n |->
         IF m = 0 THEN table
         ELSE [g[m - 1] EXCEPT ![NthHighest(removed, m)] = g[m - 1][total - m],
                               ![total - m] = NoKey]]

LEMMA LoopExists ==
  ASSUME NEW table, NEW total, NEW removed, NEW N \in Nat
  PROVE  \E g : Loops(g, table, total, removed, N)
<1> DEFINE Fails(n) == ~ \E g : Loops(g, table, total, removed, n)
           C == {n \in 0..N : Fails(n)}
<1> SUFFICES ASSUME C # {} PROVE FALSE OBVIOUS
<1>1. PICK n \in C : \A m \in C : n <= m
  <2>1. IsFiniteSet(C) /\ \A m \in C : m \in Int
    <3>1. IsFiniteSet(0..N) BY FS_Interval
    <3>2. C \subseteq 0..N /\ \A m \in C : m \in Int OBVIOUS
    <3> HIDE DEF C
    <3> QED BY <3>1, <3>2, FS_Subset
  <2> HIDE DEF C
  <2> QED BY <2>1, FiniteSetsHaveMin
<1>2. n # 0
  <2>1. Loops([m \in 0..0 |-> table], table, total, removed, 0) BY DEF Loops
  <2> QED BY <1>1, <2>1
<1>3. n - 1 \in 0..N /\ n - 1 \notin C BY <1>1, <1>2
<1>4. PICK g : Loops(g, table, total, removed, n - 1) BY <1>3
<1> DEFINE h == [m \in 0..n |->
                   IF m < n THEN g[m]
                   ELSE [g[n - 1] EXCEPT ![NthHighest(removed, n)] = g[n - 1][total - n],
                                         ![total - n] = NoKey]]
           V(t, m) == IF m = 0 THEN table
                      ELSE [t[m - 1] EXCEPT ![NthHighest(removed, m)] = t[m - 1][total - m],
                                            ![total - m] = NoKey]
<1>5. \A m \in 0..(n - 1) : g[m] = V(g, m) BY <1>4 DEF Loops
<1>6. ASSUME NEW m \in 0..n PROVE h[m] = V(h, m)
  <2>1. CASE m < n
    <3>1. h[m] = g[m] /\ g[m] = V(g, m) BY <1>5, <2>1
    <3>2. m # 0 => h[m - 1] = g[m - 1] BY <2>1
    <3> QED BY <3>1, <3>2
  <2>2. CASE m = n
    <3>1. n \in Nat /\ n # 0 BY <1>1, <1>2
    <3>2. n - 1 \in 0..n /\ n - 1 < n BY <3>1
    <3>3. h[n - 1] = g[n - 1] BY <3>2
    <3>4. n \in 0..n /\ ~(n < n) BY <3>1
    <3>5. h[n] = [g[n - 1] EXCEPT ![NthHighest(removed, n)] = g[n - 1][total - n],
                                  ![total - n] = NoKey]
      BY <3>4
    <3> HIDE DEF h
    <3> QED BY <2>2, <3>1, <3>3, <3>5
  <2> QED BY <1>1, <2>1, <2>2
<1>7. Loops(h, table, total, removed, n)
  <2>1. h = [m \in 0..n |-> V(h, m)] BY <1>6
  <2> QED BY <2>1 DEF Loops
<1> QED BY <1>1, <1>7

\* The table that is left, and those before it.
LEMMA LoopOfKeysWithout ==
  ASSUME NEW table, NEW total, NEW removed, IsFiniteSet(removed)
  PROVE  \E g : /\ Loops(g, table, total, removed, Cardinality(removed))
                /\ KeysWithout(table, total, removed) = g[Cardinality(removed)]
<1> DEFINE g == CHOOSE g : Loops(g, table, total, removed, Cardinality(removed))
<1>1. Loops(g, table, total, removed, Cardinality(removed))
  BY LoopExists, FS_CardinalityType
<1>2. KeysWithout(table, total, removed) = g[Cardinality(removed)]
  BY DEF KeysWithout, Loops
<1> QED BY <1>1, <1>2

\* The removed keys are no more than there are from the lowest of them on.
LEMMA RemovedFit ==
  ASSUME NEW total \in Nat, NEW removed, removed \subseteq 0..(total - 1), removed # {}
  PROVE  /\ IsFiniteSet(removed)
         /\ Min(removed) \in removed
         /\ \A k \in removed : Min(removed) <= k
         /\ Cardinality(removed) \in 1..total
         /\ Min(removed) <= total - Cardinality(removed)
<1>1. IsFiniteSet(removed)
  <2>1. total - 1 \in Int OBVIOUS
  <2>2. IsFiniteSet(0..(total - 1)) BY <2>1, FS_Interval
  <2> QED BY <2>2, FS_Subset
<1> DEFINE low == Min(removed)
<1>2. low \in removed /\ \A k \in removed : low <= k
  <2>1. \A k \in removed : k \in Int OBVIOUS
  <2> QED BY <1>1, <2>1, FiniteSetsHaveMin
<1> HIDE DEF low
<1>3. low \in Int /\ low >= 0 /\ low <= total - 1 BY <1>2
<1>4. removed \subseteq low..(total - 1) BY <1>2, <1>3
<1>5. /\ IsFiniteSet(low..(total - 1))
      /\ Cardinality(low..(total - 1)) = total - low
  BY <1>3, FS_Interval
<1>6. Cardinality(removed) <= total - low BY <1>4, <1>5, FS_Subset
<1>7. Cardinality(removed) \in Nat /\ Cardinality(removed) # 0
  BY <1>1, FS_CardinalityType, FS_EmptySet
<1> QED BY <1>1, <1>2, <1>3, <1>6, <1>7 DEF low

\* What removeValidators leaves: below the count that is left, keys that were
\* there; below the lowest key removed, each in its place.
LEMMA KeysLeft ==
  ASSUME NEW table \in KeyTable, NEW total \in 0..MaxKeys, NEW removed,
         removed \subseteq 0..(total - 1), removed # {}
  PROVE  /\ KeysWithout(table, total, removed) \in KeyTable
         /\ \A k \in 0..(total - Cardinality(removed) - 1) :
              \E j \in 0..(total - 1) :
                KeysWithout(table, total, removed)[k] = table[j]
         /\ \A k \in 0..(Min(removed) - 1) :
              KeysWithout(table, total, removed)[k] = table[k]
<1> DEFINE N == Cardinality(removed)
           low == Min(removed)
<1>1. /\ IsFiniteSet(removed) /\ N \in 1..total
      /\ low \in removed /\ \A k \in removed : low <= k
      /\ low <= total - N
      /\ MaxKeys \in Nat
  <2>1. MaxKeys \in Nat /\ total \in Nat BY RegistryAssumption
  <2> QED BY <2>1, RemovedFit
<1>2. PICK g : /\ Loops(g, table, total, removed, N)
               /\ KeysWithout(table, total, removed) = g[N]
  BY <1>1, LoopOfKeysWithout
<1> DEFINE Good(n) ==
             /\ g[n] \in KeyTable
             /\ \A k \in 0..(total - n - 1) : \E j \in 0..(total - 1) : g[n][k] = table[j]
             /\ \A k \in 0..(low - 1) : g[n][k] = table[k]
           C == {n \in 0..N : ~Good(n)}
<1>3. ASSUME NEW n \in 1..N, Good(n - 1) PROVE Good(n)
  <2> DEFINE r == NthHighest(removed, n)
             t == g[n - 1]
  <2>1. r \in removed
    <3>1. \A k \in removed : k \in Int OBVIOUS
    <3>2. \E k \in removed : Cardinality({j \in removed : j > k}) = n - 1
      BY <1>1, <3>1, RanksExist
    <3> QED BY <3>2 DEF NthHighest
  <2>2. g[n] = [t EXCEPT ![r] = t[total - n], ![total - n] = NoKey]
    <3>1. n \in 0..N /\ n # 0 BY <1>1
    <3> QED BY <1>2, <3>1 DEF Loops
  <2> HIDE DEF r, t, N, low
  <2>3. t \in [KeyIndex -> Key \cup {NoKey}] BY <1>3 DEF t, KeyTable
  <2>4. total - n \in KeyIndex /\ r \in KeyIndex /\ low <= total - n /\ low <= r
    BY <1>1, <2>1 DEF KeyIndex
  <2>5. \A k \in KeyIndex :
          g[n][k] = IF k = total - n THEN NoKey ELSE IF k = r THEN t[total - n] ELSE t[k]
    BY <2>2, <2>3, <2>4
  <2>6. g[n] \in KeyTable
    BY <2>2, <2>3, <2>4 DEF KeyTable
  <2>7. ASSUME NEW k \in 0..(total - n - 1)
        PROVE  \E j \in 0..(total - 1) : g[n][k] = table[j]
    <3>1. k \in KeyIndex /\ k # total - n BY <1>1 DEF KeyIndex
    <3>2. \A i \in 0..(total - (n - 1) - 1) :
            \E j \in 0..(total - 1) : t[i] = table[j]
      BY <1>3 DEF t
    <3>3. k \in 0..(total - (n - 1) - 1) /\ total - n \in 0..(total - (n - 1) - 1)
      BY <1>1
    <3> QED BY <2>5, <3>1, <3>2, <3>3
  <2>8. ASSUME NEW k \in 0..(low - 1) PROVE g[n][k] = table[k]
    <3>1. low \in Int BY <1>1
    <3>2. k \in KeyIndex /\ k # total - n /\ k # r BY <1>1, <2>4, <3>1 DEF KeyIndex
    <3> QED BY <1>3, <2>5, <3>2 DEF t
  <2> QED BY <2>6, <2>7, <2>8
<1>4. Good(0)
  <2>1. g[0] = table BY <1>1, <1>2 DEF Loops
  <2> QED BY <2>1
<1>5. C = {}
  <2> SUFFICES ASSUME C # {} PROVE FALSE OBVIOUS
  <2>1. PICK n \in C : \A m \in C : n <= m
    <3>1. IsFiniteSet(0..N) BY <1>1, FS_Interval
    <3>2. C \subseteq 0..N /\ \A m \in C : m \in Int OBVIOUS
    <3> HIDE DEF C
    <3> QED BY <3>1, <3>2, FS_Subset, FiniteSetsHaveMin
  <2> HIDE DEF Good
  <2>2. n \in 1..N /\ n - 1 \in 0..N /\ n - 1 \notin C BY <1>1, <1>4, <2>1
  <2> QED BY <1>3, <2>1, <2>2
<1>6. Good(N) BY <1>1, <1>5
<1> QED BY <1>2, <1>6

-----------------------------------------------------------------------------
(* What a step leaves                                                      *)

LEMMA FieldsOfOperators ==
  ASSUME NEW o \in Operator
  PROVE  /\ o.limit \in Nat /\ o.funded \in Nat /\ o.requestedExits \in Nat
         /\ o.keys \in Nat /\ o.latestKeysEditBlockNumber \in Nat
BY DEF Operator

LEMMA OperatorsAreFinite ==
  ASSUME TypeOK
  PROVE  /\ Indexes = 1..Len(operators)
         /\ Len(operators) \in Nat
         /\ IsFiniteSet(Indexes)
         /\ \A i \in Indexes : operators[i] \in Operator
<1>1. Len(operators) \in Nat /\ Indexes = 1..Len(operators) BY DEF TypeOK, Indexes
<1>2. IsFiniteSet(1..Len(operators)) BY <1>1, FS_Interval
<1>3. \A i \in Indexes : operators[i] \in Operator BY DEF TypeOK, Indexes
<1> QED BY <1>1, <1>2, <1>3

\* A table of as many operators is a sequence of as many.
LEMMA OperatorsRewritten ==
  ASSUME TypeOK, NEW f \in [Indexes -> Operator]
  PROVE  f \in Seq(Operator) /\ Len(f) = Len(operators) /\ DOMAIN f = Indexes
BY OperatorsAreFinite, SeqDef

LEMMA OperatorRewritten ==
  ASSUME TypeOK, NEW i \in Indexes, NEW o \in Operator
  PROVE  /\ [operators EXCEPT ![i] = o] \in Seq(Operator)
         /\ Len([operators EXCEPT ![i] = o]) = Len(operators)
         /\ DOMAIN [operators EXCEPT ![i] = o] = Indexes
         /\ \A j \in Indexes :
              [operators EXCEPT ![i] = o][j] = IF j = i THEN o ELSE operators[j]
BY DEF TypeOK, Indexes

LEMMA TableIsSeq ==
  ASSUME NEW S, NEW n \in Nat, NEW f, f \in [1..n -> S]
  PROVE  f \in Seq(S) /\ Len(f) = n
BY SeqDef

LEMMA SeqIsTable ==
  ASSUME NEW S, NEW n \in Nat, NEW f, f \in Seq(S), Len(f) = n
  PROVE  f \in [1..n -> S]
OBVIOUS

LEMMA KeysAreSet ==
  ASSUME NEW o \in Operator, NEW count \in Nat, block \in Nat
  PROVE  /\ SetKeys(o, count) \in Operator
         /\ SetKeys(o, count).limit = o.limit
         /\ SetKeys(o, count).funded = o.funded
         /\ SetKeys(o, count).requestedExits = o.requestedExits
         /\ SetKeys(o, count).keys = count
         /\ SetKeys(o, count).latestKeysEditBlockNumber = block
BY DEF SetKeys, Operator

\* The keys and the audits, where a step leaves them alone.
LEMMA KeysKept ==
  ASSUME IInv, UNCHANGED <<validatorKeys, audit>>, Indexes' = Indexes,
         \A i \in Indexes :
           /\ operators'[i].limit = operators[i].limit
           /\ operators'[i].keys = operators[i].keys
           /\ operators'[i].latestKeysEditBlockNumber
                = operators[i].latestKeysEditBlockNumber
  PROVE  KeysArePresent' /\ SnapshotIsSound' /\ OnlyAuditedKeysAreFundable'
<1>1. KeysArePresent' BY DEF IInv, KeysArePresent
<1>2. SnapshotIsSound' BY DEF IInv, SnapshotIsSound, audit, EditedSinceSnapshot
<1>3. OnlyAuditedKeysAreFundable' BY DEF IInv, OnlyAuditedKeysAreFundable, audit
<1> QED BY <1>1, <1>2, <1>3

\* The exits, where a step leaves them alone.
LEMMA ExitsKept ==
  ASSUME IInv, TypeOK', UNCHANGED <<exits, depositedValidatorCount>>, Indexes' = Indexes,
         \A i \in Indexes :
           /\ operators'[i].funded = operators[i].funded
           /\ operators'[i].requestedExits = operators[i].requestedExits
  PROVE  ExitsAreAccounted'
<1>1. [i \in Indexes |-> operators[i].requestedExits]'
        = [i \in Indexes |-> operators[i].requestedExits]
  OBVIOUS
<1>2. [i \in Indexes |-> operators[i].funded]' = [i \in Indexes |-> operators[i].funded]
  OBVIOUS
<1> QED BY <1>1, <1>2 DEF IInv, ExitsAreAccounted, exits

-----------------------------------------------------------------------------
(* Operators and their keys                                                *)

LEMMA AddOperatorHolds == ASSUME IInv, AddOperator PROVE IInv'
<1> DEFINE o == [limit |-> 0, funded |-> 0, requestedExits |-> 0, keys |-> 0,
                 latestKeysEditBlockNumber |-> block, active |-> TRUE]
           empty == [k \in KeyIndex |-> NoKey]
<1>1. TypeOK BY DEF IInv
<1>2. PICK n \in Nat : n = Len(operators) BY <1>1, OperatorsAreFinite
<1>3. o \in Operator BY <1>1 DEF Operator, TypeOK
<1>4. empty \in KeyTable BY DEF KeyTable
<1>5. /\ operators' = Append(operators, o)
      /\ validatorKeys' = Append(validatorKeys, empty)
      /\ approved' = Append(approved, {})
      /\ UNCHANGED <<stopped, totalValidatorExitsRequested, currentValidatorExitsDemand,
                     depositedValidatorCount, block, snapshot>>
  BY DEF AddOperator, exits
<1>6. o.limit = 0 /\ o.keys = 0 /\ o.funded = 0 /\ o.requestedExits = 0 OBVIOUS
<1> HIDE DEF o, empty
<1>7. /\ operators' \in Seq(Operator)
      /\ Indexes = 1..n /\ Indexes' = 1..(n + 1)
      /\ Len(operators') = n + 1
      /\ operators'[n + 1] = o
      /\ \A i \in 1..n : operators'[i] = operators[i] /\ operators[i] \in Operator
  BY <1>1, <1>2, <1>3, <1>5 DEF TypeOK, Indexes
<1>8. /\ validatorKeys' \in [1..(n + 1) -> KeyTable]
      /\ \A i \in 1..n : validatorKeys'[i] = validatorKeys[i]
  <2>1. validatorKeys \in Seq(KeyTable) /\ Len(validatorKeys) = n
    BY <1>1, <1>7, TableIsSeq DEF TypeOK
  <2>2. validatorKeys' \in Seq(KeyTable) /\ Len(validatorKeys') = n + 1
    BY <1>4, <1>5, <2>1
  <2>3. \A i \in 1..n : validatorKeys'[i] = validatorKeys[i] BY <1>5, <2>1
  <2>4. n + 1 \in Nat OBVIOUS
  <2> QED BY <2>2, <2>3, <2>4, SeqIsTable
<1>9. /\ approved' \in [1..(n + 1) -> SUBSET Key]
      /\ \A i \in 1..n : approved'[i] = approved[i]
  <2> DEFINE S == SUBSET Key
  <2>1. approved \in [1..n -> S] /\ {} \in S BY <1>1, <1>7 DEF TypeOK
  <2> HIDE DEF S
  <2>2. approved \in Seq(S) /\ Len(approved) = n BY <2>1, TableIsSeq
  <2>3. approved' \in Seq(S) /\ Len(approved') = n + 1 BY <1>5, <2>1, <2>2
  <2>4. \A i \in 1..n : approved'[i] = approved[i] BY <1>5, <2>2
  <2>5. n + 1 \in Nat OBVIOUS
  <2> QED BY <2>3, <2>4, <2>5, SeqIsTable DEF S
<1>10. TypeOK'
  BY <1>1, <1>2, <1>5, <1>7, <1>8, <1>9 DEF TypeOK
<1>11. \A i \in 1..(n + 1) : i = n + 1 \/ i \in 1..n OBVIOUS
<1>12. KeysArePresent'
  BY <1>6, <1>7, <1>8, <1>11, RegistryAssumption DEF IInv, KeysArePresent
<1>13. SnapshotIsSound'
  <2>1. DOMAIN snapshot.count \subseteq 1..n BY <1>7 DEF IInv, SnapshotIsSound
  <2>2. DOMAIN snapshot.count \subseteq 1..(n + 1) BY <2>1
  <2> QED
    BY <1>5, <1>7, <1>8, <2>1, <2>2 DEF IInv, SnapshotIsSound, EditedSinceSnapshot
<1>14. OnlyAuditedKeysAreFundable'
  BY <1>6, <1>7, <1>8, <1>9, <1>11 DEF IInv, OnlyAuditedKeysAreFundable
<1>15. CountsAreOrdered'
  <2>1. \A i : i \notin DOMAIN stopped => StoppedCount(i)' = 0
    BY <1>5 DEF StoppedCount
  <2>2. n + 1 \notin DOMAIN stopped BY <1>1, <1>2 DEF TypeOK
  <2>3. \A i \in 1..n : StoppedCount(i)' = StoppedCount(i) BY <1>5 DEF StoppedCount
  <2> QED BY <1>6, <1>7, <1>11, <2>1, <2>2, <2>3 DEF IInv, CountsAreOrdered
<1>16. ExitsAreAccounted'
  <2> DEFINE r == [i \in Indexes |-> operators[i].requestedExits]
             f == [i \in Indexes |-> operators[i].funded]
  <2>1. n + 1 \notin Indexes /\ Indexes' = Indexes \cup {n + 1} /\ IsFiniteSet(Indexes)
    BY <1>1, <1>7, OperatorsAreFinite
  <2>2. \A i \in Indexes : operators[i].requestedExits \in Int /\ operators[i].funded \in Int
    BY <1>7, FieldsOfOperators
  <2>3. /\ \A i \in Indexes : r[i] \in Int /\ r'[i] = r[i] /\ f[i] \in Int /\ f'[i] = f[i]
        /\ r'[n + 1] = 0 /\ f'[n + 1] = 0
    BY <1>6, <1>7, <2>1, <2>2
  <2>4. DOMAIN r = Indexes /\ DOMAIN f = Indexes /\ DOMAIN r' = Indexes' /\ DOMAIN f' = Indexes'
    OBVIOUS
  <2> HIDE DEF r, f
  <2>5. SumFunction(r') = SumFunction(r) BY <2>1, <2>3, <2>4, SumWithZero
  <2>6. SumFunction(f') = SumFunction(f) BY <2>1, <2>3, <2>4, SumWithZero
  <2> QED BY <1>5, <1>10, <2>5, <2>6 DEF IInv, ExitsAreAccounted, r, f
<1> QED BY <1>10, <1>12, <1>13, <1>14, <1>15, <1>16 DEF IInv

LEMMA SetOperatorStatusHolds ==
  ASSUME IInv, NEW i \in Indexes, NEW status \in BOOLEAN, SetOperatorStatus(i, status)
  PROVE  IInv'
<1> DEFINE o == [operators[i] EXCEPT !.active = status]
<1>1. TypeOK BY DEF IInv
<1>2. operators[i] \in Operator BY <1>1, OperatorsAreFinite
<1>3. /\ o \in Operator
      /\ o.limit = operators[i].limit /\ o.keys = operators[i].keys
      /\ o.funded = operators[i].funded
      /\ o.requestedExits = operators[i].requestedExits
      /\ o.latestKeysEditBlockNumber = operators[i].latestKeysEditBlockNumber
  BY <1>2 DEF Operator
<1>4. operators' = [operators EXCEPT ![i] = o] BY DEF SetOperatorStatus
<1> HIDE DEF o
<1>5. /\ operators' \in Seq(Operator) /\ Len(operators') = Len(operators)
      /\ Indexes' = Indexes
      /\ \A j \in Indexes : operators'[j] = IF j = i THEN o ELSE operators[j]
  BY <1>1, <1>3, <1>4, OperatorRewritten DEF Indexes
<1>6. UNCHANGED <<validatorKeys, stopped, exits, depositedValidatorCount, audit>>
  BY DEF SetOperatorStatus
<1>7. TypeOK' BY <1>1, <1>5, <1>6 DEF TypeOK, audit, exits
<1>8. CountsAreOrdered'
  BY <1>3, <1>5, <1>6 DEF IInv, CountsAreOrdered, StoppedCount
<1> QED BY <1>3, <1>5, <1>6, <1>7, <1>8, KeysKept, ExitsKept DEF IInv

LEMMA AddValidatorsHolds ==
  ASSUME IInv, NEW i \in Indexes, NEW newKeys \in UpTo(MaxKeys, Key),
         AddValidators(i, newKeys)
  PROVE  IInv'
<1> DEFINE old == operators[i]
           n == Len(newKeys)
           o == SetKeys(old, old.keys + n)
           table == [k \in KeyIndex |->
                       IF k \in old.keys..(old.keys + n - 1)
                         THEN newKeys[k - old.keys + 1] ELSE validatorKeys[i][k]]
<1>1. TypeOK BY DEF IInv
<1>2. old \in Operator BY <1>1, OperatorsAreFinite
<1>3. n \in Nat /\ n > 0 /\ newKeys \in [1..n -> Key] /\ old.keys + n <= MaxKeys
  <2>1. PICK m \in 0..MaxKeys : newKeys \in [1..m -> Key] BY DEF UpTo
  <2>2. m \in Nat BY RegistryAssumption
  <2>3. Len(newKeys) = m BY <2>1, <2>2, SeqDef
  <2> QED BY <2>1, <2>2, <2>3 DEF AddValidators
<1>4. old.keys \in Nat BY <1>2, FieldsOfOperators
<1>5. /\ o \in Operator
      /\ o.keys = old.keys + n /\ o.latestKeysEditBlockNumber = block
      /\ o.limit = old.limit /\ o.funded = old.funded
      /\ o.requestedExits = old.requestedExits
  <2>1. old.keys + n \in Nat /\ block \in Nat BY <1>1, <1>3, <1>4 DEF TypeOK
  <2> QED BY <1>2, <2>1, KeysAreSet
<1>6. validatorKeys[i] \in [KeyIndex -> Key \cup {NoKey}] BY <1>1 DEF TypeOK, KeyTable
<1>7. table \in KeyTable
  BY <1>3, <1>4, <1>6 DEF KeyTable
<1>8. \A k \in 0..(old.keys + n - 1) : table[k] \in Key
  <2> SUFFICES ASSUME NEW k \in 0..(old.keys + n - 1) PROVE table[k] \in Key OBVIOUS
  <2>1. k \in KeyIndex BY <1>3, <1>4, RegistryAssumption DEF KeyIndex
  <2>2. CASE k < old.keys
    <3>1. validatorKeys[i][k] \in Key BY <1>4, <2>2 DEF IInv, KeysArePresent
    <3> QED BY <1>4, <2>1, <2>2, <3>1
  <2>3. CASE k >= old.keys BY <1>3, <1>4, <2>1, <2>3
  <2> QED BY <1>4, <2>2, <2>3
<1>9. \A k \in 0..(old.keys - 1) : table[k] = validatorKeys[i][k]
  BY <1>3, <1>4, RegistryAssumption DEF KeyIndex
<1>10. /\ operators' = [operators EXCEPT ![i] = o]
       /\ validatorKeys' = [validatorKeys EXCEPT ![i] = table]
       /\ UNCHANGED <<stopped, exits, depositedValidatorCount, audit>>
  BY DEF AddValidators
<1> HIDE DEF o, table, n
<1>11. /\ operators' \in Seq(Operator) /\ Len(operators') = Len(operators)
       /\ Indexes' = Indexes
       /\ \A j \in Indexes : operators'[j] = IF j = i THEN o ELSE operators[j]
  BY <1>1, <1>5, <1>10, OperatorRewritten DEF Indexes
<1>12. /\ validatorKeys' \in [Indexes -> KeyTable]
       /\ \A j \in Indexes : validatorKeys'[j] = IF j = i THEN table ELSE validatorKeys[j]
  BY <1>1, <1>7, <1>10 DEF TypeOK
<1>13. TypeOK' BY <1>1, <1>10, <1>11, <1>12 DEF TypeOK, audit, exits
<1>14. KeysArePresent'
  <2>1. o.keys <= MaxKeys BY <1>3, <1>5
  <2>2. \A k \in 0..(o.keys - 1) : table[k] \in Key
    <3>1. o.keys = old.keys + n BY <1>5
    <3> QED BY <1>3, <1>4, <1>8, <3>1
  <2> QED BY <1>11, <1>12, <2>1, <2>2 DEF IInv, KeysArePresent
<1>15. SnapshotIsSound'
  BY <1>1, <1>5, <1>10, <1>11, <1>12
     DEF IInv, SnapshotIsSound, audit, EditedSinceSnapshot, TypeOK
<1>16. OnlyAuditedKeysAreFundable'
  <2>1. old.limit \in Nat /\ old.limit <= old.keys
    BY <1>2, FieldsOfOperators DEF IInv, CountsAreOrdered
  <2>2. \A k \in 0..(old.limit - 1) : table[k] = validatorKeys[i][k] BY <1>4, <1>9, <2>1
  <2> QED
    BY <1>5, <1>10, <1>11, <1>12, <2>2 DEF IInv, OnlyAuditedKeysAreFundable, audit
<1>17. CountsAreOrdered'
  <2>1. o.keys >= o.limit
    BY <1>2, <1>3, <1>5, FieldsOfOperators DEF IInv, CountsAreOrdered
  <2>2. \A j \in Indexes : StoppedCount(j)' = StoppedCount(j)
    BY <1>10 DEF StoppedCount
  <2> QED BY <1>5, <1>11, <2>1, <2>2 DEF IInv, CountsAreOrdered
<1>18. ExitsAreAccounted' BY <1>5, <1>10, <1>11, <1>13, ExitsKept
<1> QED BY <1>13, <1>14, <1>15, <1>16, <1>17, <1>18 DEF IInv

LEMMA RemoveValidatorsHolds ==
  ASSUME IInv, NEW i \in Indexes, NEW removed \in SUBSET KeyIndex,
         RemoveValidators(i, removed)
  PROVE  IInv'
<1> DEFINE old == operators[i]
           left == old.keys - Cardinality(removed)
           limit == LimitWithout(old, removed)
           o == [SetKeys(old, left) EXCEPT !.limit = limit]
           table == KeysWithout(validatorKeys[i], old.keys, removed)
<1>1. TypeOK BY DEF IInv
<1>2. old \in Operator BY <1>1, OperatorsAreFinite
<1>3. /\ old.keys \in Nat /\ old.limit \in Nat /\ old.funded \in Nat
      /\ old.keys <= MaxKeys /\ MaxKeys \in Nat
      /\ old.limit <= old.keys /\ old.funded <= old.limit
  BY <1>2, FieldsOfOperators, RegistryAssumption
     DEF IInv, KeysArePresent, CountsAreOrdered
<1>4. removed # {} /\ removed \subseteq old.funded..(old.keys - 1)
  BY DEF RemoveValidators, Removable
<1>5. PICK n, low \in Nat :
        /\ n = Cardinality(removed) /\ low = Min(removed)
        /\ n \in 1..old.keys /\ old.funded <= low /\ low <= old.keys - n
  <2>1. removed \subseteq 0..(old.keys - 1) BY <1>3, <1>4
  <2>2. /\ Min(removed) \in removed
        /\ Cardinality(removed) \in 1..old.keys
        /\ Min(removed) <= old.keys - Cardinality(removed)
    BY <1>3, <1>4, <2>1, RemovedFit
  <2>3. /\ Min(removed) \in Nat /\ old.funded <= Min(removed)
        /\ Cardinality(removed) \in Nat
    BY <1>3, <1>4, <2>2
  <2> QED BY <2>2, <2>3
<1>6. left = old.keys - n /\ left \in Nat BY <1>3, <1>5
<1>7. /\ limit \in Nat /\ limit <= left /\ old.funded <= limit
      /\ limit <= old.limit
      /\ old.limit = old.keys \/ limit <= low
  BY <1>3, <1>5, <1>6 DEF LimitWithout
<1>8. validatorKeys[i] \in KeyTable BY <1>1 DEF TypeOK
<1>9. /\ table \in KeyTable
      /\ \A k \in 0..(left - 1) : \E j \in 0..(old.keys - 1) : table[k] = validatorKeys[i][j]
      /\ \A k \in 0..(low - 1) : table[k] = validatorKeys[i][k]
  <2>1. old.keys \in 0..MaxKeys /\ removed \subseteq 0..(old.keys - 1) BY <1>3, <1>4
  <2> DEFINE total == old.keys
             keys == validatorKeys[i]
  <2>2. total \in 0..MaxKeys /\ removed \subseteq 0..(total - 1) /\ keys \in KeyTable
    BY <1>8, <2>1
  <2> HIDE DEF total, keys
  <2>3. /\ KeysWithout(keys, total, removed) \in KeyTable
        /\ \A k \in 0..(total - Cardinality(removed) - 1) :
             \E j \in 0..(total - 1) : KeysWithout(keys, total, removed)[k] = keys[j]
        /\ \A k \in 0..(Min(removed) - 1) :
             KeysWithout(keys, total, removed)[k] = keys[k]
    BY <1>4, <2>2, KeysLeft
  <2> QED BY <1>5, <2>3 DEF total, keys
<1>10. /\ operators' = [operators EXCEPT ![i] = o]
       /\ validatorKeys' = [validatorKeys EXCEPT ![i] = table]
       /\ UNCHANGED <<stopped, exits, depositedValidatorCount, audit>>
  BY DEF RemoveValidators
<1> HIDE DEF left, limit, table
<1>11. /\ o \in Operator
       /\ o.keys = left /\ o.latestKeysEditBlockNumber = block
       /\ o.limit = limit /\ o.funded = old.funded
       /\ o.requestedExits = old.requestedExits
  <2> DEFINE s == SetKeys(old, left)
  <2>1. /\ s \in Operator /\ s.keys = left /\ s.latestKeysEditBlockNumber = block
        /\ s.funded = old.funded /\ s.requestedExits = old.requestedExits
    <3>1. block \in Nat BY <1>1 DEF TypeOK
    <3> QED BY <1>2, <1>6, <3>1, KeysAreSet
  <2> HIDE DEF s
  <2>2. o = [s EXCEPT !.limit = limit] BY DEF s
  <2> HIDE DEF o
  <2> QED BY <1>7, <2>1, <2>2 DEF Operator
<1> HIDE DEF o
<1>12. /\ operators' \in Seq(Operator) /\ Len(operators') = Len(operators)
       /\ Indexes' = Indexes
       /\ \A j \in Indexes : operators'[j] = IF j = i THEN o ELSE operators[j]
  BY <1>1, <1>10, <1>11, OperatorRewritten DEF Indexes
<1>13. /\ validatorKeys' \in [Indexes -> KeyTable]
       /\ \A j \in Indexes : validatorKeys'[j] = IF j = i THEN table ELSE validatorKeys[j]
  BY <1>1, <1>9, <1>10 DEF TypeOK
<1>14. TypeOK' BY <1>1, <1>10, <1>12, <1>13 DEF TypeOK, audit, exits
<1>15. KeysArePresent'
  <2>1. o.keys <= MaxKeys BY <1>3, <1>5, <1>6, <1>11
  <2>2. \A k \in 0..(o.keys - 1) : table[k] \in Key
    <3>1. \A j \in 0..(old.keys - 1) : validatorKeys[i][j] \in Key
      BY DEF IInv, KeysArePresent
    <3> QED BY <1>9, <1>11, <3>1
  <2> QED BY <1>12, <1>13, <2>1, <2>2 DEF IInv, KeysArePresent
<1>16. SnapshotIsSound'
  BY <1>1, <1>10, <1>11, <1>12, <1>13
     DEF IInv, SnapshotIsSound, audit, EditedSinceSnapshot, TypeOK
<1>17. OnlyAuditedKeysAreFundable'
  <2>1. \A k \in 0..(old.limit - 1) : validatorKeys[i][k] \in approved[i]
    BY DEF IInv, OnlyAuditedKeysAreFundable
  <2>2. ASSUME NEW k \in 0..(o.limit - 1) PROVE table[k] \in approved[i]
    <3>1. k \in 0..(left - 1) BY <1>6, <1>7, <1>11
    <3>2. CASE old.limit = old.keys BY <1>9, <2>1, <3>1, <3>2
    <3>3. CASE limit <= low
      <4>1. k \in 0..(low - 1) /\ k \in 0..(old.limit - 1) BY <1>3, <1>5, <1>7, <1>11, <3>3
      <4> QED BY <1>9, <2>1, <4>1
    <3> QED BY <1>7, <3>2, <3>3
  <2>3. UNCHANGED approved BY <1>10 DEF audit
  <2> QED BY <1>12, <1>13, <2>2, <2>3 DEF IInv, OnlyAuditedKeysAreFundable
<1>18. CountsAreOrdered'
  <2>1. o.keys >= o.limit /\ o.limit >= o.funded BY <1>3, <1>6, <1>7, <1>11
  <2>2. \A j \in Indexes : StoppedCount(j)' = StoppedCount(j)
    BY <1>10 DEF StoppedCount
  <2> QED BY <1>11, <1>12, <2>1, <2>2 DEF IInv, CountsAreOrdered
<1>19. ExitsAreAccounted' BY <1>10, <1>11, <1>12, <1>14, ExitsKept
<1> QED BY <1>14, <1>15, <1>16, <1>17, <1>18, <1>19 DEF IInv

-----------------------------------------------------------------------------
(* Audits and limits                                                       *)

LEMMA TakeSnapshotHolds == ASSUME IInv, TakeSnapshot PROVE IInv'
<1>1. TypeOK BY DEF IInv
<1>2. /\ block' = block + 1
      /\ snapshot'.block = block
      /\ snapshot'.count = [i \in Indexes |-> operators[i].keys]
      /\ snapshot'.table = validatorKeys
      /\ UNCHANGED <<operators, validatorKeys, stopped, exits, depositedValidatorCount,
                     approved>>
  BY DEF TakeSnapshot
<1>3. Indexes' = Indexes BY <1>2 DEF Indexes
<1>4. TypeOK' BY <1>1, <1>2, <1>3 DEF TypeOK, exits
<1>5. KeysArePresent' BY <1>2, <1>3 DEF IInv, KeysArePresent
<1>6. OnlyAuditedKeysAreFundable' BY <1>2, <1>3 DEF IInv, OnlyAuditedKeysAreFundable
<1>7. SnapshotIsSound'
  <2>1. block \in Nat BY <1>1 DEF TypeOK
  <2>2. \A i \in Indexes : operators[i].keys \in 0..MaxKeys
    BY <1>1, OperatorsAreFinite, FieldsOfOperators, RegistryAssumption
       DEF IInv, KeysArePresent
  <2>3. DOMAIN snapshot'.count = Indexes
        /\ \A i \in Indexes : snapshot'.count[i] = operators[i].keys
    BY <1>2
  <2> QED BY <1>2, <1>3, <2>1, <2>2, <2>3 DEF IInv, SnapshotIsSound, KeysArePresent
<1>8. CountsAreOrdered' BY <1>2, <1>3 DEF IInv, CountsAreOrdered, StoppedCount
<1>9. ExitsAreAccounted' BY <1>2, <1>3, <1>4, ExitsKept
<1> QED BY <1>4, <1>5, <1>6, <1>7, <1>8, <1>9 DEF IInv

LEMMA SetOperatorLimitsHolds ==
  ASSUME IInv, NEW newLimits \in AuditedLimits, SetOperatorLimits(newLimits)
  PROVE  IInv'
<1> DEFINE named == DOMAIN newLimits
           read(i) == {snapshot.table[i][k] : k \in 0..(newLimits[i] - 1)}
<1>1. TypeOK BY DEF IInv
<1>2. \A i \in Indexes : operators[i] \in Operator BY <1>1, OperatorsAreFinite
<1>3. /\ named \subseteq DOMAIN snapshot.count
      /\ \A i \in named : newLimits[i] \in 0..MaxKeys /\ newLimits[i] <= snapshot.count[i]
  BY DEF AuditedLimits
<1>4. named \subseteq Indexes BY <1>3 DEF IInv, SnapshotIsSound
<1>5. /\ operators' = [i \in Indexes |->
           IF i \in named /\ ~LimitIsKept(operators[i], newLimits[i])
             THEN [operators[i] EXCEPT !.limit = newLimits[i]] ELSE operators[i]]
      /\ approved' = [i \in Indexes |->
           IF i \in named THEN approved[i] \cup read(i) ELSE approved[i]]
      /\ UNCHANGED <<validatorKeys, stopped, exits, depositedValidatorCount, block,
                     snapshot>>
      /\ \A i \in named : LimitIsKept(operators[i], newLimits[i])
                            \/ LimitIsAllowed(operators[i], newLimits[i])
  BY DEF SetOperatorLimits
<1>6. \A i \in named : newLimits[i] \in Nat BY <1>3, RegistryAssumption
<1> HIDE DEF named
<1>7. /\ operators' \in [Indexes -> Operator]
      /\ \A i \in Indexes :
           /\ operators'[i].keys = operators[i].keys
           /\ operators'[i].funded = operators[i].funded
           /\ operators'[i].requestedExits = operators[i].requestedExits
           /\ operators'[i].latestKeysEditBlockNumber
                = operators[i].latestKeysEditBlockNumber
           /\ \/ operators'[i].limit = operators[i].limit
              \/ /\ i \in named /\ ~LimitIsKept(operators[i], newLimits[i])
                 /\ operators'[i].limit = newLimits[i]
  BY <1>2, <1>5, <1>6 DEF Operator
<1>8. /\ operators' \in Seq(Operator) /\ Len(operators') = Len(operators)
      /\ Indexes' = Indexes
  BY <1>1, <1>7, OperatorsRewritten DEF Indexes
<1>9. \A i \in named : read(i) \subseteq Key
  <2> SUFFICES ASSUME NEW i \in named, NEW k \in 0..(newLimits[i] - 1)
               PROVE  snapshot.table[i][k] \in Key
    OBVIOUS
  <2>1. snapshot.count[i] \in 0..MaxKeys
        /\ \A j \in 0..(snapshot.count[i] - 1) : snapshot.table[i][j] \in Key
    BY <1>3 DEF IInv, SnapshotIsSound
  <2>2. k \in 0..(snapshot.count[i] - 1) BY <1>3, <1>6, <2>1, RegistryAssumption
  <2> QED BY <2>1, <2>2
<1>10. approved' \in [Indexes -> SUBSET Key] BY <1>1, <1>5, <1>9 DEF TypeOK
<1>11. TypeOK' BY <1>1, <1>5, <1>8, <1>10 DEF TypeOK, exits
<1>12. KeysArePresent' BY <1>5, <1>7, <1>8 DEF IInv, KeysArePresent
<1>13. SnapshotIsSound'
  <2>1. DOMAIN snapshot.count \subseteq Indexes BY DEF IInv, SnapshotIsSound
  <2> QED BY <1>5, <1>7, <1>8, <2>1 DEF IInv, SnapshotIsSound, EditedSinceSnapshot
<1>14. OnlyAuditedKeysAreFundable'
  <2> SUFFICES ASSUME NEW i \in Indexes, NEW k \in 0..(operators'[i].limit - 1)
               PROVE  validatorKeys[i][k] \in approved'[i]
    BY <1>5, <1>8 DEF OnlyAuditedKeysAreFundable
  <2>1. approved[i] \subseteq approved'[i] BY <1>5
  <2>2. \A j \in 0..(operators[i].limit - 1) : validatorKeys[i][j] \in approved[i]
    BY DEF IInv, OnlyAuditedKeysAreFundable
  <2>3. operators[i].limit \in Nat BY <1>2, FieldsOfOperators
  <2>4. CASE operators'[i].limit = operators[i].limit BY <2>1, <2>2, <2>4
  <2>5. CASE /\ i \in named /\ ~LimitIsKept(operators[i], newLimits[i])
             /\ operators'[i].limit = newLimits[i]
    <3>1. newLimits[i] \in Nat BY <1>6, <2>5
    <3>2. CASE newLimits[i] <= operators[i].limit
      <4>1. k \in 0..(operators[i].limit - 1) BY <2>3, <2>5, <3>1, <3>2
      <4> QED BY <2>1, <2>2, <4>1
    <3>3. CASE newLimits[i] > operators[i].limit
      <4>1. ~EditedSinceSnapshot(operators[i]) BY <2>5, <3>3 DEF LimitIsKept
      <4>2. snapshot.table[i] = validatorKeys[i]
        BY <1>3, <2>5, <4>1 DEF IInv, SnapshotIsSound
      <4>3. snapshot.table[i][k] \in read(i) BY <2>5
      <4> QED BY <1>5, <2>5, <4>2, <4>3
    <3> QED BY <2>3, <3>1, <3>2, <3>3
  <2> QED BY <1>7, <2>4, <2>5
<1>15. CountsAreOrdered'
  <2>1. \A i \in Indexes : StoppedCount(i)' = StoppedCount(i) BY <1>5 DEF StoppedCount
  <2>2. ASSUME NEW i \in Indexes
        PROVE  operators'[i].keys >= operators'[i].limit
               /\ operators'[i].limit >= operators'[i].funded
    <3>1. CASE operators'[i].limit = operators[i].limit
      BY <1>7, <3>1 DEF IInv, CountsAreOrdered
    <3>2. CASE /\ i \in named /\ ~LimitIsKept(operators[i], newLimits[i])
               /\ operators'[i].limit = newLimits[i]
      <4>1. newLimits[i] \in operators[i].funded..operators[i].keys
        BY <1>5, <3>2 DEF LimitIsAllowed
      <4> QED BY <1>2, <1>7, <3>2, <4>1, FieldsOfOperators
    <3> QED BY <1>7, <3>1, <3>2
  <2> QED BY <1>7, <1>8, <2>1, <2>2 DEF IInv, CountsAreOrdered
<1>16. ExitsAreAccounted' BY <1>5, <1>7, <1>8, <1>11, ExitsKept
<1> QED BY <1>11, <1>12, <1>13, <1>14, <1>15, <1>16 DEF IInv

-----------------------------------------------------------------------------
(* River and its keeper                                                    *)

LEMMA AllocationsAreCounts ==
  ASSUME TypeOK, NEW allocation \in Allocations
  PROVE  /\ DOMAIN allocation \subseteq Indexes
         /\ \A i \in DOMAIN allocation : allocation[i] \in Nat
         /\ SumFunction(allocation) \in Nat
<1>1. /\ DOMAIN allocation \subseteq Indexes
      /\ \A i \in DOMAIN allocation : allocation[i] \in 1..MaxKeys
  BY DEF Allocations
<1>2. \A i \in DOMAIN allocation : allocation[i] \in Nat BY <1>1, RegistryAssumption
<1>3. IsFiniteSet(DOMAIN allocation) BY <1>1, OperatorsAreFinite, FS_Subset
<1>4. SumFunction(allocation) \in Nat BY <1>2, <1>3, SumIsNat DEF SumFunction
<1> QED BY <1>1, <1>2, <1>4

LEMMA PickHolds ==
  ASSUME IInv, NEW allocation \in Allocations, PickNextValidatorsToDeposit(allocation)
  PROVE  IInv'
<1> DEFINE picked == DOMAIN allocation
           total == SumFunction(allocation)
<1>1. TypeOK BY DEF IInv
<1>2. \A i \in Indexes : operators[i] \in Operator BY <1>1, OperatorsAreFinite
<1>3. /\ picked \subseteq Indexes /\ \A i \in picked : allocation[i] \in Nat
      /\ total \in Nat
  BY <1>1, AllocationsAreCounts
<1>4. /\ operators' = [i \in Indexes |->
           IF i \in picked
             THEN [operators[i] EXCEPT !.funded = operators[i].funded + allocation[i]]
             ELSE operators[i]]
      /\ depositedValidatorCount' = depositedValidatorCount + total
      /\ UNCHANGED <<validatorKeys, stopped, exits, audit>>
      /\ \A i \in picked : allocation[i] <= operators[i].limit - operators[i].funded
  BY DEF PickNextValidatorsToDeposit, Fundable
<1>5. \A i \in picked : operators[i].funded + allocation[i] \in Nat
  BY <1>2, <1>3, FieldsOfOperators
<1> HIDE DEF picked, total
<1>6. /\ operators' \in [Indexes -> Operator]
      /\ \A i \in Indexes :
           /\ operators'[i].keys = operators[i].keys
           /\ operators'[i].limit = operators[i].limit
           /\ operators'[i].requestedExits = operators[i].requestedExits
           /\ operators'[i].latestKeysEditBlockNumber
                = operators[i].latestKeysEditBlockNumber
           /\ operators'[i].funded = IF i \in picked THEN operators[i].funded + allocation[i]
                                     ELSE operators[i].funded
  BY <1>2, <1>3, <1>4, <1>5 DEF Operator
<1>7. /\ operators' \in Seq(Operator) /\ Len(operators') = Len(operators)
      /\ Indexes' = Indexes
  BY <1>1, <1>6, OperatorsRewritten DEF Indexes
<1>8. TypeOK'
  <2>1. depositedValidatorCount' \in Nat BY <1>1, <1>3, <1>4 DEF TypeOK
  <2> QED BY <1>1, <1>4, <1>7, <2>1 DEF TypeOK, exits, audit
<1>9. CountsAreOrdered'
  <2>1. \A i \in Indexes : StoppedCount(i)' = StoppedCount(i) BY <1>4 DEF StoppedCount
  <2>2. ASSUME NEW i \in Indexes
        PROVE  operators'[i].funded <= operators[i].limit
               /\ operators'[i].funded >= operators[i].requestedExits
    BY <1>2, <1>3, <1>4, <1>6, FieldsOfOperators DEF IInv, CountsAreOrdered
  <2> QED BY <1>6, <1>7, <2>1, <2>2 DEF IInv, CountsAreOrdered
<1>10. ExitsAreAccounted'
  <2> DEFINE r == [i \in Indexes |-> operators[i].requestedExits]
             f == [i \in Indexes |-> operators[i].funded]
  <2>1. r' = r BY <1>6, <1>7
  <2>2. \A i \in Indexes : operators[i].funded \in Int
    BY <1>2, FieldsOfOperators
  <2>3. /\ DOMAIN f = Indexes /\ DOMAIN f' = Indexes /\ IsFiniteSet(Indexes)
        /\ DOMAIN allocation \subseteq Indexes
        /\ \A i \in Indexes :
             f[i] \in Int /\
             f'[i] = IF i \in DOMAIN allocation THEN f[i] + allocation[i] ELSE f[i]
        /\ \A i \in DOMAIN allocation : allocation[i] \in Int
    BY <1>1, <1>3, <1>6, <1>7, <2>2, OperatorsAreFinite DEF picked
  <2> HIDE DEF r, f
  <2>4. SumFunction(f') = SumFunction(f) + total
    BY <2>3, SumWithAdded DEF total
  <2>5. /\ totalValidatorExitsRequested = SumFunction(r)
        /\ depositedValidatorCount = SumFunction(f)
        /\ totalValidatorExitsRequested + currentValidatorExitsDemand
             <= depositedValidatorCount
    BY DEF IInv, ExitsAreAccounted, r, f
  <2>6. /\ totalValidatorExitsRequested' = SumFunction(r')
        /\ depositedValidatorCount' = SumFunction(f')
    BY <1>4, <2>1, <2>4, <2>5 DEF exits
  <2>7. totalValidatorExitsRequested' + currentValidatorExitsDemand'
          <= depositedValidatorCount'
    BY <1>1, <1>3, <1>4, <2>5 DEF TypeOK, exits
  <2> QED BY <1>8, <2>6, <2>7 DEF ExitsAreAccounted, r, f
<1> QED BY <1>4, <1>6, <1>7, <1>8, <1>9, <1>10, KeysKept DEF IInv

LEMMA RequestExitsHolds ==
  ASSUME IInv, NEW allocation \in Allocations, RequestValidatorExits(allocation)
  PROVE  IInv'
<1> DEFINE asked == DOMAIN allocation
           total == SumFunction(allocation)
<1>1. TypeOK BY DEF IInv
<1>2. \A i \in Indexes : operators[i] \in Operator BY <1>1, OperatorsAreFinite
<1>3. /\ asked \subseteq Indexes /\ \A i \in asked : allocation[i] \in Nat
      /\ total \in Nat
  BY <1>1, AllocationsAreCounts
<1>4. /\ operators' = [i \in Indexes |->
           IF i \in asked
             THEN [operators[i] EXCEPT
                     !.requestedExits = operators[i].requestedExits + allocation[i]]
             ELSE operators[i]]
      /\ totalValidatorExitsRequested' = totalValidatorExitsRequested + total
      /\ currentValidatorExitsDemand' = currentValidatorExitsDemand - total
      /\ total <= currentValidatorExitsDemand
      /\ UNCHANGED <<validatorKeys, stopped, depositedValidatorCount, audit>>
      /\ \A i \in asked :
           allocation[i] <= operators[i].funded - operators[i].requestedExits
  BY DEF RequestValidatorExits
<1>5. \A i \in asked : operators[i].requestedExits + allocation[i] \in Nat
  BY <1>2, <1>3, FieldsOfOperators
<1> HIDE DEF asked, total
<1>6. /\ operators' \in [Indexes -> Operator]
      /\ \A i \in Indexes :
           /\ operators'[i].keys = operators[i].keys
           /\ operators'[i].limit = operators[i].limit
           /\ operators'[i].funded = operators[i].funded
           /\ operators'[i].latestKeysEditBlockNumber
                = operators[i].latestKeysEditBlockNumber
           /\ operators'[i].requestedExits =
                IF i \in asked THEN operators[i].requestedExits + allocation[i]
                ELSE operators[i].requestedExits
  BY <1>2, <1>3, <1>4, <1>5 DEF Operator
<1>7. /\ operators' \in Seq(Operator) /\ Len(operators') = Len(operators)
      /\ Indexes' = Indexes
  BY <1>1, <1>6, OperatorsRewritten DEF Indexes
<1>8. TypeOK'
  <2>1. totalValidatorExitsRequested' \in Nat /\ currentValidatorExitsDemand' \in Nat
    BY <1>1, <1>3, <1>4 DEF TypeOK
  <2> QED BY <1>1, <1>4, <1>7, <2>1 DEF TypeOK, audit
<1>9. CountsAreOrdered'
  <2>1. \A i \in Indexes : StoppedCount(i)' = StoppedCount(i) /\ StoppedCount(i) \in Int
    BY <1>1, <1>4 DEF StoppedCount, TypeOK
  <2>2. ASSUME NEW i \in Indexes
        PROVE  operators'[i].requestedExits <= operators[i].funded
               /\ operators'[i].requestedExits >= StoppedCount(i)
    BY <1>2, <1>3, <1>4, <1>6, <2>1, FieldsOfOperators DEF IInv, CountsAreOrdered
  <2> QED BY <1>6, <1>7, <2>1, <2>2 DEF IInv, CountsAreOrdered
<1>10. ExitsAreAccounted'
  <2> DEFINE r == [i \in Indexes |-> operators[i].requestedExits]
             f == [i \in Indexes |-> operators[i].funded]
  <2>1. f' = f BY <1>6, <1>7
  <2>2. \A i \in Indexes : operators[i].requestedExits \in Int
    BY <1>2, FieldsOfOperators
  <2>3. /\ DOMAIN r = Indexes /\ DOMAIN r' = Indexes /\ IsFiniteSet(Indexes)
        /\ DOMAIN allocation \subseteq Indexes
        /\ \A i \in Indexes :
             r[i] \in Int /\
             r'[i] = IF i \in DOMAIN allocation THEN r[i] + allocation[i] ELSE r[i]
        /\ \A i \in DOMAIN allocation : allocation[i] \in Int
    BY <1>1, <1>3, <1>6, <1>7, <2>2, OperatorsAreFinite DEF asked
  <2> HIDE DEF r, f
  <2>4. SumFunction(r') = SumFunction(r) + total
    BY <2>3, SumWithAdded DEF total
  <2>5. /\ totalValidatorExitsRequested = SumFunction(r)
        /\ depositedValidatorCount = SumFunction(f)
        /\ totalValidatorExitsRequested + currentValidatorExitsDemand
             <= depositedValidatorCount
    BY DEF IInv, ExitsAreAccounted, r, f
  <2>6. /\ totalValidatorExitsRequested' = SumFunction(r')
        /\ depositedValidatorCount' = SumFunction(f')
    BY <1>4, <2>1, <2>4, <2>5
  <2>7. totalValidatorExitsRequested' + currentValidatorExitsDemand'
          <= depositedValidatorCount'
    BY <1>1, <1>3, <1>4, <2>5 DEF TypeOK
  <2> QED BY <1>8, <2>6, <2>7 DEF ExitsAreAccounted, r, f
<1> QED BY <1>4, <1>6, <1>7, <1>8, <1>9, <1>10, KeysKept DEF IInv

LEMMA DemandHolds ==
  ASSUME IInv, NEW count \in ExitCount, DemandValidatorExits(count)
  PROVE  IInv'
<1>1. TypeOK BY DEF IInv
<1>2. /\ Demandable(count) \in Nat
      /\ totalValidatorExitsRequested + currentValidatorExitsDemand + Demandable(count)
           <= depositedValidatorCount
  <2> DEFINE free == depositedValidatorCount
                       - (totalValidatorExitsRequested + currentValidatorExitsDemand)
  <2>1. free \in Nat BY <1>1 DEF IInv, ExitsAreAccounted, TypeOK
  <2>2. count \in Nat BY RegistryAssumption
  <2>3. Demandable(count) = IF count <= free THEN count ELSE free
    BY <2>1, <2>2, MinOfTwo DEF Demandable
  <2> QED BY <1>1, <2>1, <2>2, <2>3 DEF TypeOK
<1>3. /\ currentValidatorExitsDemand' = currentValidatorExitsDemand + Demandable(count)
      /\ UNCHANGED <<operators, validatorKeys, stopped, totalValidatorExitsRequested,
                     depositedValidatorCount, audit>>
  BY DEF DemandValidatorExits
<1> HIDE DEF Demandable
<1>4. Indexes' = Indexes BY <1>3 DEF Indexes
<1>5. TypeOK' BY <1>1, <1>2, <1>3, <1>4 DEF TypeOK, audit
<1>6. CountsAreOrdered' BY <1>3, <1>4 DEF IInv, CountsAreOrdered, StoppedCount
<1>7. ExitsAreAccounted'
  <2>1. [i \in Indexes |-> operators[i].requestedExits]'
          = [i \in Indexes |-> operators[i].requestedExits]
    BY <1>3, <1>4
  <2>2. [i \in Indexes |-> operators[i].funded]' = [i \in Indexes |-> operators[i].funded]
    BY <1>3, <1>4
  <2>3. totalValidatorExitsRequested' + currentValidatorExitsDemand'
          <= depositedValidatorCount'
    BY <1>1, <1>2, <1>3 DEF TypeOK
  <2> QED BY <1>3, <1>5, <2>1, <2>2, <2>3 DEF IInv, ExitsAreAccounted
<1> QED BY <1>3, <1>4, <1>5, <1>6, <1>7, KeysKept DEF IInv

LEMMA ReportHolds ==
  ASSUME IInv, NEW counts \in UpTo(Len(operators), 0..MaxKeys),
         ReportStoppedValidatorCounts(counts)
  PROVE  IInv'
<1> DEFINE named == DOMAIN counts
           raised(i) == RaisedRequest(operators[i], counts[i])
           excess == [i \in DOMAIN counts |->
                        Max({0, counts[i] - operators[i].requestedExits})]
           unsolicited == SumFunction(excess)
<1>1. TypeOK BY DEF IInv
<1>2. \A i \in Indexes :
        /\ operators[i] \in Operator
        /\ operators[i].requestedExits \in Nat /\ operators[i].funded \in Nat
        /\ operators[i].limit \in Nat
  BY <1>1, OperatorsAreFinite, FieldsOfOperators
<1>3. /\ counts \in Seq(Nat) /\ named = 1..Len(counts)
      /\ Len(counts) <= Len(operators) /\ Len(stopped) <= Len(counts)
      /\ named \subseteq Indexes /\ DOMAIN stopped \subseteq named
      /\ \A i \in named : counts[i] \in Nat
  <2>1. PICK m \in 0..Len(operators) : counts \in [1..m -> 0..MaxKeys] BY DEF UpTo
  <2>2. m \in Nat /\ m <= Len(operators) /\ Len(operators) \in Nat
        /\ Indexes = 1..Len(operators) /\ MaxKeys \in Nat
    BY <1>1, OperatorsAreFinite, RegistryAssumption
  <2>3. counts \in [1..m -> Nat] BY <2>1, <2>2
  <2>4. counts \in Seq(Nat) /\ Len(counts) = m BY <2>2, <2>3, SeqDef
  <2>5. Len(stopped) <= m
    BY <2>2, <2>4 DEF ReportStoppedValidatorCounts, CountsAreAccepted
  <2>6. DOMAIN stopped = 1..Len(stopped) /\ Len(stopped) \in Nat BY <1>1 DEF TypeOK
  <2> QED BY <2>2, <2>3, <2>4, <2>5, <2>6
<1>4. /\ \A i \in DOMAIN stopped : counts[i] >= stopped[i]
      /\ \A i \in named : counts[i] <= operators[i].funded
      /\ operators' = [i \in Indexes |->
           IF i \in named THEN [operators[i] EXCEPT !.requestedExits = raised(i)]
           ELSE operators[i]]
      /\ totalValidatorExitsRequested' = totalValidatorExitsRequested + unsolicited
      /\ currentValidatorExitsDemand' = AnsweredDemand(unsolicited)
      /\ stopped' = counts
      /\ UNCHANGED <<validatorKeys, depositedValidatorCount, audit>>
  BY DEF ReportStoppedValidatorCounts, CountsAreAccepted, Unsolicited
<1>5. \A i \in named :
        /\ raised(i) = operators[i].requestedExits + excess[i]
        /\ raised(i) \in Nat /\ excess[i] \in Nat
        /\ raised(i) >= operators[i].requestedExits /\ raised(i) >= counts[i]
        /\ raised(i) = operators[i].requestedExits \/ raised(i) = counts[i]
  <2> SUFFICES ASSUME NEW i \in named
               PROVE  /\ raised(i) = operators[i].requestedExits + excess[i]
                      /\ raised(i) \in Nat /\ excess[i] \in Nat
                      /\ raised(i) >= operators[i].requestedExits /\ raised(i) >= counts[i]
                      /\ raised(i) = operators[i].requestedExits \/ raised(i) = counts[i]
    OBVIOUS
  <2>1. operators[i].requestedExits \in Nat /\ counts[i] \in Nat BY <1>2, <1>3
  <2>2. raised(i) = IF operators[i].requestedExits >= counts[i]
                      THEN operators[i].requestedExits ELSE counts[i]
    BY <2>1, MaxOfTwo DEF RaisedRequest
  <2>3. counts[i] - operators[i].requestedExits \in Int BY <2>1
  <2>4. excess[i] = IF 0 >= counts[i] - operators[i].requestedExits
                      THEN 0 ELSE counts[i] - operators[i].requestedExits
    BY <2>3, MaxOfTwo
  <2> HIDE DEF raised, excess
  <2> QED BY <2>1, <2>2, <2>4
<1>6. DOMAIN excess = named OBVIOUS
<1>7. IsFiniteSet(Indexes) /\ IsFiniteSet(named)
  BY <1>1, <1>3, OperatorsAreFinite, FS_Subset
<1> HIDE DEF named, raised, excess
<1>8. unsolicited \in Nat BY <1>5, <1>6, <1>7, SumIsNat DEF SumFunction
<1> HIDE DEF unsolicited
<1>9. /\ operators' \in [Indexes -> Operator]
      /\ \A i \in Indexes :
           /\ operators'[i].keys = operators[i].keys
           /\ operators'[i].limit = operators[i].limit
           /\ operators'[i].funded = operators[i].funded
           /\ operators'[i].latestKeysEditBlockNumber
                = operators[i].latestKeysEditBlockNumber
           /\ operators'[i].requestedExits =
                IF i \in named THEN raised(i) ELSE operators[i].requestedExits
  BY <1>2, <1>4, <1>5 DEF Operator
<1>10. /\ operators' \in Seq(Operator) /\ Len(operators') = Len(operators)
       /\ Indexes' = Indexes
  BY <1>1, <1>9, OperatorsRewritten DEF Indexes
<1>11. AnsweredDemand(unsolicited) =
         IF unsolicited <= currentValidatorExitsDemand
           THEN currentValidatorExitsDemand - unsolicited ELSE 0
  <2>1. currentValidatorExitsDemand \in Nat BY <1>1 DEF TypeOK
  <2>2. Min({unsolicited, currentValidatorExitsDemand}) =
          IF unsolicited <= currentValidatorExitsDemand
            THEN unsolicited ELSE currentValidatorExitsDemand
    BY <1>8, <2>1, MinOfTwo
  <2> QED BY <1>8, <2>1, <2>2 DEF AnsweredDemand
<1>12. TypeOK'
  <2>1. totalValidatorExitsRequested' \in Nat /\ currentValidatorExitsDemand' \in Nat
    BY <1>1, <1>4, <1>8, <1>11 DEF TypeOK
  <2> QED BY <1>1, <1>3, <1>4, <1>10, <2>1 DEF TypeOK, audit
<1>13. \A i \in Indexes : operators'[i].requestedExits <= operators[i].funded
  BY <1>2, <1>3, <1>4, <1>5, <1>9 DEF IInv, CountsAreOrdered
<1>14. CountsAreOrdered'
  <2>1. \A i \in Indexes : operators'[i].requestedExits >= StoppedCount(i)'
    <3> SUFFICES ASSUME NEW i \in Indexes
                 PROVE  operators'[i].requestedExits >= StoppedCount(i)'
      OBVIOUS
    <3>1. StoppedCount(i)' = IF i \in named THEN counts[i] ELSE 0
      BY <1>4 DEF StoppedCount, named
    <3> QED BY <1>2, <1>5, <1>9, <3>1
  <2> QED BY <1>9, <1>10, <1>13, <2>1 DEF IInv, CountsAreOrdered
<1>15. ExitsAreAccounted'
  <2> DEFINE r == [i \in Indexes |-> operators[i].requestedExits]
             f == [i \in Indexes |-> operators[i].funded]
  <2>1. f' = f BY <1>9, <1>10
  <2>2. /\ DOMAIN r = Indexes /\ DOMAIN f = Indexes /\ DOMAIN r' = Indexes
        /\ DOMAIN excess \subseteq Indexes
        /\ \A i \in Indexes :
             /\ r[i] \in Int /\ f[i] \in Int /\ r'[i] \in Int /\ r'[i] <= f[i]
             /\ r'[i] = IF i \in DOMAIN excess THEN r[i] + excess[i] ELSE r[i]
        /\ \A i \in DOMAIN excess : excess[i] \in Int
    BY <1>2, <1>3, <1>5, <1>6, <1>9, <1>10, <1>13
  <2> HIDE DEF r, f
  <2>3. SumFunction(r') = SumFunction(r) + unsolicited
    BY <1>7, <2>2, SumWithAdded DEF unsolicited
  <2>4. SumFunction(r') <= SumFunction(f)
    BY <1>7, <2>2, SumIsMonotonic DEF SumFunction
  <2>5. /\ totalValidatorExitsRequested = SumFunction(r)
        /\ depositedValidatorCount = SumFunction(f)
        /\ totalValidatorExitsRequested + currentValidatorExitsDemand
             <= depositedValidatorCount
    BY DEF IInv, ExitsAreAccounted, r, f
  <2>6. totalValidatorExitsRequested' = SumFunction(r') BY <1>4, <2>3, <2>5
  <2>7. depositedValidatorCount' = SumFunction(f') BY <1>4, <2>1, <2>5
  <2>8. totalValidatorExitsRequested' + currentValidatorExitsDemand'
          <= depositedValidatorCount'
    BY <1>1, <1>4, <1>8, <1>11, <2>3, <2>4, <2>5 DEF TypeOK
  <2> QED BY <1>12, <2>6, <2>7, <2>8 DEF ExitsAreAccounted, r, f
<1> QED BY <1>4, <1>9, <1>10, <1>12, <1>14, <1>15, KeysKept DEF IInv

-----------------------------------------------------------------------------
(* The invariant                                                           *)

LEMMA InitHolds == Init => IInv
<1> SUFFICES ASSUME Init PROVE IInv OBVIOUS
<1>1. Indexes = {} /\ Len(operators) = 0 BY DEF Init, Indexes
<1>2. TypeOK BY <1>1 DEF Init, TypeOK
<1>3. SnapshotIsSound BY DEF Init, SnapshotIsSound
<1>4. ExitsAreAccounted
  <2>1. ASSUME NEW f, DOMAIN f = {} PROVE SumFunction(f) = 0
    BY <2>1, SumOfNone DEF SumFunction
  <2>2. /\ SumFunction([i \in Indexes |-> operators[i].requestedExits]) = 0
        /\ SumFunction([i \in Indexes |-> operators[i].funded]) = 0
    BY <1>1, <2>1
  <2> QED BY <1>2, <2>2 DEF ExitsAreAccounted, Init
<1> QED
  BY <1>1, <1>2, <1>3, <1>4
     DEF IInv, KeysArePresent, OnlyAuditedKeysAreFundable, CountsAreOrdered

LEMMA NextHolds == ASSUME IInv, [Next]_vars PROVE IInv'
<1>1. ASSUME NEW i \in Indexes, NEW status \in BOOLEAN, SetOperatorStatus(i, status)
      PROVE  IInv'
  BY <1>1, SetOperatorStatusHolds
<1>2. ASSUME NEW i \in Indexes, NEW newKeys \in UpTo(MaxKeys, Key),
             AddValidators(i, newKeys)
      PROVE  IInv'
  BY <1>2, AddValidatorsHolds
<1>3. ASSUME NEW i \in Indexes, NEW removed \in SUBSET KeyIndex,
             RemoveValidators(i, removed)
      PROVE  IInv'
  BY <1>3, RemoveValidatorsHolds
<1>4. ASSUME NEW newLimits \in AuditedLimits, SetOperatorLimits(newLimits) PROVE IInv'
  BY <1>4, SetOperatorLimitsHolds
<1>5. ASSUME NEW allocation \in Allocations,
             PickNextValidatorsToDeposit(allocation) \/ RequestValidatorExits(allocation)
      PROVE  IInv'
  BY <1>5, PickHolds, RequestExitsHolds
<1>6. ASSUME NEW count \in ExitCount, DemandValidatorExits(count) PROVE IInv'
  BY <1>6, DemandHolds
<1>7. ASSUME NEW counts \in UpTo(Len(operators), 0..MaxKeys),
             ReportStoppedValidatorCounts(counts)
      PROVE  IInv'
  BY <1>7, ReportHolds
<1>8. ASSUME UNCHANGED vars PROVE IInv'
  <2>1. UNCHANGED <<validatorKeys, audit, exits, depositedValidatorCount, operators, stopped>>
    BY <1>8 DEF vars, audit, exits
  <2>2. Indexes' = Indexes BY <2>1 DEF Indexes
  <2>3. TypeOK' BY <2>1, <2>2 DEF IInv, TypeOK, audit, exits
  <2>4. CountsAreOrdered' BY <2>1, <2>2 DEF IInv, CountsAreOrdered, StoppedCount
  <2>5. ExitsAreAccounted' BY <2>1, <2>2, <2>3, ExitsKept
  <2> QED BY <2>1, <2>2, <2>3, <2>4, <2>5, KeysKept DEF IInv
<1> QED
  BY <1>1, <1>2, <1>3, <1>4, <1>5, <1>6, <1>7, <1>8, AddOperatorHolds, TakeSnapshotHolds
     DEF Next

\* The inductive invariant holds of every reachable state.
THEOREM Inductive == Spec => []IInv
<1>1. Init => IInv BY InitHolds
<1>2. IInv /\ [Next]_vars => IInv' BY NextHolds
<1> QED BY <1>1, <1>2, PTL DEF Spec

\* Keys, counts and limits keep their types: no counter of Operators.2.sol falls
\* below zero.
THEOREM TypeCorrect == Spec => []TypeOK
<1>1. IInv => TypeOK BY DEF IInv
<1> QED BY <1>1, Inductive, PTL

\* No key is fundable that no audit has approved, whatever operators add, remove
\* and so reorder while audits are under way (setOperatorLimits, removeValidators).
THEOREM FundableIsAudited == Spec => []OnlyAuditedKeysAreFundable
<1>1. IInv => OnlyAuditedKeysAreFundable BY DEF IInv
<1> QED BY <1>1, Inductive, PTL

\* The counters of every operator stay in the order the subtractions of the code
\* rely on (Operators.2.sol, pickNextValidatorsToDeposit, requestValidatorExits).
THEOREM CountsStayOrdered == Spec => []CountsAreOrdered
<1>1. IInv => CountsAreOrdered BY DEF IInv
<1> QED BY <1>1, Inductive, PTL

\* The global counters are the sums they stand for, and no more exits are
\* requested and demanded than validators are deposited (demandValidatorExits,
\* _setStoppedValidatorCounts).
THEOREM ExitsStayAccounted == Spec => []ExitsAreAccounted
<1>1. IInv => ExitsAreAccounted BY DEF IInv
<1> QED BY <1>1, Inductive, PTL

=============================================================================
