--------------------------------- MODULE Sums ---------------------------------
(***************************************************************************)
(* Lemmas about SumFunctionOnSet of the community modules: the sum of the  *)
(* values a function has on a finite set.  It folds the set element by     *)
(* element, by a recursive function on its subsets; induction over them is *)
(* here the choice of a smallest subset for which a lemma fails.           *)
(***************************************************************************)
EXTENDS Integers, Functions, FiniteSetTheorems, TLAPS

-----------------------------------------------------------------------------
(* The recursive function that SumFunctionOnSet evaluates                  *)

First(s) == CHOOSE x \in s : TRUE

Rest(s) == s \ {First(s)}

Unfolded(f, g, s) == IF s = {} THEN 0 ELSE f[First(s)] + g[Rest(s)]

\* g is a table of the sums of f over the subsets of S.
Tabulates(g, f, S) == g = [s \in SUBSET S |-> Unfolded(f, g, s)]

\* A set of subsets of a finite set that has an element has a smallest one.
LEMMA SmallestSubset ==
  ASSUME NEW S, IsFiniteSet(S), NEW C \in SUBSET (SUBSET S), C # {}
  PROVE  \E T \in C : \A U \in C : U \subseteq T => U = T
<1>1. IsWellFoundedOn(StrictSubsetOrdering(S), SUBSET S)
  BY FS_StrictSubsetOrderingWellFounded, FS_FiniteSubsetsOfFinite
<1>2. \E T \in C : \A U \in C : <<U, T>> \notin StrictSubsetOrdering(S)
  BY <1>1, WFMin
<1> QED BY <1>2 DEF StrictSubsetOrdering

\* A finite set of integers that has an element has a least one.
LEMMA LeastElement ==
  ASSUME NEW S, IsFiniteSet(S), S # {}, \A x \in S : x \in Int
  PROVE  \E x \in S : \A y \in S : x <= y
<1> DEFINE UpToIt(k) == {j \in S : j <= k}
           C == {UpToIt(k) : k \in S}
<1>1. PICK T \in C : \A U \in C : U \subseteq T => U = T
  <2>1. C \in SUBSET (SUBSET S) OBVIOUS
  <2>2. C # {} OBVIOUS
  <2> HIDE DEF C
  <2> QED BY <2>1, <2>2, SmallestSubset
<1>2. PICK x \in S : T = UpToIt(x) BY <1>1
<1>3. ASSUME NEW y \in S PROVE x <= y
  <2>1. SUFFICES ASSUME y < x PROVE FALSE OBVIOUS
  <2>2. UpToIt(y) \in C /\ UpToIt(y) \subseteq T
    <3>1. \A j \in S : j <= y => j <= x BY <2>1
    <3> QED BY <1>2, <3>1
  <2>3. UpToIt(y) = T BY <1>1, <2>2
  <2>4. x \in UpToIt(y) BY <1>2, <2>3
  <2> QED BY <2>1, <2>4
<1> QED BY <1>2, <1>3

\* The same of a set of integers within bounds.
LEMMA LeastInInterval ==
  ASSUME NEW a \in Int, NEW b \in Int, NEW C, C \subseteq a..b, C # {}
  PROVE  \E k \in C : \A i \in C : k <= i
<1>1. IsFiniteSet(a..b) BY FS_Interval
<1>2. IsFiniteSet(C) BY <1>1, FS_Subset
<1>3. \A k \in C : k \in Int OBVIOUS
<1> QED BY <1>2, <1>3, LeastElement

LEMMA FirstAndRest ==
  ASSUME NEW S, S # {}
  PROVE  /\ First(S) \in S
         /\ Rest(S) \subseteq S
         /\ Rest(S) # S
         /\ First(S) \notin Rest(S)
<1>1. First(S) \in S BY DEF First
<1> QED BY <1>1 DEF Rest

\* There is one table at most.
LEMMA TableIsUnique ==
  ASSUME NEW f, NEW S, IsFiniteSet(S), NEW g, NEW h,
         Tabulates(g, f, S), Tabulates(h, f, S)
  PROVE  g = h
<1> DEFINE C == {s \in SUBSET S : g[s] # h[s]}
<1>1. /\ \A s \in SUBSET S : g[s] = Unfolded(f, g, s) /\ h[s] = Unfolded(f, h, s)
      /\ g = [s \in SUBSET S |-> g[s]]
      /\ h = [s \in SUBSET S |-> h[s]]
  BY DEF Tabulates
<1>2. C = {}
  <2>1. SUFFICES ASSUME C # {} PROVE FALSE OBVIOUS
  <2>2. PICK T \in C : \A U \in C : U \subseteq T => U = T
    <3>1. C \in SUBSET (SUBSET S) OBVIOUS
    <3> HIDE DEF C
    <3> QED BY <2>1, <3>1, SmallestSubset
  <2>3. T # {} BY <1>1, <2>2 DEF Unfolded
  <2>4. g[Rest(T)] = h[Rest(T)] BY <2>2, <2>3, FirstAndRest
  <2> QED BY <1>1, <2>2, <2>3, <2>4 DEF Unfolded
<1>3. \A s \in SUBSET S : g[s] = h[s] BY <1>2
<1> QED BY <1>1, <1>3

\* A table holds those of the subsets.
LEMMA TableOfSubset ==
  ASSUME NEW f, NEW S, NEW T \in SUBSET S, NEW g, Tabulates(g, f, S)
  PROVE  Tabulates([s \in SUBSET T |-> g[s]], f, T)
<1> DEFINE h == [s \in SUBSET T |-> g[s]]
<1>1. \A s \in SUBSET T : h[s] = Unfolded(f, h, s)
  <2> SUFFICES ASSUME NEW s \in SUBSET T PROVE h[s] = Unfolded(f, h, s) OBVIOUS
  <2>1. h[s] = g[s] /\ g[s] = Unfolded(f, g, s) BY DEF Tabulates
  <2>2. CASE s = {} BY <2>1, <2>2 DEF Unfolded
  <2>3. CASE s # {}
    <3>1. Rest(s) \in SUBSET T BY <2>3, FirstAndRest
    <3> QED BY <2>1, <2>3, <3>1 DEF Unfolded
  <2> QED BY <2>2, <2>3
<1>2. h = [s \in SUBSET T |-> Unfolded(f, h, s)] BY <1>1
<1> QED BY <1>2 DEF Tabulates

\* There is a table for every finite set: it joins those of its proper subsets.
LEMMA TableExists ==
  ASSUME NEW f, NEW S, IsFiniteSet(S)
  PROVE  \E g : Tabulates(g, f, S)
<1> DEFINE C == {T \in SUBSET S : ~ \E g : Tabulates(g, f, T)}
           G(s) == CHOOSE g : Tabulates(g, f, s)
<1> SUFFICES ASSUME C # {} PROVE FALSE OBVIOUS
<1>1. PICK T \in C : \A U \in C : U \subseteq T => U = T
  <2>1. C \in SUBSET (SUBSET S) OBVIOUS
  <2> HIDE DEF C
  <2> QED BY <2>1, SmallestSubset
<1>2. \A s \in SUBSET T : s # T => Tabulates(G(s), f, s)
  BY <1>1
<1>3. ASSUME NEW s \in SUBSET T, s # T, NEW u \in SUBSET s
      PROVE  G(s)[u] = G(u)[u]
  <2>1. Tabulates(G(s), f, s) BY <1>2, <1>3
  <2>2. u # T BY <1>3
  <2>3. Tabulates(G(u), f, u) BY <1>2, <1>3, <2>2
  <2>4. Tabulates([w \in SUBSET u |-> G(s)[w]], f, u) BY <2>1, TableOfSubset
  <2>5. IsFiniteSet(u) BY <1>1, FS_Subset
  <2> HIDE DEF G
  <2>6. [w \in SUBSET u |-> G(s)[w]] = G(u) BY <2>3, <2>4, <2>5, TableIsUnique
  <2> QED BY <2>6
<1> DEFINE V(s) == IF s = {} THEN 0 ELSE f[First(s)] + G(Rest(s))[Rest(s)]
           h == [s \in SUBSET T |-> V(s)]
<1>4. ASSUME NEW s \in SUBSET T, s # T
      PROVE  G(s)[s] = V(s)
  <2>1. G(s)[s] = Unfolded(f, G(s), s)
    <3>1. Tabulates(G(s), f, s) BY <1>2, <1>4
    <3> HIDE DEF G
    <3> QED BY <3>1 DEF Tabulates
  <2>2. CASE s = {} BY <2>1, <2>2 DEF Unfolded
  <2>3. CASE s # {}
    <3>1. Rest(s) \in SUBSET s BY <2>3, FirstAndRest
    <3>2. G(s)[Rest(s)] = G(Rest(s))[Rest(s)] BY <1>3, <1>4, <3>1
    <3> HIDE DEF G
    <3> QED BY <2>1, <2>3, <3>2 DEF Unfolded
  <2> QED BY <2>2, <2>3
<1>5. \A s \in SUBSET T : h[s] = Unfolded(f, h, s)
  <2> SUFFICES ASSUME NEW s \in SUBSET T PROVE h[s] = Unfolded(f, h, s) OBVIOUS
  <2>1. CASE s = {} BY <2>1 DEF Unfolded
  <2>2. CASE s # {}
    <3>1. Rest(s) \in SUBSET T /\ Rest(s) # T BY <2>2, FirstAndRest
    <3>2. G(Rest(s))[Rest(s)] = V(Rest(s)) BY <1>4, <3>1
    <3> HIDE DEF G
    <3>3. h[Rest(s)] = V(Rest(s)) BY <3>1
    <3>4. h[s] = f[First(s)] + G(Rest(s))[Rest(s)] BY <2>2
    <3> QED BY <2>2, <3>2, <3>3, <3>4 DEF Unfolded
  <2> QED BY <2>1, <2>2
<1>6. Tabulates(h, f, T)
  <2> HIDE DEF V
  <2>1. h = [s \in SUBSET T |-> Unfolded(f, h, s)] BY <1>5
  <2> QED BY <2>1 DEF Tabulates
<1> QED BY <1>1, <1>6

-----------------------------------------------------------------------------
(* The sum                                                                 *)

Table(f, S) == CHOOSE g : Tabulates(g, f, S)

LEMMA SumIsTabulated ==
  ASSUME NEW f, NEW S, IsFiniteSet(S)
  PROVE  /\ Tabulates(Table(f, S), f, S)
         /\ SumFunctionOnSet(f, S) = Table(f, S)[S]
<1>1. Tabulates(Table(f, S), f, S) BY TableExists DEF Table
<1>2. SumFunctionOnSet(f, S) = Table(f, S)[S]
  BY DEF SumFunctionOnSet, FoldFunctionOnSet, MapThenFoldSet, Table, Tabulates,
         Unfolded, First, Rest
<1> QED BY <1>1, <1>2

\* What the sum is, element by element.
LEMMA SumUnfolds ==
  ASSUME NEW f, NEW S, IsFiniteSet(S)
  PROVE  SumFunctionOnSet(f, S) =
           IF S = {} THEN 0 ELSE f[First(S)] + SumFunctionOnSet(f, Rest(S))
<1>1. SumFunctionOnSet(f, S) = Unfolded(f, Table(f, S), S)
  <2>1. Tabulates(Table(f, S), f, S) BY SumIsTabulated
  <2> HIDE DEF Table
  <2>2. Table(f, S)[S] = Unfolded(f, Table(f, S), S) BY <2>1 DEF Tabulates
  <2> QED BY <2>2, SumIsTabulated
<1>2. CASE S = {} BY <1>1, <1>2 DEF Unfolded
<1>3. CASE S # {}
  <2>1. Rest(S) \in SUBSET S /\ IsFiniteSet(Rest(S)) BY <1>3, FirstAndRest, FS_Subset
  <2>2. Tabulates([s \in SUBSET Rest(S) |-> Table(f, S)[s]], f, Rest(S))
    <3>1. Tabulates(Table(f, S), f, S) BY SumIsTabulated
    <3> QED BY <2>1, <3>1, TableOfSubset
  <2>3. Tabulates(Table(f, Rest(S)), f, Rest(S)) BY <2>1, SumIsTabulated
  <2>4. [s \in SUBSET Rest(S) |-> Table(f, S)[s]] = Table(f, Rest(S))
    BY <2>1, <2>2, <2>3, TableIsUnique
  <2>5. Table(f, S)[Rest(S)] = SumFunctionOnSet(f, Rest(S))
    BY <2>1, <2>4, SumIsTabulated
  <2> QED BY <1>1, <1>3, <2>5 DEF Unfolded
<1> QED BY <1>2, <1>3

LEMMA SumOfNone == ASSUME NEW f PROVE SumFunctionOnSet(f, {}) = 0
BY SumUnfolds, FS_EmptySet

\* The sum of integers is one.
LEMMA SumIsInt ==
  ASSUME NEW f, NEW S, IsFiniteSet(S), \A x \in S : f[x] \in Int
  PROVE  SumFunctionOnSet(f, S) \in Int
<1> DEFINE C == {T \in SUBSET S : SumFunctionOnSet(f, T) \notin Int}
<1> SUFFICES ASSUME C # {} PROVE FALSE OBVIOUS
<1>1. PICK T \in C : \A U \in C : U \subseteq T => U = T
  <2>1. C \in SUBSET (SUBSET S) OBVIOUS
  <2> HIDE DEF C
  <2> QED BY <2>1, SmallestSubset
<1>2. T # {}
  <2>1. SumFunctionOnSet(f, {}) \in Int BY SumOfNone
  <2> QED BY <1>1, <2>1
<1>3. /\ First(T) \in T
      /\ Rest(T) \in SUBSET S
      /\ SumFunctionOnSet(f, Rest(T)) \in Int
  BY <1>1, <1>2, FirstAndRest
<1>4. IsFiniteSet(T) BY <1>1, FS_Subset
<1>5. SumFunctionOnSet(f, T) = f[First(T)] + SumFunctionOnSet(f, Rest(T))
  BY <1>2, <1>4, SumUnfolds
<1> QED BY <1>1, <1>3, <1>5

\* Any element may be taken out first.
LEMMA SumWithout ==
  ASSUME NEW f, NEW S, IsFiniteSet(S), \A x \in S : f[x] \in Int, NEW y \in S
  PROVE  SumFunctionOnSet(f, S) = f[y] + SumFunctionOnSet(f, S \ {y})
<1> DEFINE Sum(T) == SumFunctionOnSet(f, T)
           Fails(T, z) == z \in T /\ Sum(T) # f[z] + Sum(T \ {z})
           C == {T \in SUBSET S : \E z \in T : Fails(T, z)}
<1> SUFFICES C = {} OBVIOUS
<1> SUFFICES ASSUME C # {} PROVE FALSE OBVIOUS
<1>1. PICK T \in C : \A U \in C : U \subseteq T => U = T
  <2>1. C \in SUBSET (SUBSET S) OBVIOUS
  <2> HIDE DEF C
  <2> QED BY <2>1, SmallestSubset
<1>2. PICK z \in T : Fails(T, z) BY <1>1
<1>3. T # {} /\ IsFiniteSet(T) /\ T \in SUBSET S BY <1>1, <1>2, FS_Subset
<1>4. PICK c \in T : Sum(T) = f[c] + Sum(T \ {c})
  <2>1. First(T) \in T BY <1>3, FirstAndRest
  <2>2. Sum(T) = f[First(T)] + Sum(Rest(T)) BY <1>3, SumUnfolds
  <2> HIDE DEF Sum
  <2> QED BY <2>1, <2>2 DEF Rest
<1>5. c # z BY <1>2, <1>4
<1>6. T \ {c} \notin C /\ T \ {z} \notin C BY <1>1, <1>2
<1>7. Sum(T \ {c}) = f[z] + Sum((T \ {c}) \ {z}) BY <1>1, <1>2, <1>5, <1>6
<1>8. Sum(T \ {z}) = f[c] + Sum((T \ {z}) \ {c}) BY <1>1, <1>4, <1>5, <1>6
<1>9. /\ Sum((T \ {z}) \ {c}) = Sum((T \ {c}) \ {z})
      /\ Sum((T \ {c}) \ {z}) \in Int
  <2>1. IsFiniteSet((T \ {c}) \ {z}) /\ (T \ {c}) \ {z} \in SUBSET S BY <1>3, FS_Subset
  <2>2. Sum((T \ {c}) \ {z}) \in Int BY <2>1, SumIsInt
  <2>3. (T \ {z}) \ {c} = (T \ {c}) \ {z} OBVIOUS
  <2> QED BY <2>2, <2>3
<1>10. f[c] \in Int /\ f[z] \in Int BY <1>3
<1> HIDE DEF Sum, C
<1>11. Sum(T) = f[z] + Sum(T \ {z}) BY <1>4, <1>7, <1>8, <1>9, <1>10
<1> QED BY <1>2, <1>11

-----------------------------------------------------------------------------
(* Two sums compared                                                       *)

\* Functions that agree on a set have the same sum over it.
LEMMA SumOfEqual ==
  ASSUME NEW f, NEW g, NEW S, IsFiniteSet(S), \A x \in S : f[x] = g[x]
  PROVE  SumFunctionOnSet(f, S) = SumFunctionOnSet(g, S)
<1> DEFINE C == {T \in SUBSET S : SumFunctionOnSet(f, T) # SumFunctionOnSet(g, T)}
<1> SUFFICES ASSUME C # {} PROVE FALSE OBVIOUS
<1>1. PICK T \in C : \A U \in C : U \subseteq T => U = T
  <2>1. C \in SUBSET (SUBSET S) OBVIOUS
  <2> HIDE DEF C
  <2> QED BY <2>1, SmallestSubset
<1>2. T # {}
  <2>1. SumFunctionOnSet(f, {}) = SumFunctionOnSet(g, {}) BY SumOfNone
  <2> QED BY <1>1, <2>1
<1>3. First(T) \in T /\ Rest(T) \in SUBSET T /\ Rest(T) # T BY <1>2, FirstAndRest
<1>4. SumFunctionOnSet(f, Rest(T)) = SumFunctionOnSet(g, Rest(T)) BY <1>1, <1>3
<1>5. IsFiniteSet(T) BY <1>1, FS_Subset
<1>6. /\ SumFunctionOnSet(f, T) = f[First(T)] + SumFunctionOnSet(f, Rest(T))
      /\ SumFunctionOnSet(g, T) = g[First(T)] + SumFunctionOnSet(g, Rest(T))
  BY <1>2, <1>5, SumUnfolds
<1> QED BY <1>1, <1>3, <1>4, <1>6

\* The sum of the sums.
LEMMA SumOfPlus ==
  ASSUME NEW f, NEW g, NEW h, NEW S, IsFiniteSet(S),
         \A x \in S : f[x] \in Int /\ g[x] \in Int /\ h[x] = f[x] + g[x]
  PROVE  SumFunctionOnSet(h, S) = SumFunctionOnSet(f, S) + SumFunctionOnSet(g, S)
<1> DEFINE Adds(T) ==
             SumFunctionOnSet(h, T) = SumFunctionOnSet(f, T) + SumFunctionOnSet(g, T)
           C == {T \in SUBSET S : ~Adds(T)}
<1> SUFFICES ASSUME C # {} PROVE FALSE OBVIOUS
<1>1. PICK T \in C : \A U \in C : U \subseteq T => U = T
  <2>1. C \in SUBSET (SUBSET S) OBVIOUS
  <2> HIDE DEF C
  <2> QED BY <2>1, SmallestSubset
<1>2. T # {}
  <2>1. Adds({}) BY SumOfNone
  <2> QED BY <1>1, <2>1
<1>3. First(T) \in S /\ Rest(T) \in SUBSET S /\ Rest(T) \subseteq T /\ Rest(T) # T
  BY <1>1, <1>2, FirstAndRest
<1>4. SumFunctionOnSet(h, Rest(T)) =
        SumFunctionOnSet(f, Rest(T)) + SumFunctionOnSet(g, Rest(T))
  BY <1>1, <1>3
<1>5. IsFiniteSet(T) /\ IsFiniteSet(Rest(T)) BY <1>1, <1>3, FS_Subset
<1>6. /\ SumFunctionOnSet(f, T) = f[First(T)] + SumFunctionOnSet(f, Rest(T))
      /\ SumFunctionOnSet(g, T) = g[First(T)] + SumFunctionOnSet(g, Rest(T))
      /\ SumFunctionOnSet(h, T) = h[First(T)] + SumFunctionOnSet(h, Rest(T))
  BY <1>2, <1>5, SumUnfolds
<1>7. /\ SumFunctionOnSet(f, Rest(T)) \in Int
      /\ SumFunctionOnSet(g, Rest(T)) \in Int
  <2>1. \A x \in Rest(T) : f[x] \in Int /\ g[x] \in Int BY <1>3
  <2> QED BY <1>5, <2>1, SumIsInt
<1>8. Adds(T) BY <1>3, <1>4, <1>6, <1>7
<1> QED BY <1>1, <1>8

\* The sum of natural numbers is one, and no less than any of them.
LEMMA SumIsNat ==
  ASSUME NEW f, NEW S, IsFiniteSet(S), \A x \in S : f[x] \in Nat
  PROVE  SumFunctionOnSet(f, S) \in Nat
<1> DEFINE C == {T \in SUBSET S : SumFunctionOnSet(f, T) \notin Nat}
<1> SUFFICES ASSUME C # {} PROVE FALSE OBVIOUS
<1>1. PICK T \in C : \A U \in C : U \subseteq T => U = T
  <2>1. C \in SUBSET (SUBSET S) OBVIOUS
  <2> HIDE DEF C
  <2> QED BY <2>1, SmallestSubset
<1>2. T # {}
  <2>1. SumFunctionOnSet(f, {}) \in Nat BY SumOfNone
  <2> QED BY <1>1, <2>1
<1>3. /\ First(T) \in T
      /\ Rest(T) \in SUBSET S
      /\ SumFunctionOnSet(f, Rest(T)) \in Nat
  BY <1>1, <1>2, FirstAndRest
<1>4. IsFiniteSet(T) BY <1>1, FS_Subset
<1>5. SumFunctionOnSet(f, T) = f[First(T)] + SumFunctionOnSet(f, Rest(T))
  BY <1>2, <1>4, SumUnfolds
<1> QED BY <1>1, <1>3, <1>5

LEMMA SumBoundsEach ==
  ASSUME NEW f, NEW S, IsFiniteSet(S), \A x \in S : f[x] \in Nat, NEW y \in S
  PROVE  f[y] <= SumFunctionOnSet(f, S)
<1>1. SumFunctionOnSet(f, S) = f[y] + SumFunctionOnSet(f, S \ {y}) BY SumWithout
<1>2. SumFunctionOnSet(f, S \ {y}) \in Nat BY FS_Subset, SumIsNat
<1> QED BY <1>1, <1>2

\* A function that is nowhere above another has no greater a sum.
LEMMA SumIsMonotonic ==
  ASSUME NEW f, NEW g, NEW S, IsFiniteSet(S),
         \A x \in S : f[x] \in Int /\ g[x] \in Int /\ f[x] <= g[x]
  PROVE  SumFunctionOnSet(f, S) <= SumFunctionOnSet(g, S)
<1> DEFINE d == [x \in S |-> g[x] - f[x]]
<1>1. \A x \in S : d[x] \in Nat /\ g[x] = f[x] + d[x] OBVIOUS
<1> HIDE DEF d
<1>2. SumFunctionOnSet(g, S) = SumFunctionOnSet(f, S) + SumFunctionOnSet(d, S)
  BY <1>1, SumOfPlus
<1>3. SumFunctionOnSet(d, S) \in Nat BY <1>1, SumIsNat
<1>4. SumFunctionOnSet(f, S) \in Int BY SumIsInt
<1> QED BY <1>2, <1>3, <1>4

\* One value changed changes the sum by as much.
LEMMA SumOfChange ==
  ASSUME NEW f, NEW g, NEW S, IsFiniteSet(S), NEW y \in S,
         \A x \in S : f[x] \in Int /\ g[x] \in Int,
         \A x \in S : x # y => g[x] = f[x]
  PROVE  SumFunctionOnSet(g, S) = SumFunctionOnSet(f, S) + g[y] - f[y]
<1>1. /\ SumFunctionOnSet(f, S) = f[y] + SumFunctionOnSet(f, S \ {y})
      /\ SumFunctionOnSet(g, S) = g[y] + SumFunctionOnSet(g, S \ {y})
  BY SumWithout
<1>2. IsFiniteSet(S \ {y}) BY FS_Subset
<1>3. SumFunctionOnSet(f, S \ {y}) = SumFunctionOnSet(g, S \ {y}) BY <1>2, SumOfEqual
<1>4. SumFunctionOnSet(f, S \ {y}) \in Int BY <1>2, SumIsInt
<1> QED BY <1>1, <1>3, <1>4

\* Zeros sum up to zero.
LEMMA SumOfZeros ==
  ASSUME NEW f, NEW S, IsFiniteSet(S), \A x \in S : f[x] = 0
  PROVE  SumFunctionOnSet(f, S) = 0
<1>1. SumFunctionOnSet(f, S) = SumFunctionOnSet(f, S) + SumFunctionOnSet(f, S)
  BY SumOfPlus
<1>2. PICK sum \in Int : sum = SumFunctionOnSet(f, S) BY SumIsInt
<1>3. sum = sum + sum BY <1>1, <1>2
<1>4. sum = 0 BY <1>3
<1> QED BY <1>2, <1>4

\* Where the function is zero does not matter.
LEMMA SumOverSupport ==
  ASSUME NEW f, NEW S, IsFiniteSet(S), NEW T \in SUBSET S,
         \A x \in S : f[x] \in Int, \A x \in S \ T : f[x] = 0
  PROVE  SumFunctionOnSet(f, S) = SumFunctionOnSet(f, T)
<1> DEFINE Agrees(U) == SumFunctionOnSet(f, U) = SumFunctionOnSet(f, U \cap T)
           C == {U \in SUBSET S : ~Agrees(U)}
<1>1. C = {}
  <2> SUFFICES ASSUME C # {} PROVE FALSE OBVIOUS
  <2>1. PICK U \in C : \A V \in C : V \subseteq U => V = U
    <3>1. C \in SUBSET (SUBSET S) OBVIOUS
    <3> HIDE DEF C
    <3> QED BY <3>1, SmallestSubset
  <2>2. PICK x \in U : x \notin T
    <3>1. U \cap T # U BY <2>1
    <3> QED BY <3>1
  <2>3. Agrees(U \ {x}) BY <2>1, <2>2
  <2>4. (U \ {x}) \cap T = U \cap T BY <2>2
  <2>5. IsFiniteSet(U) /\ IsFiniteSet(U \cap T) BY <2>1, FS_Subset
  <2>6. SumFunctionOnSet(f, U) = f[x] + SumFunctionOnSet(f, U \ {x})
    <3>1. \A z \in U : f[z] \in Int BY <2>1
    <3> QED BY <2>2, <2>5, <3>1, SumWithout
  <2>7. f[x] = 0 BY <2>1, <2>2
  <2>8. SumFunctionOnSet(f, U \cap T) \in Int
    <3>1. \A z \in U \cap T : f[z] \in Int OBVIOUS
    <3> QED BY <2>5, <3>1, SumIsInt
  <2>9. SumFunctionOnSet(f, U \ {x}) = SumFunctionOnSet(f, U \cap T) BY <2>3, <2>4
  <2>10. Agrees(U) BY <2>6, <2>7, <2>8, <2>9
  <2> QED BY <2>1, <2>10
<1>2. Agrees(S) BY <1>1
<1>3. S \cap T = T OBVIOUS
<1> QED BY <1>2, <1>3

\* A constant factor can be taken out.
LEMMA SumOfScaled ==
  ASSUME NEW f, NEW g, NEW S, IsFiniteSet(S), NEW c \in Int,
         \A x \in S : f[x] \in Int /\ g[x] = c * f[x]
  PROVE  SumFunctionOnSet(g, S) = c * SumFunctionOnSet(f, S)
<1> DEFINE Scales(T) == SumFunctionOnSet(g, T) = c * SumFunctionOnSet(f, T)
           C == {T \in SUBSET S : ~Scales(T)}
<1> SUFFICES ASSUME C # {} PROVE FALSE OBVIOUS
<1>1. PICK T \in C : \A U \in C : U \subseteq T => U = T
  <2>1. C \in SUBSET (SUBSET S) OBVIOUS
  <2> HIDE DEF C
  <2> QED BY <2>1, SmallestSubset
<1>2. T # {}
  <2>1. Scales({}) BY SumOfNone
  <2> QED BY <1>1, <2>1
<1>3. First(T) \in S /\ Rest(T) \in SUBSET S /\ Rest(T) \subseteq T /\ Rest(T) # T
  BY <1>1, <1>2, FirstAndRest
<1>4. SumFunctionOnSet(g, Rest(T)) = c * SumFunctionOnSet(f, Rest(T))
  BY <1>1, <1>3
<1>5. IsFiniteSet(T) /\ IsFiniteSet(Rest(T)) BY <1>1, <1>3, FS_Subset
<1>6. /\ SumFunctionOnSet(f, T) = f[First(T)] + SumFunctionOnSet(f, Rest(T))
      /\ SumFunctionOnSet(g, T) = g[First(T)] + SumFunctionOnSet(g, Rest(T))
  BY <1>2, <1>5, SumUnfolds
<1>7. SumFunctionOnSet(f, Rest(T)) \in Int
  <2>1. \A x \in Rest(T) : f[x] \in Int BY <1>3
  <2> QED BY <1>5, <2>1, SumIsInt
<1>8. ASSUME NEW a \in Int, NEW b \in Int PROVE c * (a + b) = c * a + c * b
  OBVIOUS
<1>9. g[First(T)] = c * f[First(T)] /\ f[First(T)] \in Int BY <1>3
<1>10. Scales(T) BY <1>4, <1>6, <1>7, <1>8, <1>9
<1> QED BY <1>1, <1>10

\* What disjoint parts of a whole are worth, each rounded down, is no more than
\* what the whole is worth.
LEMMA SumOfShares ==
  ASSUME NEW f, NEW g, NEW S, IsFiniteSet(S),
         NEW value \in Nat, NEW whole \in Nat, whole > 0,
         \A x \in S : f[x] \in Nat /\ g[x] = (f[x] * value) \div whole,
         SumFunctionOnSet(f, S) <= whole
  PROVE  SumFunctionOnSet(g, S) <= value
<1> DEFINE scaled == [x \in S |-> whole * g[x]]
           worth == [x \in S |-> value * f[x]]
<1>1. ASSUME NEW x \in S
      PROVE  /\ g[x] \in Nat
             /\ value * f[x] \in Nat
             /\ whole * g[x] \in Nat
             /\ whole * g[x] <= value * f[x]
  <2>1. f[x] * value \in Nat /\ f[x] * value = value * f[x] OBVIOUS
  <2>2. ASSUME NEW n \in Nat
        PROVE  n \div whole \in Nat /\ whole * (n \div whole) \in Nat
               /\ whole * (n \div whole) <= n
    OBVIOUS
  <2> QED BY <2>1, <2>2
<1>2. SumFunctionOnSet(scaled, S) <= SumFunctionOnSet(worth, S)
  <2>1. \A x \in S : scaled[x] \in Int /\ worth[x] \in Int /\ scaled[x] <= worth[x]
    BY <1>1
  <2> HIDE DEF scaled, worth
  <2> QED BY <2>1, SumIsMonotonic
<1>3. SumFunctionOnSet(scaled, S) = whole * SumFunctionOnSet(g, S)
  <2>1. \A x \in S : g[x] \in Int /\ scaled[x] = whole * g[x] BY <1>1
  <2> HIDE DEF scaled
  <2> QED BY <2>1, SumOfScaled
<1>4. SumFunctionOnSet(worth, S) = value * SumFunctionOnSet(f, S)
  <2>1. \A x \in S : f[x] \in Int /\ worth[x] = value * f[x] OBVIOUS
  <2> HIDE DEF worth
  <2> QED BY <2>1, SumOfScaled
<1>5. SumFunctionOnSet(f, S) \in Nat /\ SumFunctionOnSet(g, S) \in Nat
  BY <1>1, SumIsNat
<1>6. ASSUME NEW m \in Nat, NEW n \in Nat, m <= whole, whole * n <= value * m
      PROVE  n <= value
  <2>1. value * m <= value * whole BY <1>6
  <2>2. whole * n <= whole * value
    <3>1. whole * n \in Nat /\ value * m \in Nat /\ value * whole \in Nat
          /\ value * whole = whole * value
      OBVIOUS
    <3> QED BY <1>6, <2>1, <3>1
  <2>3. ASSUME n > value PROVE whole * n >= whole * value + whole
    <3>1. n >= value + 1 BY <2>3
    <3>2. whole * n >= whole * (value + 1) BY <3>1
    <3>3. whole * (value + 1) = whole * value + whole OBVIOUS
    <3> QED BY <3>2, <3>3
  <2>4. whole * n \in Nat /\ whole * value \in Nat OBVIOUS
  <2> QED BY <2>2, <2>3, <2>4
<1> HIDE DEF scaled, worth
<1> QED BY <1>2, <1>3, <1>4, <1>5, <1>6

=============================================================================
