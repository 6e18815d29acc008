---------------------------- MODULE SumTheorems -----------------------------
(***************************************************************************)
(* Facts about the sums of the community modules, SumFunctionOnSet,        *)
(* FoldFunction(+, 0, f) and SumSet, over finite sets of integers.  They   *)
(* are folds, which take their elements in the order CHOOSE gives: that    *)
(* the order does not matter is proved here, by looking at a smallest set  *)
(* for which it would.                                                     *)
(***************************************************************************)
EXTENDS Integers, FiniteSets, FiniteSetsExt, FiniteSetTheorems,
        WellFoundedInduction, TLAPS

(* Induction with a set G for the property that is proved: over the        *)
(* natural numbers,                                                        *)
LEMMA NatInductionIn ==
  ASSUME NEW G, 0 \in G, \A n \in Nat : n \in G => n + 1 \in G
  PROVE  Nat \subseteq G
<1> SUFFICES ASSUME NEW z \in Nat, z \notin G PROVE FALSE
  OBVIOUS
<1> SUFFICES ASSUME NEW W, W = Nat \ G PROVE FALSE
  OBVIOUS
<1>1. W \subseteq Nat /\ W # {}
  OBVIOUS
<1>2. PICK m \in W : \A k \in W : ~ (<<k, m>> \in OpToRel(<, Nat))
  BY <1>1, NatLessThanWellFounded, WFMin
<1>3. \A k \in W : ~ (k < m)
  BY <1>1, <1>2, Zenon DEF OpToRel
<1>4. m \in Nat /\ m # 0 /\ m - 1 \in Nat /\ m - 1 < m
  OBVIOUS
<1>5. m - 1 \in G
  BY <1>3, <1>4
<1>6. (m - 1) + 1 \in G
  BY <1>4, <1>5
<1> QED
  BY <1>4, <1>6

(* and over the subsets of a finite set, from the smaller to the larger.   *)
LEMMA SubsetInduction ==
  ASSUME NEW S, IsFiniteSet(S), NEW G,
         \A s \in SUBSET S : (\A u \in SUBSET s : u # s => u \in G) => s \in G
  PROVE  SUBSET S \subseteq G
<1>1. FiniteSubsetsOf(S) = SUBSET S
  BY FS_FiniteSubsetsOfFinite
<1>2. IsWellFoundedOn(StrictSubsetOrdering(S), SUBSET S)
  BY <1>1, FS_StrictSubsetOrderingWellFounded
<1> SUFFICES ASSUME NEW z \in SUBSET S, z \notin G PROVE FALSE
  OBVIOUS
<1> SUFFICES ASSUME NEW W, W = (SUBSET S) \ G PROVE FALSE
  OBVIOUS
<1>0. W \subseteq SUBSET S /\ W # {}
  OBVIOUS
<1>3. PICK s \in W : \A u \in W : ~ (<<u, s>> \in StrictSubsetOrdering(S))
  BY <1>0, <1>2, WFMin
<1>4. ASSUME NEW u \in SUBSET s, u # s, u \notin G PROVE FALSE
  <2>1. u \in W /\ <<u, s>> \in (SUBSET S) \X (SUBSET S)
    BY <1>4
  <2>2. <<u, s>> \in StrictSubsetOrdering(S)
    BY <1>4, <2>1 DEF StrictSubsetOrdering
  <2> QED
    BY <1>3, <2>1, <2>2
<1> QED
  BY <1>4

-----------------------------------------------------------------------------
(* The element a fold takes first, and what it then does with the rest.    *)
First(s) == CHOOSE x \in s : TRUE

AddsUp(it, f, S) ==
  it = [s \in SUBSET S |-> IF s = {} THEN 0 ELSE f[First(s)] + it[s \ {First(s)}]]

LEMMA FirstIn ==
  ASSUME NEW s, s # {}
  PROVE  First(s) \in s
BY DEF First

LEMMA FirstOut ==
  ASSUME NEW S, NEW s \in SUBSET S, s # {}
  PROVE  /\ First(s) \in s /\ First(s) \in S
         /\ s \ {First(s)} \in SUBSET S /\ s \ {First(s)} # s
         /\ s \ {First(s)} \in SUBSET s
BY FirstIn

(* There is a function as the fold defines it.                             *)
AddsUpTo(it, f, S, n) ==
  \A s \in SUBSET S : Cardinality(s) <= n =>
    it[s] = IF s = {} THEN 0 ELSE f[First(s)] + it[s \ {First(s)}]

LEMMA AddsUpToExists ==
  ASSUME NEW f, NEW S, IsFiniteSet(S)
  PROVE  \A n \in Nat : \E it : AddsUpTo(it, f, S, n)
<1> DEFINE G == {n \in Nat : \E it : AddsUpTo(it, f, S, n)}
<1>1. \A s \in SUBSET S : IsFiniteSet(s) /\ Cardinality(s) \in Nat
  BY FS_Subset, FS_CardinalityType
<1>2. \E it : AddsUpTo(it, f, S, 0)
  <2>1. \A s \in SUBSET S : Cardinality(s) <= 0 => s = {}
    BY <1>1, FS_EmptySet
  <2>2. AddsUpTo([s \in SUBSET S |-> 0], f, S, 0)
    BY <2>1 DEF AddsUpTo
  <2> QED
    BY <2>2
<1>3. ASSUME NEW n \in Nat, NEW it, AddsUpTo(it, f, S, n)
      PROVE  \E jt : AddsUpTo(jt, f, S, n + 1)
  <2> DEFINE jt == [s \in SUBSET S |-> IF s = {} THEN 0 ELSE f[First(s)] + it[s \ {First(s)}]]
  <2>1. ASSUME NEW s \in SUBSET S, Cardinality(s) <= n + 1, s # {}
        PROVE  jt[s \ {First(s)}] = it[s \ {First(s)}]
    <3>1. First(s) \in s /\ s \ {First(s)} \in SUBSET S
      BY <2>1, FirstOut
    <3>2. IsFiniteSet(s) /\ Cardinality(s) \in Nat
      BY <1>1
    <3>3. Cardinality(s \ {First(s)}) = Cardinality(s) - 1
      BY <3>1, <3>2, FS_RemoveElement
    <3>4. Cardinality(s \ {First(s)}) <= n
      BY <3>3, <3>2, <2>1
    <3> SUFFICES ASSUME NEW r \in SUBSET S, r = s \ {First(s)}
                 PROVE  jt[r] = it[r]
      BY <3>1
    <3>5. it[r] = IF r = {} THEN 0 ELSE f[First(r)] + it[r \ {First(r)}]
      BY <1>3, <3>4 DEF AddsUpTo
    <3> QED
      BY <3>5
  <2>2. AddsUpTo(jt, f, S, n + 1)
    BY <2>1 DEF AddsUpTo
  <2> QED
    BY <2>2
<1>4. 0 \in G /\ \A n \in Nat : n \in G => n + 1 \in G
  BY <1>2, <1>3
<1>5. Nat \subseteq G
  <2> HIDE DEF G
  <2> QED
    BY <1>4, NatInductionIn
<1> QED
  BY <1>5

LEMMA AddsUpExists ==
  ASSUME NEW f, NEW S, IsFiniteSet(S)
  PROVE  \E it : AddsUp(it, f, S)
<1>1. Cardinality(S) \in Nat
  BY FS_CardinalityType
<1>2. PICK it : AddsUpTo(it, f, S, Cardinality(S))
  BY <1>1, AddsUpToExists
<1>3. \A s \in SUBSET S : Cardinality(s) <= Cardinality(S)
  BY FS_Subset
<1> DEFINE jt == [s \in SUBSET S |-> it[s]]
<1>4. ASSUME NEW s \in SUBSET S
      PROVE  jt[s] = IF s = {} THEN 0 ELSE f[First(s)] + jt[s \ {First(s)}]
  <2>1. it[s] = IF s = {} THEN 0 ELSE f[First(s)] + it[s \ {First(s)}]
    BY <1>2, <1>3 DEF AddsUpTo
  <2>2. s # {} => jt[s \ {First(s)}] = it[s \ {First(s)}]
    BY FirstOut
  <2> QED
    BY <2>1, <2>2
<1>5. AddsUp(jt, f, S)
  BY <1>4 DEF AddsUp
<1> QED
  BY <1>5

(* Its values are integers, when those of f are.                           *)
LEMMA AddsUpType ==
  ASSUME NEW f, NEW S, IsFiniteSet(S), \A x \in S : f[x] \in Int,
         NEW it, AddsUp(it, f, S)
  PROVE  \A s \in SUBSET S : it[s] \in Int
<1> DEFINE G == {s \in SUBSET S : it[s] \in Int}
<1>1. ASSUME NEW s \in SUBSET S, \A u \in SUBSET s : u # s => u \in G
      PROVE  it[s] \in Int
  <2>1. /\ s = {} => it[s] = 0
        /\ s # {} => it[s] = f[First(s)] + it[s \ {First(s)}]
    BY DEF AddsUp
  <2>2. s # {} => First(s) \in S /\ it[s \ {First(s)}] \in Int
    BY <1>1, FirstOut
  <2> QED
    BY <2>1, <2>2
<1>2. \A s \in SUBSET S : (\A u \in SUBSET s : u # s => u \in G) => s \in G
  BY <1>1
<1>3. SUBSET S \subseteq G
  <2> HIDE DEF G
  <2> QED
    BY <1>2, SubsetInduction
<1> QED
  BY <1>3

(* Functions that agree on a set add up to the same over its subsets.      *)
LEMMA AddsUpAgree ==
  ASSUME NEW f, NEW S, NEW it, AddsUp(it, f, S),
         NEW g, NEW T, NEW jt, AddsUp(jt, g, T),
         T \subseteq S, IsFiniteSet(T), \A x \in T : f[x] = g[x]
  PROVE  \A s \in SUBSET T : it[s] = jt[s]
<1> DEFINE G == {s \in SUBSET T : it[s] = jt[s]}
<1>1. ASSUME NEW s \in SUBSET T, \A u \in SUBSET s : u # s => u \in G
      PROVE  it[s] = jt[s]
  <2>1. /\ s = {} => it[s] = 0
        /\ s # {} => it[s] = f[First(s)] + it[s \ {First(s)}]
    BY DEF AddsUp
  <2>2. /\ s = {} => jt[s] = 0
        /\ s # {} => jt[s] = g[First(s)] + jt[s \ {First(s)}]
    BY DEF AddsUp
  <2>3. s # {} => /\ First(s) \in T
                  /\ it[s \ {First(s)}] = jt[s \ {First(s)}]
    BY <1>1, FirstOut
  <2> QED
    BY <2>1, <2>2, <2>3
<1>2. \A s \in SUBSET T : (\A u \in SUBSET s : u # s => u \in G) => s \in G
  BY <1>1
<1>3. SUBSET T \subseteq G
  <2> HIDE DEF G
  <2> QED
    BY <1>2, SubsetInduction
<1> QED
  BY <1>3

(* Any element may be taken first.                                         *)
AnyFirst(it, f, S) ==
  \A s \in SUBSET S : \A y \in s : it[s] = f[y] + it[s \ {y}]

LEMMA AddsUpAny ==
  ASSUME NEW f, NEW S, IsFiniteSet(S), \A x \in S : f[x] \in Int,
         NEW it, AddsUp(it, f, S)
  PROVE  AnyFirst(it, f, S)
<1> DEFINE G == {s \in SUBSET S : \A y \in s : it[s] = f[y] + it[s \ {y}]}
<1>1. ASSUME NEW s \in SUBSET S, \A u \in SUBSET s : u # s => u \in G, NEW y \in s
      PROVE  it[s] = f[y] + it[s \ {y}]
  <2> SUFFICES ASSUME NEW c, c = First(s) PROVE it[s] = f[y] + it[s \ {y}]
    OBVIOUS
  <2>1. c \in s /\ it[s] = f[c] + it[s \ {c}]
    BY FirstIn DEF AddsUp
  <2>2. CASE c = y
    BY <2>1, <2>2
  <2>3. CASE c # y
    <3>1. it[s \ {c}] = f[y] + it[(s \ {c}) \ {y}]
      <4>1. s \ {c} \in SUBSET s /\ s \ {c} # s /\ y \in s \ {c}
        BY <2>1, <2>3
      <4> QED
        BY <1>1, <4>1
    <3>2. it[s \ {y}] = f[c] + it[(s \ {y}) \ {c}]
      <4>1. s \ {y} \in SUBSET s /\ s \ {y} # s /\ c \in s \ {y}
        BY <2>1, <2>3
      <4> QED
        BY <1>1, <4>1
    <3>3. (s \ {c}) \ {y} = (s \ {y}) \ {c}
      OBVIOUS
    <3>4. it[(s \ {c}) \ {y}] \in Int
      <4>1. (s \ {c}) \ {y} \in SUBSET S
        OBVIOUS
      <4> QED
        BY <4>1, AddsUpType
    <3>5. f[c] \in Int /\ f[y] \in Int
      BY <2>1
    <3>6. it[s] = f[c] + (f[y] + it[(s \ {c}) \ {y}])
      BY <2>1, <3>1
    <3>7. it[s \ {y}] = f[c] + it[(s \ {c}) \ {y}]
      BY <3>2, <3>3
    <3> QED
      BY <3>4, <3>5, <3>6, <3>7
  <2> QED
    BY <2>2, <2>3
<1>2. \A s \in SUBSET S : (\A u \in SUBSET s : u # s => u \in G) => s \in G
  BY <1>1
<1>3. SUBSET S \subseteq G
  <2> HIDE DEF G
  <2> QED
    BY <1>2, SubsetInduction
<1> QED
  BY <1>3 DEF AnyFirst

-----------------------------------------------------------------------------
(* The sum of a function over a finite set is the value of such a function. *)
LEMMA SumAddsUp ==
  ASSUME NEW f, NEW S, IsFiniteSet(S)
  PROVE  \E it : AddsUp(it, f, S) /\ SumFunctionOnSet(f, S) = it[S]
<1>1. SumFunctionOnSet(f, S) = (CHOOSE it : AddsUp(it, f, S))[S]
  BY Zenon DEF SumFunctionOnSet, FoldFunctionOnSet, MapThenFoldSet, AddsUp, First
<1>2. AddsUp(CHOOSE it : AddsUp(it, f, S), f, S)
  BY AddsUpExists
<1> QED
  BY <1>1, <1>2

LEMMA SumEmpty ==
  ASSUME NEW f
  PROVE  SumFunctionOnSet(f, {}) = 0
<1>1. IsFiniteSet({}) /\ {} \in SUBSET {}
  BY FS_EmptySet
<1>2. PICK it : AddsUp(it, f, {}) /\ SumFunctionOnSet(f, {}) = it[{}]
  BY <1>1, SumAddsUp
<1> QED
  BY <1>1, <1>2 DEF AddsUp

LEMMA SumType ==
  ASSUME NEW f, NEW S, IsFiniteSet(S), \A x \in S : f[x] \in Int
  PROVE  SumFunctionOnSet(f, S) \in Int
<1>1. PICK it : AddsUp(it, f, S) /\ SumFunctionOnSet(f, S) = it[S]
  BY SumAddsUp
<1> QED
  BY <1>1, AddsUpType

LEMMA SumAgree ==
  ASSUME NEW f, NEW g, NEW S, IsFiniteSet(S), \A x \in S : f[x] = g[x]
  PROVE  SumFunctionOnSet(f, S) = SumFunctionOnSet(g, S)
<1>1. PICK it : AddsUp(it, f, S) /\ SumFunctionOnSet(f, S) = it[S]
  BY SumAddsUp
<1>2. PICK jt : AddsUp(jt, g, S) /\ SumFunctionOnSet(g, S) = jt[S]
  BY SumAddsUp
<1>3. \A s \in SUBSET S : it[s] = jt[s]
  BY <1>1, <1>2, AddsUpAgree
<1> QED
  BY <1>1, <1>2, <1>3

(* The sum without one of the elements, *)
LEMMA SumRemove ==
  ASSUME NEW f, NEW S, IsFiniteSet(S), \A x \in S : f[x] \in Int, NEW y \in S
  PROVE  SumFunctionOnSet(f, S) = f[y] + SumFunctionOnSet(f, S \ {y})
<1> SUFFICES ASSUME NEW T, T = S \ {y}
             PROVE  SumFunctionOnSet(f, S) = f[y] + SumFunctionOnSet(f, T)
  OBVIOUS
<1>0. T \in SUBSET S /\ T \subseteq S /\ IsFiniteSet(T)
  BY FS_Subset
<1>1. PICK it : AddsUp(it, f, S) /\ SumFunctionOnSet(f, S) = it[S]
  BY SumAddsUp
<1>2. PICK jt : AddsUp(jt, f, T) /\ SumFunctionOnSet(f, T) = jt[T]
  BY <1>0, SumAddsUp
<1>3. it[T] = jt[T]
  <2>1. \A s \in SUBSET T : it[s] = jt[s]
    BY <1>0, <1>1, <1>2, AddsUpAgree
  <2> QED
    BY <2>1
<1>4. it[S] = f[y] + it[S \ {y}]
  <2>1. AnyFirst(it, f, S)
    BY <1>1, AddsUpAny
  <2>2. S \in SUBSET S
    OBVIOUS
  <2> QED
    BY <2>1, <2>2, Zenon DEF AnyFirst
<1> QED
  BY <1>1, <1>2, <1>3, <1>4, Zenon

(* and with one more. *)
LEMMA SumAdd ==
  ASSUME NEW f, NEW S, IsFiniteSet(S), NEW y, y \notin S,
         \A x \in S \cup {y} : f[x] \in Int
  PROVE  SumFunctionOnSet(f, S \cup {y}) = f[y] + SumFunctionOnSet(f, S)
<1> SUFFICES ASSUME NEW T, T = S \cup {y}
             PROVE  SumFunctionOnSet(f, T) = f[y] + SumFunctionOnSet(f, S)
  OBVIOUS
<1>1. IsFiniteSet(T) /\ y \in T /\ S = T \ {y} /\ \A x \in T : f[x] \in Int
  BY FS_AddElement
<1>2. SumFunctionOnSet(f, T) = f[y] + SumFunctionOnSet(f, T \ {y})
  BY <1>1, SumRemove
<1> QED
  BY <1>1, <1>2, Zenon

(* What a change of one value does to the sum. *)
LEMMA SumChange ==
  ASSUME NEW f, NEW g, NEW S, IsFiniteSet(S), NEW y \in S,
         \A x \in S : f[x] \in Int /\ g[x] \in Int,
         \A x \in S \ {y} : f[x] = g[x]
  PROVE  SumFunctionOnSet(g, S) = (SumFunctionOnSet(f, S) - f[y]) + g[y]
<1> SUFFICES ASSUME NEW T, T = S \ {y}
             PROVE  SumFunctionOnSet(g, S) = (SumFunctionOnSet(f, S) - f[y]) + g[y]
  OBVIOUS
<1>1. IsFiniteSet(T) /\ \A x \in T : f[x] \in Int /\ f[x] = g[x]
  BY FS_Subset
<1>2. /\ SumFunctionOnSet(f, S) = f[y] + SumFunctionOnSet(f, T)
      /\ SumFunctionOnSet(g, S) = g[y] + SumFunctionOnSet(g, T)
  BY SumRemove
<1>3. SumFunctionOnSet(f, T) = SumFunctionOnSet(g, T)
  BY <1>1, SumAgree
<1>4. SumFunctionOnSet(f, T) \in Int
  BY <1>1, SumType
<1>5. f[y] \in Int /\ g[y] \in Int
  OBVIOUS
<1> QED
  BY <1>2, <1>3, <1>4, <1>5

(* A sum of larger numbers is larger. *)
LEMMA SumMonotone ==
  ASSUME NEW f, NEW g, NEW S, IsFiniteSet(S),
         \A x \in S : f[x] \in Int /\ g[x] \in Int /\ f[x] <= g[x]
  PROVE  SumFunctionOnSet(f, S) <= SumFunctionOnSet(g, S)
<1> DEFINE G == {s \in SUBSET S : SumFunctionOnSet(f, s) <= SumFunctionOnSet(g, s)}
<1>1. ASSUME NEW s \in SUBSET S, \A u \in SUBSET s : u # s => u \in G
      PROVE  SumFunctionOnSet(f, s) <= SumFunctionOnSet(g, s)
  <2>1. CASE s = {}
    BY <2>1, SumEmpty
  <2>2. CASE s # {}
    <3> PICK y \in s : TRUE
      BY <2>2
    <3> SUFFICES ASSUME NEW u, u = s \ {y}
                 PROVE  SumFunctionOnSet(f, s) <= SumFunctionOnSet(g, s)
      OBVIOUS
    <3>1. IsFiniteSet(s) /\ IsFiniteSet(u) /\ u \in SUBSET s /\ u # s
      BY FS_Subset
    <3>2. SumFunctionOnSet(f, u) <= SumFunctionOnSet(g, u)
      BY <1>1, <3>1
    <3>3. SumFunctionOnSet(f, s) = f[y] + SumFunctionOnSet(f, u)
      BY <3>1, SumRemove
    <3>4. SumFunctionOnSet(g, s) = g[y] + SumFunctionOnSet(g, u)
      BY <3>1, SumRemove
    <3>5. SumFunctionOnSet(f, u) \in Int /\ SumFunctionOnSet(g, u) \in Int
      BY <3>1, SumType
    <3>6. f[y] \in Int /\ g[y] \in Int /\ f[y] <= g[y]
      OBVIOUS
    <3> QED
      BY <3>2, <3>3, <3>4, <3>5, <3>6
  <2> QED
    BY <2>1, <2>2
<1>2. \A s \in SUBSET S : (\A u \in SUBSET s : u # s => u \in G) => s \in G
  BY <1>1
<1>3. SUBSET S \subseteq G
  <2> HIDE DEF G
  <2> QED
    BY <1>2, SubsetInduction
<1> QED
  BY <1>3

(* The sum of zeros, *)
LEMMA SumZero ==
  ASSUME NEW f, NEW S, IsFiniteSet(S), \A x \in S : f[x] = 0
  PROVE  SumFunctionOnSet(f, S) = 0
<1> DEFINE G == {s \in SUBSET S : SumFunctionOnSet(f, s) = 0}
<1>1. ASSUME NEW s \in SUBSET S, \A u \in SUBSET s : u # s => u \in G
      PROVE  SumFunctionOnSet(f, s) = 0
  <2>1. CASE s = {}
    BY <2>1, SumEmpty
  <2>2. CASE s # {}
    <3> PICK y \in s : TRUE
      BY <2>2
    <3> SUFFICES ASSUME NEW u, u = s \ {y}
                 PROVE  SumFunctionOnSet(f, s) = 0
      OBVIOUS
    <3>1. IsFiniteSet(s) /\ u \in SUBSET s /\ u # s
      BY FS_Subset
    <3>2. SumFunctionOnSet(f, u) = 0
      BY <1>1, <3>1
    <3>3. SumFunctionOnSet(f, s) = f[y] + SumFunctionOnSet(f, u)
      BY <3>1, SumRemove
    <3> QED
      BY <3>2, <3>3
  <2> QED
    BY <2>1, <2>2
<1>2. \A s \in SUBSET S : (\A u \in SUBSET s : u # s => u \in G) => s \in G
  BY <1>1
<1>3. SUBSET S \subseteq G
  <2> HIDE DEF G
  <2> QED
    BY <1>2, SubsetInduction
<1> QED
  BY <1>3

(* which may as well be left out of another sum,                           *)
LEMMA SumSkipsZeros ==
  ASSUME NEW f, NEW T, IsFiniteSet(T), \A x \in T : f[x] \in Int,
         NEW R, IsFiniteSet(R), \A x \in R : f[x] = 0
  PROVE  SumFunctionOnSet(f, T \cup R) = SumFunctionOnSet(f, T)
<1> DEFINE G == {s \in SUBSET R : SumFunctionOnSet(f, T \cup s) = SumFunctionOnSet(f, T)}
<1>1. ASSUME NEW s \in SUBSET R, \A u \in SUBSET s : u # s => u \in G
      PROVE  SumFunctionOnSet(f, T \cup s) = SumFunctionOnSet(f, T)
  <2>1. CASE s \subseteq T
    <3>1. T \cup s = T
      BY <2>1
    <3> QED
      BY <3>1
  <2>2. CASE ~ s \subseteq T
    <3> PICK y \in s : y \notin T
      BY <2>2
    <3> SUFFICES ASSUME NEW u, u = s \ {y}, NEW V, V = T \cup u
                 PROVE  SumFunctionOnSet(f, T \cup s) = SumFunctionOnSet(f, T)
      OBVIOUS
    <3>1. u \in SUBSET s /\ u # s /\ u \in SUBSET R
      OBVIOUS
    <3>2. SumFunctionOnSet(f, V) = SumFunctionOnSet(f, T)
      BY <1>1, <3>1
    <3>3. T \cup s = V \cup {y} /\ y \notin V
      OBVIOUS
    <3>4. IsFiniteSet(V)
      BY <3>1, FS_Subset, FS_Union
    <3>5. \A x \in V \cup {y} : f[x] \in Int
      BY <3>1
    <3>6. SumFunctionOnSet(f, V \cup {y}) = f[y] + SumFunctionOnSet(f, V)
      BY <3>3, <3>4, <3>5, SumAdd
    <3>7. f[y] = 0
      OBVIOUS
    <3>8. SumFunctionOnSet(f, V) \in Int
      BY <3>4, <3>5, SumType
    <3> QED
      BY <3>2, <3>3, <3>6, <3>7, <3>8
  <2> QED
    BY <2>1, <2>2
<1>2. \A s \in SUBSET R : (\A u \in SUBSET s : u # s => u \in G) => s \in G
  BY <1>1
<1>3. SUBSET R \subseteq G
  <2> HIDE DEF G
  <2> QED
    BY <1>2, SubsetInduction
<1> QED
  BY <1>3

(* and of the first n numbers of at most b each. *)
LEMMA SumAtMost ==
  ASSUME NEW f, NEW b \in Nat, NEW N \in Nat,
         \A x \in 0 .. N - 1 : f[x] \in 0 .. b
  PROVE  SumFunctionOnSet(f, 0 .. N - 1) \in 0 .. N * b
<1> DEFINE G == {n \in Nat : n <= N => SumFunctionOnSet(f, 0 .. n - 1) \in 0 .. n * b}
<1>1. SumFunctionOnSet(f, 0 .. 0 - 1) \in 0 .. 0 * b
  <2>1. 0 .. 0 - 1 = {} /\ 0 * b = 0
    OBVIOUS
  <2> QED
    BY <2>1, SumEmpty
<1>2. ASSUME NEW n \in Nat, n + 1 <= N,
             SumFunctionOnSet(f, 0 .. n - 1) \in 0 .. n * b
      PROVE  SumFunctionOnSet(f, 0 .. (n + 1) - 1) \in 0 .. (n + 1) * b
  <2>1. (n + 1) * b = n * b + b /\ n * b \in Nat
    OBVIOUS
  <2>2. 0 .. (n + 1) - 1 = (0 .. n - 1) \cup {n} /\ n \notin 0 .. n - 1
    OBVIOUS
  <2>3. IsFiniteSet(0 .. n - 1)
    BY FS_Interval
  <2>4. \A x \in (0 .. n - 1) \cup {n} : f[x] \in Int
    BY <1>2
  <2>5. SumFunctionOnSet(f, (0 .. n - 1) \cup {n}) = f[n] + SumFunctionOnSet(f, 0 .. n - 1)
    BY <2>2, <2>3, <2>4, SumAdd
  <2>6. f[n] \in 0 .. b
    BY <1>2
  <2> SUFFICES ASSUME NEW c \in Nat, c = n * b,
                      NEW v, v = SumFunctionOnSet(f, 0 .. n - 1)
               PROVE  f[n] + v \in 0 .. c + b
    BY <2>1, <2>2, <2>5
  <2>7. v \in 0 .. c
    BY <1>2
  <2> QED
    BY <2>6, <2>7
<1>3. 0 \in G /\ \A n \in Nat : n \in G => n + 1 \in G
  BY <1>1, <1>2
<1>4. Nat \subseteq G
  <2> HIDE DEF G
  <2> QED
    BY <1>3, NatInductionIn
<1> QED
  BY <1>4

-----------------------------------------------------------------------------
(* The fold by which the modules add up a function is the same sum.        *)
LEMMA FoldIsSum ==
  ASSUME NEW f
  PROVE  FoldFunction(+, 0, f) = SumFunctionOnSet(f, DOMAIN f)
BY DEF SumFunctionOnSet, FoldFunction

(* A fold by + that starts from a number adds it to the sum.               *)
StartsFrom(it, c, f, S) ==
  it = [s \in SUBSET S |-> IF s = {} THEN c ELSE f[First(s)] + it[s \ {First(s)}]]

LEMMA StartsFromExists ==
  ASSUME NEW f, NEW S, IsFiniteSet(S), \A x \in S : f[x] \in Int, NEW c \in Int
  PROVE  \E it : StartsFrom(it, c, f, S)
<1>1. PICK it : AddsUp(it, f, S)
  BY AddsUpExists
<1>2. \A s \in SUBSET S : it[s] \in Int
  BY <1>1, AddsUpType
<1> DEFINE jt == [s \in SUBSET S |-> c + it[s]]
<1>3. ASSUME NEW s \in SUBSET S
      PROVE  jt[s] = IF s = {} THEN c ELSE f[First(s)] + jt[s \ {First(s)}]
  <2>1. CASE s = {}
    <3>1. it[s] = 0
      BY <1>1, <2>1 DEF AddsUp
    <3> QED
      BY <2>1, <3>1
  <2>2. CASE s # {}
    <3> SUFFICES ASSUME NEW x \in S, x = First(s), NEW r \in SUBSET S, r = s \ {x}
                 PROVE  c + it[s] = f[x] + (c + it[r])
      <4>1. First(s) \in S /\ s \ {First(s)} \in SUBSET S
        BY <2>2, FirstOut
      <4> QED
        BY <2>2, <4>1
    <3>1. it[s] = f[x] + it[r]
      BY <1>1, <2>2 DEF AddsUp
    <3>2. it[r] \in Int /\ f[x] \in Int
      BY <1>2
    <3> QED
      BY <3>1, <3>2
  <2> QED
    BY <2>1, <2>2
<1>4. StartsFrom(jt, c, f, S)
  BY <1>3 DEF StartsFrom
<1> QED
  BY <1>4

LEMMA FoldFrom ==
  ASSUME NEW f, NEW S, IsFiniteSet(S), \A x \in S : f[x] \in Int, NEW c \in Int
  PROVE  FoldFunctionOnSet(+, c, f, S) = c + SumFunctionOnSet(f, S)
<1>1. FoldFunctionOnSet(+, c, f, S) = (CHOOSE it : StartsFrom(it, c, f, S))[S]
  BY Zenon DEF FoldFunctionOnSet, MapThenFoldSet, StartsFrom, First
<1>2. PICK jt : StartsFrom(jt, c, f, S) /\ FoldFunctionOnSet(+, c, f, S) = jt[S]
  <2>1. StartsFrom(CHOOSE it : StartsFrom(it, c, f, S), c, f, S)
    BY StartsFromExists
  <2> QED
    BY <1>1, <2>1
<1>3. PICK it : AddsUp(it, f, S) /\ SumFunctionOnSet(f, S) = it[S]
  BY SumAddsUp
<1>4. \A s \in SUBSET S : it[s] \in Int
  BY <1>3, AddsUpType
<1> DEFINE G == {s \in SUBSET S : jt[s] = c + it[s]}
<1>5. ASSUME NEW s \in SUBSET S, \A u \in SUBSET s : u # s => u \in G
      PROVE  jt[s] = c + it[s]
  <2>1. CASE s = {}
    <3>1. jt[s] = c /\ it[s] = 0
      BY <1>2, <1>3, <2>1 DEF AddsUp, StartsFrom
    <3> QED
      BY <3>1
  <2>2. CASE s # {}
    <3>1. First(s) \in S /\ s \ {First(s)} \in SUBSET S /\ s \ {First(s)} \in SUBSET s
          /\ s \ {First(s)} # s
      BY <2>2, FirstOut
    <3>2. jt[s \ {First(s)}] = c + it[s \ {First(s)}]
      BY <1>5, <3>1
    <3> SUFFICES ASSUME NEW x \in S, x = First(s), NEW r \in SUBSET S, r = s \ {First(s)}
                 PROVE  jt[s] = c + it[s]
      BY <3>1
    <3>3. jt[s] = f[x] + jt[r] /\ it[s] = f[x] + it[r]
      BY <1>2, <1>3, <2>2 DEF AddsUp, StartsFrom
    <3>4. it[r] \in Int /\ f[x] \in Int
      BY <1>4
    <3> QED
      BY <3>2, <3>3, <3>4
  <2> QED
    BY <2>1, <2>2
<1>6. \A s \in SUBSET S : (\A u \in SUBSET s : u # s => u \in G) => s \in G
  BY <1>5
<1>7. SUBSET S \subseteq G
  <2> HIDE DEF G
  <2> QED
    BY <1>6, SubsetInduction
<1> QED
  BY <1>2, <1>3, <1>7

(* SumSet is the sum of the identity. *)
LEMMA SumSetIsSum ==
  ASSUME NEW S, IsFiniteSet(S)
  PROVE  SumSet(S) = SumFunctionOnSet([x \in S |-> x], S)
<1> SUFFICES ASSUME NEW f, f = [x \in S |-> x]
             PROVE  SumSet(S) = SumFunctionOnSet(f, S)
  OBVIOUS
<1> DEFINE A(it) == it = [s \in SUBSET S |-> IF s = {} THEN 0
                                             ELSE First(s) + it[s \ {First(s)}]]
<1>1. SumSet(S) = (CHOOSE it : A(it))[S]
  BY Zenon DEF SumSet, FoldSet, MapThenFoldSet, First
<1>2. \A s \in SUBSET S : s # {} => f[First(s)] = First(s)
  BY FirstOut
<1>3. \A it : A(it) <=> AddsUp(it, f, S)
  <2>1. \A it : [s \in SUBSET S |-> IF s = {} THEN 0 ELSE First(s) + it[s \ {First(s)}]]
              = [s \in SUBSET S |-> IF s = {} THEN 0 ELSE f[First(s)] + it[s \ {First(s)}]]
    BY <1>2
  <2> QED
    BY <2>1, Zenon DEF AddsUp
<1>4. A(CHOOSE it : A(it))
  <2>1. \E it : A(it)
    BY <1>3, AddsUpExists
  <2> HIDE DEF A
  <2> QED
    BY <2>1
<1>5. AddsUp(CHOOSE it : A(it), f, S)
  <2> HIDE DEF A
  <2> QED
    BY <1>3, <1>4
<1> HIDE DEF A
<1>6. PICK it : it = (CHOOSE jt : A(jt)) /\ AddsUp(it, f, S) /\ SumSet(S) = it[S]
  BY <1>1, <1>5, Zenon
<1>7. PICK jt : AddsUp(jt, f, S) /\ SumFunctionOnSet(f, S) = jt[S]
  BY SumAddsUp
<1>8. \A s \in SUBSET S : it[s] = jt[s]
  BY <1>6, <1>7, AddsUpAgree
<1> QED
  BY <1>6, <1>7, <1>8

LEMMA SumSetAs ==
  ASSUME NEW S, IsFiniteSet(S), NEW f, \A x \in S : f[x] = x
  PROVE  SumSet(S) = SumFunctionOnSet(f, S)
<1>1. PICK g : SumSet(S) = SumFunctionOnSet(g, S) /\ \A x \in S : g[x] = x
  <2>1. \A x \in S : [y \in S |-> y][x] = x
    OBVIOUS
  <2> QED
    BY <2>1, SumSetIsSum, Zenon
<1>2. \A x \in S : f[x] = g[x]
  BY <1>1
<1> QED
  BY <1>1, <1>2, SumAgree

LEMMA SumSetType ==
  ASSUME NEW S, IsFiniteSet(S), S \subseteq Int
  PROVE  SumSet(S) \in Int
<1>1. \A x \in S : [y \in S |-> y][x] = x
  OBVIOUS
<1>2. PICK f : \A x \in S : f[x] = x
  BY <1>1, Zenon
<1>3. SumSet(S) = SumFunctionOnSet(f, S)
  BY <1>2, SumSetAs
<1>4. \A x \in S : f[x] \in Int
  BY <1>2
<1> QED
  BY <1>3, <1>4, SumType

LEMMA SumSetEmpty == SumSet({}) = 0
<1>1. IsFiniteSet({})
  BY FS_EmptySet
<1>2. SumSet({}) = SumFunctionOnSet([x \in {} |-> x], {})
  BY <1>1, SumSetIsSum
<1> QED
  BY <1>2, SumEmpty

LEMMA SumSetAdd ==
  ASSUME NEW S, IsFiniteSet(S), S \subseteq Int, NEW y \in Int, y \notin S
  PROVE  SumSet(S \cup {y}) = y + SumSet(S)
<1> SUFFICES ASSUME NEW T, T = S \cup {y}
             PROVE  SumSet(T) = y + SumSet(S)
  OBVIOUS
<1>1. IsFiniteSet(T)
  BY FS_AddElement
<1>2. PICK f : \A x \in T : f[x] = x
  <2>1. \A x \in T : [z \in T |-> z][x] = x
    OBVIOUS
  <2> QED
    BY <2>1, Zenon
<1>3. SumSet(T) = SumFunctionOnSet(f, T)
  BY <1>1, <1>2, SumSetAs
<1>4. SumSet(S) = SumFunctionOnSet(f, S)
  <2>1. \A x \in S : f[x] = x
    BY <1>2
  <2> QED
    BY <2>1, SumSetAs
<1>5. SumFunctionOnSet(f, S \cup {y}) = f[y] + SumFunctionOnSet(f, S)
  <2>1. \A x \in S \cup {y} : f[x] \in Int
    BY <1>2
  <2> QED
    BY <2>1, SumAdd
<1>6. f[y] = y
  BY <1>2
<1> QED
  BY <1>3, <1>4, <1>5, <1>6, Zenon

(* A set of naturals has at least the sum of each of its subsets. *)
LEMMA SumSetSubset ==
  ASSUME NEW S, IsFiniteSet(S), S \subseteq Nat, NEW T \in SUBSET S
  PROVE  SumSet(T) <= SumSet(S)
<1>1. PICK f : \A x \in S : f[x] = x
  <2>1. \A x \in S : [z \in S |-> z][x] = x
    OBVIOUS
  <2> QED
    BY <2>1, Zenon
<1>2. PICK g : \A x \in S : g[x] = IF x \in T THEN x ELSE 0
  <2>1. \A x \in S : [z \in S |-> IF z \in T THEN z ELSE 0][x] = IF x \in T THEN x ELSE 0
    OBVIOUS
  <2> QED
    BY <2>1, Zenon
<1>3. IsFiniteSet(T)
  BY FS_Subset
<1>4. SumSet(S) = SumFunctionOnSet(f, S)
  BY <1>1, SumSetAs
<1>5. SumSet(T) = SumFunctionOnSet(g, T)
  <2>1. \A x \in T : g[x] = x
    BY <1>2
  <2> QED
    BY <2>1, <1>3, SumSetAs
<1>6. SumFunctionOnSet(g, S) = SumFunctionOnSet(g, T)
  <2> SUFFICES ASSUME NEW R, R = S \ T
               PROVE  SumFunctionOnSet(g, S) = SumFunctionOnSet(g, T)
    OBVIOUS
  <2>1. IsFiniteSet(R) /\ S = T \cup R
    BY FS_Subset
  <2>2. \A x \in T : g[x] \in Int
    BY <1>2
  <2>3. \A x \in R : g[x] = 0
    BY <1>2
  <2>4. SumFunctionOnSet(g, T \cup R) = SumFunctionOnSet(g, T)
    BY <1>3, <2>1, <2>2, <2>3, SumSkipsZeros
  <2> QED
    BY <2>1, <2>4, Zenon
<1>7. SumFunctionOnSet(g, S) <= SumFunctionOnSet(f, S)
  <2>1. \A x \in S : f[x] \in Int /\ g[x] \in Int /\ g[x] <= f[x]
    BY <1>1, <1>2
  <2> QED
    BY <2>1, SumMonotone
<1> QED
  BY <1>4, <1>5, <1>6, <1>7

(* The values of a function that takes no value but zero twice, added up.  *)
LEMMA SumOfValues ==
  ASSUME NEW f, NEW S, IsFiniteSet(S), \A x \in S : f[x] \in Nat,
         \A x, y \in S : f[x] = f[y] /\ f[x] # 0 => x = y
  PROVE  SumFunctionOnSet(f, S) = SumSet({f[x] : x \in S} \ {0})
<1> DEFINE V(s) == {f[x] : x \in s} \ {0}
<1> DEFINE G == {s \in SUBSET S : SumFunctionOnSet(f, s) = SumSet(V(s))}
<1>1. ASSUME NEW s \in SUBSET S, \A u \in SUBSET s : u # s => u \in G
      PROVE  SumFunctionOnSet(f, s) = SumSet(V(s))
  <2>1. CASE s = {}
    <3>1. V(s) = {}
      BY <2>1
    <3> QED
      BY <2>1, <3>1, SumEmpty, SumSetEmpty
  <2>2. CASE s # {}
    <3> PICK y \in s : TRUE
      BY <2>2
    <3> SUFFICES ASSUME NEW u, u = s \ {y}
                 PROVE  SumFunctionOnSet(f, s) = SumSet(V(s))
      OBVIOUS
    <3>1. IsFiniteSet(s) /\ IsFiniteSet(u) /\ u \in SUBSET s /\ u # s
      BY FS_Subset
    <3>2. SumFunctionOnSet(f, u) = SumSet(V(u))
      BY <1>1, <3>1
    <3>3. SumFunctionOnSet(f, s) = f[y] + SumFunctionOnSet(f, u)
      BY <3>1, SumRemove
    <3>4. CASE f[y] = 0
      <4>1. V(s) = V(u)
        BY <3>4
      <4>2. SumFunctionOnSet(f, u) \in Int
        BY <3>1, SumType
      <4> HIDE DEF V
      <4> QED
        BY <3>2, <3>3, <3>4, <4>1, <4>2
    <3>5. CASE f[y] # 0
      <4> SUFFICES ASSUME NEW W, W = V(u)
                   PROVE  SumFunctionOnSet(f, s) = SumSet(V(s))
        OBVIOUS
      <4>1. V(s) = W \cup {f[y]} /\ f[y] \notin W /\ W \subseteq Int /\ f[y] \in Int
        BY <3>5
      <4>2. IsFiniteSet({f[x] : x \in u})
        <5> SUFFICES ASSUME NEW h, h = [x \in u |-> f[x]]
                     PROVE  IsFiniteSet({f[x] : x \in u})
          OBVIOUS
        <5>1. h \in Surjection(u, {f[x] : x \in u})
          BY DEF Surjection
        <5> QED
          BY <3>1, <5>1, FS_Surjection
      <4>3. IsFiniteSet(W)
        <5>1. W \in SUBSET {f[x] : x \in u}
          OBVIOUS
        <5> QED
          BY <4>2, <5>1, FS_Subset
      <4>4. SumSet(W \cup {f[y]}) = f[y] + SumSet(W)
        BY <4>1, <4>3, SumSetAdd
      <4>5. SumFunctionOnSet(f, u) = SumSet(W)
        BY <3>2
      <4> HIDE DEF V
      <4> QED
        BY <3>3, <4>1, <4>4, <4>5, Zenon
    <3> QED
      BY <3>4, <3>5
  <2> QED
    BY <2>1, <2>2
<1>2. \A s \in SUBSET S : (\A u \in SUBSET s : u # s => u \in G) => s \in G
  BY <1>1
<1>3. SUBSET S \subseteq G
  <2> HIDE DEF G
  <2> QED
    BY <1>2, SubsetInduction
<1> QED
  BY <1>3
=============================================================================
