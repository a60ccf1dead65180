----------------------------- MODULE Sums_proofs -----------------------------
(***************************************************************************)
(* Sums over finite sets.  The library's induction theorems take an        *)
(* operator, which no prover here can instantiate; but that the proper     *)
(* subsets of a finite set are well founded is a statement about sets, and *)
(* from it follow induction over subsets, that the fold by which           *)
(* MapThenSumSet is defined exists and is unique, and with that how sums   *)
(* are computed: element by element, block by block, under new names.      *)
(***************************************************************************)
EXTENDS Integers, FiniteSets, FiniteSetsExt, FiniteSetTheorems, WellFoundedInduction, TLAPS

\* The sum of f over the elements of S.
SumOver(f, S) == MapThenSumSet(LAMBDA x : f[x], S)

\* The element the library's fold takes first.
Pick(S) == CHOOSE x \in S : TRUE

\* it is the fold of f over the subsets of S.
IsFold(it, f, S) ==
    it = [s \in SUBSET S |->
             IF s = {} THEN 0 ELSE f[Pick(s)] + it[s \ {Pick(s)}]]

\* The library computes a sum as the value of the fold over its subsets.
LEMMA SumOverIsFold ==
    ASSUME NEW f, NEW S
    PROVE  SumOver(f, S) = (CHOOSE it : IsFold(it, f, S))[S]
  BY DEF SumOver, MapThenSumSet, MapThenFoldSet, IsFold, Pick

\* Induction over the subsets of a finite set, in the form of a set: a property
\* that fails of some subset fails of a smallest one.
LEMMA SmallestSubset ==
    ASSUME NEW S, IsFiniteSet(S), NEW T, T \subseteq SUBSET S, T # {}
    PROVE  \E s \in T : \A r \in T : r \subseteq s => r = s
<1>1. IsWellFoundedOn(StrictSubsetOrdering(S), SUBSET S)
  BY FS_StrictSubsetOrderingWellFounded, FS_FiniteSubsetsOfFinite
<1>2. PICK s \in T : \A r \in T : ~(<<r, s>> \in StrictSubsetOrdering(S))
  BY <1>1, WFMin
<1>3. QED
  BY <1>2 DEF StrictSubsetOrdering

\* Induction over the subsets of a finite set: a set of sets that has each
\* subset of S whose proper subsets it has, has S.
LEMMA SubsetInduction ==
    ASSUME NEW S, IsFiniteSet(S), NEW Good,
           \A s \in SUBSET S : (\A r \in SUBSET s : r # s => r \in Good) => s \in Good
    PROVE  S \in Good
<1> DEFINE Bad == (SUBSET S) \ Good
<1>1. SUFFICES ASSUME Bad # {} PROVE FALSE
  OBVIOUS
<1>2. Bad \subseteq SUBSET S
  OBVIOUS
<1> HIDE DEF Bad
<1>3. PICK s \in Bad : \A r \in Bad : r \subseteq s => r = s
  BY <1>1, <1>2, SmallestSubset
<1>4. QED
  BY <1>3 DEF Bad

\* The element taken first is one of the set.
LEMMA PickType ==
    ASSUME NEW S, S # {}
    PROVE  Pick(S) \in S
  BY DEF Pick

\* A fold's value at a subset, and its restriction to the subsets of one.
LEMMA FoldStep ==
    ASSUME NEW f, NEW S, NEW it, IsFold(it, f, S), NEW s \in SUBSET S
    PROVE  it[s] = IF s = {} THEN 0 ELSE f[Pick(s)] + it[s \ {Pick(s)}]
  BY DEF IsFold

\* Two folds of functions that agree on S agree.
LEMMA FoldUnique ==
    ASSUME NEW f, NEW g, NEW S, IsFiniteSet(S), NEW U, NEW V,
           S \in SUBSET U, S \in SUBSET V,
           NEW i, NEW j, IsFold(i, f, U), IsFold(j, g, V),
           \A x \in S : f[x] = g[x]
    PROVE  i[S] = j[S]
<1> DEFINE Good == {s \in SUBSET S : i[s] = j[s]}
<1>1. ASSUME NEW s \in SUBSET S, \A r \in SUBSET s : r # s => r \in Good
      PROVE  s \in Good
  <2>1. i[s] = IF s = {} THEN 0 ELSE f[Pick(s)] + i[s \ {Pick(s)}]
    BY FoldStep, s \in SUBSET U
  <2>2. j[s] = IF s = {} THEN 0 ELSE g[Pick(s)] + j[s \ {Pick(s)}]
    BY FoldStep, s \in SUBSET V
  <2>3. CASE s = {}
    BY <2>1, <2>2, <2>3
  <2>4. CASE s # {}
    <3>1. Pick(s) \in s /\ f[Pick(s)] = g[Pick(s)]
      BY <2>4, PickType
    <3>2. i[s \ {Pick(s)}] = j[s \ {Pick(s)}]
      BY <3>1, <1>1
    <3>3. QED
      BY <2>1, <2>2, <2>4, <3>1, <3>2
  <2>5. QED
    BY <2>3, <2>4
<1> HIDE DEF Good
<1>2. S \in Good
  BY <1>1, SubsetInduction
<1>3. QED
  BY <1>2 DEF Good

\* There is a fold over the subsets of every finite set.
LEMMA FoldExists ==
    ASSUME NEW f, NEW S, IsFiniteSet(S)
    PROVE  \E it : IsFold(it, f, S)
<1> DEFINE Good == {s \in SUBSET S : \E it : IsFold(it, f, s)}
<1>1. ASSUME NEW s \in SUBSET S, \A r \in SUBSET s : r # s => r \in Good
      PROVE  s \in Good
  <2> DEFINE Fold(r) == CHOOSE it : IsFold(it, f, r)
             it == [r \in SUBSET s |->
                       IF r = {} THEN 0
                       ELSE f[Pick(r)] + Fold(r \ {Pick(r)})[r \ {Pick(r)}]]
  <2>1. \A r \in SUBSET s : r # s => IsFold(Fold(r), f, r)
    BY <1>1
  <2>2. \A r \in SUBSET s : IsFiniteSet(r)
    BY FS_Subset
  <2>3. \A r \in SUBSET s : r # {} => r \ {Pick(r)} \in SUBSET s /\ r \ {Pick(r)} # s
    BY PickType
  <2> HIDE DEF Fold, Good
  <2>4. ASSUME NEW r \in SUBSET s, r # s
        PROVE  it[r] = Fold(r)[r]
    <3>1. IsFold(Fold(r), f, r)
      BY <2>1, <2>4
    <3>2. Fold(r)[r] = IF r = {} THEN 0 ELSE f[Pick(r)] + Fold(r)[r \ {Pick(r)}]
      BY <3>1, FoldStep, r \in SUBSET r
    <3>3. CASE r = {}
      BY <3>2, <3>3
    <3>4. CASE r # {}
      <4> DEFINE p == r \ {Pick(r)}
      <4>1. p \in SUBSET s /\ p # s /\ p \in SUBSET r /\ IsFiniteSet(p)
        BY <3>4, <2>2, <2>3
      <4> HIDE DEF p
      <4>2. IsFold(Fold(p), f, p)
        BY <4>1, <2>1
      <4>3. Fold(p)[p] = Fold(r)[p]
        BY <4>1, <4>2, <3>1, p \in SUBSET p, FoldUnique
      <4>4. QED
        BY <3>2, <3>4, <4>3 DEF p
    <3>5. QED
      BY <3>3, <3>4
  <2>5. \A r \in SUBSET s : r # {} =>
            it[r \ {Pick(r)}] = Fold(r \ {Pick(r)})[r \ {Pick(r)}]
    <3> HIDE DEF it
    <3> QED BY <2>3, <2>4
  <2>6. it = [r \in SUBSET s |->
                 IF r = {} THEN 0 ELSE f[Pick(r)] + it[r \ {Pick(r)}]]
    BY <2>5
  <2>7. QED
    BY <2>6 DEF IsFold, Good
<1> HIDE DEF Good
<1>2. S \in Good
  BY <1>1, SubsetInduction
<1>3. QED
  BY <1>2 DEF Good

\* SumOver is what any fold says it is.
LEMMA SumOverIsAnyFold ==
    ASSUME NEW f, NEW g, NEW S, IsFiniteSet(S), NEW it, IsFold(it, g, S),
           \A x \in S : f[x] = g[x]
    PROVE  SumOver(f, S) = it[S]
<1>1. PICK i : IsFold(i, f, S)
  BY FoldExists
<1> DEFINE c == CHOOSE i2 : IsFold(i2, f, S)
<1>2. IsFold(c, f, S)
  BY <1>1
<1>3. SumOver(f, S) = c[S]
  BY SumOverIsFold
<1>4. S \in SUBSET S
  OBVIOUS
<1> HIDE DEF c
<1>5. QED
  BY <1>2, <1>3, <1>4, FoldUnique

\* How a sum is computed: nothing adds up to zero, and the order in which the
\* elements are taken is of no account.
LEMMA SumEmpty ==
    ASSUME NEW f
    PROVE  SumOver(f, {}) = 0
<1>1. PICK it : IsFold(it, f, {})
  BY FoldExists, FS_EmptySet
<1>2. SumOver(f, {}) = it[{}]
  BY <1>1, FS_EmptySet, SumOverIsAnyFold
<1>3. QED
  BY <1>1, <1>2, FoldStep, {} \in SUBSET {}

\* A sum is what is taken first and the sum of the rest.
LEMMA SumPick ==
    ASSUME NEW f, NEW S, IsFiniteSet(S), S # {}
    PROVE  SumOver(f, S) = f[Pick(S)] + SumOver(f, S \ {Pick(S)})
<1> DEFINE T == S \ {Pick(S)}
<1>1. PICK it : IsFold(it, f, S)
  BY FoldExists
<1>2. PICK jt : IsFold(jt, f, T)
  BY FoldExists, FS_RemoveElement
<1>3. it[S] = f[Pick(S)] + it[T]
  BY <1>1, FoldStep, S \in SUBSET S
<1>4. SumOver(f, S) = it[S]
  BY <1>1, SumOverIsAnyFold
<1>5. IsFiniteSet(T) /\ T \in SUBSET S /\ T \in SUBSET T
  BY FS_RemoveElement
<1> HIDE DEF T
<1>6. SumOver(f, T) = jt[T]
  BY <1>2, <1>5, SumOverIsAnyFold
<1>7. jt[T] = it[T]
  BY <1>1, <1>2, <1>5, FoldUnique
<1>8. QED
  BY <1>3, <1>4, <1>6, <1>7 DEF T

\* A sum depends on the summands only.
LEMMA SumSame ==
    ASSUME NEW f, NEW g, NEW S, IsFiniteSet(S), \A x \in S : f[x] = g[x]
    PROVE  SumOver(f, S) = SumOver(g, S)
<1>1. PICK it : IsFold(it, g, S)
  BY FoldExists
<1>2. SumOver(f, S) = it[S]
  BY <1>1, SumOverIsAnyFold
<1>3. SumOver(g, S) = it[S]
  BY <1>1, SumOverIsAnyFold
<1>4. QED
  BY <1>2, <1>3

\* A set of numbers closed under addition that has zero and every summand has
\* the sum.
LEMMA SumWithin ==
    ASSUME NEW N, N \subseteq Int, 0 \in N, \A a, b \in N : a + b \in N,
           NEW f, NEW S, IsFiniteSet(S), \A x \in S : f[x] \in N
    PROVE  SumOver(f, S) \in N
<1> DEFINE Good == {s \in SUBSET S : SumOver(f, s) \in N}
<1>1. ASSUME NEW s \in SUBSET S, \A r \in SUBSET s : r # s => r \in Good
      PROVE  s \in Good
  <2>1. CASE s = {}
    BY <2>1, SumEmpty
  <2>2. CASE s # {}
    <3>1. Pick(s) \in s
      BY <2>2, PickType
    <3>2. SumOver(f, s \ {Pick(s)}) \in N
      BY <1>1, <3>1
    <3>3. SumOver(f, s) = f[Pick(s)] + SumOver(f, s \ {Pick(s)})
      BY <2>2, FS_Subset, SumPick
    <3>4. QED
      BY <3>1, <3>2, <3>3
  <2>3. QED
    BY <2>1, <2>2
<1> HIDE DEF Good
<1>2. S \in Good
  BY <1>1, SubsetInduction
<1>3. QED
  BY <1>2 DEF Good

\* A sum of natural numbers is a natural number, ...
LEMMA SumNat ==
    ASSUME NEW f, NEW S, IsFiniteSet(S), \A x \in S : f[x] \in Nat
    PROVE  SumOver(f, S) \in Nat
<1>1. Nat \subseteq Int /\ 0 \in Nat /\ \A a, b \in Nat : a + b \in Nat
  OBVIOUS
<1>2. QED
  BY <1>1, SumWithin

\* ... and a sum of integers an integer.
LEMMA SumInt ==
    ASSUME NEW f, NEW S, IsFiniteSet(S), \A x \in S : f[x] \in Int
    PROVE  SumOver(f, S) \in Int
<1>1. Int \subseteq Int /\ 0 \in Int /\ \A a, b \in Int : a + b \in Int
  OBVIOUS
<1>2. QED
  BY <1>1, SumWithin

\* Any element may be taken first: the order is of no account.
LEMMA SumRemove ==
    ASSUME NEW f, NEW S, IsFiniteSet(S), \A x \in S : f[x] \in Int, NEW y \in S
    PROVE  SumOver(f, S) = f[y] + SumOver(f, S \ {y})
<1> DEFINE Good == {s \in SUBSET S :
                       \A z \in s : SumOver(f, s) = f[z] + SumOver(f, s \ {z})}
<1>1. ASSUME NEW s \in SUBSET S, \A r \in SUBSET s : r # s => r \in Good
      PROVE  s \in Good
  <2>1. SUFFICES ASSUME NEW z \in s
                 PROVE  SumOver(f, s) = f[z] + SumOver(f, s \ {z})
    OBVIOUS
  <2> DEFINE c == Pick(s)
  <2>2. c \in s
    BY PickType
  <2>3. IsFiniteSet(s)
    BY FS_Subset
  <2>4. SumOver(f, s) = f[c] + SumOver(f, s \ {c})
    BY <2>2, <2>3, SumPick
  <2>5. CASE z = c
    BY <2>4, <2>5
  <2>6. CASE z # c
    <3>1. s \ {c} \in Good /\ s \ {z} \in Good /\ z \in s \ {c} /\ c \in s \ {z}
      BY <1>1, <2>2, <2>6
    <3> HIDE DEF c
    <3>2. SumOver(f, s \ {c}) = f[z] + SumOver(f, (s \ {c}) \ {z})
      BY <3>1
    <3>3. SumOver(f, s \ {z}) = f[c] + SumOver(f, (s \ {z}) \ {c})
      BY <3>1
    <3>4. (s \ {c}) \ {z} = (s \ {z}) \ {c}
      OBVIOUS
    <3>5. IsFiniteSet((s \ {z}) \ {c}) /\ (s \ {z}) \ {c} \in SUBSET S
      BY <2>3, FS_RemoveElement
    <3> DEFINE rest == SumOver(f, (s \ {z}) \ {c})
    <3>6. rest \in Int
      BY <3>5, SumInt
    <3>7. f[c] \in Int /\ f[z] \in Int
      BY <2>2
    <3>8. SumOver(f, s) = f[c] + (f[z] + rest) /\ SumOver(f, s \ {z}) = f[c] + rest
      BY <2>4, <3>2, <3>3, <3>4
    <3> HIDE DEF rest
    <3>9. QED
      BY <3>6, <3>7, <3>8
  <2>7. QED
    BY <2>5, <2>6
<1>2. S \in Good
  <2> HIDE DEF Good
  <2> QED BY <1>1, SubsetInduction
<1>3. QED
  BY <1>2

\* An element more is its summand more.
LEMMA SumAdd ==
    ASSUME NEW f, NEW S, IsFiniteSet(S), NEW y, y \notin S,
           \A x \in S \cup {y} : f[x] \in Int
    PROVE  SumOver(f, S \cup {y}) = f[y] + SumOver(f, S)
<1>1. IsFiniteSet(S \cup {y})
  BY FS_AddElement
<1>2. (S \cup {y}) \ {y} = S /\ y \in S \cup {y}
  OBVIOUS
<1>3. QED
  BY <1>1, <1>2, SumRemove

\* Zeros add up to zero.
LEMMA SumZero ==
    ASSUME NEW f, NEW S, IsFiniteSet(S), \A x \in S : f[x] = 0
    PROVE  SumOver(f, S) = 0
<1> DEFINE N == {0}
<1>1. N \subseteq Int /\ 0 \in N /\ (\A a, b \in N : a + b \in N) /\ \A x \in S : f[x] \in N
  OBVIOUS
<1> HIDE DEF N
<1>2. SumOver(f, S) \in N
  BY <1>1, SumWithin
<1>3. QED
  BY <1>2 DEF N

\* The sum of equal numbers is a multiple of one.
LEMMA SumConstant ==
    ASSUME NEW f, NEW S, IsFiniteSet(S), NEW c \in Int, \A x \in S : f[x] = c
    PROVE  SumOver(f, S) = Cardinality(S) * c
<1> DEFINE Good == {s \in SUBSET S : SumOver(f, s) = Cardinality(s) * c}
<1>1. ASSUME NEW s \in SUBSET S, \A r \in SUBSET s : r # s => r \in Good
      PROVE  s \in Good
  <2>1. CASE s = {}
    BY <2>1, SumEmpty, FS_EmptySet
  <2>2. CASE s # {}
    <3> DEFINE r == s \ {Pick(s)}
    <3>1. Pick(s) \in s /\ f[Pick(s)] = c /\ IsFiniteSet(s)
      BY <2>2, PickType, FS_Subset
    <3>2. r \in Good
      BY <1>1, <3>1
    <3>3. SumOver(f, s) = c + SumOver(f, r)
      BY <2>2, <3>1, SumPick
    <3>4. Cardinality(r) = Cardinality(s) - 1 /\ Cardinality(s) \in Nat
      BY <3>1, FS_RemoveElement, FS_CardinalityType
    <3>5. \A n \in Nat : c + (n - 1) * c = n * c
      OBVIOUS
    <3> HIDE DEF r
    <3>6. QED
      BY <3>2, <3>3, <3>4, <3>5
  <2>3. QED
    BY <2>1, <2>2
<1> HIDE DEF Good
<1>2. S \in Good
  BY <1>1, SubsetInduction
<1>3. QED
  BY <1>2 DEF Good

\* A sum may be taken block by block: b names the block of an element, P the
\* blocks there are.
LEMMA SumByBlocks ==
    ASSUME NEW f, NEW S, IsFiniteSet(S), \A x \in S : f[x] \in Int,
           NEW b, NEW P, IsFiniteSet(P), \A x \in S : b[x] \in P
    PROVE  SumOver(f, S) =
               SumOver([y \in P |-> SumOver(f, {x \in S : b[x] = y})], P)
<1> DEFINE Block(s, y) == {x \in s : b[x] = y}
           g(s) == [y \in P |-> SumOver(f, Block(s, y))]
           Good == {s \in SUBSET S : SumOver(f, s) = SumOver(g(s), P)}
<1>0. ASSUME NEW s \in SUBSET S
      PROVE  /\ IsFiniteSet(s)
             /\ \A y \in P : IsFiniteSet(Block(s, y)) /\ g(s)[y] \in Int
  <2>1. IsFiniteSet(s)
    BY FS_Subset
  <2>2. ASSUME NEW y \in P
        PROVE  IsFiniteSet(Block(s, y)) /\ g(s)[y] \in Int
    <3>1. Block(s, y) \in SUBSET s
      OBVIOUS
    <3>2. IsFiniteSet(Block(s, y))
      BY <2>1, <3>1, FS_Subset
    <3>3. \A x \in Block(s, y) : f[x] \in Int
      OBVIOUS
    <3> HIDE DEF Block
    <3>4. SumOver(f, Block(s, y)) \in Int
      BY <3>2, <3>3, SumInt
    <3>5. QED
      BY <3>2, <3>4
  <2>3. QED
    BY <2>1, <2>2
<1>1. ASSUME NEW s \in SUBSET S, \A r \in SUBSET s : r # s => r \in Good
      PROVE  s \in Good
  <2>1. CASE s = {}
    <3>1. \A y \in P : Block(s, y) = {}
      BY <2>1
    <3>2. \A y \in P : g(s)[y] = 0
      BY <3>1, SumEmpty
    <3>3. SumOver(g(s), P) = 0
      BY <3>2, SumZero
    <3>4. QED
      BY <2>1, <3>3, SumEmpty
  <2>2. CASE s # {}
    <3> DEFINE z == Pick(s)
               r == s \ {z}
               rest == P \ {b[z]}
    <3>1. z \in s /\ b[z] \in P /\ f[z] \in Int
      BY <2>2, PickType
    <3>2. r \in SUBSET S /\ r \in Good
      BY <1>1, <3>1
    <3>3. SumOver(f, s) = f[z] + SumOver(f, r)
      BY <1>0, <2>2, SumPick
    <3>4. SumOver(f, r) = SumOver(g(r), P)
      BY <3>2
    <3>5. IsFiniteSet(rest) /\ \A y \in rest : y \in P
      BY FS_RemoveElement
    <3> HIDE DEF Good
    <3>6. \A y \in rest : g(s)[y] = g(r)[y]
      <4>1. \A y \in rest : Block(s, y) = Block(r, y)
        OBVIOUS
      <4>2. QED
        BY <4>1
    <3>7. g(s)[b[z]] = f[z] + g(r)[b[z]]
      <4> DEFINE B == Block(s, b[z])
                 C == Block(r, b[z])
      <4>1. z \in B /\ B \ {z} = C
        BY <3>1
      <4>2. IsFiniteSet(B) /\ \A x \in B : f[x] \in Int
        BY <1>0, <3>1
      <4>3. g(s)[b[z]] = SumOver(f, B) /\ g(r)[b[z]] = SumOver(f, C)
        BY <3>1
      <4> HIDE DEF B, C, g, z
      <4>4. QED
        BY <4>1, <4>2, <4>3, SumRemove
    <3>8. \A y \in P : g(s)[y] \in Int /\ g(r)[y] \in Int
      BY <1>0, <3>2
    <3> HIDE DEF g, r, rest
    <3>9. SumOver(g(s), P) = g(s)[b[z]] + SumOver(g(s), rest)
      BY <3>1, <3>8, SumRemove DEF rest
    <3>10. SumOver(g(r), P) = g(r)[b[z]] + SumOver(g(r), rest)
      BY <3>1, <3>8, SumRemove DEF rest
    <3>11. SumOver(g(s), rest) = SumOver(g(r), rest)
      BY <3>5, <3>6, SumSame
    <3>12. SumOver(g(r), rest) \in Int
      BY <3>5, <3>8, SumInt
    <3> HIDE DEF z
    <3>13. SumOver(f, s) = SumOver(g(s), P)
      BY <3>1, <3>3, <3>4, <3>7, <3>8, <3>9, <3>10, <3>11, <3>12
    <3>14. QED
      BY <3>13 DEF Good
  <2>3. QED
    BY <2>1, <2>2
<1>2. S \in Good
  <2> HIDE DEF Good
  <2> QED BY <1>1, SubsetInduction
<1>3. QED
  BY <1>2

\* The values of a function on a finite set are finitely many.
LEMMA FiniteImage ==
    ASSUME NEW S, IsFiniteSet(S), NEW e
    PROVE  IsFiniteSet({e[x] : x \in S})
<1> DEFINE T == {e[x] : x \in S}
           g == [x \in S |-> e[x]]
<1>1. g \in Surjection(S, T)
  BY DEF Surjection
<1> HIDE DEF T, g
<1>2. IsFiniteSet(T)
  BY <1>1, FS_Surjection
<1>3. QED
  BY <1>2 DEF T

\* The sum over one element.
LEMMA SumOne ==
    ASSUME NEW f, NEW y, f[y] \in Int
    PROVE  SumOver(f, {y}) = f[y]
<1>1. SumOver(f, {} \cup {y}) = f[y] + SumOver(f, {})
  BY FS_EmptySet, SumAdd
<1>2. QED
  BY <1>1, SumEmpty

\* The elements of a sum may be renamed: e is one-to-one from P onto S.
LEMMA SumRenamed ==
    ASSUME NEW f, NEW S, IsFiniteSet(S), \A x \in S : f[x] \in Int,
           NEW P, IsFiniteSet(P), NEW e,
           S = {e[y] : y \in P}, \A y, z \in P : e[y] = e[z] => y = z
    PROVE  SumOver(f, S) = SumOver([y \in P |-> f[e[y]]], P)
<1> DEFINE b == [x \in S |-> CHOOSE y \in P : e[y] = x]
           g == [y \in P |-> SumOver(f, {x \in S : b[x] = y})]
<1>1. \A x \in S : b[x] \in P /\ e[b[x]] = x
  OBVIOUS
<1> HIDE DEF b
<1>2. SumOver(f, S) = SumOver(g, P)
  BY <1>1, SumByBlocks
<1>3. ASSUME NEW y \in P
      PROVE  g[y] = f[e[y]]
  <2>1. {x \in S : b[x] = y} = {e[y]}
    BY <1>1
  <2>2. SumOver(f, {e[y]}) = f[e[y]]
    BY SumOne
  <2>3. g[y] = SumOver(f, {e[y]})
    BY <2>1
  <2>4. QED
    BY <2>2, <2>3
<1> HIDE DEF g
<1>4. QED
  BY <1>2, <1>3, SumSame
=============================================================================
