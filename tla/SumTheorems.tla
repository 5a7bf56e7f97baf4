---------------------------- MODULE SumTheorems ----------------------------
(***************************************************************************)
(* Facts about SumFunctionOnSet(f, S), the sum of f[x] over x \in S, for    *)
(* finite sets S, and the two principles of induction they rest on.  The    *)
(* principles speak of a set of good sets (numbers) instead of a predicate, *)
(* and so are cited like any other lemma.                                   *)
(***************************************************************************)
EXTENDS Integers, FiniteSetTheorems, TLAPS

-----------------------------------------------------------------------------
(* Induction *)

\* A set of numbers that holds 0 and the successor of each member is Nat.
LEMMA NatSetInduction ==
    ASSUME NEW Good, 0 \in Good, \A n \in Nat : n \in Good => n + 1 \in Good
    PROVE  Nat \subseteq Good
<1> DEFINE Bad == {n \in Nat : n \notin Good}
<1> SUFFICES ASSUME Bad # {} PROVE FALSE
    OBVIOUS
<1>1. PICK n \in Bad : \A m \in Bad : ~ (<<m, n>> \in OpToRel(<, Nat))
    BY NatLessThanWellFounded, WFMin, Bad \subseteq Nat, Zenon
<1>2. n # 0 /\ n - 1 \in Nat /\ n - 1 < n
    OBVIOUS
<1>3. <<n - 1, n>> \in OpToRel(<, Nat)
    BY <1>2 DEF OpToRel
<1>4. n - 1 \in Good
    BY <1>1, <1>2, <1>3
<1> QED BY <1>2, <1>4

\* A well-founded relation has a minimal element in every set that is not empty.
LEMMA MinimalElement ==
    ASSUME NEW R, NEW X, IsWellFoundedOn(R, X), NEW B, B \subseteq X, NEW b \in B
    PROVE  \E x \in B : \A y \in B : ~ (<<y, x>> \in R)
BY WFMin, Zenon

\* A set of numbers that is not empty has a least one.
LEMMA NatLeast ==
    ASSUME NEW B \in SUBSET Nat, B # {}
    PROVE  \E x \in B : \A y \in B : x <= y
<1>1. PICK b \in B : TRUE
    OBVIOUS
<1>2. \E x \in B : \A y \in B : ~ (<<y, x>> \in OpToRel(<, Nat))
    BY <1>1, NatLessThanWellFounded, MinimalElement
<1>3. ASSUME NEW x \in Nat, NEW y \in Nat, y < x PROVE <<y, x>> \in OpToRel(<, Nat)
    BY <1>3 DEF OpToRel
<1>4. \A x, y \in B : x <= y \/ y < x
    OBVIOUS
<1> QED BY <1>2, <1>3, <1>4

\* If a subset of S is good whenever all its proper subsets are, S is good.
LEMMA SubsetInduction ==
    ASSUME NEW S, IsFiniteSet(S), NEW Good,
           \A T \in SUBSET S : (\A U \in SUBSET T : U # T => U \in Good) => T \in Good
    PROVE  S \in Good
<1> DEFINE Bad == {T \in SUBSET S : T \notin Good}
<1> SUFFICES ASSUME S \notin Good PROVE FALSE
    OBVIOUS
<1>1. IsWellFoundedOn(StrictSubsetOrdering(S), SUBSET S)
  <2>1. FiniteSubsetsOf(S) = SUBSET S
    BY FS_FiniteSubsetsOfFinite
  <2>2. IsWellFoundedOn(StrictSubsetOrdering(S), FiniteSubsetsOf(S))
    BY FS_StrictSubsetOrderingWellFounded, Zenon
  <2> QED BY <2>1, <2>2, Zenon
<1>2. PICK T \in Bad : \A U \in Bad : ~ (<<U, T>> \in StrictSubsetOrdering(S))
  <2>1. Bad \subseteq SUBSET S
    OBVIOUS
  <2>2. S \in Bad
    OBVIOUS
  <2> DEFINE All == SUBSET S
             R   == StrictSubsetOrdering(S)
  <2>3. IsWellFoundedOn(R, All)
    BY <1>1
  <2>4. Bad \subseteq All
    BY <2>1
  <2> HIDE DEF Bad, All, R
  <2>5. \E T \in Bad : \A U \in Bad : ~ (<<U, T>> \in R)
    BY <2>2, <2>3, <2>4, MinimalElement, SMT
  <2> QED BY <2>5 DEF R
<1>3. ASSUME NEW U \in SUBSET T, U # T PROVE U \in Good
    BY <1>2, <1>3 DEF StrictSubsetOrdering
<1> QED BY <1>2, <1>3

\* If the empty set is good and a good subset of S stays good when an element
\* is added, S is good.
LEMMA AddInduction ==
    ASSUME NEW S, IsFiniteSet(S), NEW Good, {} \in Good,
           \A T \in SUBSET S : \A x \in S \ T : T \in Good => T \union {x} \in Good
    PROVE  S \in Good
<1>1. ASSUME NEW T \in SUBSET S, \A U \in SUBSET T : U # T => U \in Good
      PROVE  T \in Good
  <2>1. CASE T = {}
    BY <2>1
  <2>2. CASE T # {}
    <3>1. PICK x \in T : TRUE
        BY <2>2
    <3>2. T \ {x} \in Good /\ x \in S \ (T \ {x}) /\ T = (T \ {x}) \union {x}
        BY <1>1, <3>1
    <3> QED BY <3>2
  <2> QED BY <2>1, <2>2
<1> QED BY <1>1, SubsetInduction

\* The values a function takes on a finite set are finitely many.
LEMMA ImageFinite ==
    ASSUME NEW f, NEW S, IsFiniteSet(S)
    PROVE  IsFiniteSet({f[x] : x \in S})
<1> DEFINE g == [x \in S |-> f[x]]
           T == {f[x] : x \in S}
<1>1. g \in Surjection(S, T)
    BY DEF Surjection
<1> HIDE DEF g, T
<1>2. IsFiniteSet(T)
    BY <1>1, FS_Surjection
<1> QED BY <1>2 DEF T

\* Finitely many numbers have an upper bound.
LEMMA FiniteBounded ==
    ASSUME NEW S \in SUBSET Nat, IsFiniteSet(S)
    PROVE  \E n \in Nat : \A x \in S : x <= n
<1> DEFINE Good == {T \in SUBSET S : \E n \in Nat : \A x \in T : x <= n}
<1>1. {} \in Good
    OBVIOUS
<1>2. ASSUME NEW T \in SUBSET S, NEW a \in S \ T, T \in Good
      PROVE  T \union {a} \in Good
  <2>1. PICK n \in Nat : \A x \in T : x <= n
    BY <1>2
  <2>2. a + n \in Nat /\ \A x \in T \union {a} : x <= a + n
    BY <2>1
  <2> QED BY <2>2
<1>3. \A T \in SUBSET S : \A a \in S \ T : T \in Good => T \union {a} \in Good
    BY <1>2
<1> HIDE DEF Good
<1>4. S \in Good
    BY <1>1, <1>3, AddInduction
<1> QED BY <1>4 DEF Good

-----------------------------------------------------------------------------
(* The equation a sum is defined by *)

First(S) == CHOOSE x \in S : TRUE

\* h is the function of subsets of S that the fold defines recursively.
IsFold(f, h, S) ==
    h = [s \in SUBSET S |-> IF s = {} THEN 0 ELSE f[First(s)] + h[s \ {First(s)}]]

SumOf(f, S) == (CHOOSE h : IsFold(f, h, S))[S]

\* The sum is the value at S of that function.
LEMMA SumIsFold ==
    ASSUME NEW f, NEW S
    PROVE  SumFunctionOnSet(f, S) = SumOf(f, S)
BY DEF SumFunctionOnSet, FoldFunctionOnSet, MapThenFoldSet, SumOf, IsFold, First

\* Such a function restricted to the subsets of T is one for T.
LEMMA FoldRestricts ==
    ASSUME NEW f, NEW S, NEW T \in SUBSET S, NEW h, IsFold(f, h, S)
    PROVE  IsFold(f, [s \in SUBSET T |-> h[s]], T)
<1> DEFINE r == [s \in SUBSET T |-> h[s]]
<1>1. ASSUME NEW s \in SUBSET T
      PROVE  r[s] = IF s = {} THEN 0 ELSE f[First(s)] + r[s \ {First(s)}]
    BY DEF IsFold
<1> QED BY <1>1 DEF IsFold

\* Two folds agree on the sets both are defined on.
LEMMA FoldsAgree ==
    ASSUME NEW f, NEW S, NEW T, NEW g, NEW h, IsFold(f, g, S), IsFold(f, h, T),
           NEW U, U \subseteq S, U \subseteq T, IsFiniteSet(U)
    PROVE  g[U] = h[U]
<1> DEFINE Same == {V \in SUBSET U : g[V] = h[V]}
<1>1. ASSUME NEW V \in SUBSET U, \A W \in SUBSET V : W # V => W \in Same
      PROVE  V \in Same
  <2>1. CASE V = {}
    <3>1. g[V] = 0 /\ h[V] = 0
        BY <2>1 DEF IsFold
    <3> QED BY <3>1
  <2>2. CASE V # {}
    <3>1. First(V) \in V
        BY <2>2 DEF First
    <3>2. V \ {First(V)} \in Same
        BY <1>1, <3>1
    <3>3. g[V] = f[First(V)] + g[V \ {First(V)}]
        BY <2>2 DEF IsFold
    <3>4. h[V] = f[First(V)] + h[V \ {First(V)}]
        BY <2>2 DEF IsFold
    <3> QED BY <3>2, <3>3, <3>4
  <2> QED BY <2>1, <2>2
<1>2. \A V \in SUBSET U : (\A W \in SUBSET V : W # V => W \in Same) => V \in Same
    BY <1>1
<1> HIDE DEF Same
<1>3. U \in Same
    BY <1>2, SubsetInduction, Zenon
<1> QED BY <1>3 DEF Same

\* For a finite set there is such a function, so the fold is one.
LEMMA FoldExists ==
    ASSUME NEW f, NEW S, IsFiniteSet(S)
    PROVE  \E h : IsFold(f, h, S)
<1> DEFINE Good == {T \in SUBSET S : \E h : IsFold(f, h, T)}
<1>1. ASSUME NEW T \in SUBSET S, \A U \in SUBSET T : U # T => U \in Good
      PROVE  T \in Good
  <2> DEFINE Rest  == T \ {First(T)}
             Value == IF T = {} THEN 0 ELSE f[First(T)] + SumOf(f, Rest)
             h     == [s \in SUBSET T |-> IF s = T THEN Value ELSE SumOf(f, s)]
  <2>1. ASSUME NEW s \in SUBSET T
        PROVE  h[s] = IF s = {} THEN 0 ELSE f[First(s)] + h[s \ {First(s)}]
    <3>1. s # {} => First(s) \in s
        BY DEF First
    <3>2. CASE s = T
        BY <3>1, <3>2
    <3>3. CASE s # T
      <4>1. PICK g : IsFold(f, g, s)
        BY <1>1, <3>3
      <4> DEFINE c == CHOOSE g0 : IsFold(f, g0, s)
      <4>2. IsFold(f, c, s)
        BY <4>1
      <4>3. h[s] = c[s]
        BY <3>3 DEF SumOf
      <4>4. CASE s = {}
        BY <4>2, <4>3, <4>4 DEF IsFold
      <4>5. CASE s # {}
        <5> DEFINE r == s \ {First(s)}
        <5>1. r \in SUBSET T /\ r # T /\ r \in SUBSET s /\ r \in SUBSET S
            BY <3>1, <4>5
        <5>2. c[s] = f[First(s)] + c[r]
            BY <4>2, <4>5 DEF IsFold
        <5>3. PICK g1 : IsFold(f, g1, r)
            BY <1>1, <5>1
        <5> DEFINE d == CHOOSE g2 : IsFold(f, g2, r)
        <5>4. IsFold(f, d, r)
            BY <5>3
        <5>5. h[r] = d[r]
            BY <5>1 DEF SumOf
        <5>6. c[r] = d[r]
            BY <4>2, <5>1, <5>4, FoldsAgree, FS_Subset
        <5> QED BY <4>3, <4>5, <5>2, <5>5, <5>6
      <4> QED BY <4>4, <4>5
    <3> QED BY <3>2, <3>3
  <2>2. IsFold(f, h, T)
    BY <2>1 DEF IsFold
  <2> QED BY <2>2
<1>2. \A T \in SUBSET S : (\A U \in SUBSET T : U # T => U \in Good) => T \in Good
    BY <1>1
<1> HIDE DEF Good
<1>3. S \in Good
    BY <1>2, SubsetInduction, Zenon
<1> QED BY <1>3 DEF Good

\* Nothing sums to 0.
LEMMA SumEmpty ==
    ASSUME NEW f PROVE SumFunctionOnSet(f, {}) = 0
<1>1. PICK h : IsFold(f, h, {})
    BY FoldExists, FS_EmptySet
<1>2. IsFold(f, CHOOSE g : IsFold(f, g, {}), {})
    BY <1>1
<1>3. SumOf(f, {}) = 0
    BY <1>2 DEF SumOf, IsFold
<1> QED BY <1>3, SumIsFold

\* The sum over S in terms of the sum without the element the fold chooses.
LEMMA SumEquation ==
    ASSUME NEW f, NEW S, IsFiniteSet(S), S # {}
    PROVE  /\ First(S) \in S
           /\ SumFunctionOnSet(f, S) = f[First(S)] + SumFunctionOnSet(f, S \ {First(S)})
<1> DEFINE R == S \ {First(S)}
           h == CHOOSE g : IsFold(f, g, S)
           k == CHOOSE g : IsFold(f, g, R)
<1>1. First(S) \in S
    BY DEF First
<1>2. IsFiniteSet(R) /\ R \subseteq S
    BY FS_Subset
<1>3. \E g : IsFold(f, g, S)
    BY FoldExists
<1>4. \E g : IsFold(f, g, R)
    BY FoldExists, <1>2
<1>5. IsFold(f, h, S) /\ IsFold(f, k, R)
    BY <1>3, <1>4
<1>6. h[S] = f[First(S)] + h[R]
    BY <1>5 DEF IsFold
<1>7. h[R] = k[R]
  <2> HIDE DEF h, k, R
  <2> QED BY <1>2, <1>5, FoldsAgree
<1>8. SumOf(f, S) = h[S] /\ SumOf(f, R) = k[R]
    BY DEF SumOf
<1> QED BY <1>1, <1>6, <1>7, <1>8, SumIsFold

-----------------------------------------------------------------------------
(* What sums are made of *)

\* A sum of integers is one.
LEMMA SumInt ==
    ASSUME NEW f, NEW S, IsFiniteSet(S), \A x \in S : f[x] \in Int
    PROVE  SumFunctionOnSet(f, S) \in Int
<1> DEFINE Good == {T \in SUBSET S : SumFunctionOnSet(f, T) \in Int}
<1>1. ASSUME NEW T \in SUBSET S, \A U \in SUBSET T : U # T => U \in Good
      PROVE  T \in Good
  <2>1. CASE T = {}
    BY <2>1, SumEmpty
  <2>2. CASE T # {}
    <3>1. IsFiniteSet(T)
        BY FS_Subset
    <3>2. /\ First(T) \in T
          /\ SumFunctionOnSet(f, T) = f[First(T)] + SumFunctionOnSet(f, T \ {First(T)})
        BY <2>2, <3>1, SumEquation
    <3>3. T \ {First(T)} \in Good
        BY <1>1, <3>2
    <3> QED BY <3>2, <3>3
  <2> QED BY <2>1, <2>2
<1>2. \A T \in SUBSET S : (\A U \in SUBSET T : U # T => U \in Good) => T \in Good
    BY <1>1
<1> HIDE DEF Good
<1>3. S \in Good
    BY <1>2, SubsetInduction
<1> QED BY <1>3 DEF Good

\* Any element may be taken out, not only the one the fold chooses.
LEMMA SumRemove ==
    ASSUME NEW f, NEW S, IsFiniteSet(S), \A x \in S : f[x] \in Int, NEW a \in S
    PROVE  SumFunctionOnSet(f, S) = f[a] + SumFunctionOnSet(f, S \ {a})
<1> DEFINE sum(T) == SumFunctionOnSet(f, T)
           Good == {T \in SUBSET S : \A x \in T : sum(T) = f[x] + sum(T \ {x})}
<1>1. ASSUME NEW T \in SUBSET S, \A U \in SUBSET T : U # T => U \in Good
      PROVE  T \in Good
  <2>1. IsFiniteSet(T)
    BY FS_Subset
  <2>2. ASSUME NEW x \in T PROVE sum(T) = f[x] + sum(T \ {x})
    <3> DEFINE c == First(T)
    <3>1. c \in T /\ sum(T) = f[c] + sum(T \ {c})
        BY <2>1, SumEquation
    <3> HIDE DEF c
    <3>2. CASE x = c
        BY <3>1, <3>2
    <3>3. CASE x # c
      <4>1. sum(T \ {c}) = f[x] + sum((T \ {c}) \ {x})
          BY <1>1, <3>1, <3>3
      <4>2. sum(T \ {x}) = f[c] + sum((T \ {x}) \ {c})
          BY <1>1, <3>1, <3>3
      <4>3. (T \ {x}) \ {c} = (T \ {c}) \ {x}
          OBVIOUS
      <4>4. IsFiniteSet((T \ {c}) \ {x}) /\ \A y \in (T \ {c}) \ {x} : f[y] \in Int
          BY <2>1, FS_Subset
      <4>5. sum((T \ {c}) \ {x}) \in Int
          BY <4>4, SumInt
      <4>6. f[x] \in Int /\ f[c] \in Int
          BY <3>1
      <4>7. sum(T) = f[c] + (f[x] + sum((T \ {c}) \ {x}))
          BY <3>1, <4>1
      <4>8. f[x] + sum(T \ {x}) = f[x] + (f[c] + sum((T \ {c}) \ {x}))
          BY <4>2, <4>3
      <4> QED BY <4>5, <4>6, <4>7, <4>8
    <3> QED BY <3>2, <3>3
  <2> QED BY <2>2
<1>2. \A T \in SUBSET S : (\A U \in SUBSET T : U # T => U \in Good) => T \in Good
    BY <1>1
<1> HIDE DEF Good
<1>3. S \in Good
    BY <1>2, SubsetInduction
<1> QED BY <1>3 DEF Good

\* A new element adds its value.
LEMMA SumAdd ==
    ASSUME NEW f, NEW S, IsFiniteSet(S), NEW a, a \notin S,
           \A x \in S \union {a} : f[x] \in Int
    PROVE  SumFunctionOnSet(f, S \union {a}) = f[a] + SumFunctionOnSet(f, S)
<1>1. IsFiniteSet(S \union {a})
    BY FS_AddElement
<1>2. (S \union {a}) \ {a} = S
    OBVIOUS
<1> QED BY <1>1, <1>2, SumRemove

\* The sum of greater values is greater.
LEMMA SumMonotone ==
    ASSUME NEW f, NEW g, NEW S, IsFiniteSet(S),
           \A x \in S : f[x] \in Int /\ g[x] \in Int /\ f[x] <= g[x]
    PROVE  SumFunctionOnSet(f, S) <= SumFunctionOnSet(g, S)
<1> DEFINE Good == {T \in SUBSET S : SumFunctionOnSet(f, T) <= SumFunctionOnSet(g, T)}
<1>1. {} \in Good
    BY SumEmpty
<1>2. ASSUME NEW T \in SUBSET S, NEW a \in S \ T, T \in Good
      PROVE  T \union {a} \in Good
  <2>1. IsFiniteSet(T)
    BY FS_Subset
  <2>2. /\ SumFunctionOnSet(f, T \union {a}) = f[a] + SumFunctionOnSet(f, T)
        /\ SumFunctionOnSet(g, T \union {a}) = g[a] + SumFunctionOnSet(g, T)
    BY <2>1, SumAdd
  <2>3. SumFunctionOnSet(f, T) \in Int /\ SumFunctionOnSet(g, T) \in Int
    BY <2>1, SumInt
  <2> QED BY <1>2, <2>2, <2>3
<1>3. \A T \in SUBSET S : \A a \in S \ T : T \in Good => T \union {a} \in Good
    BY <1>2
<1> HIDE DEF Good
<1>4. S \in Good
    BY <1>1, <1>3, AddInduction
<1> QED BY <1>4 DEF Good

\* The sum depends on the values only.
LEMMA SumAgree ==
    ASSUME NEW f, NEW g, NEW S, IsFiniteSet(S), \A x \in S : f[x] \in Int /\ g[x] = f[x]
    PROVE  SumFunctionOnSet(g, S) = SumFunctionOnSet(f, S)
<1>1. SumFunctionOnSet(g, S) <= SumFunctionOnSet(f, S)
    BY SumMonotone
<1>2. SumFunctionOnSet(f, S) <= SumFunctionOnSet(g, S)
    BY SumMonotone
<1>3. SumFunctionOnSet(g, S) \in Int /\ SumFunctionOnSet(f, S) \in Int
    BY SumInt
<1> QED BY <1>1, <1>2, <1>3

\* A sum of natural numbers is one.
LEMMA SumNat ==
    ASSUME NEW f, NEW S, IsFiniteSet(S), \A x \in S : f[x] \in Nat
    PROVE  SumFunctionOnSet(f, S) \in Nat
<1> DEFINE Good == {T \in SUBSET S : SumFunctionOnSet(f, T) \in Nat}
<1>1. {} \in Good
    BY SumEmpty
<1>2. ASSUME NEW T \in SUBSET S, NEW a \in S \ T, T \in Good
      PROVE  T \union {a} \in Good
  <2>1. IsFiniteSet(T)
    BY FS_Subset
  <2>2. SumFunctionOnSet(f, T \union {a}) = f[a] + SumFunctionOnSet(f, T)
    BY <2>1, SumAdd
  <2> QED BY <1>2, <2>2
<1>3. \A T \in SUBSET S : \A a \in S \ T : T \in Good => T \union {a} \in Good
    BY <1>2
<1> HIDE DEF Good
<1>4. S \in Good
    BY <1>1, <1>3, AddInduction
<1> QED BY <1>4 DEF Good

\* Disjoint sets are summed apart.
LEMMA SumDisjoint ==
    ASSUME NEW f, NEW S, NEW T, IsFiniteSet(S), IsFiniteSet(T), S \cap T = {},
           \A x \in S \union T : f[x] \in Int
    PROVE  SumFunctionOnSet(f, S \union T) = SumFunctionOnSet(f, S) + SumFunctionOnSet(f, T)
<1> DEFINE sum(X) == SumFunctionOnSet(f, X)
           Good   == {U \in SUBSET T : sum(S \union U) = sum(S) + sum(U)}
<1>1. {} \in Good
  <2>1. S \union {} = S
    OBVIOUS
  <2>2. sum(S) \in Int
    BY SumInt
  <2> QED BY <2>1, <2>2, SumEmpty
<1>2. ASSUME NEW U \in SUBSET T, NEW a \in T \ U, U \in Good
      PROVE  U \union {a} \in Good
  <2>1. IsFiniteSet(U) /\ IsFiniteSet(S \union U)
    BY FS_Subset, FS_Union
  <2>2. sum(U \union {a}) = f[a] + sum(U)
    BY <2>1, SumAdd
  <2>3. (S \union U) \union {a} = S \union (U \union {a}) /\ a \notin S \union U
    OBVIOUS
  <2>4. sum((S \union U) \union {a}) = f[a] + sum(S \union U)
    BY <2>1, <2>3, SumAdd
  <2>5. sum(U) \in Int /\ sum(S) \in Int /\ f[a] \in Int
    BY <2>1, SumInt
  <2>6. sum(S \union U) = sum(S) + sum(U)
    BY <1>2
  <2>7. sum(S \union (U \union {a})) = f[a] + (sum(S) + sum(U))
    BY <2>3, <2>4, <2>6
  <2>8. sum(S \union (U \union {a})) = sum(S) + sum(U \union {a})
    BY <2>2, <2>5, <2>7
  <2> QED BY <2>8
<1>3. \A U \in SUBSET T : \A a \in T \ U : U \in Good => U \union {a} \in Good
    BY <1>2
<1> HIDE DEF Good
<1>4. T \in Good
    BY <1>1, <1>3, AddInduction
<1> QED BY <1>4 DEF Good

\* A subset's sum is not above the set's when nothing is negative.
LEMMA SumSubset ==
    ASSUME NEW f, NEW S, NEW T \in SUBSET S, IsFiniteSet(S), \A x \in S : f[x] \in Nat
    PROVE  SumFunctionOnSet(f, T) <= SumFunctionOnSet(f, S)
<1>1. T \union (S \ T) = S /\ T \cap (S \ T) = {} /\ IsFiniteSet(T) /\ IsFiniteSet(S \ T)
    BY FS_Subset
<1>2. SumFunctionOnSet(f, S) = SumFunctionOnSet(f, T) + SumFunctionOnSet(f, S \ T)
    BY <1>1, SumDisjoint
<1>3. SumFunctionOnSet(f, T) \in Nat /\ SumFunctionOnSet(f, S \ T) \in Nat
    BY <1>1, SumNat
<1> QED BY <1>2, <1>3

\* An element more adds at most its value, and nothing when it was there.
LEMMA SumAtMost ==
    ASSUME NEW f, NEW S, IsFiniteSet(S), NEW a, \A x \in S \union {a} : f[x] \in Nat
    PROVE  SumFunctionOnSet(f, S \union {a}) <= SumFunctionOnSet(f, S) + f[a]
<1>0. SumFunctionOnSet(f, S) \in Nat /\ f[a] \in Nat
    BY SumNat
<1>1. CASE a \in S
  <2>1. S \union {a} = S
    BY <1>1
  <2>2. SumFunctionOnSet(f, S \union {a}) = SumFunctionOnSet(f, S)
    BY <2>1
  <2> QED BY <1>0, <2>2
<1>2. CASE a \notin S
  <2>1. SumFunctionOnSet(f, S \union {a}) = f[a] + SumFunctionOnSet(f, S)
    BY <1>2, SumAdd
  <2> QED BY <1>0, <2>1
<1> QED BY <1>1, <1>2

\* Pointwise sums are summed apart.
LEMMA SumPlus ==
    ASSUME NEW f, NEW g, NEW h, NEW S, IsFiniteSet(S),
           \A x \in S : f[x] \in Int /\ g[x] \in Int /\ h[x] = f[x] + g[x]
    PROVE  SumFunctionOnSet(h, S) = SumFunctionOnSet(f, S) + SumFunctionOnSet(g, S)
<1> DEFINE sum(k, X) == SumFunctionOnSet(k, X)
           Good      == {T \in SUBSET S : sum(h, T) = sum(f, T) + sum(g, T)}
<1>1. {} \in Good
    BY SumEmpty
<1>2. ASSUME NEW T \in SUBSET S, NEW a \in S \ T, T \in Good
      PROVE  T \union {a} \in Good
  <2>1. IsFiniteSet(T)
    BY FS_Subset
  <2>2. /\ sum(f, T \union {a}) = f[a] + sum(f, T)
        /\ sum(g, T \union {a}) = g[a] + sum(g, T)
        /\ sum(h, T \union {a}) = h[a] + sum(h, T)
    BY <2>1, SumAdd
  <2>3. sum(f, T) \in Int /\ sum(g, T) \in Int
    BY <2>1, SumInt
  <2>4. sum(h, T \union {a}) = (f[a] + g[a]) + (sum(f, T) + sum(g, T))
    BY <1>2, <2>2
  <2>5. sum(h, T \union {a}) = sum(f, T \union {a}) + sum(g, T \union {a})
    BY <2>2, <2>3, <2>4
  <2> QED BY <2>5
<1>3. \A T \in SUBSET S : \A a \in S \ T : T \in Good => T \union {a} \in Good
    BY <1>2
<1> HIDE DEF Good
<1>4. S \in Good
    BY <1>1, <1>3, AddInduction
<1> QED BY <1>4 DEF Good

\* The functions agree on S but for one element.
LEMMA SumChange ==
    ASSUME NEW f, NEW g, NEW S, IsFiniteSet(S), NEW a \in S,
           \A x \in S : f[x] \in Int, g[a] \in Int, \A x \in S \ {a} : g[x] = f[x]
    PROVE  SumFunctionOnSet(g, S) = SumFunctionOnSet(f, S) + (g[a] - f[a])
<1> DEFINE R == S \ {a}
<1>1. IsFiniteSet(R)
    BY FS_Subset
<1>2. SumFunctionOnSet(f, S) = f[a] + SumFunctionOnSet(f, R)
    BY SumRemove
<1>3. SumFunctionOnSet(g, S) = g[a] + SumFunctionOnSet(g, R)
    BY SumRemove
<1>4. SumFunctionOnSet(g, R) = SumFunctionOnSet(f, R)
    BY <1>1, SumAgree
<1>5. SumFunctionOnSet(f, R) \in Int
    BY <1>1, SumInt
<1> QED BY <1>2, <1>3, <1>4, <1>5

\* Equal values sum to their multiple.
LEMMA SumConstant ==
    ASSUME NEW f, NEW S, IsFiniteSet(S), NEW c \in Int, \A x \in S : f[x] = c
    PROVE  SumFunctionOnSet(f, S) = c * Cardinality(S)
<1> DEFINE Good == {T \in SUBSET S : SumFunctionOnSet(f, T) = c * Cardinality(T)}
<1>1. {} \in Good
    BY SumEmpty, FS_EmptySet
<1>2. ASSUME NEW T \in SUBSET S, NEW a \in S \ T, T \in Good
      PROVE  T \union {a} \in Good
  <2>1. IsFiniteSet(T) /\ Cardinality(T) \in Nat
    BY FS_Subset, FS_CardinalityType
  <2>2. SumFunctionOnSet(f, T \union {a}) = c + SumFunctionOnSet(f, T)
    BY <2>1, SumAdd
  <2>3. Cardinality(T \union {a}) = Cardinality(T) + 1
    BY <2>1, FS_AddElement
  <2>4. c + c * Cardinality(T) = c * (Cardinality(T) + 1)
    BY <2>1
  <2> QED BY <1>2, <2>2, <2>3, <2>4
<1>3. \A T \in SUBSET S : \A a \in S \ T : T \in Good => T \union {a} \in Good
    BY <1>2
<1> HIDE DEF Good
<1>4. S \in Good
    BY <1>1, <1>3, AddInduction
<1> QED BY <1>4 DEF Good

\* Summed over the images instead.
LEMMA SumReindex ==
    ASSUME NEW f, NEW g, NEW index, NEW S, IsFiniteSet(S),
           \A x \in S : f[x] \in Int /\ g[index[x]] = f[x],
           \A x, y \in S : index[x] = index[y] => x = y
    PROVE  SumFunctionOnSet(f, S) = SumFunctionOnSet(g, {index[x] : x \in S})
<1> DEFINE image(T) == {index[x] : x \in T}
           Good == {T \in SUBSET S : /\ IsFiniteSet(image(T))
                                     /\ SumFunctionOnSet(f, T) = SumFunctionOnSet(g, image(T))}
<1>1. {} \in Good
  <2>1. image({}) = {}
    OBVIOUS
  <2> QED BY <2>1, SumEmpty, FS_EmptySet
<1>2. ASSUME NEW T \in SUBSET S, NEW a \in S \ T, T \in Good
      PROVE  T \union {a} \in Good
  <2>1. IsFiniteSet(T)
    BY FS_Subset
  <2>2. IsFiniteSet(image(T))
    BY <1>2
  <2>3. image(T \union {a}) = image(T) \union {index[a]} /\ index[a] \notin image(T)
    OBVIOUS
  <2>4. \A y \in image(T) \union {index[a]} : g[y] \in Int
    OBVIOUS
  <2>5. SumFunctionOnSet(f, T \union {a}) = f[a] + SumFunctionOnSet(f, T)
    BY <2>1, SumAdd
  <2> HIDE DEF image
  <2>6. SumFunctionOnSet(g, image(T) \union {index[a]}) = f[a] + SumFunctionOnSet(g, image(T))
    BY <2>2, <2>3, <2>4, SumAdd
  <2>7. IsFiniteSet(image(T) \union {index[a]})
    BY <2>2, FS_AddElement
  <2> QED BY <1>2, <2>3, <2>5, <2>6, <2>7
<1>3. \A T \in SUBSET S : \A a \in S \ T : T \in Good => T \union {a} \in Good
    BY <1>2
<1> HIDE DEF Good
<1>4. S \in Good
    BY <1>1, <1>3, AddInduction
<1> QED BY <1>4 DEF Good

\* The elements whose class is one of K.
OfClass(class, S, K) == {x \in S : class[x] \in K}

\* Summed class by class.
LEMMA SumByClass ==
    ASSUME NEW f, NEW g, NEW class, NEW S, NEW K, IsFiniteSet(S), IsFiniteSet(K),
           \A x \in S : f[x] \in Int,
           \A k \in K : g[k] = SumFunctionOnSet(f, OfClass(class, S, {k}))
    PROVE  SumFunctionOnSet(g, K) = SumFunctionOnSet(f, OfClass(class, S, K))
<1> DEFINE of(L)  == OfClass(class, S, L)
           one(k) == OfClass(class, S, {k})
           Good == {L \in SUBSET K : SumFunctionOnSet(g, L) = SumFunctionOnSet(f, of(L))}
<1>1. {} \in Good
  <2>1. of({}) = {}
    BY DEF OfClass
  <2> QED BY <2>1, SumEmpty
<1>2. ASSUME NEW L \in SUBSET K, NEW k \in K \ L, L \in Good
      PROVE  L \union {k} \in Good
  <2>1. IsFiniteSet(L)
    BY FS_Subset
  <2>2. \A j \in K : IsFiniteSet(one(j)) /\ one(j) \subseteq S
    BY FS_Subset DEF OfClass
  <2>3. \A j \in K : g[j] \in Int
    <3>1. ASSUME NEW j \in K PROVE SumFunctionOnSet(f, one(j)) \in Int
        BY <2>2, SumInt
    <3> QED BY <3>1
  <2>4. SumFunctionOnSet(g, L \union {k}) = g[k] + SumFunctionOnSet(g, L)
    BY <2>1, <2>3, SumAdd
  <2>5. of(L \union {k}) = one(k) \union of(L) /\ one(k) \cap of(L) = {}
    BY DEF OfClass
  <2>6. IsFiniteSet(of(L)) /\ of(L) \subseteq S
    BY FS_Subset DEF OfClass
  <2>7. g[k] = SumFunctionOnSet(f, one(k))
    OBVIOUS
  <2>8. \A x \in one(k) \union of(L) : f[x] \in Int
    BY <2>2, <2>6
  <2>9. SumFunctionOnSet(f, one(k) \union of(L))
          = SumFunctionOnSet(f, one(k)) + SumFunctionOnSet(f, of(L))
    <3> HIDE DEF of, one
    <3> QED BY <2>2, <2>5, <2>6, <2>8, SumDisjoint
  <2>10. SumFunctionOnSet(g, L) = SumFunctionOnSet(f, of(L))
    BY <1>2
  <2>11. SumFunctionOnSet(g, L \union {k}) = SumFunctionOnSet(f, of(L \union {k}))
    BY <2>4, <2>5, <2>7, <2>9, <2>10
  <2> QED BY <2>11
<1>3. \A L \in SUBSET K : \A k \in K \ L : L \in Good => L \union {k} \in Good
    BY <1>2
<1> HIDE DEF Good
<1>4. K \in Good
    BY <1>1, <1>3, AddInduction
<1> QED BY <1>4 DEF Good
=============================================================================
