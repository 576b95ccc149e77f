------------------------------ MODULE SumLemmas ------------------------------
(***************************************************************************)
(* Sums over finite sets: what SumFunctionOnSet of the community module    *)
(* Functions returns.  It is defined by recursion on the set, so the facts *)
(* are proved by induction on finite sets.  A lemma with a predicate as    *)
(* parameter could not be instantiated; the induction is therefore stated  *)
(* for a set, `Good`, and each proof names the sets for which its claim    *)
(* holds.                                                                  *)
(***************************************************************************)
EXTENDS Functions, FiniteSetTheorems, WellFoundedInduction, TLAPS

-----------------------------------------------------------------------------
(* Induction. *)

\* If a set is good whenever its strict subsets are, all subsets of a finite
\* set are good: otherwise there would be a smallest one that is not.

LEMMA SubsetInduction ==
    ASSUME NEW S, IsFiniteSet(S), NEW Good,
           \A T \in SUBSET S :
              (\A U \in SUBSET T : U # T => U \in Good) => T \in Good
    PROVE  \A T \in SUBSET S : T \in Good
<1> DEFINE Bad == {T \in SUBSET S : T \notin Good}
<1>1. IsWellFoundedOn(StrictSubsetOrdering(S), SUBSET S)
  BY FS_StrictSubsetOrderingWellFounded, FS_FiniteSubsetsOfFinite
<1>2. ASSUME Bad # {}
      PROVE  FALSE
  <2>0. Bad \subseteq SUBSET S
    OBVIOUS
  <2>1. PICK T \in Bad : \A U \in Bad : <<U, T>> \notin StrictSubsetOrdering(S)
    <3> HIDE DEF Bad
    <3> QED
      BY <1>1, <1>2, <2>0, WFMin
  <2>2. ASSUME NEW U \in SUBSET T, U # T
        PROVE  U \in Good
    BY <2>1, <2>2 DEF StrictSubsetOrdering
  <2>3. QED
    BY <2>1, <2>2
<1>3. QED
  BY <1>2

-----------------------------------------------------------------------------
(* The recursive definition has a solution, and the sum is its value. *)

\* it sums fun over the subsets of S, one chosen element at a time.
Solves(it, fun, S) ==
    it = [s \in SUBSET S |->
        IF s = {} THEN 0
        ELSE fun[CHOOSE x \in s : TRUE] + it[s \ {CHOOSE x \in s : TRUE}]]

\* What SumFunctionOnSet expands to.
Iter(fun, S) == CHOOSE it : Solves(it, fun, S)

\* The fold of Functions is Iter at the whole set.
LEMMA SumIsIter ==
    ASSUME NEW fun, NEW S
    PROVE  SumFunctionOnSet(fun, S) = Iter(fun, S)[S]
BY DEF SumFunctionOnSet, FoldFunctionOnSet, MapThenFoldSet, Iter, Solves

\* Iter solves the recursion if anything does.
LEMMA IterSolves ==
    ASSUME NEW fun, NEW S, \E it : Solves(it, fun, S)
    PROVE  Solves(Iter(fun, S), fun, S)
BY DEF Iter

\* A solution for a set and one for a subset of it agree on the subset.
LEMMA SolutionsAgree ==
    ASSUME NEW fun, NEW S, IsFiniteSet(S), NEW it, Solves(it, fun, S),
           NEW T \in SUBSET S, NEW jt, Solves(jt, fun, T)
    PROVE  jt[T] = it[T]
<1> DEFINE Good == {s \in SUBSET T : jt[s] = it[s]}
<1>1. IsFiniteSet(T)
  BY FS_Subset
<1>2. ASSUME NEW s \in SUBSET T, \A u \in SUBSET s : u # s => u \in Good
      PROVE  s \in Good
  <2>1. CASE s = {}
    BY <2>1 DEF Solves
  <2>2. CASE s # {}
    <3> DEFINE x == CHOOSE x \in s : TRUE
    <3>1. x \in s
      BY <2>2
    <3>2. jt[s \ {x}] = it[s \ {x}]
      BY <1>2, <3>1
    <3>3. jt[s] = fun[x] + jt[s \ {x}]
      BY <2>2 DEF Solves
    <3>4. it[s] = fun[x] + it[s \ {x}]
      BY <2>2 DEF Solves
    <3>5. QED
      BY <3>2, <3>3, <3>4
  <2>3. QED
    BY <2>1, <2>2
<1>3. \A s \in SUBSET T : s \in Good
  <2> HIDE DEF Good
  <2> QED
    BY <1>1, <1>2, SubsetInduction
<1>4. QED
  BY <1>3

\* For a finite set there is a solution: it is put together from the ones for
\* the smaller sets.
LEMMA SolutionExists ==
    ASSUME NEW fun, NEW S, IsFiniteSet(S)
    PROVE  Solves(Iter(fun, S), fun, S)
<1> DEFINE Good == {T \in SUBSET S : Solves(Iter(fun, T), fun, T)}
<1>1. ASSUME NEW T \in SUBSET S, \A U \in SUBSET T : U # T => U \in Good
      PROVE  T \in Good
  <2> DEFINE pick(s) == CHOOSE x \in s : TRUE
             rest(s) == s \ {pick(s)}
             g == [s \in SUBSET T |->
                     IF s = {} THEN 0
                     ELSE fun[pick(s)] + Iter(fun, rest(s))[rest(s)]]
  <2>1. ASSUME NEW s \in SUBSET T, s # {}
        PROVE  g[rest(s)] = Iter(fun, rest(s))[rest(s)]
    <3> DEFINE r == rest(s)
    <3>1. r \in SUBSET T /\ r # T
      BY <2>1
    <3>2. Solves(Iter(fun, r), fun, r)
      BY <1>1, <3>1
    <3>3. CASE r = {}
      <4>1. Iter(fun, r)[{}] = 0
        BY <3>2 DEF Solves
      <4>2. g[r] = 0
        BY <3>3
      <4>3. QED
        BY <3>3, <4>1, <4>2
    <3>4. CASE r # {}
      <4>1. rest(r) \in SUBSET T /\ rest(r) # T /\ rest(r) \in SUBSET r
        BY <3>1
      <4>2. Solves(Iter(fun, rest(r)), fun, rest(r))
        BY <1>1, <4>1
      <4>3. IsFiniteSet(r)
        BY <3>1, FS_Subset
      <4>4. Iter(fun, rest(r))[rest(r)] = Iter(fun, r)[rest(r)]
        <5> HIDE DEF r, rest
        <5> QED
          BY <3>2, <4>1, <4>2, <4>3, SolutionsAgree
      <4>5. Iter(fun, r)[r] = fun[pick(r)] + Iter(fun, r)[rest(r)]
        <5> HIDE DEF r
        <5> QED
          BY <3>2, <3>4 DEF Solves
      <4>6. g[r] = fun[pick(r)] + Iter(fun, rest(r))[rest(r)]
        <5> HIDE DEF r
        <5> QED
          BY <3>1, <3>4
      <4>7. QED
        BY <4>4, <4>5, <4>6
    <3>5. QED
      BY <3>3, <3>4
  <2>2. Solves(g, fun, T)
    <3> HIDE DEF g
    <3>1. g = [s \in SUBSET T |->
                 IF s = {} THEN 0 ELSE fun[pick(s)] + g[rest(s)]]
      <4>1. ASSUME NEW s \in SUBSET T
            PROVE  g[s] = IF s = {} THEN 0 ELSE fun[pick(s)] + g[rest(s)]
        <5>1. g[s] = IF s = {} THEN 0
                     ELSE fun[pick(s)] + Iter(fun, rest(s))[rest(s)]
          BY DEF g
        <5> HIDE DEF pick, rest
        <5>2. QED
          BY <2>1, <5>1
      <4>2. g = [s \in SUBSET T |-> g[s]]
        BY DEF g
      <4>3. QED
        BY <4>1, <4>2
    <3>2. QED
      BY <3>1 DEF Solves
  <2>3. Solves(Iter(fun, T), fun, T)
    BY <2>2, IterSolves
  <2>4. QED
    BY <2>3
<1>2. \A T \in SUBSET S : T \in Good
  <2> HIDE DEF Good
  <2> QED
    BY <1>1, SubsetInduction
<1>3. QED
  BY <1>2
-----------------------------------------------------------------------------
(* What a sum is. *)

\* The empty sum.
LEMMA SumEmpty ==
    ASSUME NEW fun
    PROVE  SumFunctionOnSet(fun, {}) = 0
<1>1. Solves(Iter(fun, {}), fun, {})
  BY SolutionExists, FS_EmptySet
<1>2. QED
  BY <1>1, SumIsIter DEF Solves

\* A sum is one of its summands more than the sum of the rest.
LEMMA SumStep ==
    ASSUME NEW fun, NEW S, IsFiniteSet(S), S # {}
    PROVE  \E x \in S : SumFunctionOnSet(fun, S)
                          = fun[x] + SumFunctionOnSet(fun, S \ {x})
<1> DEFINE x == CHOOSE x \in S : TRUE
           r == S \ {x}
<1>1. x \in S /\ r \in SUBSET S /\ IsFiniteSet(r)
  BY FS_Subset
<1>2. Solves(Iter(fun, S), fun, S) /\ Solves(Iter(fun, r), fun, r)
  BY <1>1, SolutionExists
<1>3. Iter(fun, S)[S] = fun[x] + Iter(fun, S)[r]
  BY <1>2 DEF Solves
<1>4. Iter(fun, r)[r] = Iter(fun, S)[r]
  <2> HIDE DEF r
  <2> QED
    BY <1>1, <1>2, SolutionsAgree
<1>5. SumFunctionOnSet(fun, S) = fun[x] + SumFunctionOnSet(fun, r)
  BY <1>3, <1>4, SumIsIter
<1>6. QED
  BY <1>1, <1>5

\* A sum of elements of a set that is closed under + is in that set.
LEMMA SumType ==
    ASSUME NEW fun, NEW S, IsFiniteSet(S),
           NEW D, 0 \in D, \A a, b \in D : a + b \in D,
           \A x \in S : fun[x] \in D
    PROVE  SumFunctionOnSet(fun, S) \in D
<1> DEFINE Good == {T \in SUBSET S : SumFunctionOnSet(fun, T) \in D}
<1>1. ASSUME NEW T \in SUBSET S, \A U \in SUBSET T : U # T => U \in Good
      PROVE  T \in Good
  <2>1. CASE T = {}
    BY <2>1, SumEmpty
  <2>2. CASE T # {}
    <3>1. IsFiniteSet(T)
      BY FS_Subset
    <3>2. PICK x \in T : SumFunctionOnSet(fun, T)
                           = fun[x] + SumFunctionOnSet(fun, T \ {x})
      BY <2>2, <3>1, SumStep
    <3>3. SumFunctionOnSet(fun, T \ {x}) \in D
      BY <1>1
    <3>4. QED
      BY <3>2, <3>3
  <2>3. QED
    BY <2>1, <2>2
<1>2. \A T \in SUBSET S : T \in Good
  <2> HIDE DEF Good
  <2> QED
    BY <1>1, SubsetInduction
<1>3. QED
  BY <1>2

LEMMA SumInt ==
    ASSUME NEW fun, NEW S, IsFiniteSet(S), \A x \in S : fun[x] \in Int
    PROVE  SumFunctionOnSet(fun, S) \in Int
BY SumType, \A a, b \in Int : a + b \in Int

LEMMA SumNat ==
    ASSUME NEW fun, NEW S, IsFiniteSet(S), \A x \in S : fun[x] \in Nat
    PROVE  SumFunctionOnSet(fun, S) \in Nat
BY SumType, \A a, b \in Nat : a + b \in Nat

\* The order of summation is immaterial: any element can be taken out.
LEMMA SumRemove ==
    ASSUME NEW fun, NEW S, IsFiniteSet(S), \A x \in S : fun[x] \in Int,
           NEW y \in S
    PROVE  SumFunctionOnSet(fun, S) = fun[y] + SumFunctionOnSet(fun, S \ {y})
<1> DEFINE Total(T) == SumFunctionOnSet(fun, T)
           Good == {T \in SUBSET S : \A z \in T : Total(T) = fun[z] + Total(T \ {z})}
<1>0. \A T \in SUBSET S : Total(T) \in Int
  BY SumInt, FS_Subset
<1>1. ASSUME NEW T \in SUBSET S, \A U \in SUBSET T : U # T => U \in Good
      PROVE  T \in Good
  <2>1. ASSUME NEW z \in T
        PROVE  Total(T) = fun[z] + Total(T \ {z})
    <3>1. IsFiniteSet(T)
      BY FS_Subset
    <3>2. PICK x \in T : Total(T) = fun[x] + Total(T \ {x})
      BY <3>1, SumStep
    <3>3. CASE x = z
      BY <3>2, <3>3
    <3>4. CASE x # z
      <4> DEFINE r == (T \ {x}) \ {z}
      <4>1. /\ z \in T \ {x} /\ T \ {x} \in SUBSET T /\ T \ {x} # T
            /\ x \in T \ {z} /\ T \ {z} \in SUBSET T /\ T \ {z} # T
            /\ (T \ {z}) \ {x} = r /\ r \in SUBSET S
        BY <3>4
      <4>2. Total(T \ {x}) = fun[z] + Total(r)
        BY <1>1, <4>1
      <4>3. Total(T \ {z}) = fun[x] + Total(r)
        BY <1>1, <4>1
      <4>4. Total(r) \in Int /\ fun[x] \in Int /\ fun[z] \in Int
        BY <1>0, <4>1
      <4> HIDE DEF r, Total
      <4>5. QED
        BY <3>2, <4>2, <4>3, <4>4
    <3>5. QED
      BY <3>3, <3>4
  <2>2. QED
    BY <2>1
<1>2. \A T \in SUBSET S : T \in Good
  <2> HIDE DEF Good
  <2> QED
    BY <1>1, SubsetInduction
<1>3. QED
  BY <1>2

\* The sum over the image of an injective function m is the sum over its domain.
LEMMA SumReindexed ==
    ASSUME NEW fun, NEW S, IsFiniteSet(S), \A x \in S : fun[x] \in Int,
           NEW m, \A x, y \in S : m[x] = m[y] => x = y,
           NEW gun, \A x \in S : gun[m[x]] = fun[x]
    PROVE  SumFunctionOnSet(fun, S) = SumFunctionOnSet(gun, {m[x] : x \in S})
<1> DEFINE Img(T) == {m[x] : x \in T}
           Good == {T \in SUBSET S : SumFunctionOnSet(fun, T)
                                       = SumFunctionOnSet(gun, Img(T))}
<1>1. ASSUME NEW T \in SUBSET S, \A U \in SUBSET T : U # T => U \in Good
      PROVE  T \in Good
  <2>1. CASE T = {}
    <3>1. Img(T) = {}
      BY <2>1
    <3>2. QED
      BY <2>1, <3>1, SumEmpty
  <2>2. CASE T # {}
    <3>1. IsFiniteSet(T)
      BY FS_Subset
    <3>2. PICK x \in T : TRUE
      BY <2>2
    <3>3. IsFiniteSet(Img(T))
      <4>1. [y \in T |-> m[y]] \in Surjection(T, Img(T))
        BY DEF Surjection
      <4> HIDE DEF Img
      <4>2. QED
        BY <3>1, <4>1, FS_Surjection
    <3>4. /\ m[x] \in Img(T)
          /\ Img(T) \ {m[x]} = Img(T \ {x})
      BY <3>2
    <3>5. \A y \in Img(T) : gun[y] \in Int
      OBVIOUS
    <3>6. SumFunctionOnSet(fun, T) = fun[x] + SumFunctionOnSet(fun, T \ {x})
      BY <3>1, SumRemove
    <3>7. SumFunctionOnSet(gun, Img(T))
            = gun[m[x]] + SumFunctionOnSet(gun, Img(T \ {x}))
      <4> HIDE DEF Img
      <4> QED
        BY <3>3, <3>4, <3>5, SumRemove
    <3>8. SumFunctionOnSet(fun, T \ {x}) = SumFunctionOnSet(gun, Img(T \ {x}))
      BY <1>1
    <3>9. QED
      BY <3>6, <3>7, <3>8
  <2>3. QED
    BY <2>1, <2>2
<1>2. \A T \in SUBSET S : T \in Good
  <2> HIDE DEF Good
  <2> QED
    BY <1>1, SubsetInduction
<1>3. QED
  BY <1>2

\* A sum depends only on the summands.
LEMMA SumAgrees ==
    ASSUME NEW fun, NEW S, IsFiniteSet(S), \A x \in S : fun[x] \in Int,
           NEW gun, \A x \in S : gun[x] = fun[x]
    PROVE  SumFunctionOnSet(fun, S) = SumFunctionOnSet(gun, S)
<1> DEFINE m == [x \in S |-> x]
<1>1. {m[x] : x \in S} = S
  OBVIOUS
<1>2. (\A x, y \in S : m[x] = m[y] => x = y) /\ \A x \in S : gun[m[x]] = fun[x]
  OBVIOUS
<1> HIDE DEF m
<1>3. SumFunctionOnSet(fun, S) = SumFunctionOnSet(gun, {m[x] : x \in S})
  BY <1>2, SumReindexed
<1>4. QED
  BY <1>1, <1>3

\* The sum over the union of two disjoint sets.
LEMMA SumDisjoint ==
    ASSUME NEW fun, NEW S, IsFiniteSet(S), NEW T, IsFiniteSet(T), S \cap T = {},
           \A x \in S \cup T : fun[x] \in Int
    PROVE  SumFunctionOnSet(fun, S \cup T)
             = SumFunctionOnSet(fun, S) + SumFunctionOnSet(fun, T)
<1> DEFINE Total(U) == SumFunctionOnSet(fun, U)
           Good == {U \in SUBSET T : Total(S \cup U) = Total(S) + Total(U)}
<1>0. \A U \in SUBSET (S \cup T) : IsFiniteSet(U) /\ Total(U) \in Int
  <2>1. IsFiniteSet(S \cup T)
    BY FS_Union
  <2>2. \A U \in SUBSET (S \cup T) : IsFiniteSet(U)
    BY <2>1, FS_Subset
  <2>3. QED
    BY <2>2, SumInt
<1>1. ASSUME NEW U \in SUBSET T, \A V \in SUBSET U : V # U => V \in Good
      PROVE  U \in Good
  <2>1. CASE U = {}
    <3>1. S \cup U = S
      BY <2>1
    <3>2. Total(S \cup U) = Total(S)
      BY <3>1, Zenon
    <3>3. Total(U) = 0 /\ Total(S) \in Int
      BY <1>0, <2>1, SumEmpty
    <3>4. Total(S \cup U) = Total(S) + Total(U)
      BY <3>2, <3>3
    <3>5. QED
      BY <3>4
  <2>2. CASE U # {}
    <3>1. PICK x \in U : TRUE
      BY <2>2
    <3>2. (S \cup U) \ {x} = S \cup (U \ {x})
      OBVIOUS
    <3>3. Total(S \cup U) = fun[x] + Total(S \cup (U \ {x}))
      <4>1. IsFiniteSet(S \cup U) /\ x \in S \cup U /\ \A y \in S \cup U : fun[y] \in Int
        BY <1>0
      <4>2. Total(S \cup U) = fun[x] + Total((S \cup U) \ {x})
        BY <4>1, SumRemove
      <4>3. QED
        BY <3>2, <4>2
    <3>4. Total(U) = fun[x] + Total(U \ {x})
      BY <1>0, SumRemove
    <3>5. Total(S \cup (U \ {x})) = Total(S) + Total(U \ {x})
      BY <1>1
    <3>6. Total(S) \in Int /\ Total(U \ {x}) \in Int /\ fun[x] \in Int
      BY <1>0
    <3> HIDE DEF Total
    <3>7. QED
      BY <3>3, <3>4, <3>5, <3>6
  <2>3. QED
    BY <2>1, <2>2
<1>2. \A U \in SUBSET T : U \in Good
  <2> HIDE DEF Good
  <2> QED
    BY <1>1, SubsetInduction
<1>3. QED
  BY <1>2

\* Fewer summands, none of them negative, give no more.
LEMMA SumOfSubset ==
    ASSUME NEW fun, NEW S, IsFiniteSet(S), \A x \in S : fun[x] \in Nat,
           NEW T \in SUBSET S
    PROVE  SumFunctionOnSet(fun, T) <= SumFunctionOnSet(fun, S)
<1>1. IsFiniteSet(T) /\ IsFiniteSet(S \ T)
  BY FS_Subset
<1>2. SumFunctionOnSet(fun, T) \in Nat /\ SumFunctionOnSet(fun, S \ T) \in Nat
  BY <1>1, SumNat
<1>3. T \cup (S \ T) = S /\ T \cap (S \ T) = {} /\ \A x \in T \cup (S \ T) : fun[x] \in Int
  OBVIOUS
<1>4. SumFunctionOnSet(fun, T \cup (S \ T))
        = SumFunctionOnSet(fun, T) + SumFunctionOnSet(fun, S \ T)
  BY <1>1, <1>3, SumDisjoint
<1>5. SumFunctionOnSet(fun, S)
        = SumFunctionOnSet(fun, T) + SumFunctionOnSet(fun, S \ T)
  BY <1>3, <1>4, Zenon
<1>6. QED
  BY <1>2, <1>5

\* The sum of differences is the difference of the sums.
LEMMA SumOfDifferences ==
    ASSUME NEW S, IsFiniteSet(S), NEW plus, NEW minus, NEW net,
           \A x \in S : plus[x] \in Int /\ minus[x] \in Int
                        /\ net[x] = plus[x] - minus[x]
    PROVE  SumFunctionOnSet(net, S)
             = SumFunctionOnSet(plus, S) - SumFunctionOnSet(minus, S)
<1> DEFINE Good == {T \in SUBSET S :
                      SumFunctionOnSet(net, T)
                        = SumFunctionOnSet(plus, T) - SumFunctionOnSet(minus, T)}
<1>1. ASSUME NEW T \in SUBSET S, \A U \in SUBSET T : U # T => U \in Good
      PROVE  T \in Good
  <2>1. CASE T = {}
    BY <2>1, SumEmpty
  <2>2. CASE T # {}
    <3>1. PICK x \in T : TRUE
      BY <2>2
    <3>2. IsFiniteSet(T) /\ IsFiniteSet(T \ {x})
      BY FS_Subset
    <3>3. \A y \in T : net[y] \in Int /\ plus[y] \in Int /\ minus[y] \in Int
      OBVIOUS
    <3>4. /\ SumFunctionOnSet(net, T) = net[x] + SumFunctionOnSet(net, T \ {x})
          /\ SumFunctionOnSet(plus, T) = plus[x] + SumFunctionOnSet(plus, T \ {x})
          /\ SumFunctionOnSet(minus, T) = minus[x] + SumFunctionOnSet(minus, T \ {x})
      BY <3>2, <3>3, SumRemove
    <3>5. SumFunctionOnSet(net, T \ {x})
            = SumFunctionOnSet(plus, T \ {x}) - SumFunctionOnSet(minus, T \ {x})
      BY <1>1
    <3>6. /\ SumFunctionOnSet(plus, T \ {x}) \in Int
          /\ SumFunctionOnSet(minus, T \ {x}) \in Int
      BY <3>2, <3>3, SumInt
    <3>7. plus[x] \in Int /\ minus[x] \in Int /\ net[x] = plus[x] - minus[x]
      OBVIOUS
    <3>8. SumFunctionOnSet(net, T)
            = SumFunctionOnSet(plus, T) - SumFunctionOnSet(minus, T)
      BY <3>4, <3>5, <3>6, <3>7
    <3>9. QED
      BY <3>8
  <2>3. QED
    BY <2>1, <2>2
<1>2. \A T \in SUBSET S : T \in Good
  <2> HIDE DEF Good
  <2> QED
    BY <1>1, SubsetInduction
<1>3. QED
  BY <1>2

\* The sums over disjoint parts add up to the sum over their union.
LEMMA SumOfParts ==
    ASSUME NEW fun, NEW Whole, IsFiniteSet(Whole), \A x \in Whole : fun[x] \in Int,
           NEW S, IsFiniteSet(S), NEW part, \A t \in S : part[t] \in SUBSET Whole,
           \A t, u \in S : t # u => part[t] \cap part[u] = {},
           NEW total, \A t \in S : total[t] = SumFunctionOnSet(fun, part[t])
    PROVE  SumFunctionOnSet(total, S)
             = SumFunctionOnSet(fun, UNION {part[t] : t \in S})
<1> DEFINE All(T) == UNION {part[t] : t \in T}
           Good == {T \in SUBSET S :
                      SumFunctionOnSet(total, T) = SumFunctionOnSet(fun, All(T))}
<1>0. \A U \in SUBSET Whole :
        /\ IsFiniteSet(U)
        /\ SumFunctionOnSet(fun, U) \in Int
  BY FS_Subset, SumInt
<1>1. ASSUME NEW T \in SUBSET S, \A U \in SUBSET T : U # T => U \in Good
      PROVE  T \in Good
  <2>1. CASE T = {}
    <3>1. All(T) = {}
      BY <2>1
    <3>2. QED
      BY <2>1, <3>1, SumEmpty
  <2>2. CASE T # {}
    <3>1. PICK t \in T : TRUE
      BY <2>2
    <3>2. IsFiniteSet(T) /\ \A u \in T : total[u] \in Int
      BY <1>0, FS_Subset
    <3>3. SumFunctionOnSet(total, T)
            = total[t] + SumFunctionOnSet(total, T \ {t})
      BY <3>2, SumRemove
    <3>4. /\ All(T) = part[t] \cup All(T \ {t})
          /\ part[t] \cap All(T \ {t}) = {}
          /\ part[t] \in SUBSET Whole /\ All(T \ {t}) \in SUBSET Whole
      OBVIOUS
    <3>5. SumFunctionOnSet(total, T \ {t}) = SumFunctionOnSet(fun, All(T \ {t}))
      BY <1>1
    <3> HIDE DEF All
    <3>6. SumFunctionOnSet(fun, part[t] \cup All(T \ {t}))
            = SumFunctionOnSet(fun, part[t]) + SumFunctionOnSet(fun, All(T \ {t}))
      <4>1. IsFiniteSet(part[t]) /\ IsFiniteSet(All(T \ {t}))
        BY <1>0, <3>4
      <4>2. \A x \in part[t] \cup All(T \ {t}) : fun[x] \in Int
        BY <3>4
      <4>3. QED
        BY <3>4, <4>1, <4>2, SumDisjoint
    <3>7. SumFunctionOnSet(total, T) = SumFunctionOnSet(fun, All(T))
      BY <3>3, <3>4, <3>5, <3>6
    <3>8. QED
      BY <3>7
  <2>3. QED
    BY <2>1, <2>2
<1>2. \A T \in SUBSET S : T \in Good
  <2> HIDE DEF Good
  <2> QED
    BY <1>1, SubsetInduction
<1>3. QED
  BY <1>2
=============================================================================
