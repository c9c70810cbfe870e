----------------------------- MODULE SumTheorems -----------------------------
(***************************************************************************)
(* The sum of the values of a function on a finite set, SumFunctionOnSet   *)
(* of the community modules, which is a recursion on the set, and order    *)
(* under multiplication.  Induction is stated with the set of the sets for *)
(* which a fact holds, since the provers cannot instantiate a theorem      *)
(* about an operator.                                                      *)
(***************************************************************************)
EXTENDS Integers, FiniteSets, Functions, FiniteSetTheorems, TLAPS

\* What holds of a set whenever it holds of all its proper subsets, holds of
\* every subset of a finite set.
LEMMA SubsetInduction ==
  ASSUME NEW S, IsFiniteSet(S), NEW A,
         \A s \in SUBSET S : (\A t \in SUBSET s : t # s => t \in A) => s \in A
  PROVE  \A s \in SUBSET S : s \in A
<1> DEFINE F == FiniteSubsetsOf(S)
           R == StrictSubsetOrdering(S)
           B == {s \in F : s \notin A}
<1>1. F = SUBSET S
  BY FS_FiniteSubsetsOfFinite
<1>2. IsWellFoundedOn(R, F)
  BY FS_StrictSubsetOrderingWellFounded
<1>3. SUFFICES ASSUME B # {} PROVE FALSE
  BY <1>1
<1>4. PICK s \in B : \A t \in B : <<t, s>> \notin R
  <2> HIDE DEF F, R
  <2>1. B \subseteq F
    OBVIOUS
  <2> HIDE DEF B
  <2> QED
    BY <1>2, <1>3, <2>1, WFMin
<1>5. ASSUME NEW t \in SUBSET s, t # s PROVE t \in A
  <2>1. t \in SUBSET S /\ s \in SUBSET S
    BY <1>1
  <2>2. <<t, s>> \in R
    BY <1>5, <2>1 DEF StrictSubsetOrdering
  <2> QED
    BY <1>1, <1>4, <2>1, <2>2
<1> QED
  BY <1>1, <1>5

\* g is the recursion behind SumFunctionOnSet(f, S).
IsSum(g, f, S) ==
  g = [s \in SUBSET S |->
         IF s = {} THEN 0 ELSE f[CHOOSE x \in s : TRUE] + g[s \ {CHOOSE x \in s : TRUE}]]

LEMMA SumIsRecursion ==
  ASSUME NEW f, NEW S
  PROVE  SumFunctionOnSet(f, S) = (CHOOSE g : IsSum(g, f, S))[S]
BY DEF SumFunctionOnSet, FoldFunctionOnSet, MapThenFoldSet, IsSum

\* Two recursions agree where both are defined.
LEMMA SumsAgree ==
  ASSUME NEW f, NEW S, NEW T, NEW g, NEW h, IsSum(g, f, S), IsSum(h, f, T),
         NEW U, U \subseteq S, U \subseteq T, IsFiniteSet(U)
  PROVE  g[U] = h[U]
<1> DEFINE A == {s \in SUBSET U : g[s] = h[s]}
<1>1. ASSUME NEW s \in SUBSET U, \A t \in SUBSET s : t # s => t \in A
      PROVE  s \in A
  <2>1. s \in SUBSET S /\ s \in SUBSET T
    OBVIOUS
  <2>2. CASE s = {}
    BY <2>1, <2>2 DEF IsSum
  <2>3. CASE s # {}
    <3>1. PICK x \in s : x = CHOOSE y \in s : TRUE
      BY <2>3
    <3>2. g[s] = f[x] + g[s \ {x}] /\ h[s] = f[x] + h[s \ {x}]
      BY <2>1, <2>3, <3>1 DEF IsSum
    <3>3. s \ {x} \in SUBSET s /\ s \ {x} # s
      OBVIOUS
    <3>4. g[s \ {x}] = h[s \ {x}]
      BY <1>1, <3>3
    <3> QED
      BY <3>2, <3>4
  <2> QED
    BY <2>2, <2>3
<1> HIDE DEF A
<1>2. U \in A
  BY <1>1, SubsetInduction
<1> QED
  BY <1>2 DEF A

\* On a finite set the recursion exists.
LEMMA SumExists ==
  ASSUME NEW f, NEW S, IsFiniteSet(S)
  PROVE  \A s \in SUBSET S : \E g : IsSum(g, f, s)
<1> DEFINE A == {s \in SUBSET S : \E g : IsSum(g, f, s)}
<1>1. ASSUME NEW s \in SUBSET S, \A t \in SUBSET s : t # s => t \in A
      PROVE  s \in A
  <2> DEFINE sol(t) == CHOOSE g : IsSum(g, f, t)
             val == [t \in SUBSET s |-> sol(t)[t]]
             c(t) == CHOOSE x \in t : TRUE
             h == [t \in SUBSET s |-> IF t = {} THEN 0 ELSE f[c(t)] + val[t \ {c(t)}]]
  <2>1. ASSUME NEW t \in SUBSET s, t # s PROVE IsSum(sol(t), f, t)
    BY <1>1, <2>1
  <2>2. ASSUME NEW t \in SUBSET s, t # s PROVE h[t] = val[t]
    <3>1. val[t] = sol(t)[t] /\ IsSum(sol(t), f, t)
      BY <2>1, <2>2
    <3>2. CASE t = {}
      BY <3>1, <3>2 DEF IsSum
    <3>3. CASE t # {}
      <4>1. PICK x \in t : x = c(t)
        BY <3>3
      <4>2. t \ {x} \in SUBSET s /\ t \ {x} # s /\ IsFiniteSet(t \ {x})
        BY <1>1, FS_Subset
      <4>3. val[t \ {x}] = sol(t \ {x})[t \ {x}] /\ IsSum(sol(t \ {x}), f, t \ {x})
        BY <2>1, <4>2
      <4>4. sol(t)[t \ {x}] = sol(t \ {x})[t \ {x}]
        <5> HIDE DEF sol
        <5> QED
          BY <3>1, <4>2, <4>3, SumsAgree
      <4>5. sol(t)[t] = f[x] + sol(t)[t \ {x}]
        <5> HIDE DEF sol
        <5> QED
          BY <3>1, <3>3, <4>1 DEF IsSum
      <4>6. h[t] = f[x] + val[t \ {x}]
        <5> HIDE DEF val
        <5> QED
          BY <3>3, <4>1
      <4> HIDE DEF h, val, sol
      <4> QED
        BY <3>1, <4>3, <4>4, <4>5, <4>6
    <3> QED
      BY <3>2, <3>3
  <2>3. IsSum(h, f, s)
    <3>1. ASSUME NEW t \in SUBSET s, t # {} PROVE val[t \ {c(t)}] = h[t \ {c(t)}]
      <4>1. PICK x \in t : x = c(t)
        BY <3>1
      <4>2. t \ {x} \in SUBSET s /\ t \ {x} # s
        OBVIOUS
      <4> HIDE DEF h, val
      <4> QED
        BY <2>2, <4>1, <4>2
    <3> HIDE DEF val
    <3>2. h = [t \in SUBSET s |-> IF t = {} THEN 0 ELSE f[c(t)] + h[t \ {c(t)}]]
      <4>1. \A t \in SUBSET s : val[t \ {c(t)}] = h[t \ {c(t)}] \/ t = {}
        BY <3>1
      <4> HIDE DEF c
      <4> QED
        BY <4>1
    <3> QED
      BY <3>2 DEF IsSum
  <2> QED
    BY <2>3
<1> HIDE DEF A
<1>2. \A s \in SUBSET S : s \in A
  BY <1>1, SubsetInduction
<1> QED
  BY <1>2 DEF A

\* SumFunctionOnSet satisfies the equations by which it is meant.
LEMMA SumEquations ==
  ASSUME NEW f, NEW S, IsFiniteSet(S)
  PROVE  /\ S = {} => SumFunctionOnSet(f, S) = 0
         /\ S # {} => \E x \in S : SumFunctionOnSet(f, S) = f[x] + SumFunctionOnSet(f, S \ {x})
<1>1. PICK g : IsSum(g, f, S) /\ SumFunctionOnSet(f, S) = g[S]
  <2>1. S \in SUBSET S
    OBVIOUS
  <2>2. \E g : IsSum(g, f, S)
    BY <2>1, SumExists
  <2> QED
    BY <2>2, SumIsRecursion
<1>2. CASE S = {}
  BY <1>1, <1>2 DEF IsSum
<1>3. CASE S # {}
  <2>1. PICK x \in S : x = CHOOSE y \in S : TRUE
    BY <1>3
  <2>2. S \ {x} \in SUBSET S /\ IsFiniteSet(S \ {x})
    BY FS_Subset
  <2>3. PICK h : IsSum(h, f, S \ {x}) /\ SumFunctionOnSet(f, S \ {x}) = h[S \ {x}]
    <3>1. \E h : IsSum(h, f, S \ {x})
      BY <2>2, SumExists
    <3> QED
      BY <3>1, SumIsRecursion
  <2>4. g[S \ {x}] = h[S \ {x}]
    BY <1>1, <2>2, <2>3, SumsAgree
  <2>5. g[S] = f[x] + g[S \ {x}]
    BY <1>1, <1>3, <2>1 DEF IsSum
  <2> QED
    BY <1>1, <1>3, <2>3, <2>4, <2>5
<1> QED
  BY <1>2, <1>3

LEMMA SumEmpty == \A f : SumFunctionOnSet(f, {}) = 0
BY SumEquations, FS_EmptySet

\* A sum of integers is an integer, and any element can be taken out of it.
LEMMA SumRemove ==
  ASSUME NEW f, NEW S, IsFiniteSet(S), \A x \in S : f[x] \in Int
  PROVE  /\ SumFunctionOnSet(f, S) \in Int
         /\ \A x \in S : SumFunctionOnSet(f, S) = f[x] + SumFunctionOnSet(f, S \ {x})
<1> DEFINE A == {s \in SUBSET S :
                   /\ SumFunctionOnSet(f, s) \in Int
                   /\ \A x \in s : SumFunctionOnSet(f, s) = f[x] + SumFunctionOnSet(f, s \ {x})}
<1>1. ASSUME NEW s \in SUBSET S, \A t \in SUBSET s : t # s => t \in A
      PROVE  s \in A
  <2>1. IsFiniteSet(s)
    BY FS_Subset
  <2>2. CASE s = {}
    BY <2>2, SumEmpty
  <2>3. CASE s # {}
    <3>1. PICK x \in s : SumFunctionOnSet(f, s) = f[x] + SumFunctionOnSet(f, s \ {x})
      BY <2>1, <2>3, SumEquations
    <3>2. s \ {x} \in A
      BY <1>1
    <3>3. SumFunctionOnSet(f, s \ {x}) \in Int /\ f[x] \in Int
      BY <3>2
    <3>4. SumFunctionOnSet(f, s) \in Int
      BY <3>1, <3>3
    <3>5. ASSUME NEW y \in s, y # x
          PROVE  SumFunctionOnSet(f, s) = f[y] + SumFunctionOnSet(f, s \ {y})
      <4>1. s \ {y} \in A /\ x \in s \ {y} /\ y \in s \ {x}
        BY <1>1, <3>5
      <4>2. (s \ {x}) \ {y} = (s \ {y}) \ {x} /\ (s \ {x}) \ {y} \in A
        BY <1>1
      <4>3. /\ SumFunctionOnSet(f, s \ {x}) = f[y] + SumFunctionOnSet(f, (s \ {x}) \ {y})
            /\ SumFunctionOnSet(f, s \ {y}) = f[x] + SumFunctionOnSet(f, (s \ {y}) \ {x})
        BY <3>2, <4>1
      <4>4. /\ SumFunctionOnSet(f, (s \ {x}) \ {y}) \in Int /\ f[y] \in Int
            /\ SumFunctionOnSet(f, (s \ {y}) \ {x}) = SumFunctionOnSet(f, (s \ {x}) \ {y})
        BY <4>2
      <4> HIDE DEF A
      <4> QED
        BY <3>1, <3>3, <4>3, <4>4
    <3> QED
      BY <3>1, <3>4, <3>5
  <2> QED
    BY <2>2, <2>3
<1> HIDE DEF A
<1>2. S \in A
  BY <1>1, SubsetInduction
<1> QED
  BY <1>2 DEF A

\* A greater function has a greater sum.
LEMMA SumMonotonic ==
  ASSUME NEW f, NEW g, NEW S, IsFiniteSet(S),
         \A x \in S : f[x] \in Int /\ g[x] \in Int /\ f[x] <= g[x]
  PROVE  SumFunctionOnSet(f, S) <= SumFunctionOnSet(g, S)
<1> DEFINE A == {s \in SUBSET S : SumFunctionOnSet(f, s) <= SumFunctionOnSet(g, s)}
<1>1. ASSUME NEW s \in SUBSET S, \A t \in SUBSET s : t # s => t \in A
      PROVE  s \in A
  <2>1. IsFiniteSet(s)
    BY FS_Subset
  <2>2. CASE s = {}
    BY <2>2, SumEmpty
  <2>3. CASE s # {}
    <3>1. PICK x \in s : TRUE
      BY <2>3
    <3>2. s \ {x} \in A /\ IsFiniteSet(s \ {x})
      BY <1>1, <2>1, FS_Subset
    <3>3. /\ SumFunctionOnSet(f, s) = f[x] + SumFunctionOnSet(f, s \ {x})
          /\ SumFunctionOnSet(g, s) = g[x] + SumFunctionOnSet(g, s \ {x})
      BY <2>1, SumRemove
    <3>4. SumFunctionOnSet(f, s \ {x}) \in Int /\ SumFunctionOnSet(g, s \ {x}) \in Int
      BY <3>2, SumRemove
    <3>5. f[x] \in Int /\ g[x] \in Int /\ f[x] <= g[x]
      OBVIOUS
    <3> QED
      BY <3>2, <3>3, <3>4, <3>5
  <2> QED
    BY <2>2, <2>3
<1> HIDE DEF A
<1>2. S \in A
  BY <1>1, SubsetInduction
<1> QED
  BY <1>2 DEF A

\* The sum depends on the function's values on the set only.
LEMMA SumSame ==
  ASSUME NEW f, NEW g, NEW S, IsFiniteSet(S), \A x \in S : f[x] \in Int /\ f[x] = g[x]
  PROVE  SumFunctionOnSet(f, S) = SumFunctionOnSet(g, S)
<1>1. /\ SumFunctionOnSet(f, S) \in Int /\ SumFunctionOnSet(g, S) \in Int
  BY SumRemove
<1>2. \A x \in S : f[x] \in Int /\ g[x] \in Int /\ f[x] <= g[x] /\ g[x] <= f[x]
  OBVIOUS
<1>3. /\ SumFunctionOnSet(f, S) <= SumFunctionOnSet(g, S)
      /\ SumFunctionOnSet(g, S) <= SumFunctionOnSet(f, S)
  BY <1>2, SumMonotonic
<1> QED
  BY <1>1, <1>3

\* The sum of a sum.
LEMMA SumPlus ==
  ASSUME NEW f, NEW g, NEW h, NEW S, IsFiniteSet(S),
         \A x \in S : f[x] \in Int /\ g[x] \in Int /\ h[x] = f[x] + g[x]
  PROVE  SumFunctionOnSet(h, S) = SumFunctionOnSet(f, S) + SumFunctionOnSet(g, S)
<1> DEFINE A == {s \in SUBSET S : SumFunctionOnSet(h, s)
                                    = SumFunctionOnSet(f, s) + SumFunctionOnSet(g, s)}
<1>1. ASSUME NEW s \in SUBSET S, \A t \in SUBSET s : t # s => t \in A
      PROVE  s \in A
  <2>1. IsFiniteSet(s)
    BY FS_Subset
  <2>2. CASE s = {}
    BY <2>2, SumEmpty
  <2>3. CASE s # {}
    <3>1. PICK x \in s : TRUE
      BY <2>3
    <3>2. s \ {x} \in A /\ IsFiniteSet(s \ {x})
      BY <1>1, <2>1, FS_Subset
    <3>3. \A y \in S : f[y] \in Int /\ g[y] \in Int /\ h[y] \in Int
      OBVIOUS
    <3>4. /\ SumFunctionOnSet(f, s) = f[x] + SumFunctionOnSet(f, s \ {x})
          /\ SumFunctionOnSet(g, s) = g[x] + SumFunctionOnSet(g, s \ {x})
          /\ SumFunctionOnSet(h, s) = h[x] + SumFunctionOnSet(h, s \ {x})
      BY <2>1, <3>3, SumRemove
    <3>5. SumFunctionOnSet(f, s \ {x}) \in Int /\ SumFunctionOnSet(g, s \ {x}) \in Int
      BY <3>2, <3>3, SumRemove
    <3>6. f[x] \in Int /\ g[x] \in Int /\ h[x] = f[x] + g[x]
      OBVIOUS
    <3> QED
      BY <3>2, <3>4, <3>5, <3>6
  <2> QED
    BY <2>2, <2>3
<1> HIDE DEF A
<1>2. S \in A
  BY <1>1, SubsetInduction
<1> QED
  BY <1>2 DEF A

\* The sum of a constant.
LEMMA SumConstant ==
  ASSUME NEW f, NEW S, IsFiniteSet(S), NEW k \in Int, \A x \in S : f[x] = k
  PROVE  SumFunctionOnSet(f, S) = Cardinality(S) * k
<1> DEFINE A == {s \in SUBSET S : SumFunctionOnSet(f, s) = Cardinality(s) * k}
<1>1. ASSUME NEW s \in SUBSET S, \A t \in SUBSET s : t # s => t \in A
      PROVE  s \in A
  <2>1. IsFiniteSet(s)
    BY FS_Subset
  <2>2. CASE s = {}
    BY <2>2, SumEmpty, FS_EmptySet
  <2>3. CASE s # {}
    <3>1. PICK x \in s : TRUE
      BY <2>3
    <3>2. s \ {x} \in A /\ IsFiniteSet(s \ {x})
      BY <1>1, <2>1, FS_Subset
    <3>3. SumFunctionOnSet(f, s) = k + SumFunctionOnSet(f, s \ {x})
      BY <2>1, SumRemove
    <3>4. PICK n \in Nat : n = Cardinality(s \ {x})
      BY <3>2, FS_CardinalityType
    <3>5. Cardinality(s) = n + 1
      <4>1. Cardinality(s) \in Nat /\ n = Cardinality(s) - 1
        BY <2>1, <3>4, FS_RemoveElement, FS_CardinalityType
      <4> QED
        BY <4>1
    <3>6. k + n * k = (n + 1) * k
      OBVIOUS
    <3> QED
      BY <3>2, <3>3, <3>4, <3>5, <3>6
  <2> QED
    BY <2>2, <2>3
<1> HIDE DEF A
<1>2. S \in A
  BY <1>1, SubsetInduction
<1> QED
  BY <1>2 DEF A

\* One element's value changes.
LEMMA SumUpdate ==
  ASSUME NEW f, NEW g, NEW S, IsFiniteSet(S), NEW x \in S,
         \A y \in S : f[y] \in Int /\ g[y] \in Int /\ (y # x => g[y] = f[y])
  PROVE  SumFunctionOnSet(g, S) = SumFunctionOnSet(f, S) + g[x] - f[x]
<1>1. /\ SumFunctionOnSet(f, S) = f[x] + SumFunctionOnSet(f, S \ {x})
      /\ SumFunctionOnSet(g, S) = g[x] + SumFunctionOnSet(g, S \ {x})
  BY SumRemove
<1>2. IsFiniteSet(S \ {x})
  BY FS_Subset
<1>3. SumFunctionOnSet(f, S \ {x}) = SumFunctionOnSet(g, S \ {x})
  BY <1>2, SumSame
<1>4. SumFunctionOnSet(f, S \ {x}) \in Int /\ f[x] \in Int /\ g[x] \in Int
  BY <1>2, SumRemove
<1> QED
  BY <1>1, <1>3, <1>4

\* A sum of ones is a count.
LEMMA SumCounts ==
  ASSUME NEW f, NEW S, IsFiniteSet(S), NEW B \in SUBSET S,
         \A x \in S : f[x] = IF x \in B THEN 1 ELSE 0
  PROVE  SumFunctionOnSet(f, S) = Cardinality(B)
<1> DEFINE A == {s \in SUBSET S : SumFunctionOnSet(f, s) = Cardinality(s \cap B)}
<1>1. ASSUME NEW s \in SUBSET S, \A t \in SUBSET s : t # s => t \in A
      PROVE  s \in A
  <2>1. IsFiniteSet(s) /\ IsFiniteSet(s \cap B)
    BY FS_Subset
  <2>2. CASE s = {}
    <3>1. s \cap B = {}
      BY <2>2
    <3> QED
      BY <2>2, <3>1, SumEmpty, FS_EmptySet
  <2>3. CASE s # {}
    <3>1. PICK x \in s : TRUE
      BY <2>3
    <3>2. s \ {x} \in A
      BY <1>1
    <3>3. SumFunctionOnSet(f, s) = f[x] + SumFunctionOnSet(f, s \ {x})
      BY <2>1, SumRemove
    <3>4. (s \ {x}) \cap B = (s \cap B) \ {x}
      OBVIOUS
    <3>5. /\ Cardinality((s \cap B) \ {x})
               = IF x \in s \cap B THEN Cardinality(s \cap B) - 1 ELSE Cardinality(s \cap B)
          /\ Cardinality(s \cap B) \in Nat
      BY <2>1, FS_RemoveElement, FS_CardinalityType
    <3>6. f[x] = IF x \in s \cap B THEN 1 ELSE 0
      OBVIOUS
    <3>7. SumFunctionOnSet(f, s \ {x}) = Cardinality((s \cap B) \ {x})
      BY <3>2, <3>4
    <3> HIDE DEF A
    <3>8. SumFunctionOnSet(f, s) = Cardinality(s \cap B)
      <4>1. PICK n \in Nat : n = Cardinality(s \cap B)
        BY <3>5
      <4>2. CASE x \in s \cap B
        <5>1. SumFunctionOnSet(f, s) = 1 + (n - 1)
          BY <3>3, <3>5, <3>6, <3>7, <4>1, <4>2
        <5> QED
          BY <4>1, <5>1
      <4>3. CASE x \notin s \cap B
        <5>1. SumFunctionOnSet(f, s) = 0 + n
          BY <3>3, <3>5, <3>6, <3>7, <4>1, <4>3
        <5> QED
          BY <4>1, <5>1
      <4> QED
        BY <4>2, <4>3
    <3> QED
      BY <3>8 DEF A
  <2> QED
    BY <2>2, <2>3
<1> HIDE DEF A
<1>2. S \in A
  BY <1>1, SubsetInduction
<1>3. S \cap B = B
  OBVIOUS
<1> QED
  BY <1>2, <1>3 DEF A

\* A sum of naturals is one.
LEMMA SumNat ==
  ASSUME NEW f, NEW S, IsFiniteSet(S), \A x \in S : f[x] \in Nat
  PROVE  SumFunctionOnSet(f, S) \in Nat
<1> DEFINE zero == [x \in S |-> 0]
<1>1. \A x \in S : zero[x] \in Int /\ f[x] \in Int /\ zero[x] <= f[x] /\ zero[x] = 0
  OBVIOUS
<1> HIDE DEF zero
<1>2. PICK k \in Nat : k = Cardinality(S)
  BY FS_CardinalityType
<1>3. SumFunctionOnSet(zero, S) = k * 0
  BY <1>1, <1>2, SumConstant
<1>4. k * 0 = 0
  OBVIOUS
<1>5. SumFunctionOnSet(zero, S) <= SumFunctionOnSet(f, S) /\ SumFunctionOnSet(f, S) \in Int
  BY <1>1, SumMonotonic, SumRemove
<1> QED
  BY <1>3, <1>4, <1>5

\* A greater factor has a greater product.
LEMMA Scaled ==
  ASSUME NEW m \in Nat, NEW n \in Nat, NEW k \in Nat
  PROVE  /\ m * k \in Nat /\ (m + 1) * k = m * k + k
         /\ m <= n => m * k <= n * k
<1>1. (m + 1) * k = m * k + k /\ m * k \in Nat
  OBVIOUS
<1>2. ASSUME m <= n PROVE m * k <= n * k
  <2>1. PICK d \in Nat : n = m + d
    <3>1. n - m \in Nat /\ n = m + (n - m)
      BY <1>2
    <3> QED
      BY <3>1
  <2>2. n * k = m * k + d * k /\ d * k \in Nat /\ m * k \in Nat
    BY <2>1
  <2> QED
    BY <2>2
<1> QED
  BY <1>1, <1>2
=============================================================================
