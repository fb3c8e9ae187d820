---------------------------- MODULE InductionProofs ----------------------------
(***************************************************************************)
(* Induction, and the sums that are computed by it.  Both kinds of         *)
(* induction are stated of a set: of numbers that holds each number after  *)
(* the one before, of subsets that holds each set after the smaller ones.  *)
(* SumFunctionOnSet is a fold in an order nobody chose; the lemmas show    *)
(* that the order does not matter.                                         *)
(***************************************************************************)
EXTENDS Integers, FiniteSets, FiniteSetsExt, Functions, WellFoundedInduction,
        FiniteSetTheorems, TLAPS

-------------------------------------------------------------------------------
(* Induction.                                                              *)

\* Every non-empty set of naturals has a least element.
LEMMA LeastElement ==
    ASSUME NEW T, T \subseteq Nat, T # {}
    PROVE  \E x \in T : \A y \in T : x <= y
<1>1. IsWellFoundedOn(OpToRel(<, Nat), Nat)
    BY NatLessThanWellFounded
<1>2. PICK x \in T : \A y \in T : ~ (<<y, x>> \in OpToRel(<, Nat))
    BY <1>1, WFMin
<1>3. \A y \in T : ~ (y < x)
    BY <1>2 DEF OpToRel
<1> QED BY <1>3

\* A set that contains 0 and is closed under successor up to n contains 0..n.
LEMMA UpTo ==
    ASSUME NEW n \in Nat, NEW S, 0 \in S, \A k \in 1..n : k - 1 \in S => k \in S
    PROVE  0..n \subseteq S
<1> DEFINE T == {k \in 0..n : k \notin S}
<1> SUFFICES ASSUME T # {} PROVE FALSE
    OBVIOUS
<1>1. T \subseteq Nat
    OBVIOUS
<1>2. PICK m : m \in T /\ \A y \in T : m <= y
  <2> HIDE DEF T
  <2> QED BY <1>1, LeastElement
<1>3. m \in 1..n
    BY <1>2
<1>4. m - 1 \in S
    BY <1>2, <1>3
<1> QED BY <1>2, <1>3, <1>4

\* A bounded, non-empty set of integers has a largest element, and that is its Max.
LEMMA MaxOfBounded ==
    ASSUME NEW T, T \subseteq Int, T # {}, NEW b \in Int, \A x \in T : x <= b
    PROVE  Max(T) \in T /\ \A x \in T : x <= Max(T)
<1> DEFINE D == {b - x : x \in T}
<1>0. D \subseteq Nat /\ D # {}
  <2>1. \A x \in T : b - x \in Nat
      OBVIOUS
  <2> QED BY <2>1
<1>1. PICK d : d \in D /\ \A y \in D : d <= y
  <2> HIDE DEF D
  <2> QED BY <1>0, LeastElement
<1>2. PICK x \in T : d = b - x
    BY <1>1
<1>3. \A y \in T : x >= y
    BY <1>1, <1>2
<1> QED BY <1>3 DEF Max

\* A family of subsets of a finite set that has a subset as soon as it has the smaller ones.
LEMMA SmallerFirst ==
    ASSUME NEW S, IsFiniteSet(S), NEW P,
           \A T \in SUBSET S : (\A U \in SUBSET T : U # T => U \in P) => T \in P
    PROVE  SUBSET S \subseteq P
<1> DEFINE N == {k \in Nat : \A T \in SUBSET S : Cardinality(T) < k => T \in P}
           n == Cardinality(S) + 1
<1>1. n \in Nat
    BY FS_CardinalityType
<1>2. \A T \in SUBSET S : IsFiniteSet(T) /\ Cardinality(T) \in Nat /\ Cardinality(T) < n
    BY FS_Subset, FS_CardinalityType
<1>3. 0 \in N
    BY <1>2
<1>4. \A k \in 1..n : k - 1 \in N => k \in N
  <2> SUFFICES ASSUME NEW k \in 1..n, k - 1 \in N, NEW T \in SUBSET S, Cardinality(T) < k
               PROVE  T \in P
      BY <1>1
  <2>1. ASSUME NEW U \in SUBSET T, U # T
        PROVE  U \in P
    <3>1. Cardinality(U) < Cardinality(T) /\ U \in SUBSET S
        BY <1>2, <2>1, FS_Subset
    <3> QED BY <1>2, <3>1
  <2> QED BY <2>1
<1>5. n \in N
  <2> HIDE DEF N, n
  <2>1. 0..n \subseteq N
      BY <1>1, <1>3, <1>4, UpTo
  <2> QED BY <1>1, <2>1
<1> QED BY <1>2, <1>5

-------------------------------------------------------------------------------
(* Sums.                                                                   *)

\* The element that is added last.
First(s) == CHOOSE x \in s : TRUE

\* g sums the values of f on each subset of T.
Sums(f, g, T) ==
    g = [s \in SUBSET T |-> IF s = {} THEN 0 ELSE f[First(s)] + g[s \ {First(s)}]]

\* The fold is a function that sums.
LEMMA SumDefined == ASSUME NEW f, NEW S
                    PROVE  SumFunctionOnSet(f, S) = (CHOOSE g : Sums(f, g, S))[S]
    BY DEF SumFunctionOnSet, FoldFunctionOnSet, MapThenFoldSet, Sums, First

\* The element a fold takes first is one of the set.
LEMMA FirstIn == ASSUME NEW s, s # {} PROVE First(s) \in s
    BY DEF First

\* The recursive function that a fold over a finite set is defined by exists.
LEMMA SumsExist ==
    ASSUME NEW f, NEW S, IsFiniteSet(S)
    PROVE  \E g : Sums(f, g, S)
<1> DEFINE D(n) == {s \in SUBSET S : Cardinality(s) <= n}
           Defines(n, g) ==
               g = [s \in D(n) |-> IF s = {} THEN 0 ELSE f[First(s)] + g[s \ {First(s)}]]
           N == {n \in Nat : \E g : Defines(n, g)}
<1>1. \A s \in SUBSET S : IsFiniteSet(s) /\ Cardinality(s) \in 0..Cardinality(S)
    BY FS_Subset, FS_CardinalityType
<1>2. \A s \in SUBSET S : s # {} => /\ s \ {First(s)} \in SUBSET S
                                    /\ Cardinality(s \ {First(s)}) = Cardinality(s) - 1
    BY <1>1, FirstIn, FS_RemoveElement
<1>3. 0 \in N
  <2>1. \A s \in D(0) : s = {}
      BY <1>1, FS_EmptySet
  <2>2. Defines(0, [s \in D(0) |-> 0])
      BY <2>1
  <2> HIDE DEF Defines
  <2> QED BY <2>2
<1>4. ASSUME NEW n \in 1..Cardinality(S), n - 1 \in N
      PROVE  n \in N
  <2>1. PICK g : Defines(n - 1, g)
      BY <1>4
  <2> DEFINE h == [s \in D(n) |-> IF s \in D(n - 1) THEN g[s] ELSE f[First(s)] + g[s \ {First(s)}]]
  <2>2. ASSUME NEW s \in D(n)
        PROVE  h[s] = IF s = {} THEN 0 ELSE f[First(s)] + h[s \ {First(s)}]
    <3>1. CASE s = {}
      <4>1. s \in D(n - 1)
          BY <1>1, <3>1, FS_EmptySet
      <4> QED BY <2>1, <3>1, <4>1
    <3>2. CASE s # {}
      <4>1. s \ {First(s)} \in D(n - 1) /\ s \ {First(s)} \in D(n)
          BY <1>1, <1>2, <3>2
      <4>2. h[s \ {First(s)}] = g[s \ {First(s)}]
          BY <4>1
      <4>3. s \in D(n - 1) => g[s] = f[First(s)] + g[s \ {First(s)}]
          BY <2>1, <3>2
      <4>4. h[s] = IF s \in D(n - 1) THEN g[s] ELSE f[First(s)] + g[s \ {First(s)}]
          BY <2>2
      <4> HIDE DEF h, D, Defines
      <4> QED BY <3>2, <4>2, <4>3, <4>4
    <3> QED BY <3>1, <3>2
  <2>3. Defines(n, h)
    <3>1. h = [s \in D(n) |-> h[s]]
        OBVIOUS
    <3> HIDE DEF h, D
    <3> QED BY <2>2, <3>1
  <2> HIDE DEF Defines, h
  <2> QED BY <2>3
<1>5. Cardinality(S) \in N
  <2> HIDE DEF N
  <2>1. Cardinality(S) \in Nat
      BY FS_CardinalityType
  <2>2. 0..Cardinality(S) \subseteq N
      BY <1>3, <1>4, <2>1, UpTo
  <2> QED BY <2>1, <2>2
<1>6. D(Cardinality(S)) = SUBSET S
    BY <1>1
<1> QED BY <1>5, <1>6 DEF Sums

\* What a sum over T is does not depend on the set T is a part of.
LEMMA SumsAgree ==
    ASSUME NEW f, NEW g, NEW h, NEW S, NEW T \in SUBSET S, IsFiniteSet(T),
           Sums(f, g, S), Sums(f, h, T)
    PROVE  g[T] = h[T]
<1> DEFINE P == {s \in SUBSET T : g[s] = h[s]}
<1>1. ASSUME NEW s \in SUBSET T, \A u \in SUBSET s : u # s => u \in P
      PROVE  s \in P
  <2>1. CASE s = {}
      BY <2>1 DEF Sums
  <2>2. CASE s # {}
    <3>1. s \ {First(s)} \in SUBSET s /\ s \ {First(s)} # s
        BY <2>2, FirstIn
    <3>2. g[s \ {First(s)}] = h[s \ {First(s)}]
        BY <1>1, <3>1
    <3>3. g[s] = f[First(s)] + g[s \ {First(s)}] /\ h[s] = f[First(s)] + h[s \ {First(s)}]
        BY <2>2 DEF Sums
    <3> QED BY <3>2, <3>3
  <2> QED BY <2>1, <2>2
<1>2. SUBSET T \subseteq P
  <2> HIDE DEF P
  <2> QED BY <1>1, SmallerFirst
<1> QED BY <1>2

\* The recursion of the fold.
LEMMA SumStep ==
    ASSUME NEW f, NEW S, IsFiniteSet(S)
    PROVE  SumFunctionOnSet(f, S) =
              IF S = {} THEN 0 ELSE f[First(S)] + SumFunctionOnSet(f, S \ {First(S)})
<1> DEFINE G(T) == CHOOSE g : Sums(f, g, T)
<1>1. \A T \in SUBSET S : SumFunctionOnSet(f, T) = G(T)[T] /\ Sums(f, G(T), T)
    BY SumDefined, SumsExist, FS_Subset
<1>2. SumFunctionOnSet(f, S) =
          IF S = {} THEN 0 ELSE f[First(S)] + G(S)[S \ {First(S)}]
  <2>1. SumFunctionOnSet(f, S) = G(S)[S] /\ Sums(f, G(S), S)
      BY <1>1
  <2> HIDE DEF G
  <2> QED BY <2>1 DEF Sums
<1>3. IsFiniteSet(S \ {First(S)})
    BY FS_Subset
<1>4. G(S)[S \ {First(S)}] = G(S \ {First(S)})[S \ {First(S)}]
  <2> HIDE DEF G
  <2> QED BY <1>1, <1>3, SumsAgree
<1> QED BY <1>1, <1>2, <1>4

\* A sum of nothing is zero.
LEMMA SumEmpty == \A f : SumFunctionOnSet(f, {}) = 0
    BY SumStep, FS_EmptySet

\* A sum of integers is an integer.
LEMMA SumInt ==
    ASSUME NEW f, NEW S, IsFiniteSet(S), \A x \in S : f[x] \in Int
    PROVE  SumFunctionOnSet(f, S) \in Int
<1> DEFINE P == {T \in SUBSET S : SumFunctionOnSet(f, T) \in Int}
<1>1. ASSUME NEW T \in SUBSET S, \A U \in SUBSET T : U # T => U \in P
      PROVE  T \in P
  <2>1. IsFiniteSet(T)
      BY FS_Subset
  <2>2. CASE T = {}
      BY <2>2, SumEmpty
  <2>3. CASE T # {}
    <3>1. First(T) \in T /\ T \ {First(T)} \in P
        BY <1>1, <2>3, FirstIn
    <3> QED BY <2>1, <2>3, <3>1, SumStep
  <2> QED BY <2>2, <2>3
<1>2. SUBSET S \subseteq P
  <2> HIDE DEF P
  <2> QED BY <1>1, SmallerFirst
<1> QED BY <1>2

\* The sum over a set is any element's value and the sum over the others.
LEMMA SumAny ==
    ASSUME NEW f, NEW S, IsFiniteSet(S), \A x \in S : f[x] \in Int, NEW x \in S
    PROVE  SumFunctionOnSet(f, S) = f[x] + SumFunctionOnSet(f, S \ {x})
<1> DEFINE Sum(T) == SumFunctionOnSet(f, T)
           P == {T \in SUBSET S : \A y \in T : Sum(T) = f[y] + Sum(T \ {y})}
<1>1. \A T \in SUBSET S : IsFiniteSet(T) /\ Sum(T) \in Int
    BY FS_Subset, SumInt
<1>2. ASSUME NEW T \in SUBSET S, \A U \in SUBSET T : U # T => U \in P, NEW y \in T
      PROVE  Sum(T) = f[y] + Sum(T \ {y})
  <2> DEFINE z == First(T)
  <2>1. z \in T /\ Sum(T) = f[z] + Sum(T \ {z})
      BY <1>1, FirstIn, SumStep
  <2>2. CASE z = y
      BY <2>1, <2>2
  <2>3. CASE z # y
    <3>1. T \ {z} \in P /\ T \ {y} \in P
        BY <1>2, <2>1
    <3>2. Sum(T \ {z}) = f[y] + Sum((T \ {z}) \ {y})
        BY <2>1, <2>3, <3>1
    <3>3. Sum(T \ {y}) = f[z] + Sum((T \ {y}) \ {z})
        BY <2>1, <2>3, <3>1
    <3>4. (T \ {y}) \ {z} = (T \ {z}) \ {y}
        OBVIOUS
    <3>5. f[y] \in Int /\ f[z] \in Int /\ Sum((T \ {z}) \ {y}) \in Int
        BY <1>1, <2>1
    <3>6. Sum(T \ {y}) = f[z] + Sum((T \ {z}) \ {y})
        BY <3>3, <3>4
    <3>7. Sum(T) = f[z] + (f[y] + Sum((T \ {z}) \ {y}))
        BY <2>1, <3>2
    <3> QED BY <3>5, <3>6, <3>7
  <2> QED BY <2>2, <2>3
<1>3. SUBSET S \subseteq P
  <2>1. \A T \in SUBSET S : (\A U \in SUBSET T : U # T => U \in P) => T \in P
      BY <1>2
  <2> HIDE DEF P
  <2> QED BY <2>1, SmallerFirst
<1> QED BY <1>3

\* Adding an element to a set adds its value to the sum.
LEMMA SumAdd ==
    ASSUME NEW f, NEW S, IsFiniteSet(S), NEW x, x \notin S, \A y \in S \cup {x} : f[y] \in Int
    PROVE  SumFunctionOnSet(f, S \cup {x}) = f[x] + SumFunctionOnSet(f, S)
<1>1. IsFiniteSet(S \cup {x})
    BY FS_AddElement
<1>2. (S \cup {x}) \ {x} = S
    OBVIOUS
<1> QED BY <1>1, <1>2, SumAny

\* Values of one sign: a sum of naturals is at least each of them.
LEMMA SumNat ==
    ASSUME NEW f, NEW S, IsFiniteSet(S), \A x \in S : f[x] \in Nat
    PROVE  /\ SumFunctionOnSet(f, S) \in Nat
           /\ \A x \in S : f[x] <= SumFunctionOnSet(f, S)
<1> DEFINE P == {T \in SUBSET S : SumFunctionOnSet(f, T) \in Nat}
<1>1. ASSUME NEW T \in SUBSET S, \A U \in SUBSET T : U # T => U \in P
      PROVE  T \in P
  <2>1. IsFiniteSet(T)
      BY FS_Subset
  <2>2. CASE T = {}
      BY <2>2, SumEmpty
  <2>3. CASE T # {}
    <3>1. First(T) \in T /\ T \ {First(T)} \in P
        BY <1>1, <2>3, FirstIn
    <3> QED BY <2>1, <2>3, <3>1, SumStep
  <2> QED BY <2>2, <2>3
<1>2. SUBSET S \subseteq P
  <2> HIDE DEF P
  <2> QED BY <1>1, SmallerFirst
<1>3. ASSUME NEW x \in S PROVE f[x] <= SumFunctionOnSet(f, S)
  <2>1. SumFunctionOnSet(f, S) = f[x] + SumFunctionOnSet(f, S \ {x})
      BY SumAny
  <2>2. SumFunctionOnSet(f, S \ {x}) \in Nat
      BY <1>2
  <2> QED BY <2>1, <2>2
<1> QED BY <1>2, <1>3

\* A sum of zeros is zero.
LEMMA SumZero ==
    ASSUME NEW f, NEW S, IsFiniteSet(S), \A x \in S : f[x] = 0
    PROVE  SumFunctionOnSet(f, S) = 0
<1> DEFINE P == {T \in SUBSET S : SumFunctionOnSet(f, T) = 0}
<1>1. ASSUME NEW T \in SUBSET S, \A U \in SUBSET T : U # T => U \in P
      PROVE  T \in P
  <2>1. IsFiniteSet(T)
      BY FS_Subset
  <2>2. CASE T = {}
      BY <2>2, SumEmpty
  <2>3. CASE T # {}
    <3>1. First(T) \in T /\ T \ {First(T)} \in P
        BY <1>1, <2>3, FirstIn
    <3> QED BY <2>1, <2>3, <3>1, SumStep
  <2> QED BY <2>2, <2>3
<1>2. SUBSET S \subseteq P
  <2> HIDE DEF P
  <2> QED BY <1>1, SmallerFirst
<1> QED BY <1>2
===============================================================================
