----------------------------- MODULE SumProofs -----------------------------
(***************************************************************************)
(* Induction over natural numbers and finite sets, and what it gives for   *)
(* the sums of the models: a sum does not depend on the order in which it  *)
(* is added up, it is split by any partition, and two sums may be swapped. *)
(*                                                                         *)
(* The induction theorems of the library take an operator; here they are   *)
(* stated for a set, the set of what has the property, from the fact that  *)
(* the natural numbers are well founded.                                   *)
(*                                                                         *)
(* The second part is about numbers that are added up in every lane of a   *)
(* machine word at once: the counters of BitPlanes.                        *)
(***************************************************************************)
EXTENDS BitPlanes, FiniteSetsExt, FiniteSetTheorems, WellFoundedInduction, TLAPS

LEMMA LeastNumber ==
  ASSUME NEW T, T \subseteq Nat, T # {}
  PROVE  \E m \in T : \A k \in T : m <= k
<1>1. IsWellFoundedOn(OpToRel(<, Nat), Nat)
  BY NatLessThanWellFounded
<1>2. PICK m \in T : \A y \in T : ~(<<y, m>> \in OpToRel(<, Nat))
  BY <1>1, WFMin
<1>3. \A k \in T : ~(k < m)
  BY <1>2 DEF OpToRel
<1> QED
  BY <1>3

LEMMA NumberInduction ==
  ASSUME NEW T, 0 \in T, \A n \in Nat : n \in T => n + 1 \in T
  PROVE  Nat \subseteq T
<1>1. SUFFICES ASSUME Nat \ T # {} PROVE FALSE
  OBVIOUS
<1>2. PICK m \in Nat \ T : \A k \in Nat \ T : m <= k
  BY <1>1, LeastNumber
<1>3. m - 1 \in Nat /\ m - 1 \in T
  BY <1>2
<1> QED
  BY <1>2, <1>3

\* Up to a bound.
LEMMA BoundedInduction ==
  ASSUME NEW T, NEW a \in Int, NEW b \in Int, a \in T,
         \A n \in a .. b - 1 : n \in T => n + 1 \in T
  PROVE  a .. b \subseteq T
<1> DEFINE U == {n \in Nat : a + n <= b => a + n \in T}
<1>1. 0 \in U
  OBVIOUS
<1>2. ASSUME NEW n \in Nat, n \in U
      PROVE  n + 1 \in U
  <2>1. CASE a + (n + 1) <= b
    <3>1. a + n \in T /\ a + n \in a .. b - 1
      BY <1>2, <2>1
    <3>2. (a + n) + 1 \in T
      BY <3>1
    <3> QED
      BY <3>2
  <2> QED
    BY <2>1
<1>3. Nat \subseteq U
  <2> HIDE DEF U
  <2> QED
    BY <1>1, <1>2, NumberInduction
<1> SUFFICES ASSUME NEW k \in a .. b
             PROVE  k \in T
  OBVIOUS
<1>4. k - a \in Nat
  OBVIOUS
<1>5. k - a \in U
  BY <1>3, <1>4
<1> QED
  BY <1>5

\* The first of the smallest.
LEMMA SmallestExists ==
  ASSUME NEW n \in Nat \ {0}, NEW e, \A r \in 1 .. n : e[r] \in Int
  PROVE  \E r \in 1 .. n : \A o \in 1 .. n : e[r] < e[o] \/ (e[r] = e[o] /\ r <= o)
<1> DEFINE First(k) == \E r \in 1 .. k : \A o \in 1 .. k : e[r] < e[o] \/ (e[r] = e[o] /\ r <= o)
           T == {k \in 1 .. n : First(k)}
<1>1. 1 \in T
  OBVIOUS
<1>2. ASSUME NEW k \in 1 .. n - 1, k \in T
      PROVE  k + 1 \in T
  <2>1. PICK r \in 1 .. k : \A o \in 1 .. k : e[r] < e[o] \/ (e[r] = e[o] /\ r <= o)
    BY <1>2
  <2>2. CASE e[k + 1] < e[r]
    <3>1. ASSUME NEW o \in 1 .. k + 1
          PROVE  e[k + 1] < e[o] \/ (e[k + 1] = e[o] /\ k + 1 <= o)
      BY <2>1, <2>2
    <3> QED
      BY <3>1
  <2>3. CASE ~(e[k + 1] < e[r])
    <3>1. ASSUME NEW o \in 1 .. k + 1
          PROVE  e[r] < e[o] \/ (e[r] = e[o] /\ r <= o)
      BY <2>1, <2>3
    <3> QED
      BY <2>1, <3>1
  <2> QED
    BY <2>2, <2>3
<1>3. 1 .. n \subseteq T
  <2> HIDE DEF T
  <2> QED
    BY <1>1, <1>2, BoundedInduction
<1> QED
  BY <1>3

LEMMA SetInduction ==
  ASSUME NEW S, IsFiniteSet(S), NEW T, {} \in T,
         \A s \in SUBSET S : \A x \in S \ s : s \in T => s \cup {x} \in T
  PROVE  S \in T
<1> DEFINE U == {n \in Nat : \A s \in SUBSET S : Cardinality(s) = n => s \in T}
<1>0. \A s \in SUBSET S : IsFiniteSet(s) /\ Cardinality(s) \in Nat
  BY FS_Subset, FS_CardinalityType
<1>1. 0 \in U
  BY <1>0, FS_EmptySet
<1>2. ASSUME NEW n \in Nat, n \in U
      PROVE  n + 1 \in U
  <2> SUFFICES ASSUME NEW s \in SUBSET S, Cardinality(s) = n + 1
               PROVE  s \in T
    OBVIOUS
  <2>0. IsFiniteSet(s)
    BY <1>0
  <2>1. s # {}
    BY <2>0, FS_EmptySet
  <2>2. PICK x \in s : TRUE
    BY <2>1
  <2>3. Cardinality(s \ {x}) = n
    <3>1. Cardinality(s \ {x}) = Cardinality(s) - 1
      BY <2>0, FS_RemoveElement
    <3> QED
      BY <3>1
  <2>4. s \ {x} \in T
    BY <1>2, <2>3
  <2>5. x \in S \ (s \ {x}) /\ s \ {x} \in SUBSET S
    BY <2>2
  <2>6. (s \ {x}) \cup {x} \in T
    BY <2>4, <2>5
  <2>7. (s \ {x}) \cup {x} = s
    BY <2>2
  <2> QED
    BY <2>6, <2>7
<1>3. Nat \subseteq U
  <2> HIDE DEF U
  <2> QED
    BY <1>1, <1>2, NumberInduction
<1> QED
  BY <1>0, <1>3

-----------------------------------------------------------------------------
(* A sum is added up in the order of CHOOSE.                               *)

FirstOf(s) == CHOOSE x \in s : TRUE

\* g holds the sums of all subsets of S.
AddsUp(f, S, g) ==
  g = [s \in SUBSET S |->
         IF s = {} THEN 0 ELSE LET x == FirstOf(s) IN f[x] + g[s \ {x}]]

LEMMA FirstMember ==
  ASSUME NEW s, s # {}
  PROVE  FirstOf(s) \in s
BY DEF FirstOf

LEMMA SumIsAdded ==
  ASSUME NEW f, NEW S
  PROVE  SumFunctionOnSet(f, S) = (CHOOSE g : AddsUp(f, S, g))[S]
BY Zenon DEF SumFunctionOnSet, FoldFunctionOnSet, MapThenFoldSet, AddsUp, FirstOf

LEMMA AddsUpExists ==
  ASSUME NEW f, NEW S, IsFiniteSet(S)
  PROVE  \E g : AddsUp(f, S, g)
<1> DEFINE Next(g, s) == IF s = {} THEN 0 ELSE f[FirstOf(s)] + g[s \ {FirstOf(s)}]
           U == {n \in Nat : \E g : \A s \in SUBSET S :
                   Cardinality(s) <= n => g[s] = Next(g, s)}
<1>0. \A s \in SUBSET S : IsFiniteSet(s) /\ Cardinality(s) \in Nat
  BY FS_Subset, FS_CardinalityType
<1>a. \A s \in SUBSET S : s # {} =>
         s \ {FirstOf(s)} \in SUBSET S /\ Cardinality(s \ {FirstOf(s)}) = Cardinality(s) - 1
  BY <1>0, FirstMember, FS_RemoveElement
<1>1. 0 \in U
  <2> DEFINE g == [s \in SUBSET S |-> 0]
  <2>1. \A s \in SUBSET S : Cardinality(s) <= 0 => s = {}
    BY <1>0, FS_EmptySet
  <2>2. \A s \in SUBSET S : Cardinality(s) <= 0 => g[s] = Next(g, s)
    BY <2>1
  <2> QED
    BY <2>2
<1>2. ASSUME NEW n \in Nat, n \in U
      PROVE  n + 1 \in U
  <2>1. PICK g : \A s \in SUBSET S : Cardinality(s) <= n => g[s] = Next(g, s)
    BY <1>2
  <2> DEFINE h == [s \in SUBSET S |-> IF Cardinality(s) <= n THEN g[s] ELSE Next(g, s)]
  <2>2. ASSUME NEW s \in SUBSET S, Cardinality(s) <= n + 1
        PROVE  h[s] = Next(h, s)
    <3>1. h[s] = Next(g, s)
      BY <2>1
    <3>2. CASE s = {}
      BY <3>1, <3>2
    <3>3. CASE s # {}
      <4>1. s \ {FirstOf(s)} \in SUBSET S /\ Cardinality(s \ {FirstOf(s)}) <= n
        BY <1>0, <1>a, <2>2, <3>3
      <4>2. h[s \ {FirstOf(s)}] = g[s \ {FirstOf(s)}]
        BY <4>1
      <4> QED
        BY <3>1, <3>3, <4>2
    <3> QED
      BY <3>2, <3>3
  <2> HIDE DEF h, Next
  <2> QED
    BY <2>2
<1>3. Cardinality(S) \in U
  <2>1. Nat \subseteq U
    <3> HIDE DEF U
    <3> QED
      BY <1>1, <1>2, NumberInduction
  <2> QED
    BY <1>0, <2>1
<1>4. PICK g : \A s \in SUBSET S : g[s] = Next(g, s)
  BY <1>0, <1>3, FS_Subset
<1> DEFINE h == [s \in SUBSET S |-> g[s]]
<1>5. ASSUME NEW s \in SUBSET S
      PROVE  h[s] = Next(h, s)
  <2>1. s # {} => h[s \ {FirstOf(s)}] = g[s \ {FirstOf(s)}]
    BY <1>a
  <2> QED
    BY <1>4, <2>1
<1>6. h = [s \in SUBSET S |-> h[s]]
  OBVIOUS
<1>7. h = [s \in SUBSET S |-> Next(h, s)]
  <2> HIDE DEF h, Next
  <2> QED
    BY <1>5, <1>6
<1> HIDE DEF h
<1> QED
  BY <1>7 DEF AddsUp

LEMMA AddsUpUnique ==
  ASSUME NEW f, NEW S, NEW R, IsFiniteSet(S), R \subseteq S,
         NEW g, AddsUp(f, S, g), NEW h, AddsUp(f, R, h)
  PROVE  g[R] = h[R]
<1> DEFINE U == {n \in Nat : \A s \in SUBSET R : Cardinality(s) = n => g[s] = h[s]}
<1>0. \A s \in SUBSET R : IsFiniteSet(s) /\ Cardinality(s) \in Nat
  BY FS_Subset, FS_CardinalityType
<1>1. 0 \in U
  <2>1. g[{}] = 0 /\ h[{}] = 0
    BY DEF AddsUp
  <2> QED
    BY <1>0, <2>1, FS_EmptySet
<1>2. ASSUME NEW n \in Nat, n \in U
      PROVE  n + 1 \in U
  <2> SUFFICES ASSUME NEW s \in SUBSET R, Cardinality(s) = n + 1
               PROVE  g[s] = h[s]
    OBVIOUS
  <2>1. s # {}
    BY FS_EmptySet
  <2>2. Cardinality(s \ {FirstOf(s)}) = n
    BY <1>0, <2>1, FirstMember, FS_RemoveElement
  <2>3. g[s \ {FirstOf(s)}] = h[s \ {FirstOf(s)}]
    BY <1>2, <2>2
  <2>4. g[s] = f[FirstOf(s)] + g[s \ {FirstOf(s)}]
    BY <2>1 DEF AddsUp
  <2>5. h[s] = f[FirstOf(s)] + h[s \ {FirstOf(s)}]
    BY <2>1 DEF AddsUp
  <2> QED
    BY <2>3, <2>4, <2>5
<1>3. Nat \subseteq U
  <2> HIDE DEF U
  <2> QED
    BY <1>1, <1>2, NumberInduction
<1> QED
  BY <1>0, <1>3

LEMMA SumOfSubsets ==
  ASSUME NEW f, NEW S, IsFiniteSet(S)
  PROVE  \E g : AddsUp(f, S, g) /\ \A s \in SUBSET S : SumFunctionOnSet(f, s) = g[s]
<1>1. PICK g : AddsUp(f, S, g)
  BY AddsUpExists
<1>2. ASSUME NEW s \in SUBSET S
      PROVE  SumFunctionOnSet(f, s) = g[s]
  <2>1. IsFiniteSet(s)
    BY FS_Subset
  <2>2. \E h : AddsUp(f, s, h)
    BY <2>1, AddsUpExists
  <2> DEFINE h == CHOOSE h : AddsUp(f, s, h)
  <2>3. AddsUp(f, s, h)
    BY <2>2
  <2>4. SumFunctionOnSet(f, s) = h[s]
    BY SumIsAdded
  <2> HIDE DEF h
  <2>5. g[s] = h[s]
    BY <1>1, <2>3, AddsUpUnique
  <2> QED
    BY <2>4, <2>5
<1> QED
  BY <1>1, <1>2

-----------------------------------------------------------------------------
\* What a sum of a finite set is: zero, or any item and the sum of the others.

LEMMA SumOfNothing ==
  ASSUME NEW f
  PROVE  SumFunctionOnSet(f, {}) = 0
<1>1. IsFiniteSet({})
  BY FS_EmptySet
<1>2. PICK g : AddsUp(f, {}, g) /\ \A s \in SUBSET {} : SumFunctionOnSet(f, s) = g[s]
  BY <1>1, SumOfSubsets
<1>3. g[{}] = 0
  BY <1>2 DEF AddsUp
<1> QED
  BY <1>2, <1>3

LEMMA SumFirst ==
  ASSUME NEW f, NEW S, IsFiniteSet(S), S # {}
  PROVE  SumFunctionOnSet(f, S) = f[FirstOf(S)] + SumFunctionOnSet(f, S \ {FirstOf(S)})
<1>1. PICK g : AddsUp(f, S, g) /\ \A s \in SUBSET S : SumFunctionOnSet(f, s) = g[s]
  BY SumOfSubsets
<1>2. g[S] = f[FirstOf(S)] + g[S \ {FirstOf(S)}]
  BY <1>1 DEF AddsUp
<1>3. S \in SUBSET S /\ S \ {FirstOf(S)} \in SUBSET S
  OBVIOUS
<1> QED
  BY <1>1, <1>2, <1>3

LEMMA SumType ==
  ASSUME NEW f, NEW S, IsFiniteSet(S), \A x \in S : f[x] \in Int
  PROVE  SumFunctionOnSet(f, S) \in Int
<1> DEFINE U == {n \in Nat : \A s \in SUBSET S : Cardinality(s) = n => SumFunctionOnSet(f, s) \in Int}
<1>0. \A s \in SUBSET S : IsFiniteSet(s) /\ Cardinality(s) \in Nat
  BY FS_Subset, FS_CardinalityType
<1>1. 0 \in U
  BY <1>0, FS_EmptySet, SumOfNothing
<1>2. ASSUME NEW n \in Nat, n \in U
      PROVE  n + 1 \in U
  <2> SUFFICES ASSUME NEW s \in SUBSET S, Cardinality(s) = n + 1
               PROVE  SumFunctionOnSet(f, s) \in Int
    OBVIOUS
  <2>0. IsFiniteSet(s)
    BY <1>0
  <2>1. s # {}
    BY <2>0, FS_EmptySet
  <2>2. FirstOf(s) \in s
    BY <2>1, FirstMember
  <2>3. Cardinality(s \ {FirstOf(s)}) = n
    <3>1. Cardinality(s \ {FirstOf(s)}) = Cardinality(s) - 1
      BY <2>0, <2>2, FS_RemoveElement
    <3> QED
      BY <3>1
  <2>4. SumFunctionOnSet(f, s \ {FirstOf(s)}) \in Int
    BY <1>2, <2>3
  <2>5. f[FirstOf(s)] \in Int
    BY <2>2
  <2> QED
    BY <2>0, <2>1, <2>4, <2>5, SumFirst
<1>3. Nat \subseteq U
  <2> HIDE DEF U
  <2> QED
    BY <1>1, <1>2, NumberInduction
<1> QED
  BY <1>0, <1>3

LEMMA SumTakeOut ==
  ASSUME NEW f, NEW S, IsFiniteSet(S), \A x \in S : f[x] \in Int, NEW x \in S
  PROVE  SumFunctionOnSet(f, S) = f[x] + SumFunctionOnSet(f, S \ {x})
<1> DEFINE Any(s) == \A y \in s : SumFunctionOnSet(f, s) = f[y] + SumFunctionOnSet(f, s \ {y})
           U == {n \in Nat : \A s \in SUBSET S : Cardinality(s) = n => Any(s)}
<1>0. \A s \in SUBSET S : IsFiniteSet(s) /\ Cardinality(s) \in Nat
  BY FS_Subset, FS_CardinalityType
<1>1. 0 \in U
  BY <1>0, FS_EmptySet
<1>2. ASSUME NEW n \in Nat, n \in U
      PROVE  n + 1 \in U
  <2> SUFFICES ASSUME NEW s \in SUBSET S, Cardinality(s) = n + 1, NEW y \in s
               PROVE  SumFunctionOnSet(f, s) = f[y] + SumFunctionOnSet(f, s \ {y})
    OBVIOUS
  <2>0. IsFiniteSet(s) /\ s # {}
    BY <1>0
  <2>1. PICK c : c = FirstOf(s)
    OBVIOUS
  <2>2. c \in s
    BY <2>0, <2>1, FirstMember
  <2>3. SumFunctionOnSet(f, s) = f[c] + SumFunctionOnSet(f, s \ {c})
    BY <2>0, <2>1, SumFirst
  <2>4. CASE y = c
    BY <2>3, <2>4
  <2>5. CASE y # c
    <3>1. /\ Cardinality(s \ {c}) = n
          /\ Cardinality(s \ {y}) = n
      <4>1. /\ Cardinality(s \ {c}) = Cardinality(s) - 1
            /\ Cardinality(s \ {y}) = Cardinality(s) - 1
        BY <2>0, <2>2, FS_RemoveElement
      <4> QED
        BY <4>1
    <3>2. Any(s \ {c}) /\ Any(s \ {y})
      <4>1. s \ {c} \in SUBSET S /\ s \ {y} \in SUBSET S
        OBVIOUS
      <4> HIDE DEF Any
      <4> QED
        BY <1>2, <3>1, <4>1
    <3>3. PICK r : r = (s \ {c}) \ {y}
      OBVIOUS
    <3>4. r = (s \ {y}) \ {c}
      BY <3>3
    <3>5. SumFunctionOnSet(f, s \ {c}) = f[y] + SumFunctionOnSet(f, r)
      BY <2>5, <3>2, <3>3
    <3>6. SumFunctionOnSet(f, s \ {y}) = f[c] + SumFunctionOnSet(f, r)
      BY <2>2, <2>5, <3>2, <3>4
    <3>7. SumFunctionOnSet(f, r) \in Int /\ f[y] \in Int /\ f[c] \in Int
      <4>1. IsFiniteSet(r) /\ r \subseteq S
        BY <1>0, <3>3
      <4>2. SumFunctionOnSet(f, r) \in Int
        BY <4>1, SumType
      <4> QED
        BY <2>2, <4>2
    <3> QED
      BY <2>3, <3>5, <3>6, <3>7
  <2> QED
    BY <2>4, <2>5
<1>3. Cardinality(S) \in U
  <2>1. Nat \subseteq U
    <3> HIDE DEF U
    <3> QED
      BY <1>1, <1>2, NumberInduction
  <2> QED
    BY <1>0, <2>1
<1>4. Any(S)
  <2>1. S \in SUBSET S
    OBVIOUS
  <2> HIDE DEF Any
  <2> QED
    BY <1>3, <2>1
<1> QED
  BY <1>4

LEMMA SumAdjoin ==
  ASSUME NEW f, NEW S, IsFiniteSet(S), \A y \in S : f[y] \in Int,
         NEW x, x \notin S, f[x] \in Int
  PROVE  SumFunctionOnSet(f, S \cup {x}) = f[x] + SumFunctionOnSet(f, S)
<1>1. IsFiniteSet(S \cup {x})
  BY FS_AddElement
<1>2. (S \cup {x}) \ {x} = S /\ \A y \in S \cup {x} : f[y] \in Int
  OBVIOUS
<1>3. SumFunctionOnSet(f, S \cup {x}) = f[x] + SumFunctionOnSet(f, (S \cup {x}) \ {x})
  <2>1. PICK R : R = S \cup {x}
    OBVIOUS
  <2>2. x \in R /\ IsFiniteSet(R) /\ \A y \in R : f[y] \in Int
    BY <1>1, <1>2, <2>1
  <2> QED
    BY <2>1, <2>2, SumTakeOut
<1> QED
  BY <1>2, <1>3

-----------------------------------------------------------------------------
(* Arithmetic of sums.                                                     *)

LEMMA SubsetsAreFinite ==
  ASSUME NEW S, IsFiniteSet(S)
  PROVE  \A s \in SUBSET S : IsFiniteSet(s)
BY FS_Subset

LEMMA SumSame ==
  ASSUME NEW S, IsFiniteSet(S), NEW f, NEW g,
         \A x \in S : f[x] \in Int /\ f[x] = g[x]
  PROVE  SumFunctionOnSet(f, S) = SumFunctionOnSet(g, S)
<1> DEFINE T == {s \in SUBSET S : SumFunctionOnSet(f, s) = SumFunctionOnSet(g, s)}
<1>1. {} \in T
  BY SumOfNothing
<1>2. ASSUME NEW s \in SUBSET S, NEW x \in S \ s, s \in T
      PROVE  s \cup {x} \in T
  <2>1. IsFiniteSet(s)
    BY SubsetsAreFinite
  <2>2. SumFunctionOnSet(f, s \cup {x}) = f[x] + SumFunctionOnSet(f, s)
    BY <2>1, SumAdjoin
  <2>3. SumFunctionOnSet(g, s \cup {x}) = g[x] + SumFunctionOnSet(g, s)
    <3>1. \A y \in s : g[y] \in Int
      OBVIOUS
    <3>2. g[x] \in Int
      OBVIOUS
    <3> QED
      BY <2>1, <3>1, <3>2, SumAdjoin
  <2> QED
    BY <1>2, <2>2, <2>3
<1>3. S \in T
  <2> HIDE DEF T
  <2> QED
    BY <1>1, <1>2, SetInduction
<1> QED
  BY <1>3

LEMMA SumPlus ==
  ASSUME NEW S, IsFiniteSet(S), NEW f, NEW g, NEW h,
         \A x \in S : f[x] \in Int /\ g[x] \in Int /\ h[x] = f[x] + g[x]
  PROVE  SumFunctionOnSet(h, S) = SumFunctionOnSet(f, S) + SumFunctionOnSet(g, S)
<1> DEFINE T == {s \in SUBSET S :
                   SumFunctionOnSet(h, s) = SumFunctionOnSet(f, s) + SumFunctionOnSet(g, s)}
<1>1. {} \in T
  BY SumOfNothing
<1>2. ASSUME NEW s \in SUBSET S, NEW x \in S \ s, s \in T
      PROVE  s \cup {x} \in T
  <2>1. IsFiniteSet(s)
    BY SubsetsAreFinite
  <2>2. \A y \in s : f[y] \in Int /\ g[y] \in Int /\ h[y] \in Int
    OBVIOUS
  <2>3. f[x] \in Int /\ g[x] \in Int /\ h[x] \in Int
    OBVIOUS
  <2>4. SumFunctionOnSet(f, s \cup {x}) = f[x] + SumFunctionOnSet(f, s)
    BY <2>1, <2>2, <2>3, SumAdjoin
  <2>5. SumFunctionOnSet(g, s \cup {x}) = g[x] + SumFunctionOnSet(g, s)
    BY <2>1, <2>2, <2>3, SumAdjoin
  <2>6. SumFunctionOnSet(h, s \cup {x}) = h[x] + SumFunctionOnSet(h, s)
    BY <2>1, <2>2, <2>3, SumAdjoin
  <2>7. /\ SumFunctionOnSet(f, s) \in Int
        /\ SumFunctionOnSet(g, s) \in Int
    BY <2>1, <2>2, SumType
  <2>8. SumFunctionOnSet(h, s) = SumFunctionOnSet(f, s) + SumFunctionOnSet(g, s)
    BY <1>2
  <2>9. h[x] = f[x] + g[x]
    OBVIOUS
  <2>10. SumFunctionOnSet(h, s \cup {x})
           = SumFunctionOnSet(f, s \cup {x}) + SumFunctionOnSet(g, s \cup {x})
    BY <2>3, <2>4, <2>5, <2>6, <2>7, <2>8, <2>9
  <2> QED
    BY <2>10
<1>3. S \in T
  <2> HIDE DEF T
  <2> QED
    BY <1>1, <1>2, SetInduction
<1> QED
  BY <1>3

LEMMA SumTimes ==
  ASSUME NEW S, IsFiniteSet(S), NEW f, NEW h, NEW c \in Int,
         \A x \in S : f[x] \in Int /\ h[x] = c * f[x]
  PROVE  SumFunctionOnSet(h, S) = c * SumFunctionOnSet(f, S)
<1> DEFINE T == {s \in SUBSET S : SumFunctionOnSet(h, s) = c * SumFunctionOnSet(f, s)}
<1>1. {} \in T
  BY SumOfNothing
<1>2. ASSUME NEW s \in SUBSET S, NEW x \in S \ s, s \in T
      PROVE  s \cup {x} \in T
  <2>1. IsFiniteSet(s)
    BY SubsetsAreFinite
  <2>2. \A y \in s : f[y] \in Int /\ h[y] \in Int
    OBVIOUS
  <2>3. f[x] \in Int /\ h[x] \in Int /\ h[x] = c * f[x]
    OBVIOUS
  <2>4. SumFunctionOnSet(f, s \cup {x}) = f[x] + SumFunctionOnSet(f, s)
    BY <2>1, <2>2, <2>3, SumAdjoin
  <2>5. SumFunctionOnSet(h, s \cup {x}) = h[x] + SumFunctionOnSet(h, s)
    BY <2>1, <2>2, <2>3, SumAdjoin
  <2>6. PICK a \in Int : a = SumFunctionOnSet(f, s)
    BY <2>1, <2>2, SumType
  <2>7. SumFunctionOnSet(h, s) = c * a
    BY <1>2, <2>6
  <2>8. PICK b \in Int : b = f[x]
    BY <2>3
  <2>9. c * (b + a) = c * b + c * a
    OBVIOUS
  <2>10. SumFunctionOnSet(h, s \cup {x}) = c * SumFunctionOnSet(f, s \cup {x})
    BY <2>3, <2>4, <2>5, <2>6, <2>7, <2>8, <2>9
  <2> QED
    BY <2>10
<1>3. S \in T
  <2> HIDE DEF T
  <2> QED
    BY <1>1, <1>2, SetInduction
<1> QED
  BY <1>3

LEMMA SumOfZeros ==
  ASSUME NEW S, IsFiniteSet(S), NEW f, \A x \in S : f[x] = 0
  PROVE  SumFunctionOnSet(f, S) = 0
<1> DEFINE T == {s \in SUBSET S : SumFunctionOnSet(f, s) = 0}
<1>1. {} \in T
  BY SumOfNothing
<1>2. ASSUME NEW s \in SUBSET S, NEW x \in S \ s, s \in T
      PROVE  s \cup {x} \in T
  <2>1. IsFiniteSet(s)
    BY SubsetsAreFinite
  <2>2. SumFunctionOnSet(f, s \cup {x}) = f[x] + SumFunctionOnSet(f, s)
    BY <2>1, SumAdjoin
  <2> QED
    BY <1>2, <2>2
<1>3. S \in T
  <2> HIDE DEF T
  <2> QED
    BY <1>1, <1>2, SetInduction
<1> QED
  BY <1>3

\* Of disjoint sets.
LEMMA SumUnion ==
  ASSUME NEW A, NEW B, IsFiniteSet(A), IsFiniteSet(B), A \cap B = {},
         NEW f, \A x \in A \cup B : f[x] \in Int
  PROVE  SumFunctionOnSet(f, A \cup B) = SumFunctionOnSet(f, A) + SumFunctionOnSet(f, B)
<1> DEFINE T == {s \in SUBSET B :
                   SumFunctionOnSet(f, A \cup s) = SumFunctionOnSet(f, A) + SumFunctionOnSet(f, s)}
<1>0. SumFunctionOnSet(f, A) \in Int
  BY SumType
<1>1. {} \in T
  <2>1. A \cup {} = A
    OBVIOUS
  <2> QED
    BY <1>0, <2>1, SumOfNothing
<1>2. ASSUME NEW s \in SUBSET B, NEW x \in B \ s, s \in T
      PROVE  s \cup {x} \in T
  <2>1. IsFiniteSet(s)
    BY SubsetsAreFinite
  <2>2. PICK R : R = A \cup s
    OBVIOUS
  <2>3. IsFiniteSet(R) /\ x \notin R /\ (\A y \in R : f[y] \in Int) /\ f[x] \in Int
    BY <2>1, <2>2, FS_Union
  <2>4. SumFunctionOnSet(f, R \cup {x}) = f[x] + SumFunctionOnSet(f, R)
    BY <2>3, SumAdjoin
  <2>5. SumFunctionOnSet(f, s \cup {x}) = f[x] + SumFunctionOnSet(f, s)
    <3>1. x \notin s /\ (\A y \in s : f[y] \in Int) /\ f[x] \in Int
      BY <2>3
    <3> QED
      BY <2>1, <3>1, SumAdjoin
  <2>6. SumFunctionOnSet(f, s) \in Int
    BY <2>1, SumType
  <2>7. SumFunctionOnSet(f, R) = SumFunctionOnSet(f, A) + SumFunctionOnSet(f, s)
    BY <1>2, <2>2
  <2>8. PICK Q : Q = R \cup {x}
    OBVIOUS
  <2>9. SumFunctionOnSet(f, Q) = SumFunctionOnSet(f, A) + SumFunctionOnSet(f, s \cup {x})
    BY <1>0, <2>3, <2>4, <2>5, <2>6, <2>7, <2>8
  <2>10. Q = A \cup (s \cup {x})
    BY <2>2, <2>8
  <2> QED
    BY <2>9, <2>10
<1>3. B \in T
  <2> HIDE DEF T
  <2> QED
    BY <1>1, <1>2, SetInduction
<1> QED
  BY <1>3

\* What is never negative.
LEMMA SumOfNaturals ==
  ASSUME NEW S, IsFiniteSet(S), NEW f, \A x \in S : f[x] \in Nat
  PROVE  SumFunctionOnSet(f, S) \in Nat
<1> DEFINE T == {s \in SUBSET S : SumFunctionOnSet(f, s) \in Nat}
<1>1. {} \in T
  BY SumOfNothing
<1>2. ASSUME NEW s \in SUBSET S, NEW x \in S \ s, s \in T
      PROVE  s \cup {x} \in T
  <2>1. IsFiniteSet(s)
    BY SubsetsAreFinite
  <2>2. SumFunctionOnSet(f, s \cup {x}) = f[x] + SumFunctionOnSet(f, s)
    <3>1. (\A y \in s : f[y] \in Int) /\ f[x] \in Int
      OBVIOUS
    <3> QED
      BY <2>1, <3>1, SumAdjoin
  <2>3. s \cup {x} \in SUBSET S
    OBVIOUS
  <2>4. SumFunctionOnSet(f, s) \in Nat /\ f[x] \in Nat
    BY <1>2
  <2> QED
    BY <2>2, <2>3, <2>4
<1>3. S \in T
  <2> HIDE DEF T
  <2> QED
    BY <1>1, <1>2, SetInduction
<1> QED
  BY <1>3

\* A sum of units is within the number of its terms.
LEMMA SumOfUnits ==
  ASSUME NEW S, IsFiniteSet(S), NEW f, \A x \in S : f[x] \in -1 .. 1
  PROVE  /\ SumFunctionOnSet(f, S) \in Int /\ Cardinality(S) \in Nat
         /\ SumFunctionOnSet(f, S) <= Cardinality(S)
         /\ -Cardinality(S) <= SumFunctionOnSet(f, S)
<1> DEFINE Within(s) == /\ SumFunctionOnSet(f, s) \in Int /\ Cardinality(s) \in Nat
                        /\ SumFunctionOnSet(f, s) <= Cardinality(s)
                        /\ -Cardinality(s) <= SumFunctionOnSet(f, s)
           T == {s \in SUBSET S : Within(s)}
<1>1. {} \in T
  <2>1. SumFunctionOnSet(f, {}) = 0 /\ Cardinality({}) = 0
    BY SumOfNothing, FS_EmptySet
  <2> QED
    BY <2>1
<1>2. ASSUME NEW s \in SUBSET S, NEW x \in S \ s, s \in T
      PROVE  s \cup {x} \in T
  <2>1. IsFiniteSet(s)
    BY SubsetsAreFinite
  <2>2. \A y \in s : f[y] \in Int
    OBVIOUS
  <2>3. x \notin s /\ f[x] \in Int /\ f[x] \in -1 .. 1
    OBVIOUS
  <2>4. SumFunctionOnSet(f, s \cup {x}) = f[x] + SumFunctionOnSet(f, s)
    BY <2>1, <2>2, <2>3, SumAdjoin
  <2>5. Cardinality(s \cup {x}) = Cardinality(s) + 1
    BY <2>1, <2>3, FS_AddElement
  <2>6. s \cup {x} \in SUBSET S
    OBVIOUS
  <2>7. Within(s)
    BY <1>2
  <2> QED
    BY <2>3, <2>4, <2>5, <2>6, <2>7
<1>3. \A s \in SUBSET S : \A x \in S \ s : s \in T => s \cup {x} \in T
  BY <1>2
<1>4. S \in T
  <2> HIDE DEF T
  <2> QED
    BY <1>1, <1>3, SetInduction
<1> QED
  BY <1>4

LEMMA SumOfOne ==
  ASSUME NEW f, NEW a, f[a] \in Int
  PROVE  SumFunctionOnSet(f, {a}) = f[a]
<1>1. SumFunctionOnSet(f, {} \cup {a}) = f[a] + SumFunctionOnSet(f, {})
  BY FS_EmptySet, SumAdjoin
<1>2. {} \cup {a} = {a}
  OBVIOUS
<1> QED
  BY <1>1, <1>2, SumOfNothing

LEMMA SumOfTwo ==
  ASSUME NEW f, NEW a, NEW b, a # b, f[a] \in Int, f[b] \in Int
  PROVE  SumFunctionOnSet(f, {a, b}) = f[a] + f[b]
<1>1. IsFiniteSet({a})
  BY FS_Singleton
<1>2. SumFunctionOnSet(f, {a} \cup {b}) = f[b] + SumFunctionOnSet(f, {a})
  BY <1>1, SumAdjoin
<1>3. SumFunctionOnSet(f, {a}) = f[a]
  BY SumOfOne
<1>4. PICK P : P = {a, b}
  OBVIOUS
<1>5. P = {a} \cup {b}
  BY <1>4
<1>6. SumFunctionOnSet(f, P) = f[b] + f[a]
  BY <1>2, <1>3, <1>5
<1> QED
  BY <1>4, <1>6

\* What is zero outside of a subset.
LEMMA SumOfPart ==
  ASSUME NEW S, IsFiniteSet(S), NEW R \in SUBSET S, NEW f,
         \A x \in R : f[x] \in Int, \A x \in S \ R : f[x] = 0
  PROVE  SumFunctionOnSet(f, S) = SumFunctionOnSet(f, R)
<1>1. PICK Q : Q = S \ R
  OBVIOUS
<1>2. IsFiniteSet(R) /\ IsFiniteSet(Q)
  BY <1>1, SubsetsAreFinite
<1>3. R \cap Q = {} /\ R \cup Q = S /\ \A x \in R \cup Q : f[x] \in Int
  BY <1>1
<1>4. SumFunctionOnSet(f, S) = SumFunctionOnSet(f, R) + SumFunctionOnSet(f, Q)
  BY <1>2, <1>3, SumUnion
<1>5. SumFunctionOnSet(f, Q) = 0
  BY <1>1, <1>2, SumOfZeros
<1>6. SumFunctionOnSet(f, R) \in Int
  BY <1>2, SumType
<1> QED
  BY <1>4, <1>5, <1>6

\* The sums of the rows of a matrix m, and of its columns, the rows of w.
TwoWays(A, B, m, w, rows, cols) ==
  /\ \A a \in A : \A b \in B : m[a][b] \in Int /\ w[b][a] = m[a][b]
  /\ \A a \in A : rows[a] = SumFunctionOnSet(m[a], B)
  /\ \A b \in B : cols[b] = SumFunctionOnSet(w[b], A)

LEMMA SumSwap ==
  ASSUME NEW A, NEW B, IsFiniteSet(A), IsFiniteSet(B), NEW m, NEW w, NEW rows, NEW cols,
         TwoWays(A, B, m, w, rows, cols)
  PROVE  SumFunctionOnSet(rows, A) = SumFunctionOnSet(cols, B)
<1> USE DEF TwoWays
<1> DEFINE Col(b) == w[b]
           Cols(s) == [b \in B |-> SumFunctionOnSet(Col(b), s)]
           T == {s \in SUBSET A : SumFunctionOnSet(rows, s) = SumFunctionOnSet(Cols(s), B)}
<1>0. /\ \A a \in A : rows[a] \in Int
      /\ \A b \in B : \A a \in A : Col(b)[a] \in Int /\ Col(b)[a] = m[a][b]
  BY SumType
<1>a. \A b \in B : \A s \in SUBSET A : SumFunctionOnSet(Col(b), s) \in Int
  <2> SUFFICES ASSUME NEW b \in B, NEW s \in SUBSET A
               PROVE  SumFunctionOnSet(Col(b), s) \in Int
    OBVIOUS
  <2>1. IsFiniteSet(s)
    BY SubsetsAreFinite
  <2>2. PICK c : c = Col(b)
    OBVIOUS
  <2>3. \A a \in s : c[a] \in Int
    BY <1>0, <2>2
  <2>4. SumFunctionOnSet(c, s) \in Int
    BY <2>1, <2>3, SumType
  <2> QED
    BY <2>2, <2>4
<1>1. {} \in T
  <2>1. \A b \in B : Cols({})[b] = 0
    BY SumOfNothing
  <2>2. PICK c : c = Cols({})
    OBVIOUS
  <2>3. SumFunctionOnSet(c, B) = 0
    BY <2>1, <2>2, SumOfZeros
  <2> QED
    BY <2>2, <2>3, SumOfNothing
<1>2. ASSUME NEW s \in SUBSET A, NEW x \in A \ s, s \in T
      PROVE  s \cup {x} \in T
  <2>1. IsFiniteSet(s)
    BY SubsetsAreFinite
  <2>2. SumFunctionOnSet(rows, s \cup {x}) = rows[x] + SumFunctionOnSet(rows, s)
    BY <1>0, <2>1, SumAdjoin
  <2>3. ASSUME NEW b \in B
        PROVE  SumFunctionOnSet(Col(b), s \cup {x}) = m[x][b] + SumFunctionOnSet(Col(b), s)
    <3>1. PICK c : c = Col(b)
      OBVIOUS
    <3>2. (\A a \in s : c[a] \in Int) /\ c[x] \in Int /\ c[x] = m[x][b]
      BY <1>0, <3>1
    <3>3. SumFunctionOnSet(c, s \cup {x}) = c[x] + SumFunctionOnSet(c, s)
      BY <2>1, <3>2, SumAdjoin
    <3> QED
      BY <3>1, <3>2, <3>3
  <2>4. PICK c : c = Cols(s)
    OBVIOUS
  <2>5. PICK d : d = Cols(s \cup {x})
    OBVIOUS
  <2>6. PICK r : r = m[x]
    OBVIOUS
  <2>7. \A b \in B : r[b] \in Int /\ c[b] \in Int /\ d[b] = r[b] + c[b]
    BY <1>a, <2>3, <2>4, <2>5, <2>6
  <2>8. SumFunctionOnSet(d, B) = SumFunctionOnSet(r, B) + SumFunctionOnSet(c, B)
    BY <2>7, SumPlus
  <2>9. SumFunctionOnSet(r, B) = rows[x]
    BY <2>6
  <2>10. SumFunctionOnSet(rows, s) = SumFunctionOnSet(c, B)
    BY <1>2, <2>4
  <2>11. SumFunctionOnSet(rows, s \cup {x}) = SumFunctionOnSet(d, B)
    BY <2>2, <2>8, <2>9, <2>10
  <2>12. s \cup {x} \in SUBSET A
    OBVIOUS
  <2> QED
    BY <2>5, <2>11, <2>12
<1>3. A \in T
  <2> HIDE DEF T
  <2> QED
    BY <1>1, <1>2, SetInduction
<1>4. PICK c : c = Cols(A)
  OBVIOUS
<1>5. \A b \in B : cols[b] = c[b] /\ cols[b] \in Int
  BY <1>a, <1>4
<1>6. SumFunctionOnSet(cols, B) = SumFunctionOnSet(c, B)
  BY <1>5, SumSame
<1> QED
  BY <1>3, <1>4, <1>6

\* Along a bijection.
LEMMA SumRename ==
  ASSUME NEW A, NEW B, IsFiniteSet(A), NEW p \in Bijection(A, B),
         NEW f, \A b \in B : f[b] \in Int,
         NEW g, \A a \in A : g[a] = f[p[a]]
  PROVE  SumFunctionOnSet(g, A) = SumFunctionOnSet(f, B)
<1> DEFINE Image(s) == {p[a] : a \in s}
           T == {s \in SUBSET A : /\ IsFiniteSet(Image(s))
                                  /\ SumFunctionOnSet(g, s) = SumFunctionOnSet(f, Image(s))}
<1>0. /\ \A a \in A : p[a] \in B
      /\ \A a, b \in A : p[a] = p[b] => a = b
      /\ \A b \in B : \E a \in A : p[a] = b
  BY DEF Bijection, Injection, Surjection, IsInjective
<1>1. {} \in T
  <2>1. Image({}) = {}
    OBVIOUS
  <2> QED
    BY <2>1, SumOfNothing, FS_EmptySet
<1>2. ASSUME NEW s \in SUBSET A, NEW x \in A \ s, s \in T
      PROVE  s \cup {x} \in T
  <2>1. IsFiniteSet(s)
    BY SubsetsAreFinite
  <2>2. PICK R : R = Image(s)
    OBVIOUS
  <2>3. Image(s \cup {x}) = R \cup {p[x]}
    BY <2>2
  <2>4. p[x] \notin R
    BY <1>0, <2>2
  <2>5. IsFiniteSet(R) /\ IsFiniteSet(R \cup {p[x]})
    BY <1>2, <2>2, FS_AddElement
  <2>6. \A b \in R : f[b] \in Int
    BY <1>0, <2>2
  <2>7. f[p[x]] \in Int
    BY <1>0
  <2>8. SumFunctionOnSet(f, R \cup {p[x]}) = f[p[x]] + SumFunctionOnSet(f, R)
    BY <2>4, <2>5, <2>6, <2>7, SumAdjoin
  <2>9. SumFunctionOnSet(g, s \cup {x}) = g[x] + SumFunctionOnSet(g, s)
    <3>1. (\A y \in s : g[y] \in Int) /\ g[x] \in Int
      BY <1>0
    <3> QED
      BY <2>1, <3>1, SumAdjoin
  <2>10. SumFunctionOnSet(g, s \cup {x}) = SumFunctionOnSet(f, R \cup {p[x]})
    BY <1>2, <2>2, <2>8, <2>9
  <2>11. s \cup {x} \in SUBSET A
    OBVIOUS
  <2> QED
    BY <2>3, <2>5, <2>10, <2>11
<1>3. A \in T
  <2> HIDE DEF T
  <2> QED
    BY <1>1, <1>2, SetInduction
<1>4. Image(A) = B
  BY <1>0
<1> QED
  BY <1>3, <1>4

-----------------------------------------------------------------------------
(* A finite set of numbers in increasing order.                            *)

Increasing(s) == \A a, b \in DOMAIN s : a < b => s[a] < s[b]

LEMMA IncreasingExists ==
  ASSUME NEW n \in Nat, NEW S \in SUBSET (1 .. n)
  PROVE  \E s \in [1 .. Cardinality(S) -> S] : Increasing(s)
<1> DEFINE Listed(R) == \E s \in [1 .. Cardinality(R) -> R] : Increasing(s)
           U == {k \in Nat : \A R \in SUBSET (1 .. k) : Listed(R)}
<1>1. 0 \in U
  <2> SUFFICES ASSUME NEW R \in SUBSET (1 .. 0)
               PROVE  Listed(R)
    OBVIOUS
  <2>1. R = {}
    OBVIOUS
  <2>2. 1 .. Cardinality(R) = {}
    BY <2>1, FS_EmptySet
  <2>3. PICK s : s = [a \in 1 .. Cardinality(R) |-> a]
    OBVIOUS
  <2>4. s \in [1 .. Cardinality(R) -> R] /\ Increasing(s)
    BY <2>2, <2>3 DEF Increasing
  <2> QED
    BY <2>4
<1>2. ASSUME NEW k \in Nat, k \in U
      PROVE  k + 1 \in U
  <2> SUFFICES ASSUME NEW R \in SUBSET (1 .. k + 1)
               PROVE  Listed(R)
    OBVIOUS
  <2>1. CASE k + 1 \notin R
    <3>1. R \in SUBSET (1 .. k)
      BY <2>1
    <3> QED
      BY <1>2, <3>1
  <2>2. CASE k + 1 \in R
    <3>1. PICK Q : Q = R \ {k + 1}
      OBVIOUS
    <3>2. Q \in SUBSET (1 .. k) /\ Q \subseteq R
      BY <3>1
    <3>3. PICK s \in [1 .. Cardinality(Q) -> Q] : Increasing(s)
      BY <1>2, <3>2
    <3>4. IsFiniteSet(Q)
      <4>1. IsFiniteSet(1 .. k)
        BY FS_Interval
      <4> QED
        BY <3>2, <4>1, SubsetsAreFinite
    <3>5. R = Q \cup {k + 1} /\ k + 1 \notin Q
      BY <2>2, <3>1
    <3>6. PICK c : c = Cardinality(Q)
      OBVIOUS
    <3>7. c \in Nat /\ Cardinality(R) = c + 1
      BY <3>4, <3>5, <3>6, FS_AddElement, FS_CardinalityType
    <3>8. PICK t : t = [a \in 1 .. c + 1 |-> IF a = c + 1 THEN k + 1 ELSE s[a]]
      OBVIOUS
    <3>a. \A a \in 1 .. c + 1 : a # c + 1 => a \in 1 .. c
      BY <3>7
    <3>b. \A a \in 1 .. c : s[a] \in Q
      BY <3>3, <3>6
    <3>9. t \in [1 .. c + 1 -> R]
      BY <2>2, <3>2, <3>8, <3>a, <3>b, Zenon
    <3>10. ASSUME NEW a \in 1 .. c + 1, NEW b \in 1 .. c + 1, a < b
           PROVE  t[a] < t[b]
      <4>1. a \in 1 .. c /\ t[a] = s[a] /\ s[a] \in Q
        BY <3>3, <3>6, <3>7, <3>8, <3>10
      <4>2. CASE b = c + 1
        <5>1. t[b] = k + 1
          BY <3>8, <4>2
        <5>2. s[a] \in 1 .. k
          BY <3>2, <4>1
        <5> QED
          BY <4>1, <5>1, <5>2
      <4>3. CASE b # c + 1
        <5>1. b \in 1 .. c /\ t[b] = s[b]
          BY <3>7, <3>8, <4>3
        <5> QED
          BY <3>3, <3>6, <3>10, <4>1, <5>1 DEF Increasing
      <4> QED
        BY <4>2, <4>3
    <3>11. Increasing(t)
      BY <3>9, <3>10 DEF Increasing
    <3> QED
      BY <3>7, <3>9, <3>11
  <2> QED
    BY <2>1, <2>2
<1>3. Nat \subseteq U
  <2> HIDE DEF U
  <2> QED
    BY <1>1, <1>2, NumberInduction
<1> QED
  BY <1>3

LEMMA IncreasingIsBijection ==
  ASSUME NEW S \in SUBSET Nat, IsFiniteSet(S),
         NEW s \in [1 .. Cardinality(S) -> S], Increasing(s)
  PROVE  s \in Bijection(1 .. Cardinality(S), S)
<1>1. PICK n : n = Cardinality(S)
  OBVIOUS
<1>2. n \in Nat
  BY <1>1, FS_CardinalityType
<1>3. \A a, b \in 1 .. n : s[a] = s[b] => a = b
  <2> SUFFICES ASSUME NEW a \in 1 .. n, NEW b \in 1 .. n, s[a] = s[b], a # b
               PROVE  FALSE
    OBVIOUS
  <2>1. s[a] \in Nat /\ s[b] \in Nat
    BY <1>1
  <2>2. CASE a < b
    <3>1. s[a] < s[b]
      BY <1>1, <2>2 DEF Increasing
    <3> QED
      BY <2>1, <3>1
  <2>3. CASE b < a
    <3>1. s[b] < s[a]
      BY <1>1, <2>3 DEF Increasing
    <3> QED
      BY <2>1, <3>1
  <2> QED
    BY <1>2, <2>2, <2>3
<1>4. s \in Injection(1 .. n, S)
  BY <1>1, <1>3 DEF Injection, IsInjective
<1>5. Cardinality(1 .. n) = n
  BY <1>2, FS_Interval
<1>6. s \in Surjection(1 .. n, S)
  BY <1>1, <1>4, <1>5, FS_Injection
<1> QED
  BY <1>1, <1>4, <1>6 DEF Bijection

-----------------------------------------------------------------------------
(* The counters of BitPlanes count, in every lane, whatever the number of  *)
(* lanes.                                                                  *)

\* The number that six bits write.
Written(b1, b2, b3, b4, b5, b6) == b1 + 2 * b2 + 4 * b3 + 8 * b4 + 16 * b5 + 32 * b6

LEMMA WrittenRange ==
  ASSUME NEW b1 \in {0, 1}, NEW b2 \in {0, 1}, NEW b3 \in {0, 1},
         NEW b4 \in {0, 1}, NEW b5 \in {0, 1}, NEW b6 \in {0, 1}
  PROVE  Written(b1, b2, b3, b4, b5, b6) \in 0 .. 63
BY DEF Written

\* A bit of a word in a lane is zero or one.
LEMMA BitIsBit ==
  ASSUME NEW a, NEW l
  PROVE  Bit(a, l) \in {0, 1} /\ (Bit(a, l) = 1 <=> l \in a)
BY DEF Bit

LEMMA XorMember ==
  \A a, b, l : l \in Xor(a, b) <=> ~(l \in a <=> l \in b)
BY DEF Xor

\* csa adds its three inputs (sa_msc.rs 379-384).
LEMMA CarrySaveAdds ==
  ASSUME NEW a, NEW b, NEW c, NEW l
  PROVE  2 * Bit(CarrySave(a, b, c).carry, l) + Bit(CarrySave(a, b, c).sum, l)
           = Bit(a, l) + Bit(b, l) + Bit(c, l)
<1> DEFINE carry == CarrySave(a, b, c).carry
           sum == CarrySave(a, b, c).sum
<1>1. l \in carry <=> (l \in a /\ l \in b) \/ (~(l \in a <=> l \in b) /\ l \in c)
  <2>1. carry = (a \cap b) \cup (Xor(a, b) \cap c)
    BY DEF CarrySave
  <2> HIDE DEF carry
  <2>2. l \in Xor(a, b) <=> ~(l \in a <=> l \in b)
    BY XorMember
  <2> QED
    BY <2>1, <2>2
<1>2. l \in sum <=> ~(~(l \in a <=> l \in b) <=> l \in c)
  <2>1. sum = Xor(Xor(a, b), c)
    BY DEF CarrySave
  <2> HIDE DEF sum
  <2>2. l \in Xor(a, b) <=> ~(l \in a <=> l \in b)
    BY XorMember
  <2>3. l \in Xor(Xor(a, b), c) <=> ~(l \in Xor(a, b) <=> l \in c)
    BY XorMember
  <2> QED
    BY <2>1, <2>2, <2>3
<1> HIDE DEF carry, sum
<1> DEFINE ba == Bit(a, l)
           bb == Bit(b, l)
           bc == Bit(c, l)
           bcarry == Bit(carry, l)
           bsum == Bit(sum, l)
<1>3. /\ ba \in {0, 1} /\ (ba = 1 <=> l \in a)
      /\ bb \in {0, 1} /\ (bb = 1 <=> l \in b)
      /\ bc \in {0, 1} /\ (bc = 1 <=> l \in c)
      /\ bcarry \in {0, 1} /\ (bcarry = 1 <=> l \in carry)
      /\ bsum \in {0, 1} /\ (bsum = 1 <=> l \in sum)
  BY BitIsBit
<1> HIDE DEF ba, bb, bc, bcarry, bsum
<1>4. 2 * bcarry + bsum = ba + bb + bc
  BY <1>1, <1>2, <1>3
<1> QED
  BY <1>4, Zenon DEF ba, bb, bc, bcarry, bsum, carry, sum

LEMMA ValueIsWritten ==
  ASSUME NEW p, NEW l
  PROVE  Value(p, l) = Written(Bit(p[1], l), Bit(p[2], l), Bit(p[3], l),
                               Bit(p[4], l), Bit(p[5], l), Bit(p[6], l))
BY DEF Value, Written

\* A number of six planes is between 0 and 63.
LEMMA ValueRange ==
  ASSUME NEW p, NEW l
  PROVE  Value(p, l) \in 0 .. 63
<1> DEFINE b1 == Bit(p[1], l)
           b2 == Bit(p[2], l)
           b3 == Bit(p[3], l)
           b4 == Bit(p[4], l)
           b5 == Bit(p[5], l)
           b6 == Bit(p[6], l)
<1>1. /\ b1 \in {0, 1} /\ b2 \in {0, 1} /\ b3 \in {0, 1}
      /\ b4 \in {0, 1} /\ b5 \in {0, 1} /\ b6 \in {0, 1}
  BY BitIsBit
<1>2. Value(p, l) = Written(b1, b2, b3, b4, b5, b6)
  BY ValueIsWritten
<1> HIDE DEF b1, b2, b3, b4, b5, b6
<1> QED
  BY <1>1, <1>2, WrittenRange

-----------------------------------------------------------------------------
(* Numbers into planes.                                                    *)

LEMMA BinaryDigits ==
  ASSUME NEW d \in 0 .. 63
  PROVE  Written(d % 2, (d \div 2) % 2, (d \div 4) % 2, (d \div 8) % 2,
                 (d \div 16) % 2, (d \div 32) % 2) = d
BY DEF Written

LEMMA DigitOfOdd ==
  ASSUME NEW n \in Nat, NEW a, NEW l, l \in a <=> Odd(n)
  PROVE  Bit(a, l) = n % 2
BY DEF Bit, Odd

\* Planes whose bits are the digits of d hold d.
LEMMA DigitsValue ==
  ASSUME NEW p, NEW l, NEW d \in 0 .. MaxDegree,
         \A k \in Planes : l \in p[k] <=> Odd(d \div Weight[k])
  PROVE  Value(p, l) = d
<1>1. /\ l \in p[1] <=> Odd(d)
      /\ l \in p[2] <=> Odd(d \div 2)
      /\ l \in p[3] <=> Odd(d \div 4)
      /\ l \in p[4] <=> Odd(d \div 8)
      /\ l \in p[5] <=> Odd(d \div 16)
      /\ l \in p[6] <=> Odd(d \div 32)
  <2>1. d \div 1 = d
    BY DEF MaxDegree
  <2>2. /\ 1 \in Planes /\ 2 \in Planes /\ 3 \in Planes
        /\ 4 \in Planes /\ 5 \in Planes /\ 6 \in Planes
        /\ Weight[1] = 1 /\ Weight[2] = 2 /\ Weight[3] = 4
        /\ Weight[4] = 8 /\ Weight[5] = 16 /\ Weight[6] = 32
    BY DEF Planes, Weight
  <2> QED
    BY <2>1, <2>2, Zenon
<1>2. /\ d \in Nat /\ d \div 2 \in Nat /\ d \div 4 \in Nat
      /\ d \div 8 \in Nat /\ d \div 16 \in Nat /\ d \div 32 \in Nat
  BY DEF MaxDegree
<1>3. /\ Bit(p[1], l) = d % 2
      /\ Bit(p[2], l) = (d \div 2) % 2
      /\ Bit(p[3], l) = (d \div 4) % 2
      /\ Bit(p[4], l) = (d \div 8) % 2
      /\ Bit(p[5], l) = (d \div 16) % 2
      /\ Bit(p[6], l) = (d \div 32) % 2
  BY <1>1, <1>2, DigitOfOdd
<1>4. d \in 0 .. 63
  BY DEF MaxDegree
<1> QED
  BY <1>3, <1>4, BinaryDigits, ValueIsWritten, Zenon

\* constant_planes holds its number in every lane (sa_msc.rs 157-163).
LEMMA ConstantPlanesValue ==
  ASSUME NEW d \in 0 .. MaxDegree, NEW l \in Lanes
  PROVE  Value(ConstantPlanes(d), l) = d
<1>1. \A k \in Planes : l \in ConstantPlanes(d)[k] <=> Odd(d \div Weight[k])
  BY DEF ConstantPlanes, Everywhere
<1> QED
  BY <1>1, DigitsValue

\* fill_lane_row packs the number of a lane into the bits of the lane
\* (sa_msc.rs 116-126).
LEMMA PackedPlanesValue ==
  ASSUME NEW m \in [Lanes -> 0 .. MaxDegree], NEW l \in Lanes
  PROVE  Value(PackedPlanes(m), l) = m[l]
<1>1. \A k \in Planes : l \in PackedPlanes(m)[k] <=> Odd(m[l] \div Weight[k])
  BY DEF PackedPlanes
<1>2. m[l] \in 0 .. MaxDegree
  OBVIOUS
<1> QED
  BY <1>1, <1>2, DigitsValue

-----------------------------------------------------------------------------
(* The ripple counter.                                                     *)

\* add_plane adds the bit of every lane, when the count of the lane is below
\* the inputs absorbed with this one, and these are at most 63: no carry that
\* is cut off was ever 1 (sa_msc.rs 419-434).
LEMMA AddPlaneAdds ==
  ASSUME NEW p, NEW w, NEW l, NEW filled \in 1 .. MaxDegree,
         Value(p, l) < filled
  PROVE  Value(AddPlane(p, filled, w), l) = Value(p, l) + Bit(w, l)
<1> DEFINE q == AddPlane(p, filled, w)
           carry(k) == {x \in w : \A j \in 1 .. k - 1 : x \in p[j]}
<1>1. ASSUME NEW k \in Planes
      PROVE  l \in q[k] <=> IF Weight[k] <= filled
                            THEN ~(l \in p[k] <=> l \in carry(k)) ELSE l \in p[k]
  <2>1. q[k] = IF Weight[k] <= filled THEN Xor(p[k], carry(k)) ELSE p[k]
    BY DEF AddPlane
  <2> HIDE DEF q, carry
  <2>2. l \in Xor(p[k], carry(k)) <=> ~(l \in p[k] <=> l \in carry(k))
    BY DEF Xor
  <2>3. CASE Weight[k] <= filled
    BY <2>1, <2>2, <2>3
  <2>4. CASE ~(Weight[k] <= filled)
    BY <2>1, <2>4
  <2> QED
    BY <2>3, <2>4
<1>2. /\ l \in carry(1) <=> l \in w
      /\ l \in carry(2) <=> l \in carry(1) /\ l \in p[1]
      /\ l \in carry(3) <=> l \in carry(2) /\ l \in p[2]
      /\ l \in carry(4) <=> l \in carry(3) /\ l \in p[3]
      /\ l \in carry(5) <=> l \in carry(4) /\ l \in p[4]
      /\ l \in carry(6) <=> l \in carry(5) /\ l \in p[5]
  <2>1. /\ 1 .. 1 - 1 = {} /\ 1 .. 2 - 1 = {1} /\ 1 .. 3 - 1 = {1, 2}
        /\ 1 .. 4 - 1 = {1, 2, 3} /\ 1 .. 5 - 1 = {1, 2, 3, 4}
        /\ 1 .. 6 - 1 = {1, 2, 3, 4, 5}
    OBVIOUS
  <2> QED
    BY <2>1, Zenon
<1>3. /\ 1 \in Planes /\ 2 \in Planes /\ 3 \in Planes
      /\ 4 \in Planes /\ 5 \in Planes /\ 6 \in Planes
      /\ Weight[1] = 1 /\ Weight[2] = 2 /\ Weight[3] = 4
      /\ Weight[4] = 8 /\ Weight[5] = 16 /\ Weight[6] = 32
  BY DEF Planes, Weight
<1> DEFINE In(k) == l \in p[k]
           Out(k) == l \in q[k]
           Car(k) == l \in carry(k)
<1>4. /\ Out(1) <=> IF 1 <= filled THEN ~(In(1) <=> Car(1)) ELSE In(1)
      /\ Out(2) <=> IF 2 <= filled THEN ~(In(2) <=> Car(2)) ELSE In(2)
      /\ Out(3) <=> IF 4 <= filled THEN ~(In(3) <=> Car(3)) ELSE In(3)
      /\ Out(4) <=> IF 8 <= filled THEN ~(In(4) <=> Car(4)) ELSE In(4)
      /\ Out(5) <=> IF 16 <= filled THEN ~(In(5) <=> Car(5)) ELSE In(5)
      /\ Out(6) <=> IF 32 <= filled THEN ~(In(6) <=> Car(6)) ELSE In(6)
  <2> HIDE DEF q, carry
  <2>1. \A k \in Planes : Out(k) <=>
          IF Weight[k] <= filled THEN ~(In(k) <=> Car(k)) ELSE In(k)
    BY <1>1
  <2> HIDE DEF In, Out, Car
  <2> QED
    BY <2>1, <1>3
<1> DEFINE b(k) == Bit(p[k], l)
           d(k) == Bit(q[k], l)
           v == Bit(w, l)
<1>5. /\ b(1) \in {0, 1} /\ (b(1) = 1 <=> In(1)) /\ d(1) \in {0, 1} /\ (d(1) = 1 <=> Out(1))
      /\ b(2) \in {0, 1} /\ (b(2) = 1 <=> In(2)) /\ d(2) \in {0, 1} /\ (d(2) = 1 <=> Out(2))
      /\ b(3) \in {0, 1} /\ (b(3) = 1 <=> In(3)) /\ d(3) \in {0, 1} /\ (d(3) = 1 <=> Out(3))
      /\ b(4) \in {0, 1} /\ (b(4) = 1 <=> In(4)) /\ d(4) \in {0, 1} /\ (d(4) = 1 <=> Out(4))
      /\ b(5) \in {0, 1} /\ (b(5) = 1 <=> In(5)) /\ d(5) \in {0, 1} /\ (d(5) = 1 <=> Out(5))
      /\ b(6) \in {0, 1} /\ (b(6) = 1 <=> In(6)) /\ d(6) \in {0, 1} /\ (d(6) = 1 <=> Out(6))
  <2> HIDE DEF q
  <2> QED
    BY BitIsBit
<1>6. v \in {0, 1} /\ (v = 1 <=> Car(1))
  BY <1>2, BitIsBit
<1>7. /\ Car(2) <=> Car(1) /\ In(1)
      /\ Car(3) <=> Car(2) /\ In(2)
      /\ Car(4) <=> Car(3) /\ In(3)
      /\ Car(5) <=> Car(4) /\ In(4)
      /\ Car(6) <=> Car(5) /\ In(5)
  BY <1>2
<1>8. /\ Value(p, l) = Written(b(1), b(2), b(3), b(4), b(5), b(6))
      /\ Value(q, l) = Written(d(1), d(2), d(3), d(4), d(5), d(6))
  <2> HIDE DEF q
  <2> QED
    BY ValueIsWritten
<1>9. filled \in 1 .. 63
  BY DEF MaxDegree
<1> HIDE DEF q, carry, In, Out, Car, b, d, v
<1>10. Written(d(1), d(2), d(3), d(4), d(5), d(6))
         = Written(b(1), b(2), b(3), b(4), b(5), b(6)) + v
  BY <1>4, <1>5, <1>6, <1>7, <1>8, <1>9 DEF Written
<1>11. Value(q, l) = Value(p, l) + v
  BY <1>8, <1>10
<1> QED
  BY <1>11, Zenon DEF q, v

-----------------------------------------------------------------------------
(* The comparison with a threshold.                                        *)

\* limit_planes is half of the sum, rounded down (sa_msc.rs 128-143).
LEMMA LimitPlanesValue ==
  ASSUME NEW m, NEW d \in 0 .. MaxDegree, NEW l \in Lanes
  PROVE  Value(LimitPlanes(m, d), l) = (Value(m, l) + d) \div 2
<1> DEFINE c == ConstantPlanes(d)
           c1 == m[1] \cap c[1]
           s2 == CarrySave(m[2], c[2], c1)
           s3 == CarrySave(m[3], c[3], s2.carry)
           s4 == CarrySave(m[4], c[4], s3.carry)
           s5 == CarrySave(m[5], c[5], s4.carry)
           s6 == CarrySave(m[6], c[6], s5.carry)
           out == <<s2.sum, s3.sum, s4.sum, s5.sum, s6.sum, s6.carry>>
<1>1. LimitPlanes(m, d) = out
  BY DEF LimitPlanes
<1>2. /\ out[1] = s2.sum /\ out[2] = s3.sum /\ out[3] = s4.sum
      /\ out[4] = s5.sum /\ out[5] = s6.sum /\ out[6] = s6.carry
  <2> HIDE DEF s2, s3, s4, s5, s6
  <2> QED
    OBVIOUS
<1>3. Value(c, l) = d
  BY ConstantPlanesValue
<1> HIDE DEF c
<1> DEFINE bm(k) == Bit(m[k], l)
           bc(k) == Bit(c[k], l)
           u1 == Bit(c1, l)
           u2 == Bit(s2.carry, l)
           u3 == Bit(s3.carry, l)
           u4 == Bit(s4.carry, l)
           u5 == Bit(s5.carry, l)
           u6 == Bit(s6.carry, l)
           v2 == Bit(s2.sum, l)
           v3 == Bit(s3.sum, l)
           v4 == Bit(s4.sum, l)
           v5 == Bit(s5.sum, l)
           v6 == Bit(s6.sum, l)
<1>4. /\ 2 * u2 + v2 = bm(2) + bc(2) + u1
      /\ 2 * u3 + v3 = bm(3) + bc(3) + u2
      /\ 2 * u4 + v4 = bm(4) + bc(4) + u3
      /\ 2 * u5 + v5 = bm(5) + bc(5) + u4
      /\ 2 * u6 + v6 = bm(6) + bc(6) + u5
  <2> HIDE DEF c1, s2, s3, s4, s5, s6
  <2>0. \A x, y, z :
          2 * Bit(CarrySave(x, y, z).carry, l) + Bit(CarrySave(x, y, z).sum, l)
            = Bit(x, l) + Bit(y, l) + Bit(z, l)
    BY CarrySaveAdds
  <2>1. 2 * u2 + v2 = bm(2) + bc(2) + u1
    BY <2>0 DEF s2
  <2>2. 2 * u3 + v3 = bm(3) + bc(3) + u2
    BY <2>0 DEF s3
  <2>3. 2 * u4 + v4 = bm(4) + bc(4) + u3
    BY <2>0 DEF s4
  <2>4. 2 * u5 + v5 = bm(5) + bc(5) + u4
    BY <2>0 DEF s5
  <2>5. 2 * u6 + v6 = bm(6) + bc(6) + u5
    BY <2>0 DEF s6
  <2> QED
    BY <2>1, <2>2, <2>3, <2>4, <2>5
<1>5. /\ bm(1) \in {0, 1} /\ bc(1) \in {0, 1} /\ u1 \in {0, 1}
      /\ (u1 = 1 <=> bm(1) = 1 /\ bc(1) = 1)
  <2>1. l \in c1 <=> l \in m[1] /\ l \in c[1]
    OBVIOUS
  <2> HIDE DEF c1
  <2> QED
    BY <2>1, BitIsBit
<1> HIDE DEF c1, s2, s3, s4, s5, s6
<1>6. /\ bm(2) \in {0, 1} /\ bm(3) \in {0, 1} /\ bm(4) \in {0, 1}
      /\ bm(5) \in {0, 1} /\ bm(6) \in {0, 1}
      /\ bc(2) \in {0, 1} /\ bc(3) \in {0, 1} /\ bc(4) \in {0, 1}
      /\ bc(5) \in {0, 1} /\ bc(6) \in {0, 1}
      /\ u2 \in {0, 1} /\ u3 \in {0, 1} /\ u4 \in {0, 1}
      /\ u5 \in {0, 1} /\ u6 \in {0, 1}
      /\ v2 \in {0, 1} /\ v3 \in {0, 1} /\ v4 \in {0, 1}
      /\ v5 \in {0, 1} /\ v6 \in {0, 1}
  BY BitIsBit
<1> HIDE DEF out
<1>7. /\ Value(m, l) = Written(bm(1), bm(2), bm(3), bm(4), bm(5), bm(6))
      /\ Value(c, l) = Written(bc(1), bc(2), bc(3), bc(4), bc(5), bc(6))
      /\ Value(out, l) = Written(v2, v3, v4, v5, v6, u6)
  BY <1>2, ValueIsWritten, Zenon
<1> HIDE DEF bm, bc, u1, u2, u3, u4, u5, u6, v2, v3, v4, v5, v6
<1>8. Value(out, l) = (Value(m, l) + Value(c, l)) \div 2
  <2> DEFINE half == Written(v2, v3, v4, v5, v6, u6)
             whole == Written(bm(1), bm(2), bm(3), bm(4), bm(5), bm(6))
                        + Written(bc(1), bc(2), bc(3), bc(4), bc(5), bc(6))
             rest == bm(1) + bc(1) - 2 * u1
  <2>1. rest \in {0, 1}
    BY <1>5
  <2>2. half \in Int /\ whole \in Int
    BY <1>5, <1>6 DEF Written
  <2>3. whole = 2 * half + rest
    <3>1. /\ bm(1) \in Int /\ bm(2) \in Int /\ bm(3) \in Int
          /\ bm(4) \in Int /\ bm(5) \in Int /\ bm(6) \in Int
          /\ bc(1) \in Int /\ bc(2) \in Int /\ bc(3) \in Int
          /\ bc(4) \in Int /\ bc(5) \in Int /\ bc(6) \in Int
          /\ u1 \in Int /\ u2 \in Int /\ u3 \in Int /\ u4 \in Int /\ u5 \in Int
          /\ u6 \in Int /\ v2 \in Int /\ v3 \in Int /\ v4 \in Int /\ v5 \in Int
          /\ v6 \in Int
      BY <1>5, <1>6
    <3> QED
      BY <1>4, <3>1 DEF Written
  <2> HIDE DEF half, whole, rest
  <2>4. half = whole \div 2
    BY <2>1, <2>2, <2>3
  <2> QED
    BY <1>7, <2>4, Zenon DEF half, whole
<1> QED
  BY <1>1, <1>3, <1>8

\* le_planes holds in the lanes where the first number is at most the second
\* (sa_msc.rs 145-154).
LEMMA AtMostPlanesValue ==
  ASSUME NEW a, NEW b, NEW l \in Lanes
  PROVE  l \in AtMostPlanes(a, b) <=> Value(a, l) <= Value(b, l)
<1> DEFINE A(k) == l \in a[k]
           B(k) == l \in b[k]
           Same(k) == A(k) <=> B(k)
           EqualAbove(k) == {x \in Lanes : \A j \in k + 1 .. 6 : x \notin Xor(a[j], b[j])}
<1>1. l \in AtMostPlanes(a, b) <=>
        \/ l \in EqualAbove(0)
        \/ \E k \in Planes : l \in EqualAbove(k) /\ B(k) /\ ~A(k)
  BY DEF AtMostPlanes
<1>2. ASSUME NEW k \in 0 .. 6
      PROVE  l \in EqualAbove(k) <=> \A j \in k + 1 .. 6 : Same(j)
  <2>1. \A j : l \notin Xor(a[j], b[j]) <=> Same(j)
    BY DEF Xor
  <2> QED
    BY <2>1, Zenon
<1>3. /\ l \in EqualAbove(0) <=> Same(1) /\ Same(2) /\ Same(3) /\ Same(4) /\ Same(5) /\ Same(6)
      /\ l \in EqualAbove(1) <=> Same(2) /\ Same(3) /\ Same(4) /\ Same(5) /\ Same(6)
      /\ l \in EqualAbove(2) <=> Same(3) /\ Same(4) /\ Same(5) /\ Same(6)
      /\ l \in EqualAbove(3) <=> Same(4) /\ Same(5) /\ Same(6)
      /\ l \in EqualAbove(4) <=> Same(5) /\ Same(6)
      /\ l \in EqualAbove(5) <=> Same(6)
      /\ l \in EqualAbove(6)
  <2> HIDE DEF EqualAbove, Same
  <2>1. /\ 0 + 1 .. 6 = {1, 2, 3, 4, 5, 6} /\ 1 + 1 .. 6 = {2, 3, 4, 5, 6}
        /\ 2 + 1 .. 6 = {3, 4, 5, 6} /\ 3 + 1 .. 6 = {4, 5, 6}
        /\ 4 + 1 .. 6 = {5, 6} /\ 5 + 1 .. 6 = {6} /\ 6 + 1 .. 6 = {}
    OBVIOUS
  <2>2. /\ 0 \in 0 .. 6 /\ 1 \in 0 .. 6 /\ 2 \in 0 .. 6 /\ 3 \in 0 .. 6
        /\ 4 \in 0 .. 6 /\ 5 \in 0 .. 6 /\ 6 \in 0 .. 6
    OBVIOUS
  <2> QED
    BY <1>2, <2>1, <2>2, Zenon
<1> DEFINE ba(k) == Bit(a[k], l)
           bb(k) == Bit(b[k], l)
<1>4. /\ ba(1) \in {0, 1} /\ (ba(1) = 1 <=> A(1)) /\ bb(1) \in {0, 1} /\ (bb(1) = 1 <=> B(1))
      /\ ba(2) \in {0, 1} /\ (ba(2) = 1 <=> A(2)) /\ bb(2) \in {0, 1} /\ (bb(2) = 1 <=> B(2))
      /\ ba(3) \in {0, 1} /\ (ba(3) = 1 <=> A(3)) /\ bb(3) \in {0, 1} /\ (bb(3) = 1 <=> B(3))
      /\ ba(4) \in {0, 1} /\ (ba(4) = 1 <=> A(4)) /\ bb(4) \in {0, 1} /\ (bb(4) = 1 <=> B(4))
      /\ ba(5) \in {0, 1} /\ (ba(5) = 1 <=> A(5)) /\ bb(5) \in {0, 1} /\ (bb(5) = 1 <=> B(5))
      /\ ba(6) \in {0, 1} /\ (ba(6) = 1 <=> A(6)) /\ bb(6) \in {0, 1} /\ (bb(6) = 1 <=> B(6))
  BY BitIsBit
<1>5. /\ Value(a, l) = Written(ba(1), ba(2), ba(3), ba(4), ba(5), ba(6))
      /\ Value(b, l) = Written(bb(1), bb(2), bb(3), bb(4), bb(5), bb(6))
  BY ValueIsWritten
<1> DEFINE Wins(k) == l \in EqualAbove(k) /\ B(k) /\ ~A(k)
<1>6. (\E k \in Planes : Wins(k)) <=>
        Wins(1) \/ Wins(2) \/ Wins(3) \/ Wins(4) \/ Wins(5) \/ Wins(6)
  <2>1. Planes = {1, 2, 3, 4, 5, 6}
    BY DEF Planes
  <2> HIDE DEF Wins
  <2> QED
    BY <2>1, Zenon
<1>7. l \in AtMostPlanes(a, b) <=>
        \/ l \in EqualAbove(0)
        \/ Wins(1) \/ Wins(2) \/ Wins(3) \/ Wins(4) \/ Wins(5) \/ Wins(6)
  BY <1>1, <1>6, Zenon
<1> HIDE DEF EqualAbove, A, B, ba, bb
<1>8. l \in AtMostPlanes(a, b) <=>
        Written(ba(1), ba(2), ba(3), ba(4), ba(5), ba(6))
          <= Written(bb(1), bb(2), bb(3), bb(4), bb(5), bb(6))
  BY <1>3, <1>4, <1>7 DEF Written
<1> QED
  BY <1>5, <1>8, Zenon
=============================================================================
