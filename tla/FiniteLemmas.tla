---------------------------- MODULE FiniteLemmas ----------------------------
(***************************************************************************)
(* Facts about finite sets of numbers that the proofs share: what a sum    *)
(* (SumFunctionOnSet) computes, and the largest and smallest element.  A   *)
(* sum is a fold, defined by recursion over subsets; each fact is shown    *)
(* for a smallest subset that would violate it (SmallestSet), which takes  *)
(* the place of an induction.                                              *)
(***************************************************************************)
EXTENDS Integers, FiniteSetsExt, TLAPS, FiniteSetTheorems, WellFoundedInduction

-----------------------------------------------------------------------------
(* Smallest elements and smallest sets *)

(* A set of natural numbers that has a member has a least one.             *)
LEMMA LeastNumber ==
    ASSUME NEW N \in SUBSET Nat, N # {}
    PROVE  \E m \in N : \A k \in N : m <= k
<1> DEFINE R == OpToRel(<, Nat)
<1>1. IsWellFoundedOn(R, Nat)
  BY NatLessThanWellFounded
<1>2. \A k, m \in Nat : k < m => <<k, m>> \in R
  BY DEF OpToRel
<1> HIDE DEF R
<1>3. PICK m \in N : \A k \in N : ~(<<k, m>> \in R)
  BY <1>1, WFMin
<1>4. \A k \in N : ~(k < m)
  BY <1>2, <1>3
<1> QED
  BY <1>4

(* Of the subsets of a finite set that are bad, one is bad although it is  *)
(* not without any one of its elements.                                    *)
LEMMA SmallestSet ==
    ASSUME NEW S, IsFiniteSet(S), NEW Bad \in SUBSET (SUBSET S), Bad # {}
    PROVE  \E T \in Bad : \A x \in T : T \ {x} \notin Bad
<1> DEFINE Sizes == { Cardinality(T) : T \in Bad }
<1>1. \A T \in Bad : IsFiniteSet(T) /\ Cardinality(T) \in Nat
  BY FS_Subset, FS_CardinalityType
<1>2. Sizes \in SUBSET Nat /\ Sizes # {}
  BY <1>1
<1>3. PICK m \in Sizes : \A k \in Sizes : m <= k
  <2> HIDE DEF Sizes
  <2> QED
    BY <1>2, LeastNumber
<1>4. PICK T \in Bad : Cardinality(T) = m
  BY <1>3
<1>5. ASSUME NEW x \in T PROVE T \ {x} \notin Bad
  <2>1. Cardinality(T \ {x}) = Cardinality(T) - 1
    BY <1>1, FS_RemoveElement
  <2>2. ASSUME T \ {x} \in Bad PROVE FALSE
    <3>1. Cardinality(T \ {x}) \in Sizes
      BY <2>2
    <3>2. m <= Cardinality(T \ {x})
      BY <1>3, <3>1
    <3> QED
      BY <1>1, <1>4, <2>1, <3>2
  <2> QED
    BY <2>2
<1> QED
  BY <1>4, <1>5

-----------------------------------------------------------------------------
(* The recursion behind a sum *)

First(T) == CHOOSE x \in T : TRUE

(* g adds up F over every subset of S, taking the elements one by one.     *)
Adds(g, F, S) ==
    g = [T \in SUBSET S |-> IF T = {} THEN 0 ELSE F[First(T)] + g[T \ {First(T)}]]

(* What such a g gives for a subset.                                       *)
LEMMA AddsStep ==
    ASSUME NEW g, NEW F, NEW S, Adds(g, F, S), NEW T \in SUBSET S
    PROVE  /\ T = {} => g[T] = 0
           /\ T # {} => /\ First(T) \in T
                        /\ g[T] = F[First(T)] + g[T \ {First(T)}]
<1>1. T # {} => First(T) \in T
  BY DEF First
<1>2. g[T] = IF T = {} THEN 0 ELSE F[First(T)] + g[T \ {First(T)}]
  BY DEF Adds
<1> QED
  BY <1>1, <1>2

(* The recursion has a solution on every finite set.                       *)
LEMMA AdderExists ==
    ASSUME NEW S, IsFiniteSet(S), NEW F
    PROVE  \E g : Adds(g, F, S)
<1> DEFINE Small(n) == { T \in SUBSET S : Cardinality(T) <= n }
           Body(g, T) == IF T = {} THEN 0 ELSE F[First(T)] + g[T \ {First(T)}]
           Part(g, n) == g = [T \in Small(n) |-> Body(g, T)]
           Bad == { n \in Nat : ~ \E g : Part(g, n) }
<1>0. \A T \in SUBSET S : IsFiniteSet(T) /\ Cardinality(T) \in Nat
  BY FS_Subset, FS_CardinalityType
<1>1. ASSUME NEW T \in SUBSET S, T # {}
      PROVE  /\ T \ {First(T)} \in SUBSET S
             /\ Cardinality(T \ {First(T)}) = Cardinality(T) - 1
  <2>1. First(T) \in T
    BY <1>1 DEF First
  <2> QED
    BY <1>0, <2>1, FS_RemoveElement
<1>2. ASSUME Bad # {} PROVE FALSE
  <2>1. PICK m \in Bad : \A k \in Bad : m <= k
    <3>1. Bad \in SUBSET Nat
      OBVIOUS
    <3> HIDE DEF Bad
    <3> QED
      BY <1>2, <3>1, LeastNumber
  <2>2. CASE m = 0
    <3> DEFINE h == [T \in Small(m) |-> 0]
    <3>1. \A T \in Small(m) : T = {}
      BY <1>0, <2>2, FS_EmptySet
    <3>2. h = [T \in Small(m) |-> Body(h, T)]
      BY <3>1
    <3>3. Part(h, m)
      BY <3>2
    <3> QED
      BY <3>3
  <2>3. CASE m # 0
    <3>1. m - 1 \in Nat /\ m - 1 \notin Bad
      <4>1. m \in Nat /\ \A k \in Bad : m <= k
        BY <2>1
      <4> HIDE DEF Bad
      <4> QED
        BY <2>3, <4>1
    <3>2. PICK g : Part(g, m - 1)
      BY <3>1
    <3> DEFINE h == [T \in Small(m) |-> Body(g, T)]
    <3>3. ASSUME NEW T \in Small(m - 1) PROVE h[T] = g[T]
      <4>1. T \in Small(m)
        BY <1>0, <3>1
      <4>2. g[T] = Body(g, T)
        BY <3>2
      <4> QED
        BY <4>1, <4>2
    <3>4. ASSUME NEW T \in Small(m), T # {} PROVE T \ {First(T)} \in Small(m - 1)
      BY <1>0, <1>1, <3>4
    <3>5. \A T \in Small(m) : Body(g, T) = Body(h, T)
      BY <3>3, <3>4
    <3>6. Part(h, m)
      BY <3>5
    <3> QED
      BY <3>6
  <2> QED
    BY <2>2, <2>3
<1>3. Cardinality(S) \in Nat
  BY FS_CardinalityType
<1>4. PICK g : Part(g, Cardinality(S))
  BY <1>2, <1>3
<1>5. Small(Cardinality(S)) = SUBSET S
  BY <1>0, FS_Subset
<1> QED
  BY <1>4, <1>5 DEF Adds

(* A sum over a finite set is what such a recursion gives for it.          *)
LEMMA SumIsAdder ==
    ASSUME NEW S, IsFiniteSet(S), NEW F
    PROVE  \E g : Adds(g, F, S) /\ SumFunctionOnSet(F, S) = g[S]
<1> DEFINE it == CHOOSE g : Adds(g, F, S)
<1>1. Adds(it, F, S)
  BY AdderExists
<1>2. SumFunctionOnSet(F, S) = it[S]
  BY DEF SumFunctionOnSet, FoldFunctionOnSet, MapThenFoldSet, Adds, First
<1> QED
  BY <1>1, <1>2

(* Two recursions over functions that agree agree themselves, also when    *)
(* one of them reaches further.                                            *)
LEMMA AddersAgree ==
    ASSUME NEW S, IsFiniteSet(S), NEW T \in SUBSET S, NEW F, NEW G, NEW g, NEW h,
           Adds(g, F, S), Adds(h, G, T), \A x \in T : F[x] = G[x]
    PROVE  g[T] = h[T]
<1> DEFINE Bad == { U \in SUBSET T : g[U] # h[U] }
<1>1. IsFiniteSet(T)
  BY FS_Subset
<1>2. ASSUME Bad # {} PROVE FALSE
  <2>1. PICK U \in Bad : \A x \in U : U \ {x} \notin Bad
    <3>1. Bad \in SUBSET (SUBSET T)
      OBVIOUS
    <3> HIDE DEF Bad
    <3> QED
      BY <1>1, <1>2, <3>1, SmallestSet
  <2>2. U \in SUBSET S /\ U \in SUBSET T
    OBVIOUS
  <2>3. CASE U = {}
    <3>1. g[U] = 0 /\ h[U] = 0
      BY <2>2, <2>3, AddsStep
    <3> QED
      BY <3>1
  <2>4. CASE U # {}
    <3>0. First(U) \in U /\ g[U] = F[First(U)] + g[U \ {First(U)}]
      BY <2>2, <2>4, AddsStep
    <3>1. /\ First(U) \in U
          /\ g[U] = F[First(U)] + g[U \ {First(U)}]
          /\ h[U] = G[First(U)] + h[U \ {First(U)}]
      BY <2>2, <2>4, <3>0, AddsStep
    <3>2. g[U \ {First(U)}] = h[U \ {First(U)}]
      BY <2>1, <2>2, <3>1
    <3> QED
      BY <2>2, <3>1, <3>2
  <2> QED
    BY <2>3, <2>4
<1> QED
  BY <1>2

(* Numbers add up to a number.                                             *)
LEMMA AdderType ==
    ASSUME NEW S, IsFiniteSet(S), NEW F, \A x \in S : F[x] \in Int,
           NEW g, Adds(g, F, S), NEW T \in SUBSET S
    PROVE  g[T] \in Int
<1> DEFINE Bad == { U \in SUBSET S : g[U] \notin Int }
<1>1. ASSUME Bad # {} PROVE FALSE
  <2>1. PICK U \in Bad : \A x \in U : U \ {x} \notin Bad
    <3>1. Bad \in SUBSET (SUBSET S)
      OBVIOUS
    <3> HIDE DEF Bad
    <3> QED
      BY <1>1, <3>1, SmallestSet
  <2>2. CASE U = {}
    <3>1. g[U] = 0
      BY <2>2, AddsStep
    <3> QED
      BY <3>1
  <2>3. CASE U # {}
    <3>1. First(U) \in U /\ g[U] = F[First(U)] + g[U \ {First(U)}]
      BY <2>3, AddsStep
    <3>2. g[U \ {First(U)}] \in Int /\ F[First(U)] \in Int
      BY <2>1, <3>1
    <3> QED
      BY <3>1, <3>2
  <2> QED
    BY <2>2, <2>3
<1> QED
  BY <1>1

(* The order in which the elements are taken does not matter.              *)
LEMMA AdderAnyOrder ==
    ASSUME NEW S, IsFiniteSet(S), NEW F, \A x \in S : F[x] \in Int,
           NEW g, Adds(g, F, S), NEW T \in SUBSET S, NEW x \in T
    PROVE  g[T] = F[x] + g[T \ {x}]
<1> DEFINE Bad == { U \in SUBSET S : \E y \in U : g[U] # F[y] + g[U \ {y}] }
<1>1. ASSUME Bad # {} PROVE FALSE
  <2>1. PICK U \in Bad : \A y \in U : U \ {y} \notin Bad
    <3>1. Bad \in SUBSET (SUBSET S)
      OBVIOUS
    <3> HIDE DEF Bad
    <3> QED
      BY <1>1, <3>1, SmallestSet
  <2>2. PICK y \in U : g[U] # F[y] + g[U \ {y}]
    BY <2>1
  <2> DEFINE c == First(U)
             V == U \ {c, y}
  <2>3. U \in SUBSET S /\ c \in U /\ g[U] = F[c] + g[U \ {c}]
    BY <2>2, AddsStep
  <2> HIDE DEF c
  <2>4. c # y
    BY <2>2, <2>3
  <2>5. /\ U \ {c} \in SUBSET S /\ y \in U \ {c} /\ (U \ {c}) \ {y} = V
        /\ U \ {y} \in SUBSET S /\ c \in U \ {y} /\ (U \ {y}) \ {c} = V
        /\ V \in SUBSET S
    BY <2>3, <2>4
  <2>6. g[U \ {c}] = F[y] + g[V]
    BY <2>1, <2>3, <2>5
  <2>7. g[U \ {y}] = F[c] + g[V]
    BY <2>1, <2>5
  <2>8. g[V] \in Int /\ F[c] \in Int /\ F[y] \in Int
    BY <2>3, <2>5, AdderType
  <2> HIDE DEF V
  <2> QED
    BY <2>2, <2>3, <2>6, <2>7, <2>8
<1> QED
  BY <1>1

-----------------------------------------------------------------------------
(* Sums *)

(* Nothing adds up to zero.                                                *)
LEMMA SumEmpty ==
    ASSUME NEW F
    PROVE  SumFunctionOnSet(F, {}) = 0
<1>1. PICK g : Adds(g, F, {}) /\ SumFunctionOnSet(F, {}) = g[{}]
  BY FS_EmptySet, SumIsAdder
<1> QED
  BY <1>1, AddsStep

(* Numbers add up to a number.                                             *)
LEMMA SumType ==
    ASSUME NEW S, IsFiniteSet(S), NEW F, \A x \in S : F[x] \in Int
    PROVE  SumFunctionOnSet(F, S) \in Int
<1>1. PICK g : Adds(g, F, S) /\ SumFunctionOnSet(F, S) = g[S]
  BY SumIsAdder
<1> QED
  BY <1>1, AdderType

(* Any element may be taken out of a sum.                                  *)
LEMMA SumSplit ==
    ASSUME NEW S, IsFiniteSet(S), NEW F, \A x \in S : F[x] \in Int, NEW x \in S
    PROVE  SumFunctionOnSet(F, S) = F[x] + SumFunctionOnSet(F, S \ {x})
<1>1. PICK g : Adds(g, F, S) /\ SumFunctionOnSet(F, S) = g[S]
  BY SumIsAdder
<1>2. IsFiniteSet(S \ {x})
  BY FS_Subset
<1>3. PICK h : Adds(h, F, S \ {x}) /\ SumFunctionOnSet(F, S \ {x}) = h[S \ {x}]
  BY <1>2, SumIsAdder
<1>4. g[S \ {x}] = h[S \ {x}]
  BY <1>1, <1>3, AddersAgree
<1>5. g[S] = F[x] + g[S \ {x}]
  BY <1>1, AdderAnyOrder
<1> QED
  BY <1>1, <1>3, <1>4, <1>5

(* A sum depends on what is added up only.                                 *)
LEMMA SumAgree ==
    ASSUME NEW S, IsFiniteSet(S), NEW F, NEW G, \A x \in S : F[x] = G[x]
    PROVE  SumFunctionOnSet(F, S) = SumFunctionOnSet(G, S)
<1>1. PICK g : Adds(g, F, S) /\ SumFunctionOnSet(F, S) = g[S]
  BY SumIsAdder
<1>2. PICK h : Adds(h, G, S) /\ SumFunctionOnSet(G, S) = h[S]
  BY SumIsAdder
<1> QED
  BY <1>1, <1>2, AddersAgree

(* Sums of functions that are related element by element in the same       *)
(* linear way are related so.                                              *)
LEMMA SumLinear ==
    ASSUME NEW S, IsFiniteSet(S), NEW F, NEW G, NEW H,
           NEW a \in Int, NEW b \in Int, NEW c \in Int,
           \A x \in S : /\ F[x] \in Int /\ G[x] \in Int /\ H[x] \in Int
                        /\ c * H[x] = a * F[x] + b * G[x]
    PROVE  c * SumFunctionOnSet(H, S) = a * SumFunctionOnSet(F, S) + b * SumFunctionOnSet(G, S)
<1> DEFINE Sum(A, T) == SumFunctionOnSet(A, T)
           Bad == { T \in SUBSET S : c * Sum(H, T) # a * Sum(F, T) + b * Sum(G, T) }
<1>1. ASSUME Bad # {} PROVE FALSE
  <2>1. PICK T \in Bad : \A x \in T : T \ {x} \notin Bad
    <3>1. Bad \in SUBSET (SUBSET S)
      OBVIOUS
    <3> HIDE DEF Bad
    <3> QED
      BY <1>1, <3>1, SmallestSet
  <2>2. IsFiniteSet(T) /\ T \in SUBSET S
    BY FS_Subset
  <2>3. CASE T = {}
    <3>1. Sum(F, T) = 0 /\ Sum(G, T) = 0 /\ Sum(H, T) = 0
      BY <2>3, SumEmpty
    <3> HIDE DEF Sum
    <3> QED
      BY <2>1, <3>1
  <2>4. CASE T # {}
    <3>1. PICK x \in T : TRUE
      BY <2>4
    <3> DEFINE U == T \ {x}
    <3>2. Sum(F, T) = F[x] + Sum(F, U) /\ Sum(G, T) = G[x] + Sum(G, U) /\ Sum(H, T) = H[x] + Sum(H, U)
      BY <2>2, <3>1, SumSplit
    <3>3. IsFiniteSet(U) /\ U \in SUBSET S
      BY <2>2, FS_Subset
    <3>4. Sum(F, U) \in Int /\ Sum(G, U) \in Int /\ Sum(H, U) \in Int
      BY <3>3, SumType
    <3>5. c * Sum(H, U) = a * Sum(F, U) + b * Sum(G, U)
      BY <2>1, <3>1, <3>3
    <3>6. F[x] \in Int /\ G[x] \in Int /\ H[x] \in Int /\ c * H[x] = a * F[x] + b * G[x]
      BY <2>2, <3>1
    <3>7. c * Sum(H, T) # a * Sum(F, T) + b * Sum(G, T)
      BY <2>1
    <3> HIDE DEF Sum, U
    <3>8. /\ c * (H[x] + Sum(H, U)) = c * H[x] + c * Sum(H, U)
          /\ a * (F[x] + Sum(F, U)) = a * F[x] + a * Sum(F, U)
          /\ b * (G[x] + Sum(G, U)) = b * G[x] + b * Sum(G, U)
      BY <3>4, <3>6
    <3>9. /\ c * H[x] \in Int /\ a * F[x] \in Int /\ b * G[x] \in Int
          /\ c * Sum(H, U) \in Int /\ a * Sum(F, U) \in Int /\ b * Sum(G, U) \in Int
      BY <3>4, <3>6
    <3> QED
      BY <3>2, <3>5, <3>6, <3>7, <3>8, <3>9
  <2> QED
    BY <2>3, <2>4
<1> QED
  BY <1>1

(* A sum of larger numbers is no smaller.                                  *)
LEMMA SumMonotone ==
    ASSUME NEW S, IsFiniteSet(S), NEW F, NEW G,
           \A x \in S : F[x] \in Int /\ G[x] \in Int /\ F[x] <= G[x]
    PROVE  SumFunctionOnSet(F, S) <= SumFunctionOnSet(G, S)
<1> DEFINE Sum(A, T) == SumFunctionOnSet(A, T)
           Bad == { T \in SUBSET S : ~(Sum(F, T) <= Sum(G, T)) }
<1>1. ASSUME Bad # {} PROVE FALSE
  <2>1. PICK T \in Bad : \A x \in T : T \ {x} \notin Bad
    <3>1. Bad \in SUBSET (SUBSET S)
      OBVIOUS
    <3> HIDE DEF Bad
    <3> QED
      BY <1>1, <3>1, SmallestSet
  <2>2. IsFiniteSet(T) /\ T \in SUBSET S /\ ~(Sum(F, T) <= Sum(G, T))
    BY FS_Subset
  <2>3. CASE T = {}
    <3>1. Sum(F, T) = 0 /\ Sum(G, T) = 0
      BY <2>3, SumEmpty
    <3> HIDE DEF Sum
    <3> QED
      BY <2>2, <3>1
  <2>4. CASE T # {}
    <3>1. PICK x \in T : TRUE
      BY <2>4
    <3> DEFINE U == T \ {x}
    <3>2. Sum(F, T) = F[x] + Sum(F, U) /\ Sum(G, T) = G[x] + Sum(G, U)
      BY <2>2, <3>1, SumSplit
    <3>3. IsFiniteSet(U) /\ U \in SUBSET S
      BY <2>2, FS_Subset
    <3>4. Sum(F, U) \in Int /\ Sum(G, U) \in Int
      BY <3>3, SumType
    <3>5. Sum(F, U) <= Sum(G, U)
      BY <2>1, <3>1, <3>3
    <3>6. F[x] \in Int /\ G[x] \in Int /\ F[x] <= G[x]
      BY <2>2, <3>1
    <3> HIDE DEF Sum, U
    <3> QED
      BY <2>2, <3>2, <3>4, <3>5, <3>6
  <2> QED
    BY <2>3, <2>4
<1> QED
  BY <1>1

(* Zeros add up to zero.                                                   *)
LEMMA SumZero ==
    ASSUME NEW S, IsFiniteSet(S), NEW F, \A x \in S : F[x] = 0
    PROVE  SumFunctionOnSet(F, S) = 0
<1>1. \A x \in S : F[x] \in Int /\ 2 * F[x] = 1 * F[x] + 0 * F[x]
  OBVIOUS
<1>2. 2 * SumFunctionOnSet(F, S) = 1 * SumFunctionOnSet(F, S) + 0 * SumFunctionOnSet(F, S)
  BY <1>1, SumLinear
<1>3. SumFunctionOnSet(F, S) \in Int
  BY <1>1, SumType
<1> QED
  BY <1>2, <1>3

(* A sum of what is not negative is not negative, and no summand exceeds   *)
(* it.                                                                     *)
LEMMA SumAtLeast ==
    ASSUME NEW S, IsFiniteSet(S), NEW F, \A x \in S : F[x] \in Nat
    PROVE  /\ SumFunctionOnSet(F, S) \in Nat
           /\ \A x \in S : F[x] <= SumFunctionOnSet(F, S)
<1>1. ASSUME NEW T \in SUBSET S PROVE SumFunctionOnSet(F, T) \in Nat
  <2> DEFINE Z == [x \in S |-> 0]
  <2>1. IsFiniteSet(T)
    BY FS_Subset
  <2>2. SumFunctionOnSet(F, T) \in Int
    BY <2>1, SumType
  <2>3. \A x \in T : Z[x] = 0
    OBVIOUS
  <2> HIDE DEF Z
  <2>4. SumFunctionOnSet(Z, T) = 0
    BY <2>1, <2>3, SumZero
  <2>5. \A x \in T : Z[x] \in Int /\ F[x] \in Int /\ Z[x] <= F[x]
    BY <2>3
  <2>6. SumFunctionOnSet(Z, T) <= SumFunctionOnSet(F, T)
    BY <2>1, <2>5, SumMonotone
  <2> QED
    BY <2>2, <2>4, <2>6
<1>2. ASSUME NEW x \in S PROVE F[x] <= SumFunctionOnSet(F, S)
  <2>1. SumFunctionOnSet(F, S) = F[x] + SumFunctionOnSet(F, S \ {x})
    BY SumSplit
  <2>2. SumFunctionOnSet(F, S \ {x}) \in Nat
    BY <1>1
  <2> QED
    BY <2>1, <2>2
<1> QED
  BY <1>1, <1>2

LEMMA FirstNumbersAreFinite == \A n \in Nat : IsFiniteSet(1..n)
BY FS_Interval

-----------------------------------------------------------------------------
(* The largest and the smallest element *)

LEMMA ImageIsFinite ==
    ASSUME NEW S, IsFiniteSet(S), NEW f
    PROVE  IsFiniteSet({ f[x] : x \in S })
<1> DEFINE T == { f[x] : x \in S }
           g == [x \in S |-> f[x]]
<1>1. g \in [S -> T] /\ \A t \in T : \E x \in S : g[x] = t
  OBVIOUS
<1>2. g \in Surjection(S, T)
  BY <1>1, Zenon DEF Surjection
<1> QED
  BY <1>2, FS_Surjection

LEMMA MaxIs ==
    ASSUME NEW S \in SUBSET Int, NEW x \in S, \A y \in S : y <= x
    PROVE  Max(S) = x
<1>1. \A y \in S : x >= y
  OBVIOUS
<1>2. Max(S) \in S /\ \A y \in S : Max(S) >= y
  BY <1>1, Zenon DEF Max
<1>3. x \in Int /\ Max(S) \in Int /\ Max(S) >= x /\ x >= Max(S)
  BY <1>1, <1>2
<1> QED
  BY <1>3

LEMMA MinIs ==
    ASSUME NEW S \in SUBSET Int, NEW x \in S, \A y \in S : x <= y
    PROVE  Min(S) = x
<1>1. Min(S) \in S /\ \A y \in S : Min(S) <= y
  BY Zenon DEF Min
<1>2. x \in Int /\ Min(S) \in Int /\ Min(S) <= x /\ x <= Min(S)
  BY <1>1
<1> QED
  BY <1>2

LEMMA MaxOfTwo ==
    ASSUME NEW a \in Int, NEW b \in Int
    PROVE  Max({a, b}) = IF a >= b THEN a ELSE b
<1>1. CASE a >= b
  BY <1>1, MaxIs
<1>2. CASE ~(a >= b)
  BY <1>2, MaxIs
<1> QED
  BY <1>1, <1>2

LEMMA MinOfTwo ==
    ASSUME NEW a \in Int, NEW b \in Int
    PROVE  Min({a, b}) = IF a <= b THEN a ELSE b
<1>1. CASE a <= b
  BY <1>1, MinIs
<1>2. CASE ~(a <= b)
  BY <1>2, MinIs
<1> QED
  BY <1>1, <1>2

(* A finite set of numbers has a smallest and a largest one.               *)
LEMMA MinExists ==
    ASSUME NEW S \in SUBSET Int, IsFiniteSet(S), S # {}
    PROVE  Min(S) \in S /\ \A y \in S : Min(S) <= y
<1> DEFINE Low(T) == \E x \in T : \A y \in T : x <= y
           Bad == { T \in SUBSET S : T # {} /\ ~Low(T) }
<1>1. ASSUME Bad # {} PROVE FALSE
  <2>1. PICK T \in Bad : \A x \in T : T \ {x} \notin Bad
    <3>1. Bad \in SUBSET (SUBSET S)
      OBVIOUS
    <3> HIDE DEF Bad
    <3> QED
      BY <1>1, <3>1, SmallestSet
  <2>2. PICK x \in T : TRUE
    OBVIOUS
  <2>3. T \ {x} = {} \/ Low(T \ {x})
    BY <2>1
  <2>4. CASE T \ {x} = {}
    <3>1. \A y \in T : y = x
      BY <2>4
    <3> QED
      BY <2>2, <3>1
  <2>5. CASE Low(T \ {x})
    <3>1. PICK m \in T \ {x} : \A y \in T \ {x} : m <= y
      BY <2>5
    <3>2. x \in Int /\ m \in Int /\ T \subseteq Int
      BY <2>2, <3>1
    <3>3. CASE m <= x
      BY <3>1, <3>2, <3>3
    <3>4. CASE ~(m <= x)
      <4>1. \A y \in T : x <= y
        BY <3>1, <3>2, <3>4
      <4> QED
        BY <2>2, <4>1
    <3> QED
      BY <3>3, <3>4
  <2> QED
    BY <2>3, <2>4, <2>5
<1>2. PICK x \in S : \A y \in S : x <= y
  BY <1>1
<1> QED
  BY <1>2, MinIs

LEMMA MaxExists ==
    ASSUME NEW S \in SUBSET Int, IsFiniteSet(S), S # {}
    PROVE  Max(S) \in S /\ \A y \in S : y <= Max(S)
<1> DEFINE f == [y \in S |-> -y]
           N == { f[y] : y \in S }
<1>1. N \in SUBSET Int
  OBVIOUS
<1>2. N # {} /\ IsFiniteSet(N)
  BY ImageIsFinite
<1>3. Min(N) \in N /\ \A y \in N : Min(N) <= y
  BY <1>1, <1>2, MinExists
<1>4. PICK x \in S : Min(N) = -x
  BY <1>3
<1>5. \A y \in S : y <= x
  BY <1>3, <1>4
<1> QED
  BY <1>4, <1>5, MaxIs

LEMMA ThreeAreFinite == \A a, b, c : IsFiniteSet({a, b, c})
<1> TAKE a, b, c
<1>1. IsFiniteSet({a}) /\ IsFiniteSet({a} \cup {b})
  BY FS_Singleton, FS_AddElement
<1>2. IsFiniteSet(({a} \cup {b}) \cup {c})
  BY <1>1, FS_AddElement
<1>3. {a, b, c} = ({a} \cup {b}) \cup {c}
  OBVIOUS
<1> QED
  BY <1>2, <1>3

LEMMA MinOfThree ==
    ASSUME NEW a \in Int, NEW b \in Int, NEW c \in Int
    PROVE  /\ Min({a, b, c}) \in {a, b, c}
           /\ Min({a, b, c}) <= a /\ Min({a, b, c}) <= b /\ Min({a, b, c}) <= c
<1>1. {a, b, c} \in SUBSET Int /\ {a, b, c} # {}
  OBVIOUS
<1>2. Min({a, b, c}) \in {a, b, c} /\ \A y \in {a, b, c} : Min({a, b, c}) <= y
  BY <1>1, ThreeAreFinite, MinExists
<1> QED
  BY <1>2

LEMMA MaxOfThree ==
    ASSUME NEW a \in Int, NEW b \in Int, NEW c \in Int
    PROVE  /\ Max({a, b, c}) \in {a, b, c}
           /\ Max({a, b, c}) >= a /\ Max({a, b, c}) >= b /\ Max({a, b, c}) >= c
<1>1. {a, b, c} \in SUBSET Int /\ {a, b, c} # {}
  OBVIOUS
<1>2. Max({a, b, c}) \in {a, b, c} /\ \A y \in {a, b, c} : y <= Max({a, b, c})
  BY <1>1, ThreeAreFinite, MaxExists
<1> QED
  BY <1>2

-----------------------------------------------------------------------------
(* Ranks in a total order *)

(* Counting, for each element of a finite ordered set, the elements up to  *)
(* it numbers the set from 1 in its order.                                 *)
LEMMA RankIs ==
    ASSUME NEW S, IsFiniteSet(S), NEW R,
           \A x, y \in S : <<x, y>> \in R \/ <<y, x>> \in R,
           \A x, y \in S : <<x, y>> \in R /\ <<y, x>> \in R => x = y,
           \A x, y, z \in S : <<x, y>> \in R /\ <<y, z>> \in R => <<x, z>> \in R,
           NEW f, \A x \in S : f[x] = Cardinality({ y \in S : <<y, x>> \in R })
    PROVE  /\ \A x \in S : f[x] \in 1 .. Cardinality(S)
           /\ \A x, y \in S : f[x] <= f[y] <=> <<x, y>> \in R
           /\ \A n \in 1 .. Cardinality(S) : \E x \in S : f[x] = n
<1> DEFINE upto(x) == { y \in S : <<y, x>> \in R }
           c == Cardinality(S)
<1>1. \A x \in S : x \in upto(x) /\ upto(x) \in SUBSET S /\ f[x] = Cardinality(upto(x))
  OBVIOUS
<1>2. \A x, y \in S : <<x, y>> \in R => upto(x) \in SUBSET upto(y)
  OBVIOUS
<1>3. \A x, y \in S : <<x, y>> \notin R => x \notin upto(y) /\ <<y, x>> \in R
  OBVIOUS
<1>4. c \in Nat
  BY FS_CardinalityType
<1> HIDE DEF upto, c
<1>5. \A x \in S : IsFiniteSet(upto(x)) /\ f[x] \in Nat /\ f[x] <= c
  BY <1>1, FS_Subset, FS_CardinalityType DEF c
<1>6. \A x \in S : f[x] # 0
  BY <1>1, <1>5, FS_EmptySet
<1>7. \A x \in S : f[x] \in 1 .. c
  BY <1>4, <1>5, <1>6
<1>8. ASSUME NEW x \in S, NEW y \in S, <<x, y>> \in R PROVE f[x] <= f[y]
  BY <1>1, <1>2, <1>5, <1>8, FS_Subset
<1>9. ASSUME NEW x \in S, NEW y \in S, <<x, y>> \notin R PROVE f[y] < f[x]
  <2>1. upto(y) \in SUBSET upto(x) /\ x \in upto(x) /\ x \notin upto(y)
    BY <1>1, <1>2, <1>3, <1>9
  <2>2. upto(x) # upto(y)
    BY <2>1
  <2>3. f[y] <= f[x] /\ f[y] # f[x]
    BY <1>1, <1>5, <2>1, <2>2, FS_Subset
  <2> QED
    BY <1>5, <2>3
<1>10. \A x, y \in S : f[x] <= f[y] <=> <<x, y>> \in R
  <2> TAKE x \in S, y \in S
  <2>1. f[x] \in Nat /\ f[y] \in Nat
    BY <1>5
  <2> QED
    BY <1>8, <1>9, <2>1
<1>11. \A n \in 1 .. c : \E x \in S : f[x] = n
  <2> DEFINE T == { f[x] : x \in S }
             g == [x \in S |-> f[x]]
  <2>1. \A x, y \in S : f[x] = f[y] => x = y
    <3> TAKE x \in S, y \in S
    <3>1. f[x] \in Nat /\ f[y] \in Nat
      BY <1>5
    <3> HAVE f[x] = f[y]
    <3>2. <<x, y>> \in R /\ <<y, x>> \in R
      BY <1>9, <3>1
    <3> QED
      BY <3>2
  <2>2. g \in Surjection(S, T) /\ g \in Injection(S, T)
    <3>1. g \in [S -> T] /\ (\A t \in T : \E x \in S : g[x] = t)
      OBVIOUS
    <3>2. DOMAIN g = S /\ \A x, y \in S : g[x] = g[y] => x = y
      BY <2>1
    <3> HIDE DEF g, T
    <3> QED
      BY <3>1, <3>2, Zenon DEF Injection, Surjection, IsInjective
  <2>3. Cardinality(T) = c
    BY <2>2, FS_Surjection DEF c
  <2>4. T \in SUBSET (1 .. c)
    BY <1>7
  <2>5. IsFiniteSet(1 .. c) /\ Cardinality(1 .. c) = c
    <3>1. 1 \in Int /\ c \in Int
      BY <1>4
    <3>2. IsFiniteSet(1 .. c) /\ Cardinality(1 .. c) = IF 1 > c THEN 0 ELSE c - 1 + 1
      BY <3>1, FS_Interval
    <3> QED
      BY <1>4, <3>2
  <2>6. T = 1 .. c
    <3> HIDE DEF T
    <3> QED
      BY <2>3, <2>4, <2>5, FS_Subset
  <2> QED
    BY <2>6
<1> QED
  BY <1>7, <1>10, <1>11 DEF c

-----------------------------------------------------------------------------
(* Counting and matching *)

(* n[i] copies of each i are as many as the n[i] add up to.                *)
LEMMA CopiesAddUp ==
    ASSUME NEW I, IsFiniteSet(I), NEW n, \A i \in I : n[i] \in Nat
    PROVE  /\ IsFiniteSet(UNION { {i} \X (1 .. n[i]) : i \in I })
           /\ Cardinality(UNION { {i} \X (1 .. n[i]) : i \in I }) = SumFunctionOnSet(n, I)
<1> DEFINE Copies(T) == UNION { {i} \X (1 .. n[i]) : i \in T }
           Good(T) == IsFiniteSet(Copies(T)) /\ Cardinality(Copies(T)) = SumFunctionOnSet(n, T)
           Bad == { T \in SUBSET I : ~Good(T) }
<1>1. ASSUME Bad # {} PROVE FALSE
  <2>1. PICK T \in Bad : \A x \in T : T \ {x} \notin Bad
    <3>1. Bad \in SUBSET (SUBSET I)
      OBVIOUS
    <3> HIDE DEF Bad
    <3> QED
      BY <1>1, <3>1, SmallestSet
  <2>2. IsFiniteSet(T) /\ T \in SUBSET I /\ ~Good(T)
    BY FS_Subset
  <2>3. CASE T = {}
    <3>1. Copies(T) = {}
      BY <2>3
    <3> QED
      BY <2>2, <2>3, <3>1, FS_EmptySet, SumEmpty
  <2>4. CASE T # {}
    <3>1. PICK x \in T : TRUE
      BY <2>4
    <3> DEFINE U == T \ {x}
               X == {x} \X (1 .. n[x])
    <3>2. U \in SUBSET I /\ U \notin Bad
      BY <2>1, <2>2, <3>1
    <3>3. Good(U)
      BY <3>2
    <3>4. n[x] \in Nat /\ \A y \in T : n[y] \in Int
      BY <2>2, <3>1
    <3>5. SumFunctionOnSet(n, T) = n[x] + SumFunctionOnSet(n, U)
      BY <2>2, <3>1, <3>4, SumSplit
    <3>6. IsFiniteSet(X) /\ Cardinality(X) = n[x]
      <4>1. IsFiniteSet({x}) /\ Cardinality({x}) = 1
        BY FS_Singleton
      <4>2. IsFiniteSet(1 .. n[x]) /\ Cardinality(1 .. n[x]) = n[x]
        <5>1. 1 \in Int /\ n[x] \in Int
          BY <3>4
        <5>2. IsFiniteSet(1 .. n[x]) /\ Cardinality(1 .. n[x]) = IF 1 > n[x] THEN 0 ELSE n[x] - 1 + 1
          BY <5>1, FS_Interval
        <5>3. (IF 1 > n[x] THEN 0 ELSE n[x] - 1 + 1) = n[x]
          BY <3>4
        <5> HIDE DEF X, U
        <5> QED
          BY <5>2, <5>3
      <4>3. Cardinality(X) = 1 * n[x] /\ IsFiniteSet(X)
        <5>1. /\ IsFiniteSet({x} \X (1 .. n[x]))
              /\ Cardinality({x} \X (1 .. n[x])) = Cardinality({x}) * Cardinality(1 .. n[x])
          BY <4>1, <4>2, FS_Product, Zenon
        <5> QED
          BY <4>1, <4>2, <5>1, Zenon
      <4> QED
        BY <3>4, <4>3
    <3>7. Copies(T) = Copies(U) \cup X /\ Copies(U) \cap X = {}
      <4>1. Copies(T) = Copies(U) \cup X
        BY <3>1
      <4>2. Copies(U) \cap X = {}
        OBVIOUS
      <4> QED
        BY <4>1, <4>2
    <3> HIDE DEF X, U, Copies, Bad
    <3>8. /\ IsFiniteSet(Copies(T))
          /\ Cardinality(Copies(T)) = Cardinality(Copies(U)) + Cardinality(X) - Cardinality(Copies(U) \cap X)
      BY <3>3, <3>6, <3>7, FS_Union
    <3>9. Cardinality(Copies(U)) \in Nat /\ Cardinality(Copies(U) \cap X) = 0
      BY <3>3, <3>7, FS_CardinalityType, FS_EmptySet
    <3> QED
      BY <2>2, <3>3, <3>4, <3>5, <3>6, <3>8, <3>9
  <2> QED
    BY <2>3, <2>4
<1> QED
  BY <1>1

(* Those whose height is h or more.                                        *)
AtLeast(S, height, h) == { v \in S : height[v] >= h }

(* Of every height of S there are at least as many in L that reach it.     *)
Suffices(S, L, a, b) ==
    /\ \A u \in S : a[u] \in Int
    /\ \A x \in L : b[x] \in Int
    /\ \A u \in S : Cardinality(AtLeast(S, a, a[u])) <= Cardinality(AtLeast(L, b, a[u]))

(* Each in S has its own partner in L, no lower than itself.               *)
Partners(S, L, a, b) ==
    { p \in [S -> L] : (\A u, v \in S : p[u] = p[v] => u = v) /\ \A u \in S : b[p[u]] >= a[u] }

(* Where there are enough, partners can be found: the lowest goes last.    *)
LEMMA PartnersExist ==
    ASSUME NEW S, IsFiniteSet(S), NEW L, IsFiniteSet(L), NEW a, NEW b, Suffices(S, L, a, b)
    PROVE  Partners(S, L, a, b) # {}
<1> USE DEF Suffices
<1> DEFINE Fits(p, T) == /\ \A u, v \in T : p[u] = p[v] => u = v
                         /\ \A u \in T : b[p[u]] >= a[u]
           Bad == { T \in SUBSET S : ~\E p \in [T -> L] : Fits(p, T) }
<1>1. ASSUME Bad # {} PROVE FALSE
  <2>1. PICK T \in Bad : \A x \in T : T \ {x} \notin Bad
    <3>1. Bad \in SUBSET (SUBSET S)
      OBVIOUS
    <3> HIDE DEF Bad
    <3> QED
      BY <1>1, <3>1, SmallestSet
  <2>2. IsFiniteSet(T) /\ T \in SUBSET S
    BY FS_Subset
  <2>3. T # {}
    <3>1. ASSUME T = {} PROVE FALSE
      <4> DEFINE p == [u \in {} |-> 0]
      <4>1. p \in [T -> L] /\ Fits(p, T)
        BY <3>1
      <4> QED
        BY <2>1, <4>1
    <3> QED
      BY <3>1
  <2>4. PICK u \in T : \A v \in T : a[u] <= a[v]
    <3> DEFINE A == { a[v] : v \in T }
    <3>1. A \in SUBSET Int /\ A # {}
      BY <2>2, <2>3
    <3>2. IsFiniteSet(A)
      BY <2>2, ImageIsFinite
    <3>3. Min(A) \in A /\ \A y \in A : Min(A) <= y
      <4> HIDE DEF A
      <4> QED
        BY <3>1, <3>2, MinExists
    <3> QED
      BY <3>3
  <2> DEFINE U == T \ {u}
             H == AtLeast(L, b, a[u])
  <2>5. PICK p \in [U -> L] : Fits(p, U)
    BY <2>1, <2>2, <2>4
  <2>6. PICK y \in H : y \in L /\ \A v \in U : p[v] # y
    <3> DEFINE R == { p[v] : v \in U }
               q == [v \in U |-> p[v]]
    <3>1. IsFiniteSet(U) /\ Cardinality(U) = Cardinality(T) - 1 /\ Cardinality(T) \in Nat
      BY <2>2, <2>4, FS_RemoveElement, FS_CardinalityType
    <3>2. q \in Surjection(U, R)
      <4>1. q \in [U -> R] /\ \A t \in R : \E v \in U : q[v] = t
        OBVIOUS
      <4> HIDE DEF q, R, U
      <4> QED
        BY <4>1, Zenon DEF Surjection
    <3>3. IsFiniteSet(R) /\ Cardinality(R) <= Cardinality(U)
      BY <3>1, <3>2, FS_Surjection
    <3> DEFINE G == AtLeast(S, a, a[u])
    <3>4. T \in SUBSET G /\ IsFiniteSet(G)
      <4>1. \A v \in T : a[v] >= a[u]
        BY <2>2, <2>4
      <4> QED
        BY <2>2, <4>1, FS_Subset DEF AtLeast
    <3>5. Cardinality(G) <= Cardinality(H) /\ IsFiniteSet(H)
      BY <2>2, <2>4, FS_Subset DEF AtLeast
    <3>6. Cardinality(T) <= Cardinality(G)
      <4> HIDE DEF G
      <4> QED
        BY <3>4, FS_Subset
    <3>7. Cardinality(R) \in Nat /\ Cardinality(G) \in Nat /\ Cardinality(H) \in Nat
      BY <3>3, <3>4, <3>5, FS_CardinalityType
    <3>8. ~(H \subseteq R)
      <4>1. H \subseteq R => Cardinality(H) <= Cardinality(R)
        <5> HIDE DEF H, R
        <5> QED
          BY <3>3, FS_Subset
      <4> HIDE DEF H, R, G, U
      <4> QED
        BY <3>1, <3>3, <3>5, <3>6, <3>7, <4>1
    <3> QED
      BY <3>8 DEF AtLeast
  <2> DEFINE m == [v \in T |-> IF v = u THEN y ELSE p[v]]
  <2>7. m \in [T -> L]
    BY <2>5, <2>6
  <2>8. Fits(m, T)
    <3>1. \A v, w \in T : m[v] = m[w] => v = w
      BY <2>5, <2>6
    <3>2. \A v \in T : b[m[v]] >= a[v]
      BY <2>5, <2>6 DEF AtLeast
    <3> QED
      BY <3>1, <3>2
  <2> QED
    BY <2>1, <2>7, <2>8
<1>2. \E p \in [S -> L] : Fits(p, S)
  BY <1>1
<1> QED
  BY <1>2 DEF Partners

-----------------------------------------------------------------------------
(* Sums of two, three and four numbers *)

LEMMA SumOfTwo ==
    ASSUME NEW F, F[1] \in Int, F[2] \in Int
    PROVE  SumFunctionOnSet(F, {1, 2}) = F[1] + F[2]
<1>1. IsFiniteSet({1}) /\ IsFiniteSet({1, 2})
  <2>1. IsFiniteSet({1}) /\ IsFiniteSet({1} \cup {2})
    BY FS_Singleton, FS_AddElement
  <2>2. {1} \cup {2} = {1, 2}
    OBVIOUS
  <2> QED
    BY <2>1, <2>2
<1>2. {1} \ {1} = {} /\ {1, 2} \ {2} = {1}
  OBVIOUS
<1>3. SumFunctionOnSet(F, {1}) = F[1] + SumFunctionOnSet(F, {})
  BY <1>1, <1>2, SumSplit
<1>4. SumFunctionOnSet(F, {1, 2}) = F[2] + SumFunctionOnSet(F, {1})
  <2>1. \A x \in {1, 2} : F[x] \in Int
    OBVIOUS
  <2> QED
    BY <1>1, <1>2, <2>1, SumSplit
<1> QED
  BY <1>3, <1>4, SumEmpty

LEMMA SumOfThree ==
    ASSUME NEW F, F[1] \in Int, F[2] \in Int, F[3] \in Int
    PROVE  SumFunctionOnSet(F, {1, 2, 3}) = F[1] + F[2] + F[3]
<1>1. {1, 2, 3} \ {3} = {1, 2} /\ \A x \in {1, 2, 3} : F[x] \in Int
  OBVIOUS
<1>2. IsFiniteSet({1, 2, 3})
  BY ThreeAreFinite, Zenon
<1>3. SumFunctionOnSet(F, {1, 2, 3}) = F[3] + SumFunctionOnSet(F, {1, 2})
  BY <1>1, <1>2, SumSplit
<1> QED
  BY <1>3, SumOfTwo

LEMMA SumOfFour ==
    ASSUME NEW F, F[1] \in Int, F[2] \in Int, F[3] \in Int, F[4] \in Int
    PROVE  SumFunctionOnSet(F, {1, 2, 3, 4}) = F[1] + F[2] + F[3] + F[4]
<1>1. {1, 2, 3, 4} = {1, 2, 3} \cup {4} /\ {1, 2, 3, 4} \ {4} = {1, 2, 3} /\ \A x \in {1, 2, 3, 4} : F[x] \in Int
  OBVIOUS
<1>2. IsFiniteSet({1, 2, 3, 4})
  <2>1. IsFiniteSet({1, 2, 3})
    BY ThreeAreFinite, Zenon
  <2>2. IsFiniteSet({1, 2, 3} \cup {4})
    BY <2>1, FS_AddElement
  <2> QED
    BY <1>1, <2>2
<1>3. SumFunctionOnSet(F, {1, 2, 3, 4}) = F[4] + SumFunctionOnSet(F, {1, 2, 3})
  BY <1>1, <1>2, SumSplit
<1> QED
  BY <1>3, SumOfThree

(* A part of a sum of what is not negative is no more than the whole, and  *)
(* as much if the rest is nothing.                                         *)
LEMMA SumPart ==
    ASSUME NEW S, IsFiniteSet(S), NEW F, \A x \in S : F[x] \in Nat, NEW A \in SUBSET S
    PROVE  /\ SumFunctionOnSet(F, A) <= SumFunctionOnSet(F, S)
           /\ (\A x \in S \ A : F[x] = 0) => SumFunctionOnSet(F, S) = SumFunctionOnSet(F, A)
<1> DEFINE Sum(T) == SumFunctionOnSet(F, T)
           Fits(T) == /\ Sum(A) <= Sum(A \cup T)
                      /\ (\A x \in S \ A : F[x] = 0) => Sum(A \cup T) = Sum(A)
           Bad == { T \in SUBSET (S \ A) : ~Fits(T) }
<1>0. \A T \in SUBSET S : IsFiniteSet(T) /\ Sum(T) \in Nat
  <2> SUFFICES ASSUME NEW T \in SUBSET S PROVE IsFiniteSet(T) /\ Sum(T) \in Nat
    OBVIOUS
  <2>1. IsFiniteSet(T) /\ \A x \in T : F[x] \in Nat
    BY FS_Subset
  <2> QED
    BY <2>1, SumAtLeast
<1>1. ASSUME Bad # {} PROVE FALSE
  <2>1. PICK T \in Bad : \A x \in T : T \ {x} \notin Bad
    <3>1. Bad \in SUBSET (SUBSET (S \ A)) /\ IsFiniteSet(S \ A)
      BY <1>0
    <3> HIDE DEF Bad
    <3> QED
      BY <1>1, <3>1, SmallestSet
  <2>2. T \in SUBSET (S \ A) /\ ~Fits(T)
    OBVIOUS
  <2>3. T # {}
    <3> SUFFICES ASSUME T = {} PROVE FALSE
      OBVIOUS
    <3>1. A \cup T = A /\ Sum(A) \in Nat
      BY <1>0
    <3> HIDE DEF Sum
    <3> QED
      BY <2>2, <3>1
  <2>4. PICK x \in T : TRUE
    BY <2>3
  <2> DEFINE U == T \ {x}
  <2>5. (A \cup T) \ {x} = A \cup U /\ x \in A \cup T /\ A \cup T \in SUBSET S /\ A \cup U \in SUBSET S
    BY <2>2, <2>4
  <2>6. Sum(A \cup T) = F[x] + Sum(A \cup U)
    <3> DEFINE V == A \cup T
    <3>1. IsFiniteSet(V) /\ x \in V /\ \A y \in V : F[y] \in Int
      BY <1>0, <2>5
    <3> HIDE DEF V
    <3>2. SumFunctionOnSet(F, V) = F[x] + SumFunctionOnSet(F, V \ {x})
      BY <3>1, SumSplit
    <3> QED
      BY <2>5, <3>2 DEF V
  <2>7. Fits(U)
    BY <2>1, <2>2, <2>4
  <2>8. F[x] \in Nat /\ x \in S \ A /\ Sum(A) \in Nat /\ Sum(A \cup U) \in Nat
    BY <1>0, <2>2, <2>4, <2>5
  <2> HIDE DEF Sum, U
  <2> QED
    BY <2>2, <2>6, <2>7, <2>8
<1>2. Fits(S \ A)
  BY <1>1
<1>3. A \cup (S \ A) = S
  OBVIOUS
<1> QED
  BY <1>2, <1>3

(* What is mapped one to one to something larger adds up to no more.       *)
LEMMA SumInto ==
    ASSUME NEW S, IsFiniteSet(S), NEW T, IsFiniteSet(T), NEW F, NEW G, NEW e \in [S -> T],
           \A x, y \in S : e[x] = e[y] => x = y,
           \A x \in S : F[x] \in Nat /\ F[x] <= G[e[x]], \A y \in T : G[y] \in Nat
    PROVE  SumFunctionOnSet(F, S) <= SumFunctionOnSet(G, T)
<1> DEFINE Image(U) == { e[x] : x \in U }
           Bad == { U \in SUBSET S : ~(SumFunctionOnSet(F, U) <= SumFunctionOnSet(G, Image(U))) }
<1>0. \A U \in SUBSET S : /\ IsFiniteSet(U) /\ IsFiniteSet(Image(U)) /\ Image(U) \in SUBSET T
                          /\ SumFunctionOnSet(F, U) \in Nat /\ SumFunctionOnSet(G, Image(U)) \in Nat
  <2> SUFFICES ASSUME NEW U \in SUBSET S
               PROVE  /\ IsFiniteSet(U) /\ IsFiniteSet(Image(U)) /\ Image(U) \in SUBSET T
                      /\ SumFunctionOnSet(F, U) \in Nat /\ SumFunctionOnSet(G, Image(U)) \in Nat
    OBVIOUS
  <2>1. IsFiniteSet(U) /\ IsFiniteSet(Image(U))
    BY FS_Subset, ImageIsFinite
  <2>2. Image(U) \in SUBSET T
    OBVIOUS
  <2>3. SumFunctionOnSet(F, U) \in Nat
    BY <2>1, SumAtLeast
  <2>4. SumFunctionOnSet(G, Image(U)) \in Nat
    <3> HIDE DEF Image
    <3> QED
      BY <2>1, <2>2, SumAtLeast
  <2> QED
    BY <2>1, <2>2, <2>3, <2>4
<1>1. ASSUME Bad # {} PROVE FALSE
  <2>1. PICK U \in Bad : \A x \in U : U \ {x} \notin Bad
    <3>1. Bad \in SUBSET (SUBSET S)
      OBVIOUS
    <3> HIDE DEF Bad
    <3> QED
      BY <1>1, <3>1, SmallestSet
  <2>2. U \in SUBSET S /\ ~(SumFunctionOnSet(F, U) <= SumFunctionOnSet(G, Image(U)))
    OBVIOUS
  <2>3. U # {}
    <3> SUFFICES ASSUME U = {} PROVE FALSE
      OBVIOUS
    <3>1. Image(U) = {}
      OBVIOUS
    <3>2. SumFunctionOnSet(F, U) = 0 /\ SumFunctionOnSet(G, Image(U)) = 0
      BY <3>1, SumEmpty
    <3> QED
      BY <2>2, <3>2
  <2>4. PICK x \in U : TRUE
    BY <2>3
  <2> DEFINE V == U \ {x}
  <2>5. Image(U) \ {e[x]} = Image(V) /\ e[x] \in Image(U) /\ V \in SUBSET S
    BY <2>2, <2>4
  <2>6. SumFunctionOnSet(F, U) = F[x] + SumFunctionOnSet(F, V)
    <3>1. IsFiniteSet(U) /\ \A y \in U : F[y] \in Int
      BY <2>2, FS_Subset
    <3> QED
      BY <2>4, <3>1, SumSplit
  <2>7. SumFunctionOnSet(G, Image(U)) = G[e[x]] + SumFunctionOnSet(G, Image(V))
    <3>1. IsFiniteSet(Image(U)) /\ Image(U) \in SUBSET T
      <4> HIDE DEF Image
      <4> QED
        BY <1>0, <2>2
    <3> HIDE DEF Image
    <3>2. \A y \in Image(U) : G[y] \in Int
      BY <3>1
    <3>3. SumFunctionOnSet(G, Image(U)) = G[e[x]] + SumFunctionOnSet(G, Image(U) \ {e[x]})
      BY <2>5, <3>1, <3>2, SumSplit
    <3> QED
      BY <2>5, <3>3
  <2>8. SumFunctionOnSet(F, V) <= SumFunctionOnSet(G, Image(V))
    BY <2>1, <2>4, <2>5
  <2>9. /\ F[x] \in Nat /\ G[e[x]] \in Nat /\ F[x] <= G[e[x]]
        /\ SumFunctionOnSet(F, V) \in Nat /\ SumFunctionOnSet(G, Image(V)) \in Nat
    BY <1>0, <2>2, <2>4, <2>5
  <2> HIDE DEF Image, V
  <2> QED
    BY <2>2, <2>6, <2>7, <2>8, <2>9
<1>2. SumFunctionOnSet(F, S) <= SumFunctionOnSet(G, Image(S))
  BY <1>1
<1>3. SumFunctionOnSet(G, Image(S)) <= SumFunctionOnSet(G, T) /\ SumFunctionOnSet(G, T) \in Nat
  <2>1. Image(S) \in SUBSET T
    BY <1>0
  <2> HIDE DEF Image
  <2> QED
    BY <2>1, SumPart, SumAtLeast
<1>4. SumFunctionOnSet(F, S) \in Nat /\ SumFunctionOnSet(G, Image(S)) \in Nat
  BY <1>0
<1> QED
  BY <1>2, <1>3, <1>4

=============================================================================
