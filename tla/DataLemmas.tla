----------------------------- MODULE DataLemmas -----------------------------
(* Least elements, and what the sum of a function over a finite set is.  A     *)
(* proof by induction takes a least counterexample.                           *)
EXTENDS Integers, FiniteSets, Functions, Folds,
        FiniteSetTheorems, WellFoundedInduction, TLAPS

\* < is a well-founded relation on Nat.
LEMMA LessThan ==
  \E R : IsWellFoundedOn(R, Nat) /\ \A x, y \in Nat : <<y, x>> \in R <=> y < x
<1>1. \A x, y \in Nat : <<y, x>> \in OpToRel(<, Nat) <=> y < x
  BY DEF OpToRel
<1> QED BY <1>1, NatLessThanWellFounded

\* Every nonempty set of natural numbers has a least element.
LEMMA NatMin ==
  ASSUME NEW T \in SUBSET Nat, T # {}
  PROVE  \E x \in T : \A y \in T : x <= y
<1>1. PICK R : IsWellFoundedOn(R, Nat) /\ \A x, y \in Nat : <<y, x>> \in R <=> y < x
  BY LessThan
<1>2. PICK x \in T : \A y \in T : ~ (<<y, x>> \in R)
  BY <1>1, WFMin
<1>3. ASSUME NEW y \in T PROVE x <= y
  <2>1. x \in Nat /\ y \in Nat
    OBVIOUS
  <2>2. ~ (y < x)
    BY <1>1, <1>2, <2>1
  <2> QED BY <2>1, <2>2
<1> QED BY <1>3

\* Every nonempty set of subsets of a finite set has a minimal element.
LEMMA SubsetMin ==
  ASSUME NEW S, IsFiniteSet(S), NEW C \in SUBSET SUBSET S, C # {}
  PROVE  \E T \in C : \A x \in T : T \ {x} \notin C
<1> DEFINE Sizes == {Cardinality(T) : T \in C}
<1>1. \A T \in C : IsFiniteSet(T) /\ Cardinality(T) \in Nat
  BY FS_Subset, FS_CardinalityType
<1>2. PICK n \in Sizes : \A m \in Sizes : n <= m
  <2>1. Sizes \subseteq Nat /\ Sizes # {}
    BY <1>1
  <2> HIDE DEF Sizes
  <2> QED BY <2>1, NatMin
<1>3. PICK T \in C : n = Cardinality(T)
  BY <1>2
<1>4. ASSUME NEW x \in T PROVE T \ {x} \notin C
  <2>1. Cardinality(T \ {x}) = Cardinality(T) - 1
    BY <1>1, FS_RemoveElement
  <2>2. Cardinality(T) \in Nat /\ Cardinality(T \ {x}) < Cardinality(T)
    BY <1>1, <2>1
  <2>3. ASSUME T \ {x} \in C
        PROVE  n <= Cardinality(T \ {x}) /\ Cardinality(T \ {x}) \in Nat
    BY <1>1, <1>2, <2>3
  <2> QED BY <1>3, <2>2, <2>3
<1> QED BY <1>4

-----------------------------------------------------------------------------
(* Sums. *)

First(T) == CHOOSE x \in T : TRUE
Rest(T) == T \ {First(T)}

\* The equation that defines a sum, here for the subsets in D.
IsSum(sum, h, D) ==
    sum = [T \in D |-> IF T = {} THEN 0 ELSE h[First(T)] + sum[Rest(T)]]

\* The equation has a solution.
LEMMA SumExists ==
  ASSUME NEW h, NEW S, IsFiniteSet(S)
  PROVE  \E sum : IsSum(sum, h, SUBSET S)
<1> DEFINE Small(n) == {T \in SUBSET S : Cardinality(T) <= n}
           Bad == {n \in Nat : ~ \E sum : IsSum(sum, h, Small(n))}
<1>0. \A T \in SUBSET S : IsFiniteSet(T) /\ Cardinality(T) \in Nat
  BY FS_Subset, FS_CardinalityType
<1>1. Bad = {}
  <2> SUFFICES ASSUME Bad # {} PROVE FALSE
    OBVIOUS
  <2>1. PICK n \in Bad : \A m \in Bad : n <= m
    BY NatMin
  <2>2. CASE n = 0
    <3> DEFINE sum == [T \in Small(n) |-> 0]
    <3>1. \A T \in Small(n) : T = {}
      BY <1>0, <2>2, FS_EmptySet
    <3>2. IsSum(sum, h, Small(n))
      BY <3>1 DEF IsSum
    <3> QED BY <3>2
  <2>3. CASE n # 0
    <3>1. n \in Nat /\ n - 1 \in Nat /\ n - 1 < n
      BY <2>3
    <3>2. n - 1 \notin Bad
      <4> HIDE DEF Bad
      <4> QED BY <2>1, <3>1
    <3>3. PICK less : IsSum(less, h, Small(n - 1))
      BY <3>1, <3>2
    <3> DEFINE sum == [T \in Small(n) |->
                          IF T = {} THEN 0 ELSE h[First(T)] + less[Rest(T)]]
    <3>4. ASSUME NEW T \in Small(n), T # {}
          PROVE  Rest(T) \in Small(n - 1)
      <4>1. First(T) \in T
        BY <3>4 DEF First
      <4>2. Rest(T) \subseteq T /\ Cardinality(Rest(T)) = Cardinality(T) - 1
        BY <1>0, <4>1, FS_RemoveElement DEF Rest
      <4>3. Cardinality(T) \in Nat /\ Cardinality(T) <= n
        BY <1>0
      <4> QED BY <3>1, <4>2, <4>3
    <3>5. ASSUME NEW T \in Small(n - 1)
          PROVE  T \in Small(n) /\ sum[T] = less[T]
      <4>1. Cardinality(T) \in Nat /\ Cardinality(T) <= n - 1
        BY <1>0
      <4>2. T \in Small(n)
        BY <3>1, <4>1
      <4>3. less[T] = IF T = {} THEN 0 ELSE h[First(T)] + less[Rest(T)]
        BY <3>3 DEF IsSum
      <4> QED BY <4>2, <4>3
    <3>6. \A T \in Small(n) : sum[T] = IF T = {} THEN 0 ELSE h[First(T)] + sum[Rest(T)]
      BY <3>4, <3>5
    <3>7. IsSum(sum, h, Small(n))
      <4> HIDE DEF Small
      <4>1. sum = [T \in Small(n) |-> sum[T]]
        OBVIOUS
      <4> HIDE DEF sum
      <4> QED BY <3>6, <4>1 DEF IsSum
    <3> QED BY <3>7
  <2> QED BY <2>2, <2>3
<1>2. Cardinality(S) \in Nat /\ Small(Cardinality(S)) = SUBSET S
  BY FS_Subset, FS_CardinalityType
<1> QED BY <1>1, <1>2

\* What a sum is made of.
LEMMA SumDef ==
  ASSUME NEW h, NEW S, S = DOMAIN h, IsFiniteSet(S)
  PROVE  \E sum : /\ SumFunction(h) = sum[S]
                  /\ sum[{}] = 0
                  /\ \A T \in SUBSET S : T # {} =>
                        First(T) \in T /\ sum[T] = h[First(T)] + sum[Rest(T)]
<1> DEFINE Eq(g) == g = [T \in SUBSET S |->
              IF T = {} THEN 0 ELSE h[CHOOSE x \in T : TRUE] + g[T \ {CHOOSE x \in T : TRUE}]]
           sum == CHOOSE g : Eq(g)
<1>1. \A g : Eq(g) <=> IsSum(g, h, SUBSET S)
  BY DEF IsSum, First, Rest
<1>2. SumFunction(h) = sum[S]
  BY DEF SumFunction, SumFunctionOnSet, FoldFunctionOnSet, MapThenFoldSet
<1>3. IsSum(sum, h, SUBSET S)
  <2> HIDE DEF Eq
  <2> QED BY <1>1, SumExists
<1> HIDE DEF sum
<1>4. ASSUME NEW T \in SUBSET S, T # {} PROVE First(T) \in T
  BY <1>4 DEF First
<1> QED BY <1>2, <1>3, <1>4 DEF IsSum

\* A sum of nothing but zeros.
LEMMA SumZero ==
  ASSUME NEW h, NEW S, S = DOMAIN h, IsFiniteSet(S), \A x \in S : h[x] = 0
  PROVE  SumFunction(h) = 0
<1>1. PICK sum : /\ SumFunction(h) = sum[S]
                 /\ sum[{}] = 0
                 /\ \A T \in SUBSET S : T # {} =>
                       First(T) \in T /\ sum[T] = h[First(T)] + sum[Rest(T)]
  BY SumDef
<1> DEFINE Bad == {T \in SUBSET S : sum[T] # 0}
<1>2. Bad = {}
  <2> SUFFICES ASSUME Bad # {} PROVE FALSE
    OBVIOUS
  <2>1. PICK T \in Bad : \A x \in T : T \ {x} \notin Bad
    BY SubsetMin
  <2>2. T # {} /\ First(T) \in T
    BY <1>1
  <2>3. sum[Rest(T)] = 0
    BY <2>1, <2>2 DEF Rest
  <2> QED BY <1>1, <2>2, <2>3
<1> QED BY <1>1, <1>2

\* One more in one place is one more in the sum.
LEMMA SumOneMore ==
  ASSUME NEW S, IsFiniteSet(S), NEW h \in [S -> Nat], NEW w \in S
  PROVE  /\ SumFunction(h) \in Nat
         /\ SumFunction([h EXCEPT ![w] = @ + 1]) = SumFunction(h) + 1
<1> DEFINE more == [h EXCEPT ![w] = @ + 1]
<1>1. PICK sum : /\ SumFunction(h) = sum[S]
                 /\ sum[{}] = 0
                 /\ \A T \in SUBSET S : T # {} =>
                       First(T) \in T /\ sum[T] = h[First(T)] + sum[Rest(T)]
  BY SumDef
<1>2. PICK plus : /\ SumFunction(more) = plus[S]
                  /\ plus[{}] = 0
                  /\ \A T \in SUBSET S : T # {} =>
                        First(T) \in T /\ plus[T] = more[First(T)] + plus[Rest(T)]
  <2>1. S = DOMAIN more
    OBVIOUS
  <2> HIDE DEF more
  <2> QED BY <2>1, SumDef
<1> DEFINE Bad == {T \in SUBSET S :
                     ~ /\ sum[T] \in Nat
                       /\ plus[T] = sum[T] + (IF w \in T THEN 1 ELSE 0)}
<1>3. Bad = {}
  <2> SUFFICES ASSUME Bad # {} PROVE FALSE
    OBVIOUS
  <2>1. PICK T \in Bad : \A x \in T : T \ {x} \notin Bad
    BY SubsetMin
  <2>2. T # {}
    <3>1. sum[{}] \in Nat /\ plus[{}] = sum[{}] + (IF w \in {} THEN 1 ELSE 0)
      BY <1>1, <1>2
    <3> QED BY <3>1
  <2> DEFINE x == First(T)
  <2>3. x \in T /\ sum[T] = h[x] + sum[Rest(T)] /\ plus[T] = more[x] + plus[Rest(T)]
    BY <1>1, <1>2, <2>2
  <2>4. /\ Rest(T) = T \ {x} /\ sum[Rest(T)] \in Nat
        /\ plus[Rest(T)] = sum[Rest(T)] + (IF w \in Rest(T) THEN 1 ELSE 0)
    BY <2>1, <2>3 DEF Rest
  <2>5. h[x] \in Nat /\ more[x] = IF x = w THEN h[x] + 1 ELSE h[x]
    BY <2>3
  <2> HIDE DEF x, more
  <2> QED BY <2>3, <2>4, <2>5
<1> QED BY <1>1, <1>2, <1>3
=============================================================================
