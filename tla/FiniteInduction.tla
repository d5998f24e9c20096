--------------------------- MODULE FiniteInduction ---------------------------
(***************************************************************************)
(* Induction without operator parameters, and what follows from it about   *)
(* the operators the specifications are built from: sums over finite sets, *)
(* ranks in a strict order, subsequences, sorted and concatenated          *)
(* sequences.                                                              *)
(*                                                                         *)
(* The induction theorems of the library take the formula to be proved as  *)
(* an operator.  Here it is the set of the things that satisfy it, which   *)
(* the provers can instantiate.                                            *)
(***************************************************************************)
EXTENDS Integers, Sequences, FiniteSetTheorems, WellFoundedInduction, SequencesExt, TLAPS

-----------------------------------------------------------------------------
(* Induction *)

(* Every non-empty set of naturals has a least element. *)
LEMMA LeastNatural ==
    ASSUME NEW T, T \subseteq Nat, T # {}
    PROVE  \E x \in T : \A y \in T : x <= y
  <1> DEFINE R == OpToRel(<, Nat)
  <1>1. IsWellFoundedOn(R, Nat)
    BY NatLessThanWellFounded
  <1>2. \A x, y \in Nat : x < y => <<x, y>> \in R
    BY DEF OpToRel
  <1> HIDE DEF R
  <1>3. PICK x \in T : \A y \in T : ~ (<<y, x>> \in R)
    BY <1>1, WFMin
  <1>4. ASSUME NEW y \in T PROVE x <= y
    <2>1. x \in Nat /\ y \in Nat
      OBVIOUS
    <2>2. ~ (y < x)
      BY <1>2, <1>3, <2>1
    <2>3. QED
      BY <2>1, <2>2
  <1>5. QED
    BY <1>4

(* A set that holds 0 and with each number the next holds them all. *)
LEMMA AllNaturals ==
    ASSUME NEW Good, 0 \in Good, \A n \in Nat \cap Good : n + 1 \in Good
    PROVE  Nat \subseteq Good
  <1> DEFINE Bad == Nat \ Good
  <1>1. SUFFICES ASSUME Bad # {} PROVE FALSE
    OBVIOUS
  <1>2. PICK n \in Bad : \A m \in Bad : n <= m
    BY <1>1, LeastNatural, Bad \subseteq Nat
  <1>3. n \in Nat /\ n # 0
    OBVIOUS
  <1>4. n - 1 \in Nat /\ n - 1 \notin Bad
    BY <1>2, <1>3
  <1>5. (n - 1) + 1 \in Good
    BY <1>4
  <1>6. QED
    BY <1>3, <1>5

(* What holds of a subset whenever it holds of those with one element less *)
(* holds of the whole set.                                                 *)
LEMMA FiniteSubsets ==
    ASSUME NEW S, IsFiniteSet(S), NEW Good,
           \A T \in SUBSET S : (\A x \in T : T \ {x} \in Good) => T \in Good
    PROVE  \A T \in SUBSET S : T \in Good
  <1> DEFINE Upto == {n \in Nat : \A T \in SUBSET S : Cardinality(T) = n => T \in Good}
  <1>1. ASSUME NEW T \in SUBSET S
        PROVE  /\ IsFiniteSet(T) /\ Cardinality(T) \in Nat
               /\ Cardinality(T) = 0 <=> T = {}
               /\ \A x \in T : Cardinality(T \ {x}) = Cardinality(T) - 1
    <2>1. IsFiniteSet(T)
      BY FS_Subset
    <2>2. QED
      BY <2>1, FS_CardinalityType, FS_EmptySet, FS_RemoveElement
  <1>2. 0 \in Upto
    BY <1>1
  <1>3. ASSUME NEW n \in Nat, n \in Upto PROVE n + 1 \in Upto
    <2>1. SUFFICES ASSUME NEW T \in SUBSET S, Cardinality(T) = n + 1
                   PROVE  T \in Good
      OBVIOUS
    <2>2. ASSUME NEW x \in T PROVE T \ {x} \in Good
      <3>1. T \ {x} \in SUBSET S /\ Cardinality(T \ {x}) = n
        BY <1>1, <2>1
      <3>2. QED
        BY <1>3, <3>1
    <2>3. QED
      BY <2>2
  <1>4. Nat \subseteq Upto
    BY <1>2, <1>3, AllNaturals
  <1>5. QED
    BY <1>1, <1>4

-----------------------------------------------------------------------------
(* Sums *)

(* The recursive function that MapThenFoldSet chooses to add up f over S. *)
AnyOf(T) == CHOOSE x \in T : TRUE
SumStep(f, g, T) == IF T = {} THEN 0 ELSE f[AnyOf(T)] + g[T \ {AnyOf(T)}]
IsSum(f, S, g) == g = [T \in SUBSET S |-> SumStep(f, g, T)]

(* The fold begins with an element of the set. *)
LEMMA AnyIn == \A T : T # {} => AnyOf(T) \in T
  BY DEF AnyOf

(* The recursion over the subsets of a finite set has a solution: it is    *)
(* right for the sets of n elements after n rounds.                        *)
LEMMA SumsExist ==
    ASSUME NEW f, NEW S, IsFiniteSet(S)
    PROVE  \E g : IsSum(f, S, g)
  <1> DEFINE Sound(g, n) == \A T \in SUBSET S : Cardinality(T) <= n => g[T] = SumStep(f, g, T)
             Stepped(g) == [T \in SUBSET S |-> SumStep(f, g, T)]
             Good == {n \in Nat : \E g : Sound(Stepped(g), n)}
  <1>1. ASSUME NEW T \in SUBSET S
        PROVE  /\ Cardinality(T) \in Nat
               /\ Cardinality(T) = 0 <=> T = {}
               /\ \A x \in T : Cardinality(T \ {x}) = Cardinality(T) - 1
    <2>1. IsFiniteSet(T)
      BY FS_Subset
    <2>2. QED
      BY <2>1, FS_CardinalityType, FS_EmptySet, FS_RemoveElement
  <1>2. 0 \in Good
    <2>1. Sound(Stepped(0), 0)
      <3>1. SUFFICES ASSUME NEW T \in SUBSET S, Cardinality(T) <= 0
                     PROVE  Stepped(0)[T] = SumStep(f, Stepped(0), T)
        OBVIOUS
      <3>2. T = {}
        BY <1>1, <3>1
      <3>3. QED
        BY <3>2 DEF SumStep
    <2>2. QED
      BY <2>1
  <1>3. ASSUME NEW n \in Nat, n \in Good PROVE n + 1 \in Good
    <2>1. PICK g : Sound(Stepped(g), n)
      BY <1>3
    <2> DEFINE h == Stepped(g)
    <2>2. Sound(Stepped(h), n + 1)
      <3>1. SUFFICES ASSUME NEW T \in SUBSET S, Cardinality(T) <= n + 1
                     PROVE  SumStep(f, h, T) = SumStep(f, Stepped(h), T)
        OBVIOUS
      <3>2. CASE T = {}
        BY <3>2 DEF SumStep
      <3>3. CASE T # {}
        <4> DEFINE p == AnyOf(T)
        <4>1. p \in T
          BY <3>3, AnyIn
        <4>2. T \ {p} \in SUBSET S /\ Cardinality(T \ {p}) <= n
          BY <1>1, <3>1, <4>1
        <4>3. h[T \ {p}] = SumStep(f, h, T \ {p})
          BY <2>1, <4>2
        <4>4. Stepped(h)[T \ {p}] = SumStep(f, h, T \ {p})
          BY <4>2
        <4> HIDE DEF h, p
        <4>5. QED
          BY <4>3, <4>4 DEF SumStep, p
      <3>4. QED
        BY <3>2, <3>3
    <2> HIDE DEF Sound, Stepped, h
    <2>3. n + 1 \in Nat
      OBVIOUS
    <2>4. \E z : Sound(Stepped(z), n + 1)
      BY <2>2, Zenon
    <2>5. QED
      BY <2>3, <2>4
  <1>4. Cardinality(S) \in Good
    BY <1>1, <1>2, <1>3, AllNaturals
  <1>5. PICK g : Sound(Stepped(g), Cardinality(S))
    BY <1>4
  <1> DEFINE h == Stepped(g)
  <1>6. \A T \in SUBSET S : Cardinality(T) <= Cardinality(S)
    BY FS_Subset
  <1>7. \A T \in SUBSET S : h[T] = SumStep(f, h, T)
    BY <1>5, <1>6
  <1>8. h = [T \in SUBSET S |-> h[T]]
    OBVIOUS
  <1> HIDE DEF h
  <1>9. IsSum(f, S, h)
    BY <1>7, <1>8 DEF IsSum
  <1>10. QED
    BY <1>9

(* Its solutions agree, whatever larger set they were chosen for. *)
LEMMA SumsAgree ==
    ASSUME NEW f, NEW S, IsFiniteSet(S), NEW U \in SUBSET S,
           NEW g, NEW h, IsSum(f, S, g), IsSum(f, U, h)
    PROVE  \A T \in SUBSET U : g[T] = h[T]
  <1> DEFINE Good == {T \in SUBSET U : g[T] = h[T]}
  <1>1. IsFiniteSet(U)
    BY FS_Subset
  <1>2. ASSUME NEW T \in SUBSET U, \A x \in T : T \ {x} \in Good PROVE T \in Good
    <2>1. g[T] = SumStep(f, g, T) /\ h[T] = SumStep(f, h, T)
      BY Zenon DEF IsSum
    <2>2. CASE T = {}
      BY <2>1, <2>2 DEF SumStep
    <2>3. CASE T # {}
      BY <1>2, <2>1, <2>3, AnyIn DEF SumStep
    <2>4. QED
      BY <2>2, <2>3
  <1>3. QED
    BY <1>1, <1>2, FiniteSubsets

(* SumFunctionOnSet is such a solution at the whole set. *)
LEMMA SumIsSum ==
    ASSUME NEW f, NEW S, IsFiniteSet(S)
    PROVE  \E g : IsSum(f, S, g) /\ SumFunctionOnSet(f, S) = g[S]
  <1>1. SumFunctionOnSet(f, S) = (CHOOSE g : IsSum(f, S, g))[S]
    BY DEF SumFunctionOnSet, FoldFunctionOnSet, MapThenFoldSet, IsSum, SumStep, AnyOf
  <1>2. QED
    BY <1>1, SumsExist

(* What SumFunctionOnSet adds: nothing for the empty set, *)
LEMMA SumOfNone == ASSUME NEW f PROVE SumFunctionOnSet(f, {}) = 0
  <1>1. PICK g : IsSum(f, {}, g) /\ SumFunctionOnSet(f, {}) = g[{}]
    BY SumIsSum, FS_EmptySet
  <1>2. g[{}] = SumStep(f, g, {})
    BY <1>1, Zenon DEF IsSum
  <1>3. QED
    BY <1>1, <1>2 DEF SumStep

(* one entry and the sum of the others for any other, *)
LEMMA SumOfAny ==
    ASSUME NEW f, NEW S, IsFiniteSet(S), S # {}
    PROVE  SumFunctionOnSet(f, S) = f[AnyOf(S)] + SumFunctionOnSet(f, S \ {AnyOf(S)})
  <1> DEFINE U == S \ {AnyOf(S)}
  <1>1. IsFiniteSet(U)
    BY FS_Subset
  <1>2. PICK g : IsSum(f, S, g) /\ SumFunctionOnSet(f, S) = g[S]
    BY SumIsSum
  <1>3. PICK h : IsSum(f, U, h) /\ SumFunctionOnSet(f, U) = h[U]
    BY <1>1, SumIsSum
  <1>4. g[U] = h[U]
    BY <1>2, <1>3, SumsAgree
  <1>5. g[S] = SumStep(f, g, S)
    BY <1>2, Zenon DEF IsSum
  <1>6. QED
    BY <1>2, <1>3, <1>4, <1>5 DEF SumStep

(* zeros to zero, *)
LEMMA SumOfZeros ==
    ASSUME NEW f, NEW S, IsFiniteSet(S), \A x \in S : f[x] = 0
    PROVE  SumFunctionOnSet(f, S) = 0
  <1> DEFINE Good == {T \in SUBSET S : SumFunctionOnSet(f, T) = 0}
  <1>1. ASSUME NEW T \in SUBSET S, \A x \in T : T \ {x} \in Good PROVE T \in Good
    <2>1. CASE T = {}
      BY <2>1, SumOfNone
    <2>2. CASE T # {}
      <3>1. IsFiniteSet(T) /\ AnyOf(T) \in T
        BY <2>2, FS_Subset, AnyIn
      <3>2. SumFunctionOnSet(f, T) = f[AnyOf(T)] + SumFunctionOnSet(f, T \ {AnyOf(T)})
        BY <2>2, <3>1, SumOfAny
      <3>3. QED
        BY <1>1, <3>1, <3>2
    <2>3. QED
      BY <2>1, <2>2
  <1> HIDE DEF Good
  <1>2. \A T \in SUBSET S : T \in Good
    BY <1>1, FiniteSubsets
  <1>3. QED
    BY <1>2 DEF Good

(* and naturals to a natural. *)
LEMMA SumInNat ==
    ASSUME NEW f, NEW S, IsFiniteSet(S), \A x \in S : f[x] \in Nat
    PROVE  SumFunctionOnSet(f, S) \in Nat
  <1> DEFINE Good == {T \in SUBSET S : SumFunctionOnSet(f, T) \in Nat}
  <1>1. ASSUME NEW T \in SUBSET S, \A x \in T : T \ {x} \in Good PROVE T \in Good
    <2>1. CASE T = {}
      BY <2>1, SumOfNone
    <2>2. CASE T # {}
      <3>1. IsFiniteSet(T)
        BY FS_Subset
      <3>2. SumFunctionOnSet(f, T) = f[AnyOf(T)] + SumFunctionOnSet(f, T \ {AnyOf(T)})
        BY <2>2, <3>1, SumOfAny
      <3>3. AnyOf(T) \in T
        BY <2>2, AnyIn
      <3>4. QED
        BY <1>1, <3>2, <3>3
    <2>3. QED
      BY <2>1, <2>2
  <1> HIDE DEF Good
  <1>2. \A T \in SUBSET S : T \in Good
    BY <1>1, FiniteSubsets
  <1>3. QED
    BY <1>2 DEF Good

(* Any element may be the first to be added. *)
LEMMA SumSplits ==
    ASSUME NEW f, NEW S, IsFiniteSet(S), \A x \in S : f[x] \in Nat
    PROVE  \A x \in S : SumFunctionOnSet(f, S) = f[x] + SumFunctionOnSet(f, S \ {x})
  <1> DEFINE Sm(T) == SumFunctionOnSet(f, T)
             Good == {T \in SUBSET S : \A x \in T : Sm(T) = f[x] + Sm(T \ {x})}
  <1>1. ASSUME NEW T \in SUBSET S, \A x \in T : T \ {x} \in Good PROVE T \in Good
    <2>1. SUFFICES ASSUME NEW x \in T PROVE Sm(T) = f[x] + Sm(T \ {x})
      OBVIOUS
    <2> DEFINE p == AnyOf(T)
    <2>2. IsFiniteSet(T) /\ p \in T
      BY FS_Subset, AnyIn
    <2>3. Sm(T) = f[p] + Sm(T \ {p})
      BY <2>2, SumOfAny
    <2> HIDE DEF p
    <2>4. CASE x = p
      BY <2>3, <2>4
    <2>5. CASE x # p
      <3>1. Sm(T \ {p}) = f[x] + Sm((T \ {p}) \ {x})
        BY <1>1, <2>2, <2>5
      <3>2. Sm(T \ {x}) = f[p] + Sm((T \ {x}) \ {p})
        BY <1>1, <2>2, <2>5
      <3>3. (T \ {p}) \ {x} = (T \ {x}) \ {p}
        OBVIOUS
      <3>4. Sm((T \ {p}) \ {x}) \in Nat
        <4>1. IsFiniteSet((T \ {p}) \ {x})
          BY FS_Subset
        <4>2. QED
          BY <4>1, SumInNat
      <3>5. f[x] \in Nat /\ f[p] \in Nat
        BY <2>2
      <3> HIDE DEF Sm
      <3>6. QED
        BY <2>3, <3>1, <3>2, <3>3, <3>4, <3>5
    <2>6. QED
      BY <2>4, <2>5
  <1> HIDE DEF Good
  <1>2. \A T \in SUBSET S : T \in Good
    BY <1>1, FiniteSubsets
  <1>3. QED
    BY <1>2 DEF Good

(* The sum is that of the entries, whatever function they come from. *)
LEMMA SumsEqual ==
    ASSUME NEW f, NEW g, NEW S, IsFiniteSet(S), \A x \in S : f[x] = g[x]
    PROVE  SumFunctionOnSet(f, S) = SumFunctionOnSet(g, S)
  <1> DEFINE Good == {T \in SUBSET S : SumFunctionOnSet(f, T) = SumFunctionOnSet(g, T)}
  <1>1. ASSUME NEW T \in SUBSET S, \A x \in T : T \ {x} \in Good PROVE T \in Good
    <2>1. CASE T = {}
      BY <2>1, SumOfNone
    <2>2. CASE T # {}
      <3>1. IsFiniteSet(T) /\ AnyOf(T) \in T
        BY <2>2, FS_Subset, AnyIn
      <3>2. SumFunctionOnSet(f, T) = f[AnyOf(T)] + SumFunctionOnSet(f, T \ {AnyOf(T)})
        BY <2>2, <3>1, SumOfAny
      <3>3. SumFunctionOnSet(g, T) = g[AnyOf(T)] + SumFunctionOnSet(g, T \ {AnyOf(T)})
        BY <2>2, <3>1, SumOfAny
      <3>4. QED
        BY <1>1, <3>1, <3>2, <3>3
    <2>3. QED
      BY <2>1, <2>2
  <1> HIDE DEF Good
  <1>2. \A T \in SUBSET S : T \in Good
    BY <1>1, FiniteSubsets
  <1>3. QED
    BY <1>2 DEF Good

(* One entry grows, and the sum with it. *)
LEMMA SumGrows ==
    ASSUME NEW f, NEW g, NEW S, IsFiniteSet(S), \A y \in S : f[y] \in Nat,
           NEW x \in S, NEW n \in Nat, g[x] = f[x] + n,
           \A y \in S : y # x => g[y] = f[y]
    PROVE  SumFunctionOnSet(g, S) = SumFunctionOnSet(f, S) + n
  <1>1. SumFunctionOnSet(f, S) = f[x] + SumFunctionOnSet(f, S \ {x})
    BY SumSplits
  <1>2. \A y \in S : g[y] \in Nat
    OBVIOUS
  <1>3. SumFunctionOnSet(g, S) = g[x] + SumFunctionOnSet(g, S \ {x})
    BY <1>2, SumSplits
  <1>4. IsFiniteSet(S \ {x})
    BY FS_Subset
  <1>5. SumFunctionOnSet(f, S \ {x}) = SumFunctionOnSet(g, S \ {x})
    BY <1>4, SumsEqual
  <1>6. SumFunctionOnSet(f, S \ {x}) \in Nat
    BY <1>4, SumInNat
  <1>7. QED
    BY <1>1, <1>3, <1>5, <1>6

(* A part of naturals adds up to no more than the whole. *)
LEMMA SumOfPart ==
    ASSUME NEW f, NEW S, IsFiniteSet(S), \A x \in S : f[x] \in Nat, NEW U \in SUBSET S
    PROVE  SumFunctionOnSet(f, U) <= SumFunctionOnSet(f, S)
  <1> DEFINE Sm(T) == SumFunctionOnSet(f, T)
             Good == {T \in SUBSET S : U \subseteq T => Sm(U) <= Sm(T)}
  <1>0. \A T \in SUBSET S : Sm(T) \in Nat
    BY FS_Subset, SumInNat
  <1>1. ASSUME NEW T \in SUBSET S, \A x \in T : T \ {x} \in Good PROVE T \in Good
    <2>1. SUFFICES ASSUME U \subseteq T, U # T PROVE Sm(U) <= Sm(T)
      BY <1>0
    <2>2. PICK x \in T : x \notin U
      BY <2>1
    <2>3. IsFiniteSet(T)
      BY FS_Subset
    <2>4. Sm(T) = f[x] + Sm(T \ {x})
      BY <2>3, SumSplits
    <2>5. Sm(U) <= Sm(T \ {x})
      BY <1>1, <2>1, <2>2
    <2>6. Sm(U) \in Nat /\ Sm(T \ {x}) \in Nat /\ f[x] \in Nat
      BY <1>0
    <2> HIDE DEF Sm
    <2>7. QED
      BY <2>4, <2>5, <2>6
  <1> HIDE DEF Good
  <1>2. \A T \in SUBSET S : T \in Good
    BY <1>1, FiniteSubsets
  <1>3. QED
    BY <1>2 DEF Good

-----------------------------------------------------------------------------
(* Strict total orders of finite sets *)

TotalOrder(S, R) ==
    /\ \A x \in S : <<x, x>> \notin R
    /\ \A x, y, z \in S : <<x, y>> \in R /\ <<y, z>> \in R => <<x, z>> \in R
    /\ \A x, y \in S : x = y \/ <<x, y>> \in R \/ <<y, x>> \in R

Below(S, R, x) == {y \in S : <<y, x>> \in R}
Rank(S, R, x) == Cardinality(Below(S, R, x))

(* The rank of an element, the number of those before it, grows along the  *)
(* order.                                                                  *)
LEMMA RanksGrow ==
    ASSUME NEW S, IsFiniteSet(S), NEW R, TotalOrder(S, R)
    PROVE  /\ \A x \in S : Rank(S, R, x) \in 0..(Cardinality(S) - 1)
           /\ \A x, y \in S : <<x, y>> \in R => Rank(S, R, x) < Rank(S, R, y)
  <1>1. ASSUME NEW T \in SUBSET S
        PROVE  IsFiniteSet(T) /\ Cardinality(T) \in Nat
    <2>1. IsFiniteSet(T)
      BY FS_Subset
    <2>2. QED
      BY <2>1, FS_CardinalityType
  <1>2. ASSUME NEW T \in SUBSET S, NEW U \in SUBSET T, U # T
        PROVE  Cardinality(U) < Cardinality(T)
    <2>1. IsFiniteSet(T) /\ Cardinality(T) \in Nat /\ Cardinality(U) \in Nat
      BY <1>1
    <2>2. Cardinality(U) <= Cardinality(T) /\ Cardinality(U) # Cardinality(T)
      BY <1>2, <2>1, FS_Subset
    <2>3. QED
      BY <2>1, <2>2
  <1>3. ASSUME NEW x \in S PROVE Rank(S, R, x) \in 0..(Cardinality(S) - 1)
    <2>1. Below(S, R, x) \in SUBSET S /\ Below(S, R, x) # S
      BY DEF Below, TotalOrder
    <2>2. Rank(S, R, x) < Cardinality(S) /\ Rank(S, R, x) \in Nat /\ Cardinality(S) \in Nat
      BY <1>1, <1>2, <2>1 DEF Rank
    <2>3. QED
      BY <2>2
  <1>4. ASSUME NEW x \in S, NEW y \in S, <<x, y>> \in R
        PROVE  Rank(S, R, x) < Rank(S, R, y)
    <2>1. Below(S, R, x) \subseteq Below(S, R, y)
      BY <1>4 DEF Below, TotalOrder
    <2>2. x \in Below(S, R, y) /\ x \notin Below(S, R, x)
      BY <1>4 DEF Below, TotalOrder
    <2>3. Below(S, R, y) \in SUBSET S
      BY DEF Below
    <2>4. QED
      BY <1>2, <2>1, <2>2, <2>3 DEF Rank
  <1>5. QED
    BY <1>3, <1>4

(* Every rank is somebody's. *)
LEMMA RanksTaken ==
    ASSUME NEW S, IsFiniteSet(S), NEW R, TotalOrder(S, R)
    PROVE  \A i \in 1..Cardinality(S) : \E x \in S : Rank(S, R, x) = i - 1
  <1> DEFINE n == Cardinality(S)
             f == [x \in S |-> Rank(S, R, x)]
  <1>1. n \in Nat
    BY FS_CardinalityType
  <1>2. f \in [S -> 0..(n - 1)]
    BY RanksGrow
  <1>3. ASSUME NEW x \in S, NEW y \in S, f[x] = f[y] PROVE x = y
    <2>1. Rank(S, R, x) = Rank(S, R, y) /\ Rank(S, R, x) \in Nat
      BY <1>3, <1>1, RanksGrow
    <2>2. ~ (<<x, y>> \in R) /\ ~ (<<y, x>> \in R)
      BY <2>1, RanksGrow
    <2>3. QED
      BY <2>2 DEF TotalOrder
  <1>4. f \in Injection(S, 0..(n - 1))
    BY <1>2, <1>3 DEF Injection, IsInjective
  <1>5. IsFiniteSet(0..(n - 1)) /\ Cardinality(0..(n - 1)) = n
    <2> HIDE DEF n
    <2>1. 0 \in Int /\ n - 1 \in Int
      BY <1>1
    <2>2. IsFiniteSet(0..(n - 1)) /\ Cardinality(0..(n - 1)) = IF 0 > n - 1 THEN 0 ELSE (n - 1) - 0 + 1
      BY <2>1, FS_Interval
    <2>3. QED
      BY <1>1, <2>2
  <1>6. f \in Surjection(S, 0..(n - 1))
    BY <1>4, <1>5, FS_Injection
  <1>7. SUFFICES ASSUME NEW i \in 1..n PROVE \E x \in S : f[x] = i - 1
    OBVIOUS
  <1>8. i - 1 \in 0..(n - 1)
    BY <1>1
  <1>9. QED
    BY <1>6, <1>8 DEF Surjection

ByRank(S, R, at) ==
    /\ at = [i \in 1..Cardinality(S) |-> at[i]]
    /\ \A i \in 1..Cardinality(S) : at[i] \in S /\ Rank(S, R, at[i]) = i - 1

(* A set listed by rank is listed in order, each element once. *)
LEMMA ListedByRank ==
    ASSUME NEW S, IsFiniteSet(S), NEW R, TotalOrder(S, R),
           NEW at, ByRank(S, R, at)
    PROVE  /\ at \in [1..Cardinality(S) -> S]
           /\ \A i, j \in 1..Cardinality(S) : i < j => <<at[i], at[j]>> \in R
           /\ \A x \in S : \E i \in 1..Cardinality(S) : at[i] = x
  <1> DEFINE n == Cardinality(S)
  <1>1. n \in Nat
    BY FS_CardinalityType
  <1>2. ASSUME NEW i \in 1..n PROVE at[i] \in S /\ Rank(S, R, at[i]) = i - 1
    BY DEF ByRank
  <1>3. at \in [1..n -> S]
    BY <1>2 DEF ByRank
  <1>4. ASSUME NEW i \in 1..n, NEW j \in 1..n, i < j PROVE <<at[i], at[j]>> \in R
    <2>1. Rank(S, R, at[i]) = i - 1 /\ Rank(S, R, at[j]) = j - 1
      BY <1>2
    <2>2. at[i] # at[j] /\ ~ (<<at[j], at[i]>> \in R)
      <3>1. i \in Int /\ j \in Int
        BY <1>1
      <3>2. ~ (Rank(S, R, at[j]) < Rank(S, R, at[i])) /\ Rank(S, R, at[i]) # Rank(S, R, at[j])
        BY <1>4, <2>1, <3>1
      <3>3. QED
        BY <1>2, <3>2, RanksGrow
    <2>3. QED
      BY <1>2, <2>2 DEF TotalOrder
  <1>5. ASSUME NEW x \in S PROVE \E i \in 1..n : at[i] = x
    <2> DEFINE i == Rank(S, R, x) + 1
    <2>1. Rank(S, R, x) \in 0..(n - 1)
      BY RanksGrow
    <2>2. i \in 1..n /\ Rank(S, R, x) = i - 1
      BY <1>1, <2>1
    <2> HIDE DEF i
    <2>3. Rank(S, R, at[i]) = Rank(S, R, x) /\ at[i] \in S
      BY <1>2, <2>2
    <2>4. ~ (<<at[i], x>> \in R) /\ ~ (<<x, at[i]>> \in R)
      <3>1. Rank(S, R, x) \in Nat
        BY <1>1, <2>1
      <3>2. ~ (Rank(S, R, x) < Rank(S, R, at[i])) /\ ~ (Rank(S, R, at[i]) < Rank(S, R, x))
        BY <2>3, <3>1
      <3>3. QED
        BY <2>3, <3>2, RanksGrow
    <2>5. at[i] = x
      BY <2>3, <2>4 DEF TotalOrder
    <2>6. QED
      BY <2>2, <2>5
  <1>6. QED
    BY <1>3, <1>4, <1>5

(* A set that is not empty has a first element. *)
LEMMA FirstElement ==
    ASSUME NEW S, IsFiniteSet(S), S # {}, NEW R, TotalOrder(S, R)
    PROVE  \E x \in S : \A y \in S : y = x \/ <<x, y>> \in R
  <1>1. Cardinality(S) \in Nat /\ Cardinality(S) # 0
    BY FS_CardinalityType, FS_EmptySet
  <1>2. 1 \in 1..Cardinality(S)
    BY <1>1
  <1>3. PICK x \in S : Rank(S, R, x) = 1 - 1
    BY <1>2, RanksTaken
  <1>4. IsFiniteSet(Below(S, R, x))
    BY FS_Subset DEF Below
  <1>5. Below(S, R, x) = {}
    BY <1>3, <1>4, FS_EmptySet DEF Rank
  <1>6. QED
    BY <1>5 DEF Below, TotalOrder

-----------------------------------------------------------------------------
(* Recursion along a list *)

(* A function on 0..N may be defined by its first value and each next one. *)
LEMMA BoundedRecursion ==
    \A V : \A start \in V : \A N \in Nat : \A F \in [1..N -> [V -> V]] :
        \E g \in [0..N -> V] : g[0] = start /\ \A n \in 1..N : g[n] = F[n][g[n - 1]]
  <1> SUFFICES ASSUME NEW V, NEW start \in V, NEW N \in Nat, NEW F \in [1..N -> [V -> V]]
               PROVE  \E g \in [0..N -> V] : g[0] = start /\ \A n \in 1..N : g[n] = F[n][g[n - 1]]
    OBVIOUS
  <1> DEFINE Upto(g, m) == g[0] = start /\ \A n \in 1..m : g[n] = F[n][g[n - 1]]
             Good == {m \in Nat : m <= N => \E g \in [0..m -> V] : Upto(g, m)}
  <1>1. 0 \in Good
    <2> DEFINE g == [n \in 0..0 |-> start]
    <2>1. g \in [0..0 -> V] /\ Upto(g, 0)
      OBVIOUS
    <2> HIDE DEF g, Upto
    <2>2. QED
      BY <2>1
  <1>2. ASSUME NEW m \in Nat \cap Good PROVE m + 1 \in Good
    <2>1. SUFFICES ASSUME m + 1 <= N PROVE \E g \in [0..(m + 1) -> V] : Upto(g, m + 1)
      OBVIOUS
    <2>2. PICK g \in [0..m -> V] : Upto(g, m)
      BY <2>1
    <2>3. m \in 0..m /\ m + 1 \in 1..N
      BY <2>1
    <2>4. g[m] \in V /\ F[m + 1][g[m]] \in V
      BY <2>2, <2>3
    <2> DEFINE h == [n \in 0..(m + 1) |-> IF n = m + 1 THEN F[m + 1][g[m]] ELSE g[n]]
    <2>5. ASSUME NEW n \in 0..(m + 1) PROVE h[n] \in V
      <3>1. n = m + 1 \/ n \in 0..m
        OBVIOUS
      <3>2. QED
        BY <2>2, <2>4, <3>1
    <2>6. h[0] = start
      BY <2>2
    <2>7. ASSUME NEW n \in 1..(m + 1) PROVE h[n] = F[n][h[n - 1]]
      <3>1. CASE n = m + 1
        <4>1. n - 1 = m /\ m \in 0..(m + 1) /\ m # m + 1 /\ m + 1 \in 0..(m + 1)
          BY <3>1
        <4>2. h[n - 1] = g[m] /\ h[n] = F[m + 1][g[m]]
          BY <3>1, <4>1
        <4> HIDE DEF h
        <4>3. QED
          BY <3>1, <4>2
      <3>2. CASE n # m + 1
        <4>1. n \in 1..m /\ n \in 0..(m + 1) /\ n - 1 \in 0..(m + 1) /\ n - 1 # m + 1
          BY <3>2
        <4>2. h[n] = g[n] /\ h[n - 1] = g[n - 1]
          BY <3>2, <4>1
        <4>3. g[n] = F[n][g[n - 1]]
          BY <2>2, <4>1
        <4> HIDE DEF h
        <4>4. QED
          BY <4>2, <4>3
      <3>3. QED
        BY <3>1, <3>2
    <2>8. h \in [0..(m + 1) -> V]
      <3>1. h = [n \in 0..(m + 1) |-> h[n]]
        OBVIOUS
      <3> HIDE DEF h
      <3>2. QED
        BY <2>5, <3>1
    <2> HIDE DEF h
    <2>9. QED
      BY <2>6, <2>7, <2>8
  <1> HIDE DEF Good
  <1>3. N \in Good
    BY <1>1, <1>2, AllNaturals
  <1>4. QED
    BY <1>3 DEF Good

(* The places in a list of lists, and a list that takes what is at each    *)
(* of those in the first m lists once.                                     *)
Places(ss, m) == {p \in (1..m) \X Nat : p[2] \in DOMAIN ss[p[1]]}

Covers(t, ss, m, at) ==
    /\ at \in [DOMAIN t -> Places(ss, m)]
    /\ \A i, j \in DOMAIN t : at[i] = at[j] => i = j
    /\ \A p \in Places(ss, m) : \E i \in DOMAIN t : at[i] = p
    /\ \A i \in DOMAIN t : t[i] = ss[at[i][1]][at[i][2]]

(* One more list is appended. *)
LEMMA CoversMore ==
    ASSUME NEW X, NEW ss \in Seq(Seq(X)), NEW m \in Nat, m + 1 \in DOMAIN ss,
           NEW t \in Seq(X), NEW at, Covers(t, ss, m, at)
    PROVE  \E more : Covers(t \o ss[m + 1], ss, m + 1, more)
  <1> DEFINE s == ss[m + 1]
             k == Len(t)
             l == Len(s)
             u == t \o s
             more == [i \in DOMAIN u |-> IF i <= k THEN at[i] ELSE <<m + 1, i - k>>]
  <1>1. s \in Seq(X) /\ k \in Nat /\ l \in Nat
    OBVIOUS
  <1>2. DOMAIN t = 1..k /\ DOMAIN s = 1..l /\ DOMAIN u = 1..(k + l)
    BY <1>1
  <1>3. /\ \A i \in 1..k : u[i] = t[i]
        /\ \A i \in (k + 1)..(k + l) : u[i] = s[i - k]
    BY <1>1
  <1>4. \A p \in Places(ss, m) : p[1] \in 1..m /\ p[2] \in DOMAIN ss[p[1]] /\ p = <<p[1], p[2]>> /\ p \in Places(ss, m + 1)
    BY DEF Places
  <1>5. \A j \in 1..l : <<m + 1, j>> \in Places(ss, m + 1)
    BY <1>2 DEF Places
  <1>6. ASSUME NEW p \in Places(ss, m + 1)
        PROVE  p \in Places(ss, m) \/ \E j \in 1..l : p = <<m + 1, j>>
    <2>1. p[1] \in 1..(m + 1) /\ p[2] \in DOMAIN ss[p[1]] /\ p = <<p[1], p[2]>> /\ p[2] \in Nat
      BY DEF Places
    <2>2. CASE p[1] = m + 1
      BY <1>2, <2>1, <2>2
    <2>3. CASE p[1] # m + 1
      <3>1. p[1] \in 1..m
        BY <2>1, <2>3
      <3>2. QED
        BY <2>1, <3>1 DEF Places
    <2>4. QED
      BY <2>2, <2>3
  <1>7. \A i \in 1..k : at[i] \in Places(ss, m) /\ more[i] = at[i]
    <2>1. \A i \in 1..k : i \in DOMAIN t /\ i \in DOMAIN u
      BY <1>1, <1>2
    <2>2. \A i \in DOMAIN t : at[i] \in Places(ss, m)
      BY DEF Covers
    <2> HIDE DEF u, k
    <2>3. \A i \in 1..k : i <= k
      OBVIOUS
    <2>4. QED
      BY <2>1, <2>2, <2>3
  <1>8. \A i \in (k + 1)..(k + l) : more[i] = <<m + 1, i - k>> /\ i - k \in 1..l
    BY <1>1, <1>2
  <1>9. \A i \in DOMAIN u : i \in 1..k \/ i \in (k + 1)..(k + l)
    BY <1>1, <1>2
  <1>10. more = [i \in DOMAIN u |-> more[i]] /\ DOMAIN more = DOMAIN u
    OBVIOUS
  <1>11. \A i \in 1..k : i \in DOMAIN t
    BY <1>2
  <1>12. \A j \in 1..l : j + k \in (k + 1)..(k + l) /\ (j + k) - k = j
    BY <1>1
  <1> HIDE DEF more
  <1>13. more \in [DOMAIN u -> Places(ss, m + 1)]
    <2>1. \A i \in DOMAIN u : more[i] \in Places(ss, m + 1)
      BY <1>4, <1>5, <1>7, <1>8, <1>9
    <2>2. QED
      BY <1>10, <2>1
  <1>14. ASSUME NEW i \in DOMAIN u, NEW j \in DOMAIN u, more[i] = more[j] PROVE i = j
    <2>1. CASE i \in 1..k /\ j \in 1..k
      BY <1>7, <1>11, <1>14, <2>1 DEF Covers
    <2>2. CASE i \in (k + 1)..(k + l) /\ j \in (k + 1)..(k + l)
      <3>1. i - k = j - k
        BY <1>8, <1>14, <2>2
      <3>2. QED
        BY <1>1, <2>2, <3>1
    <2>3. CASE i \in 1..k /\ j \in (k + 1)..(k + l)
      <3>1. at[i][1] = m + 1 /\ at[i][1] \in 1..m
        BY <1>4, <1>7, <1>8, <1>14, <2>3
      <3>2. QED
        BY <3>1
    <2>4. CASE j \in 1..k /\ i \in (k + 1)..(k + l)
      <3>1. at[j][1] = m + 1 /\ at[j][1] \in 1..m
        BY <1>4, <1>7, <1>8, <1>14, <2>4
      <3>2. QED
        BY <3>1
    <2>5. QED
      BY <1>9, <2>1, <2>2, <2>3, <2>4
  <1>15. ASSUME NEW p \in Places(ss, m + 1) PROVE \E i \in DOMAIN u : more[i] = p
    <2>1. CASE p \in Places(ss, m)
      <3>1. PICK i \in DOMAIN t : at[i] = p
        BY <2>1 DEF Covers
      <3>2. i \in 1..k /\ i \in DOMAIN u
        BY <1>1, <1>2
      <3>3. QED
        BY <1>7, <3>1, <3>2
    <2>2. CASE \E j \in 1..l : p = <<m + 1, j>>
      <3>1. PICK j \in 1..l : p = <<m + 1, j>>
        BY <2>2
      <3>2. j + k \in (k + 1)..(k + l) /\ j + k \in DOMAIN u /\ (j + k) - k = j
        BY <1>1, <1>2
      <3>3. more[j + k] = p
        BY <1>8, <3>1, <3>2
      <3>4. QED
        BY <3>2, <3>3
    <2>3. QED
      BY <1>6, <2>1, <2>2
  <1>16. ASSUME NEW i \in DOMAIN u PROVE u[i] = ss[more[i][1]][more[i][2]]
    <2>1. CASE i \in 1..k
      <3>1. more[i] = at[i] /\ u[i] = t[i] /\ i \in DOMAIN t
        BY <1>3, <1>7, <1>11, <2>1
      <3> HIDE DEF u
      <3>2. QED
        BY <3>1 DEF Covers
    <2>2. CASE i \in (k + 1)..(k + l)
      <3>1. more[i][1] = m + 1 /\ more[i][2] = i - k /\ u[i] = s[i - k]
        BY <1>3, <1>8, <2>2
      <3> HIDE DEF u
      <3>2. QED
        BY <3>1
    <2>3. QED
      BY <1>9, <2>1, <2>2
  <1> HIDE DEF u
  <1>17. Covers(u, ss, m + 1, more)
    BY <1>13, <1>14, <1>15, <1>16 DEF Covers
  <1>18. QED
    BY <1>17 DEF u

(* The concatenation of lists holds what they hold, each entry once. *)
LEMMA FlattenCovers ==
    ASSUME NEW X
    PROVE  \A ss \in Seq(Seq(X)) : /\ FlattenSeq(ss) \in Seq(X)
                                   /\ \E at : Covers(FlattenSeq(ss), ss, Len(ss), at)
  <1>0. \A start \in Seq(X) : \A n \in Nat : \A step \in [1..n -> [Seq(X) -> Seq(X)]] :
            \E g \in [0..n -> Seq(X)] : g[0] = start /\ \A m \in 1..n : g[m] = step[m][g[m - 1]]
    <2> DEFINE V == Seq(X)
    <2> HIDE DEF V
    <2>1. \A start \in V : \A n \in Nat : \A step \in [1..n -> [V -> V]] :
            \E g \in [0..n -> V] : g[0] = start /\ \A m \in 1..n : g[m] = step[m][g[m - 1]]
      BY BoundedRecursion
    <2>2. QED
      BY <2>1 DEF V
  <1> SUFFICES ASSUME NEW ss \in Seq(Seq(X))
               PROVE  /\ FlattenSeq(ss) \in Seq(X)
                      /\ \E at : Covers(FlattenSeq(ss), ss, Len(ss), at)
    OBVIOUS
  <1> DEFINE N == Len(ss)
  <1>1. N \in Nat /\ DOMAIN ss = 1..N
    OBVIOUS
  <1>2. CASE N = 0
    <2>1. ss = <<>> /\ FlattenSeq(ss) = ss
      BY <1>2 DEF FlattenSeq
    <2>2. Places(ss, 0) = {}
      BY DEF Places
    <2>3. Covers(<<>>, ss, 0, <<>>)
      BY <2>2 DEF Covers
    <2>4. <<>> \in Seq(X)
      OBVIOUS
    <2>5. FlattenSeq(ss) = <<>> /\ Len(ss) = 0
      BY <1>2, <2>1
    <2>6. QED
      BY <2>3, <2>4, <2>5
  <1>3. CASE N # 0
    <2> DEFINE F == [n \in 1..N |-> [t \in Seq(X) |-> t \o ss[n]]]
               IsFlat(f) == f = [i \in 1..N |-> IF i = 1 THEN ss[i] ELSE f[i - 1] \o ss[i]]
    <2>1. F \in [1..N -> [Seq(X) -> Seq(X)]]
      OBVIOUS
    <2>2. PICK g \in [0..N -> Seq(X)] : g[0] = <<>> /\ \A n \in 1..N : g[n] = F[n][g[n - 1]]
      <3> DEFINE none == <<>>
      <3>1. none \in Seq(X)
        OBVIOUS
      <3>2. N \in Nat
        BY <1>1
      <3> HIDE DEF F, N, none
      <3>3. \A step \in [1..N -> [Seq(X) -> Seq(X)]] :
                \E g \in [0..N -> Seq(X)] : g[0] = none /\ \A m \in 1..N : g[m] = step[m][g[m - 1]]
        BY <1>0, <3>1, <3>2
      <3>4. QED
        BY <2>1, <3>3 DEF none
    <2>3. ASSUME NEW n \in 1..N PROVE g[n] = g[n - 1] \o ss[n]
      <3>1. g[n - 1] \in Seq(X)
        BY <1>1, <2>2
      <3>2. QED
        BY <2>2, <3>1
    <2>4. IsFlat([i \in 1..N |-> g[i]])
      <3>1. \A i \in 1..N : g[i] = IF i = 1 THEN ss[i] ELSE [j \in 1..N |-> g[j]][i - 1] \o ss[i]
        <4>1. ASSUME NEW i \in 1..N, i = 1 PROVE g[i] = ss[i]
          <5>1. ss[i] \in Seq(X) /\ i - 1 = 0 /\ g[i] = g[i - 1] \o ss[i]
            BY <1>1, <2>3, <4>1
          <5>3. g[i] = <<>> \o ss[i]
            BY <2>2, <5>1
          <5>2. QED
            BY <5>1, <5>3
        <4>2. ASSUME NEW i \in 1..N, i # 1 PROVE g[i] = [j \in 1..N |-> g[j]][i - 1] \o ss[i]
          <5>1. i - 1 \in 1..N
            BY <1>1, <4>2
          <5>2. QED
            BY <2>3, <5>1
        <4>3. QED
          BY <4>1, <4>2
      <3>2. QED
        BY <3>1, Zenon
    <2> DEFINE f == CHOOSE h : IsFlat(h)
    <2>5. IsFlat(f)
      BY <2>4, Zenon
    <2>6. FlattenSeq(ss) = f[N]
      BY <1>3 DEF FlattenSeq
    <2> HIDE DEF f
    <2>7. /\ 1 \in 1..N => f[1] = ss[1]
          /\ \A i \in 1..N : i # 1 => f[i] = f[i - 1] \o ss[i]
      BY <2>5
    <2> DEFINE Good == {m \in Nat : m + 1 \in 1..N => f[m + 1] \in Seq(X) /\ \E at : Covers(f[m + 1], ss, m + 1, at)}
    <2>8. 0 \in Good
      <3>1. 1 \in 1..N
        BY <1>1, <1>3
      <3>2. ss[1] \in Seq(X) /\ <<>> \o ss[1] = ss[1] /\ <<>> \in Seq(X)
        BY <1>1, <3>1
      <3>3. Covers(<<>>, ss, 0, <<>>)
        <4>1. Places(ss, 0) = {}
          BY DEF Places
        <4>2. QED
          BY <4>1 DEF Covers
      <3>4. \E at : Covers(<<>> \o ss[0 + 1], ss, 0 + 1, at)
        <4>1. 0 + 1 \in DOMAIN ss
          BY <1>1, <3>1
        <4>2. QED
          BY <3>2, <3>3, <4>1, CoversMore, 0 \in Nat
      <3>5. f[1] \in Seq(X) /\ \E at : Covers(f[1], ss, 1, at)
        BY <2>7, <3>1, <3>2, <3>4
      <3>6. QED
        BY <3>5
    <2>9. ASSUME NEW m \in Nat \cap Good PROVE m + 1 \in Good
      <3> DEFINE n == m + 1
      <3>1. SUFFICES ASSUME n + 1 \in 1..N
                     PROVE  f[n + 1] \in Seq(X) /\ \E at : Covers(f[n + 1], ss, n + 1, at)
        OBVIOUS
      <3>2. n \in Nat /\ n \in 1..N /\ (n + 1) - 1 = n /\ n + 1 # 1 /\ n + 1 \in DOMAIN ss
        BY <1>1, <3>1
      <3>3. f[n] \in Seq(X) /\ \E at : Covers(f[n], ss, n, at)
        BY <3>2
      <3>4. ss[n + 1] \in Seq(X)
        BY <3>2
      <3> HIDE DEF n
      <3>7. f[n + 1] = f[n] \o ss[n + 1]
        BY <2>7, <3>1, <3>2
      <3>5. \E at : Covers(f[n] \o ss[n + 1], ss, n + 1, at)
        BY <3>2, <3>3, CoversMore
      <3>6. QED
        BY <3>3, <3>4, <3>5, <3>7
    <2> HIDE DEF Good
    <2>10. N - 1 \in Good
      <3>1. N - 1 \in Nat
        BY <1>1, <1>3
      <3>2. QED
        BY <2>8, <2>9, <3>1, AllNaturals
    <2>11. (N - 1) + 1 = N /\ N \in 1..N
      BY <1>1, <1>3
    <2>12. f[N] \in Seq(X) /\ \E at : Covers(f[N], ss, N, at)
      BY <2>10, <2>11 DEF Good
    <2>13. QED
      BY <2>6, <2>12
  <1>4. QED
    BY <1>2, <1>3

=============================================================================
