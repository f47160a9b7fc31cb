----------------------------- MODULE FoldFacts -----------------------------
(***************************************************************************)
(* Facts about the data the components are built from, for their proofs:   *)
(* induction over the naturals and over the subsets of a finite set, the   *)
(* sums that say what a ledger or a pool should come to, and the joining   *)
(* of sequences into one.                                                  *)
(*                                                                         *)
(* The property an induction is about is given as the set of what has it,  *)
(* since no prover here instantiates an operator.  That a sum does not     *)
(* depend on the order its elements are taken in is SumByElement; the rest *)
(* of the sums follows from it.  FlattenSeq is a recursive function,       *)
(* unfolded here by induction over the set of the lengths it has been      *)
(* unfolded for.                                                           *)
(***************************************************************************)
EXTENDS Integers, FiniteSetsExt, SequencesExt, FiniteSetTheorems, TLAPS

-----------------------------------------------------------------------------
(* Induction.                                                              *)

(* Every nonempty set of naturals has a least element.                     *)
LEMMA LeastNatural ==
  ASSUME NEW T, T \subseteq Nat, T # {}
  PROVE  \E n \in T : \A m \in T : n <= m
<1> DEFINE R == OpToRel(<, Nat)
<1>1. IsWellFoundedOn(R, Nat)
  BY NatLessThanWellFounded
<1> HIDE DEF R
<1>2. PICK n \in T : \A m \in T : ~ (<<m, n>> \in R)
  BY <1>1, WFMin, Zenon
<1>3. \A m \in T : m < n => <<m, n>> \in R
  BY DEF R, OpToRel
<1>4. \A m \in T : n \in Nat /\ m \in Nat /\ ~(m < n)
  BY <1>2, <1>3
<1>5. \A m \in T : n <= m
  BY <1>4
<1>. QED  BY <1>5

(* Induction over the naturals: S is the set of those that have it.        *)
LEMMA NaturalInduction ==
  ASSUME NEW S, 0 \in S, \A n \in Nat : n \in S => n + 1 \in S
  PROVE  Nat \subseteq S
<1>. SUFFICES ASSUME Nat \ S # {} PROVE FALSE
  OBVIOUS
<1>1. PICK n \in Nat \ S : \A m \in Nat \ S : n <= m
  BY LeastNatural
<1>2. n \in Nat /\ n \notin S /\ n # 0
  OBVIOUS
<1>3. n - 1 \in Nat /\ (n - 1) + 1 = n /\ ~(n <= n - 1)
  BY <1>2
<1>4. n - 1 \in S
  BY <1>1, <1>3
<1>. QED  BY <1>2, <1>3, <1>4

(* Induction over the subsets of a finite set: F is the set of those that  *)
(* have the property, and a set has it when all with one element less do.  *)
LEMMA SubsetInduction ==
  ASSUME NEW S, IsFiniteSet(S), NEW F,
         \A T \in SUBSET S : (\A x \in T : T \ {x} \in F) => T \in F
  PROVE  SUBSET S \subseteq F
<1>. DEFINE Q == {n \in Nat : \A T \in SUBSET S : Cardinality(T) = n => T \in F}
<1>0. \A T \in SUBSET S : IsFiniteSet(T) /\ Cardinality(T) \in Nat
  BY FS_Subset, FS_CardinalityType
<1>1. 0 \in Q
  <2>1. \A T \in SUBSET S : Cardinality(T) = 0 => T = {}
    BY <1>0, FS_EmptySet
  <2>. QED  BY <2>1
<1>2. ASSUME NEW n \in Nat, n \in Q PROVE n + 1 \in Q
  <2>. SUFFICES ASSUME NEW T \in SUBSET S, Cardinality(T) = n + 1 PROVE T \in F
    BY <1>2
  <2>1. ASSUME NEW x \in T PROVE T \ {x} \in F
    <3>1. IsFiniteSet(T)
      BY <1>0
    <3>2. Cardinality(T \ {x}) = Cardinality(T) - 1
      BY <3>1, FS_RemoveElement
    <3>3. T \ {x} \in SUBSET S /\ Cardinality(T \ {x}) = n
      BY <3>2
    <3>. QED  BY <1>2, <3>3
  <2>. QED  BY <2>1
<1>3. Nat \subseteq Q
  <2>. HIDE DEF Q
  <2>. QED BY <1>1, <1>2, NaturalInduction
<1>. QED  BY <1>0, <1>3

-----------------------------------------------------------------------------
(* Sums over a finite set.                                                 *)

(* The element a fold over a set takes first.                              *)
First(s) == CHOOSE x \in s : TRUE

(* What the recursive function inside a sum over S satisfies.              *)
SumsOver(g, f, S) ==
  g = [s \in SUBSET S |-> IF s = {} THEN 0 ELSE f[First(s)] + g[s \ {First(s)}]]

LEMMA SumIsChosen ==
  ASSUME NEW f, NEW S
  PROVE  SumFunctionOnSet(f, S) = (CHOOSE g : SumsOver(g, f, S))[S]
BY DEF SumFunctionOnSet, FoldFunctionOnSet, MapThenFoldSet, SumsOver, First

LEMMA SumsExist ==
  ASSUME NEW f, NEW S, IsFiniteSet(S)
  PROVE  \E g : SumsOver(g, f, S)
<1>. DEFINE Upto(n) == {s \in SUBSET S : Cardinality(s) <= n}
            Rec(g, s) == IF s = {} THEN 0 ELSE f[First(s)] + g[s \ {First(s)}]
            Q == {n \in Nat : \E g : g = [s \in Upto(n) |-> Rec(g, s)]}
<1>0. \A T \in SUBSET S : IsFiniteSet(T) /\ Cardinality(T) \in Nat
  BY FS_Subset, FS_CardinalityType
<1>a. ASSUME NEW s \in SUBSET S, s # {} 
      PROVE  /\ First(s) \in s
             /\ s \ {First(s)} \in SUBSET S
             /\ Cardinality(s \ {First(s)}) = Cardinality(s) - 1
  <2>1. First(s) \in s
    BY <1>a DEF First
  <2>2. IsFiniteSet(s)
    BY <1>0
  <2>3. Cardinality(s \ {First(s)}) = Cardinality(s) - 1
    BY <2>1, <2>2, FS_RemoveElement
  <2>. QED  BY <2>1, <2>3
<1>1. 0 \in Q
  <2>1. \A s \in Upto(0) : s = {}
    BY <1>0, FS_EmptySet
  <2>2. [s \in Upto(0) |-> 0] = [s \in Upto(0) |-> Rec([r \in Upto(0) |-> 0], s)]
    BY <2>1
  <2>. QED  BY <2>2
<1>2. ASSUME NEW n \in Nat, n \in Q PROVE n + 1 \in Q
  <2>1. PICK g : g = [s \in Upto(n) |-> Rec(g, s)]
    BY <1>2
  <2>. DEFINE h == [s \in Upto(n + 1) |-> Rec(g, s)]
  <2>a. \A s \in Upto(n) : s \in Upto(n + 1)
    BY <1>0
  <2>b. \A s \in Upto(n) : g[s] = Rec(g, s)
    <3>. HIDE DEF Upto, Rec
    <3>. QED  BY <2>1
  <2>2. \A s \in Upto(n) : s \in Upto(n + 1) /\ h[s] = g[s]
    <3>. HIDE DEF Upto, Rec
    <3>. QED  BY <2>a, <2>b
  <2>3. \A s \in Upto(n + 1) : s # {} => s \ {First(s)} \in Upto(n)
    BY <1>0, <1>a
  <2>4. \A s \in Upto(n + 1) : Rec(g, s) = Rec(h, s)
    BY <2>2, <2>3
  <2>5. h = [s \in Upto(n + 1) |-> Rec(h, s)]
    BY <2>4
  <2>. HIDE DEF h, Upto, Rec
  <2>. QED  BY <2>5
<1>3. Cardinality(S) \in Q
  <2>. HIDE DEF Q
  <2>. QED BY <1>0, <1>1, <1>2, NaturalInduction
<1>4. Upto(Cardinality(S)) = SUBSET S
  BY <1>0, FS_Subset
<1>. QED  BY <1>3, <1>4 DEF SumsOver

(* Two such functions agree on every set that both are about.              *)
LEMMA SumsAgree ==
  ASSUME NEW f, NEW S, IsFiniteSet(S), NEW T \in SUBSET S, 
         NEW g, SumsOver(g, f, S), NEW h, SumsOver(h, f, T)
  PROVE  \A s \in SUBSET T : g[s] = h[s]
<1>. DEFINE F == {s \in SUBSET T : g[s] = h[s]}
<1>1. ASSUME NEW s \in SUBSET T, \A x \in s : s \ {x} \in F PROVE s \in F
  <2>1. g[s] = IF s = {} THEN 0 ELSE f[First(s)] + g[s \ {First(s)}]
    BY DEF SumsOver
  <2>2. h[s] = IF s = {} THEN 0 ELSE f[First(s)] + h[s \ {First(s)}]
    BY DEF SumsOver
  <2>3. s # {} => First(s) \in s
    BY DEF First
  <2>4. s # {} => g[s \ {First(s)}] = h[s \ {First(s)}]
    BY <1>1, <2>3
  <2>. QED  BY <2>1, <2>2, <2>4
<1>2. IsFiniteSet(T)
  BY FS_Subset
<1>3. SUBSET T \subseteq F
  <2>. HIDE DEF F
  <2>. QED  BY <1>1, <1>2, SubsetInduction
<1>. QED  BY <1>3

(* The sum over a set, by the element its fold takes first.                *)
LEMMA SumByFirst ==
  ASSUME NEW f, NEW S, IsFiniteSet(S)
  PROVE  SumFunctionOnSet(f, S) =
           IF S = {} THEN 0 ELSE f[First(S)] + SumFunctionOnSet(f, S \ {First(S)})
<1>. DEFINE G(T) == CHOOSE g : SumsOver(g, f, T)
<1>1. ASSUME NEW T \in SUBSET S 
      PROVE  SumsOver(G(T), f, T) /\ SumFunctionOnSet(f, T) = G(T)[T]
  <2>1. IsFiniteSet(T)
    BY FS_Subset
  <2>2. \E g : SumsOver(g, f, T)
    BY <2>1, SumsExist
  <2>3. SumsOver(G(T), f, T)
    BY <2>2
  <2>4. SumFunctionOnSet(f, T) = G(T)[T]
    BY SumIsChosen
  <2>. QED  BY <2>3, <2>4
<1>. HIDE DEF G
<1>2. ASSUME NEW T \in SUBSET S PROVE G(S)[T] = SumFunctionOnSet(f, T)
  <2>1. SumsOver(G(S), f, S) /\ SumsOver(G(T), f, T) /\ T \in SUBSET T
    BY <1>1
  <2>2. G(S)[T] = G(T)[T]
    BY <2>1, SumsAgree
  <2>. QED  BY <1>1, <2>2
<1>3. G(S)[S] = IF S = {} THEN 0 ELSE f[First(S)] + G(S)[S \ {First(S)}]
  BY <1>1 DEF SumsOver
<1>. QED  BY <1>2, <1>3

(* The sum over no element.                                                *)
LEMMA SumOfNone ==
  ASSUME NEW f
  PROVE  SumFunctionOnSet(f, {}) = 0
BY SumByFirst, FS_EmptySet

(* A sum of integers is an integer.                                        *)
LEMMA SumIsInteger ==
  ASSUME NEW S, IsFiniteSet(S), NEW f, \A x \in S : f[x] \in Int
  PROVE  \A T \in SUBSET S : SumFunctionOnSet(f, T) \in Int
<1>. DEFINE F == {T \in SUBSET S : SumFunctionOnSet(f, T) \in Int}
<1>1. ASSUME NEW T \in SUBSET S, \A x \in T : T \ {x} \in F PROVE T \in F
  <2>1. IsFiniteSet(T)
    BY FS_Subset
  <2>2. T # {} => First(T) \in T
    BY DEF First
  <2>3. SumFunctionOnSet(f, T) =
          IF T = {} THEN 0 ELSE f[First(T)] + SumFunctionOnSet(f, T \ {First(T)})
    BY <2>1, SumByFirst
  <2>4. T # {} => f[First(T)] \in Int /\ SumFunctionOnSet(f, T \ {First(T)}) \in Int
    BY <1>1, <2>2
  <2>. QED  BY <2>3, <2>4
<1>2. SUBSET S \subseteq F
  <2>. HIDE DEF F
  <2>. QED  BY <1>1, SubsetInduction
<1>. QED  BY <1>2

(* A set's sum is any of its elements' value and the sum of the rest.      *)
LEMMA SumByElement ==
  ASSUME NEW S, IsFiniteSet(S), NEW f, \A x \in S : f[x] \in Int
  PROVE  \A T \in SUBSET S : \A x \in T :
           SumFunctionOnSet(f, T) = f[x] + SumFunctionOnSet(f, T \ {x})
<1>. DEFINE Sum(T) == SumFunctionOnSet(f, T)
            F == {T \in SUBSET S : \A x \in T : Sum(T) = f[x] + Sum(T \ {x})}
<1>1. ASSUME NEW T \in SUBSET S, \A x \in T : T \ {x} \in F PROVE T \in F
  <2>. SUFFICES ASSUME NEW x \in T PROVE Sum(T) = f[x] + Sum(T \ {x})
    OBVIOUS
  <2>. DEFINE c == First(T)
  <2>1. c \in T
    BY DEF First
  <2>2. IsFiniteSet(T)
    BY FS_Subset
  <2>3. Sum(T) = f[c] + Sum(T \ {c})
    BY <2>1, <2>2, SumByFirst
  <2>4. CASE c = x
    BY <2>3, <2>4
  <2>5. CASE c # x
    <3>1. Sum(T \ {c}) = f[x] + Sum((T \ {c}) \ {x})
      BY <1>1, <2>1, <2>5
    <3>2. Sum(T \ {x}) = f[c] + Sum((T \ {x}) \ {c})
      BY <1>1, <2>1, <2>5
    <3>3. (T \ {c}) \ {x} = (T \ {x}) \ {c}
      OBVIOUS
    <3>4. f[c] \in Int /\ f[x] \in Int /\ Sum((T \ {x}) \ {c}) \in Int
      BY <2>1, SumIsInteger
    <3>. HIDE DEF Sum, c
    <3>5. Sum((T \ {c}) \ {x}) = Sum((T \ {x}) \ {c})
      BY <3>3
    <3>. QED  BY <2>3, <3>1, <3>2, <3>4, <3>5
  <2>. QED  BY <2>4, <2>5
<1>2. SUBSET S \subseteq F
  <2>. HIDE DEF F
  <2>. QED  BY <1>1, SubsetInduction
<1>. QED  BY <1>2

(* Functions that agree on a set have the same sum over it.                *)
LEMMA SumDependsOnValues ==
  ASSUME NEW S, IsFiniteSet(S), NEW f, NEW g,
         \A x \in S : f[x] \in Int /\ g[x] = f[x]
  PROVE  SumFunctionOnSet(g, S) = SumFunctionOnSet(f, S)
<1>. DEFINE F == {T \in SUBSET S : SumFunctionOnSet(g, T) = SumFunctionOnSet(f, T)}
<1>1. ASSUME NEW T \in SUBSET S, \A x \in T : T \ {x} \in F PROVE T \in F
  <2>1. IsFiniteSet(T)
    BY FS_Subset
  <2>2. CASE T = {}
    BY <2>2, SumOfNone
  <2>3. CASE T # {}
    <3>1. PICK x \in T : TRUE
      BY <2>3
    <3>2. SumFunctionOnSet(g, T \ {x}) = SumFunctionOnSet(f, T \ {x})
      BY <1>1
    <3>3. SumFunctionOnSet(g, T) = g[x] + SumFunctionOnSet(g, T \ {x})
      BY SumByElement
    <3>4. SumFunctionOnSet(f, T) = f[x] + SumFunctionOnSet(f, T \ {x})
      BY SumByElement
    <3>. QED  BY <3>2, <3>3, <3>4
  <2>. QED  BY <2>2, <2>3
<1>2. SUBSET S \subseteq F
  <2>. HIDE DEF F
  <2>. QED  BY <1>1, SubsetInduction
<1>. QED  BY <1>2

(* A function changed at one place changes its sum by what that changed.   *)
LEMMA SumChangesByOne ==
  ASSUME NEW S, IsFiniteSet(S), NEW f, NEW g, NEW x \in S,
         \A y \in S : f[y] \in Int /\ g[y] \in Int,
         \A y \in S : y # x => g[y] = f[y]
  PROVE  SumFunctionOnSet(g, S) = SumFunctionOnSet(f, S) - f[x] + g[x]
<1>1. IsFiniteSet(S \ {x})
  BY FS_RemoveElement
<1>2. SumFunctionOnSet(g, S) = g[x] + SumFunctionOnSet(g, S \ {x})
  BY SumByElement
<1>3. SumFunctionOnSet(f, S) = f[x] + SumFunctionOnSet(f, S \ {x})
  BY SumByElement
<1>4. SumFunctionOnSet(g, S \ {x}) = SumFunctionOnSet(f, S \ {x})
  BY <1>1, SumDependsOnValues
<1>5. SumFunctionOnSet(f, S \ {x}) \in Int
  BY SumIsInteger
<1>. QED  BY <1>2, <1>3, <1>4, <1>5

(* The same, by how much the term changes.                                 *)
LEMMA SumMovesBy ==
  ASSUME NEW S, IsFiniteSet(S), NEW f, NEW g, NEW x \in S, NEW d \in Int,
         \A y \in S : f[y] \in Int /\ g[y] = IF y = x THEN f[y] + d ELSE f[y]
  PROVE  SumFunctionOnSet(g, S) = SumFunctionOnSet(f, S) + d
<1>1. \A y \in S : f[y] \in Int /\ g[y] \in Int
  OBVIOUS
<1>2. \A y \in S : y # x => g[y] = f[y]
  OBVIOUS
<1>3. SumFunctionOnSet(g, S) = SumFunctionOnSet(f, S) - f[x] + g[x]
  BY <1>1, <1>2, SumChangesByOne
<1>4. SumFunctionOnSet(f, S) \in Int
  BY <1>1, SumIsInteger
<1>5. f[x] \in Int /\ g[x] = f[x] + d
  OBVIOUS
<1>. QED  BY <1>3, <1>4, <1>5

(* The sum over a part of S is the sum over S of what is zero elsewhere.   *)
LEMMA SumOverPart ==
  ASSUME NEW S, IsFiniteSet(S), NEW P \in SUBSET S, NEW f, NEW g,
         \A x \in S : f[x] \in Int /\ g[x] = IF x \in P THEN f[x] ELSE 0
  PROVE  SumFunctionOnSet(g, S) = SumFunctionOnSet(f, P)
<1>. DEFINE F == {T \in SUBSET S : SumFunctionOnSet(g, T) = SumFunctionOnSet(f, P \cap T)}
<1>0. \A x \in S : g[x] \in Int
  OBVIOUS
<1>1. ASSUME NEW T \in SUBSET S, \A x \in T : T \ {x} \in F PROVE T \in F
  <2>1. CASE T = {}
    BY <2>1, SumOfNone
  <2>2. CASE T # {}
    <3>1. PICK x \in T : TRUE
      BY <2>2
    <3>2. SumFunctionOnSet(g, T \ {x}) = SumFunctionOnSet(f, P \cap (T \ {x}))
      BY <1>1
    <3>3. SumFunctionOnSet(g, T) = g[x] + SumFunctionOnSet(g, T \ {x})
      BY <1>0, SumByElement
    <3>4. CASE x \in P
      <4>1. P \cap (T \ {x}) = (P \cap T) \ {x}
        OBVIOUS
      <4>2. SumFunctionOnSet(f, P \cap T) = f[x] + SumFunctionOnSet(f, (P \cap T) \ {x})
        BY <3>4, SumByElement
      <4>. QED  BY <3>2, <3>3, <3>4, <4>1, <4>2
    <3>5. CASE x \notin P
      <4>1. P \cap (T \ {x}) = P \cap T
        BY <3>5
      <4>2. SumFunctionOnSet(f, P \cap T) \in Int
        BY SumIsInteger
      <4>3. SumFunctionOnSet(g, T \ {x}) = SumFunctionOnSet(f, P \cap T)
        BY <3>2, <4>1
      <4>4. g[x] = 0
        BY <3>5
      <4>. QED  BY <3>3, <4>2, <4>3, <4>4
    <3>. QED  BY <3>4, <3>5
  <2>. QED  BY <2>1, <2>2
<1>2. SUBSET S \subseteq F
  <2>. HIDE DEF F
  <2>. QED  BY <1>1, SubsetInduction
<1>3. P \cap S = P
  OBVIOUS
<1>. QED  BY <1>2, <1>3

(* A sum is at most another whose every term is within k of its own, and k *)
(* for each term.                                                          *)
LEMMA SumWithin ==
  ASSUME NEW S, IsFiniteSet(S), NEW f, NEW g, NEW k \in Int,
         \A x \in S : f[x] \in Int /\ g[x] \in Int /\ f[x] <= g[x] + k
  PROVE  SumFunctionOnSet(f, S) <= SumFunctionOnSet(g, S) + Cardinality(S) * k
<1>. DEFINE F == {T \in SUBSET S :
                   SumFunctionOnSet(f, T) <= SumFunctionOnSet(g, T) + Cardinality(T) * k}
<1>1. ASSUME NEW T \in SUBSET S, \A x \in T : T \ {x} \in F PROVE T \in F
  <2>1. CASE T = {}
    <3>1. Cardinality(T) = 0 /\ SumFunctionOnSet(f, T) = 0 /\ SumFunctionOnSet(g, T) = 0
      BY <2>1, SumOfNone, FS_EmptySet
    <3>. QED  BY <3>1
  <2>2. CASE T # {}
    <3>1. PICK x \in T : TRUE
      BY <2>2
    <3>. DEFINE a == SumFunctionOnSet(f, T \ {x})
                b == SumFunctionOnSet(g, T \ {x})
                c == Cardinality(T \ {x})
    <3>2. a <= b + c * k
      BY <1>1
    <3>3. SumFunctionOnSet(g, T) = g[x] + b /\ SumFunctionOnSet(f, T) = f[x] + a
      BY SumByElement
    <3>4. a \in Int /\ b \in Int
      BY SumIsInteger
    <3>5. f[x] \in Int /\ g[x] \in Int /\ f[x] <= g[x] + k
      OBVIOUS
    <3>6. c \in Nat /\ Cardinality(T) = c + 1
      <4>1. IsFiniteSet(T) /\ IsFiniteSet(T \ {x})
        BY FS_Subset
      <4>2. c = Cardinality(T) - 1 /\ c \in Nat /\ Cardinality(T) \in Nat
        BY <4>1, FS_RemoveElement, FS_CardinalityType
      <4>. QED  BY <4>2
    <3>7. Cardinality(T) * k = c * k + k /\ c * k \in Int
      <4>. HIDE DEF c
      <4>. QED  BY <3>6
    <3>8. SumFunctionOnSet(f, T) <= SumFunctionOnSet(g, T) + Cardinality(T) * k
      <4>. HIDE DEF a, b, c
      <4>. QED  BY <3>2, <3>3, <3>4, <3>5, <3>7
    <3>. QED  BY <3>8
  <2>. QED  BY <2>1, <2>2
<1>2. SUBSET S \subseteq F
  <2>. HIDE DEF F
  <2>. QED  BY <1>1, SubsetInduction
<1>. QED  BY <1>2

(* Adding one to the terms of a part adds the part's number of elements.   *)
LEMMA SumWithCount ==
  ASSUME NEW S, IsFiniteSet(S), NEW P \in SUBSET S, NEW f, NEW g,
         \A x \in S : f[x] \in Int /\ g[x] = f[x] + (IF x \in P THEN 1 ELSE 0)
  PROVE  SumFunctionOnSet(g, S) = SumFunctionOnSet(f, S) + Cardinality(P)
<1>. DEFINE F == {T \in SUBSET S :
                   SumFunctionOnSet(g, T) = SumFunctionOnSet(f, T) + Cardinality(P \cap T)}
<1>0. \A x \in S : f[x] \in Int /\ g[x] \in Int
  OBVIOUS
<1>1. ASSUME NEW T \in SUBSET S, \A x \in T : T \ {x} \in F PROVE T \in F
  <2>1. CASE T = {}
    <3>1. P \cap T = {} /\ SumFunctionOnSet(f, T) = 0 /\ SumFunctionOnSet(g, T) = 0
      BY <2>1, SumOfNone
    <3>2. Cardinality(P \cap T) = 0
      BY <3>1, FS_EmptySet
    <3>. QED  BY <3>1, <3>2
  <2>2. CASE T # {}
    <3>1. PICK x \in T : TRUE
      BY <2>2
    <3>. DEFINE R == T \ {x}
    <3>2. SumFunctionOnSet(g, R) = SumFunctionOnSet(f, R) + Cardinality(P \cap R)
      BY <1>1
    <3>3. SumFunctionOnSet(g, T) = g[x] + SumFunctionOnSet(g, R)
            /\ SumFunctionOnSet(f, T) = f[x] + SumFunctionOnSet(f, R)
      BY <1>0, SumByElement
    <3>4. IsFiniteSet(P \cap T) /\ Cardinality(P \cap T) \in Nat
            /\ IsFiniteSet(P \cap R) /\ Cardinality(P \cap R) \in Nat
      BY FS_Subset, FS_CardinalityType
    <3>5. Cardinality(P \cap T) = Cardinality(P \cap R) + (IF x \in P THEN 1 ELSE 0)
      <4>1. CASE x \in P
        <5>1. P \cap R = (P \cap T) \ {x} /\ x \in P \cap T
          BY <3>1, <4>1
        <5>2. Cardinality(P \cap R) = Cardinality(P \cap T) - 1
          <6>. DEFINE Q == P \cap T
          <6>1. IsFiniteSet(Q) /\ x \in Q
            BY <3>4, <5>1
          <6>. HIDE DEF Q
          <6>2. Cardinality(Q \ {x}) = Cardinality(Q) - 1
            BY <6>1, FS_RemoveElement
          <6>. QED  BY <5>1, <6>2 DEF Q
        <5>. QED  BY <3>4, <4>1, <5>2
      <4>2. CASE x \notin P
        <5>1. P \cap R = P \cap T
          BY <4>2
        <5>. QED  BY <3>4, <4>2, <5>1
      <4>. QED  BY <4>1, <4>2
    <3>6. SumFunctionOnSet(f, R) \in Int /\ SumFunctionOnSet(g, R) \in Int
      BY <1>0, SumIsInteger
    <3>7. f[x] \in Int /\ g[x] = f[x] + (IF x \in P THEN 1 ELSE 0)
      OBVIOUS
    <3>. QED  BY <3>2, <3>3, <3>4, <3>5, <3>6, <3>7
  <2>. QED  BY <2>1, <2>2
<1>2. SUBSET S \subseteq F
  <2>. HIDE DEF F
  <2>. QED  BY <1>1, SubsetInduction
<1>3. P \cap S = P
  OBVIOUS
<1>. QED  BY <1>2, <1>3

(* A sum over one element more.                                            *)
LEMMA SumOfOneMore ==
  ASSUME NEW S, IsFiniteSet(S), NEW x, x \notin S, NEW f, NEW g,
         \A y \in S : f[y] \in Int /\ g[y] = f[y], g[x] \in Int
  PROVE  SumFunctionOnSet(g, S \union {x}) = SumFunctionOnSet(f, S) + g[x]
<1>. DEFINE T == S \union {x}
<1>1. IsFiniteSet(T) /\ T \ {x} = S /\ x \in T /\ T \in SUBSET T
  BY FS_AddElement
<1>2. \A y \in T : g[y] \in Int
  OBVIOUS
<1>3. SumFunctionOnSet(g, T) = g[x] + SumFunctionOnSet(g, T \ {x})
  BY <1>1, <1>2, SumByElement
<1>4. SumFunctionOnSet(g, S) = SumFunctionOnSet(f, S)
  BY SumDependsOnValues
<1>5. SumFunctionOnSet(f, S) \in Int
  BY SumIsInteger
<1>6. g[x] \in Int
  OBVIOUS
<1>7. SumFunctionOnSet(g, T) = SumFunctionOnSet(f, S) + g[x]
  <2>1. SumFunctionOnSet(g, T) = g[x] + SumFunctionOnSet(f, S)
    BY <1>1, <1>3, <1>4
  <2>. HIDE DEF T
  <2>. QED  BY <1>5, <1>6, <2>1
<1>. QED  BY <1>7

-----------------------------------------------------------------------------
(* Sequences of sequences, joined.                                         *)

(* The running concatenations that FlattenSeq is the last of.              *)
Flattens(g, s) ==
  g = [i \in 1..Len(s) |-> IF i = 1 THEN s[i] ELSE g[i - 1] \o s[i]]

(* FlattenSeq is the last of the running concatenations.                   *)
LEMMA FlattenIsChosen ==
  ASSUME NEW s, Len(s) # 0
  PROVE  FlattenSeq(s) = (CHOOSE g : Flattens(g, s))[Len(s)]
BY DEF FlattenSeq, Flattens

(* There are running concatenations of any sequence of sequences.          *)
LEMMA FlattenExists ==
  ASSUME NEW S, NEW s \in Seq(Seq(S))
  PROVE  \E g : Flattens(g, s)
<1>. DEFINE Rec(g, i) == IF i = 1 THEN s[i] ELSE g[i - 1] \o s[i]
            Q == {n \in Nat : \E g : g = [i \in 1..n |-> Rec(g, i)]}
<1>1. 0 \in Q
  <2>1. <<>> = [i \in 1..0 |-> Rec(<<>>, i)]
    <3>. HIDE DEF Rec
    <3>. QED OBVIOUS
  <2>. QED BY <2>1
<1>2. ASSUME NEW n \in Nat, n \in Q PROVE n + 1 \in Q
  <2>1. PICK g : g = [i \in 1..n |-> Rec(g, i)]
    BY <1>2
  <2>. DEFINE h == [i \in 1..(n + 1) |-> Rec(g, i)]
  <2>2. \A i \in 1..n : i \in 1..(n + 1) /\ h[i] = g[i]
    <3>1. \A i \in 1..n : g[i] = Rec(g, i)
      <4>. HIDE DEF Rec
      <4>. QED BY <2>1
    <3>2. \A i \in 1..n : i \in 1..(n + 1)
      OBVIOUS
    <3>. HIDE DEF Rec
    <3>. QED BY <3>1, <3>2
  <2>3. \A i \in 1..(n + 1) : i # 1 => i - 1 \in 1..n
    OBVIOUS
  <2>4. \A i \in 1..(n + 1) : Rec(g, i) = Rec(h, i)
    <3>. HIDE DEF h
    <3>. QED BY <2>2, <2>3
  <2>5. h = [i \in 1..(n + 1) |-> Rec(h, i)]
    <3>1. h = [i \in 1..(n + 1) |-> Rec(g, i)]
      OBVIOUS
    <3>. HIDE DEF h, Rec
    <3>. QED BY <2>4, <3>1
  <2>. HIDE DEF h, Rec
  <2>. QED BY <2>5
<1>3. Len(s) \in Q
  <2>1. Nat \subseteq Q
    <3>. HIDE DEF Q
    <3>. QED BY <1>1, <1>2, NaturalInduction
  <2>2. Len(s) \in Nat
    OBVIOUS
  <2>. HIDE DEF Q
  <2>. QED BY <2>1, <2>2
<1>. QED BY <1>3 DEF Flattens

(* They agree on a common beginning.                                       *)
LEMMA FlattenAgree ==
  ASSUME NEW s, NEW t, Len(s) \in Nat, Len(t) \in Nat,
         Len(s) <= Len(t), \A i \in 1..Len(s) : t[i] = s[i]
  PROVE  \A g, h : Flattens(g, s) /\ Flattens(h, t) => \A i \in 1..Len(s) : g[i] = h[i]
<1>. SUFFICES ASSUME NEW g, Flattens(g, s), NEW h, Flattens(h, t)
              PROVE  \A i \in 1..Len(s) : g[i] = h[i]
  OBVIOUS
<1>. DEFINE Q == {n \in Nat : n \in 1..Len(s) => g[n] = h[n]}
<1>1. 0 \in Q
  OBVIOUS
<1>2. ASSUME NEW n \in Nat, n \in Q PROVE n + 1 \in Q
  <2>. SUFFICES ASSUME n + 1 \in 1..Len(s) PROVE g[n + 1] = h[n + 1]
    OBVIOUS
  <2>1. n + 1 \in 1..Len(s) /\ n + 1 \in 1..Len(t) /\ (n + 1) - 1 = n
    OBVIOUS
  <2>2. g[n + 1] = IF n + 1 = 1 THEN s[n + 1] ELSE g[n] \o s[n + 1]
    BY <2>1 DEF Flattens
  <2>3. h[n + 1] = IF n + 1 = 1 THEN t[n + 1] ELSE h[n] \o t[n + 1]
    BY <2>1 DEF Flattens
  <2>4. n # 0 => g[n] = h[n]
    BY <1>2
  <2>5. s[n + 1] = t[n + 1]
    OBVIOUS
  <2>6. CASE n = 0
    BY <2>2, <2>3, <2>5, <2>6
  <2>7. CASE n # 0
    <3>1. n + 1 # 1
      BY <2>7
    <3>. QED BY <2>2, <2>3, <2>4, <2>5, <2>7, <3>1
  <2>. QED BY <2>6, <2>7
<1>3. Nat \subseteq Q
  <2>. HIDE DEF Q
  <2>. QED BY <1>1, <1>2, NaturalInduction
<1>. QED BY <1>3

(* One sequence flattens to itself,                                        *)
LEMMA FlattenOne ==
  ASSUME NEW S, NEW s \in Seq(Seq(S)), Len(s) = 1
  PROVE  FlattenSeq(s) = s[1]
<1>1. PICK g : g = (CHOOSE f : Flattens(f, s))
  OBVIOUS
<1>2. Flattens(g, s)
  BY <1>1, FlattenExists
<1>3. FlattenSeq(s) = g[1]
  BY <1>1, FlattenIsChosen
<1>. QED BY <1>2, <1>3 DEF Flattens

(* and one more is appended.                                               *)
LEMMA FlattenMore ==
  ASSUME NEW S, NEW s \in Seq(Seq(S)), NEW t \in Seq(Seq(S)), Len(s) > 0,
         Len(t) = Len(s) + 1, \A i \in 1..Len(s) : t[i] = s[i]
  PROVE  FlattenSeq(t) = FlattenSeq(s) \o t[Len(t)]
<1>0. Len(s) \in Nat /\ Len(t) \in 1..Len(t) /\ Len(t) # 1 /\ Len(t) - 1 = Len(s)
      /\ Len(s) # 0 /\ Len(t) # 0
  OBVIOUS
<1>1. PICK g : g = (CHOOSE f : Flattens(f, s))
  OBVIOUS
<1>2. PICK h : h = (CHOOSE f : Flattens(f, t))
  OBVIOUS
<1>3. Flattens(g, s) /\ Flattens(h, t)
  BY <1>1, <1>2, FlattenExists
<1>4. FlattenSeq(s) = g[Len(s)] /\ FlattenSeq(t) = h[Len(t)]
  BY <1>0, <1>1, <1>2, FlattenIsChosen
<1>5. h[Len(s)] = g[Len(s)]
  <2>1. Len(s) \in 1..Len(s) /\ Len(s) <= Len(t)
    BY <1>0
  <2>0. Len(s) \in Nat /\ Len(t) \in Nat
    BY <1>0
  <2>2. \A i \in 1..Len(s) : t[i] = s[i]
    OBVIOUS
  <2>3. \A i \in 1..Len(s) : g[i] = h[i]
    <3>1. \A f, e : Flattens(f, s) /\ Flattens(e, t) => \A i \in 1..Len(s) : f[i] = e[i]
      BY <2>0, <2>1, <2>2, FlattenAgree
    <3>. QED BY <1>3, <3>1
  <2>. QED BY <2>1, <2>3
<1>6. h[Len(t)] = h[Len(t) - 1] \o t[Len(t)]
  BY <1>0, <1>3 DEF Flattens
<1>. QED BY <1>0, <1>4, <1>5, <1>6

(* The first n of them, joined: none at all, and one more at a time.       *)
LEMMA FlattenFront ==
  ASSUME NEW S, NEW s \in Seq(Seq(S))
  PROVE  /\ FlattenSeq(SubSeq(s, 1, 0)) = <<>>
         /\ FlattenSeq(SubSeq(s, 1, Len(s))) = FlattenSeq(s)
         /\ \A n \in 1..Len(s) :
              FlattenSeq(SubSeq(s, 1, n)) = FlattenSeq(SubSeq(s, 1, n - 1)) \o s[n]
         /\ \A n \in 0..Len(s) : FlattenSeq(SubSeq(s, 1, n)) \in Seq(S)
<1>. DEFINE F(n) == FlattenSeq(SubSeq(s, 1, n))
<1>1. ASSUME NEW n \in 0..Len(s)
      PROVE  /\ SubSeq(s, 1, n) \in Seq(Seq(S)) /\ Len(SubSeq(s, 1, n)) = n
             /\ \A i \in 1..n : SubSeq(s, 1, n)[i] = s[i]
  OBVIOUS
<1>2. F(0) = <<>>
  <2>1. SubSeq(s, 1, 0) = <<>>
    OBVIOUS
  <2>2. FlattenSeq(<<>>) = <<>>
    BY DEF FlattenSeq
  <2>. QED BY <2>1, <2>2
<1>3. F(Len(s)) = FlattenSeq(s)
  <2>1. SubSeq(s, 1, Len(s)) = s
    OBVIOUS
  <2>. QED BY <2>1
<1>4. ASSUME NEW n \in 1..Len(s) PROVE F(n) = F(n - 1) \o s[n]
  <2>1. n \in 0..Len(s) /\ n - 1 \in 0..Len(s) /\ n \in 1..n
    OBVIOUS
  <2>. PICK t, u : t = SubSeq(s, 1, n) /\ u = SubSeq(s, 1, n - 1)
    OBVIOUS
  <2>2. /\ t \in Seq(Seq(S)) /\ Len(t) = n /\ (\A i \in 1..n : t[i] = s[i])
        /\ u \in Seq(Seq(S)) /\ Len(u) = n - 1 /\ (\A i \in 1..(n - 1) : u[i] = s[i])
    BY <1>1, <2>1
  <2>3. CASE n = 1
    <3>. PICK e : e = s[1]
      OBVIOUS
    <3>0. Len(t) = 1 /\ t[1] = e /\ e \in Seq(S)
      BY <2>2, <2>3
    <3>1. FlattenSeq(t) = e
      BY <2>2, <3>0, FlattenOne
    <3>2. FlattenSeq(u) = <<>>
      <4>1. n - 1 = 0
        BY <2>3
      <4>2. FlattenSeq(SubSeq(s, 1, 0)) = <<>>
        BY <1>2
      <4>. QED BY <4>1, <4>2
    <3>3. <<>> \o e = e
      BY <3>0
    <3>4. FlattenSeq(t) = FlattenSeq(u) \o e
      BY <3>1, <3>2, <3>3
    <3>5. s[n] = e
      BY <2>3
    <3>. QED BY <3>4, <3>5
  <2>4. CASE n # 1
    <3>1. Len(u) > 0 /\ Len(t) = Len(u) + 1 /\ t[Len(t)] = s[n]
      BY <2>1, <2>2, <2>4
    <3>2. \A i \in 1..Len(u) : t[i] = u[i]
      BY <2>1, <2>2
    <3>3. FlattenSeq(t) = FlattenSeq(u) \o t[Len(t)]
      BY <2>2, <3>1, <3>2, FlattenMore
    <3>. QED BY <3>1, <3>3
  <2>. QED BY <2>3, <2>4
<1>5. \A n \in 0..Len(s) : F(n) \in Seq(S)
  <2>. DEFINE Q == {n \in Nat : n \in 0..Len(s) => F(n) \in Seq(S)}
  <2>1. 0 \in Q
    <3>1. <<>> \in Seq(S)
      OBVIOUS
    <3>2. F(0) \in Seq(S)
      <4>. HIDE DEF F
      <4>. QED BY <1>2, <3>1
    <3>. QED BY <3>2
  <2>2. ASSUME NEW n \in Nat, n \in Q PROVE n + 1 \in Q
    <3>. SUFFICES ASSUME n + 1 \in 0..Len(s) PROVE F(n + 1) \in Seq(S)
      OBVIOUS
    <3>1. n \in 0..Len(s) /\ n + 1 \in 1..Len(s) /\ (n + 1) - 1 = n
      OBVIOUS
    <3>2. F(n) \in Seq(S) /\ s[n + 1] \in Seq(S)
      BY <2>2, <3>1
    <3>3. F(n + 1) = F(n) \o s[n + 1]
      <4>1. F(n + 1) = F((n + 1) - 1) \o s[n + 1]
        <5>. HIDE DEF F
        <5>. QED BY <1>4, <3>1
      <4>. QED BY <3>1, <4>1
    <3>4. PICK a, b : a = F(n) /\ b = s[n + 1]
      OBVIOUS
    <3>5. a \in Seq(S) /\ b \in Seq(S) /\ F(n + 1) = a \o b
      BY <3>2, <3>3, <3>4
    <3>6. a \o b \in Seq(S)
      BY <3>5
    <3>. HIDE DEF F
    <3>. QED BY <3>5, <3>6, Zenon
  <2>3. Nat \subseteq Q
    <3>. HIDE DEF Q
    <3>. QED BY <2>1, <2>2, NaturalInduction
  <2>4. \A n \in 0..Len(s) : n \in Nat
    OBVIOUS
  <2>. HIDE DEF F
  <2>. QED BY <2>3, <2>4
<1>. QED BY <1>2, <1>3, <1>4, <1>5

(* Where the elements of the k-th come to stand.                           *)
LEMMA FlattenStands ==
  ASSUME NEW S, NEW s \in Seq(Seq(S))
  PROVE  \A k \in 1..Len(s) : \A i \in 1..Len(s[k]) :
           LET at == Len(FlattenSeq(SubSeq(s, 1, k - 1))) + i
           IN  at \in 1..Len(FlattenSeq(s)) /\ FlattenSeq(s)[at] = s[k][i]
<1>. DEFINE F(n) == FlattenSeq(SubSeq(s, 1, n))
            Stand(n) == \A k \in 1..n : \A i \in 1..Len(s[k]) :
                          /\ Len(F(k - 1)) + i \in 1..Len(F(n))
                          /\ F(n)[Len(F(k - 1)) + i] = s[k][i]
            Q == {n \in Nat : n \in 0..Len(s) => Stand(n)}
<1>1. 0 \in Q
  OBVIOUS
<1>2. ASSUME NEW n \in Nat, n \in Q PROVE n + 1 \in Q
  <2>. SUFFICES ASSUME n + 1 \in 0..Len(s) PROVE Stand(n + 1)
    OBVIOUS
  <2>1. n \in 0..Len(s) /\ n + 1 \in 1..Len(s) /\ (n + 1) - 1 = n
    OBVIOUS
  <2>2. PICK f, g, e : f = F(n) /\ g = F(n + 1) /\ e = s[n + 1]
    OBVIOUS
  <2>3. f \in Seq(S) /\ e \in Seq(S) /\ g = f \o e
    <3>1. F(n + 1) = F((n + 1) - 1) \o s[n + 1] /\ F(n) \in Seq(S)
      BY <2>1, FlattenFront
    <3>2. s[n + 1] \in Seq(S)
      BY <2>1
    <3>. QED BY <2>1, <2>2, <3>1, <3>2
  <2>4. /\ Len(f) \in Nat /\ Len(e) \in Nat /\ Len(g) = Len(f) + Len(e)
        /\ \A i \in 1..Len(f) : i \in 1..Len(g) /\ g[i] = f[i]
        /\ \A i \in 1..Len(e) : Len(f) + i \in 1..Len(g) /\ g[Len(f) + i] = e[i]
    BY <2>3
  <2>5. Stand(n)
    BY <1>2, <2>1
  <2>6. ASSUME NEW k \in 1..(n + 1), NEW i \in 1..Len(s[k])
        PROVE  Len(F(k - 1)) + i \in 1..Len(g) /\ g[Len(F(k - 1)) + i] = s[k][i]
    <3>1. CASE k \in 1..n
      <4>1. Len(F(k - 1)) + i \in 1..Len(f) /\ f[Len(F(k - 1)) + i] = s[k][i]
        BY <2>2, <2>5, <3>1
      <4>. HIDE DEF F
      <4>. QED BY <2>4, <4>1
    <3>2. CASE k = n + 1
      <4>1. F(k - 1) = f /\ s[k] = e
        BY <2>1, <2>2, <3>2
      <4>. HIDE DEF F
      <4>. QED BY <2>4, <4>1
    <3>. QED BY <3>1, <3>2
  <2>. QED BY <2>2, <2>6
<1>3. Stand(Len(s))
  <2>1. Nat \subseteq Q
    <3>. HIDE DEF Q
    <3>. QED BY <1>1, <1>2, NaturalInduction
  <2>2. Len(s) \in Nat /\ Len(s) \in 0..Len(s)
    OBVIOUS
  <2>. HIDE DEF Stand
  <2>. QED BY <2>1, <2>2
<1>4. F(Len(s)) = FlattenSeq(s)
  BY FlattenFront
<1>. QED BY <1>3, <1>4
=============================================================================
