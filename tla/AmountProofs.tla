---------------------------- MODULE AmountProofs ----------------------------
(***************************************************************************)
(* What the proofs about money need: induction over numbers and finite     *)
(* sets, sums over finite sets, and the fee of the market.                 *)
(*                                                                         *)
(* SumFunction is defined by a recursive function on the parts of its      *)
(* domain.  That the recursion has a solution, and that the elements may   *)
(* be taken in any order, is proved by induction on the size of a part;    *)
(* the induction is about sets of numbers and sets of sets, which a prover *)
(* can instantiate, instead of predicates.                                 *)
(***************************************************************************)
EXTENDS FeeMath, FiniteSets, FiniteSetsExt, Functions,
        FiniteSetTheorems, WellFoundedInduction, TLAPS

-----------------------------------------------------------------------------
(* Induction, over sets instead of predicates.                             *)

\* A set of numbers has a least one.
LEMMA LeastNumber ==
    ASSUME NEW S \in SUBSET Nat, S # {}
    PROVE  \E k \in S : \A j \in S : k <= j
<1> DEFINE Less == OpToRel(<, Nat)
<1>1. IsWellFoundedOn(Less, Nat)
  BY NatLessThanWellFounded, Zenon
<1>2. \A j, k \in Nat : j < k => <<j, k>> \in Less
  <2>1. Less = {ss \in Nat \X Nat : ss[1] < ss[2]}
    BY Zenon DEF OpToRel
  <2> HIDE DEF Less
  <2> QED
    BY <2>1
<1> HIDE DEF Less
<1>3. S \subseteq Nat
  OBVIOUS
<1>4. PICK k \in S : \A j \in S : ~(<<j, k>> \in Less)
  <2>1. \A T : T \subseteq Nat /\ T # {} =>
                 \E k \in T : \A j \in T : ~(<<j, k>> \in Less)
    <3> SUFFICES ASSUME NEW T, T \subseteq Nat, T # {}
                 PROVE  \E k \in T : \A j \in T : ~(<<j, k>> \in Less)
      OBVIOUS
    <3> QED
      BY <1>1, WFMin
  <2> QED
    BY <1>3, <2>1
<1>5. ASSUME NEW j \in S PROVE k <= j
  <2>1. ~(j < k) /\ j \in Nat /\ k \in Nat
    BY <1>2, <1>3, <1>4
  <2> QED
    BY <2>1
<1> QED
  BY <1>5

\* A set that holds 0 and with each number the next holds them all.
LEMMA CountingUp ==
    ASSUME NEW T, 0 \in T, \A n \in Nat : n \in T => n + 1 \in T
    PROVE  Nat \subseteq T
<1> SUFFICES ASSUME Nat \ T # {} PROVE FALSE
  OBVIOUS
<1>1. PICK k \in Nat \ T : \A j \in Nat \ T : k <= j
  <2>1. Nat \ T \in SUBSET Nat
    OBVIOUS
  <2> QED
    BY <2>1, LeastNumber
<1>2. k \in Nat /\ k # 0
  BY <1>1
<1>3. k - 1 \in Nat /\ ~(k <= k - 1) /\ (k - 1) + 1 = k
  BY <1>2
<1> QED
  BY <1>1, <1>3

\* What holds of the empty set, and goes on to hold when an element of S is
\* added, holds of every part of S.
LEMMA GrowingSets ==
    ASSUME NEW S, IsFiniteSet(S), NEW T,
           {} \in T,
           \A s \in SUBSET S : \A x \in S \ s : s \in T => s \cup {x} \in T
    PROVE  \A s \in SUBSET S : s \in T
<1> DEFINE N == {n \in Nat : \A s \in SUBSET S : Cardinality(s) = n => s \in T}
<1>1. \A s \in SUBSET S : IsFiniteSet(s) /\ Cardinality(s) \in Nat
  BY FS_Subset, FS_CardinalityType
<1>2. 0 \in N
  BY <1>1, FS_EmptySet
<1>3. ASSUME NEW n \in Nat, n \in N PROVE n + 1 \in N
  <2> SUFFICES ASSUME NEW s \in SUBSET S, Cardinality(s) = n + 1 PROVE s \in T
    BY <1>3
  <2>1. IsFiniteSet(s) /\ s # {}
    BY <1>1, FS_EmptySet
  <2>2. PICK x \in s : TRUE
    BY <2>1
  <2>3. Cardinality(s \ {x}) = n
    <3>1. Cardinality(s \ {x}) = Cardinality(s) - 1
      BY <2>1, <2>2, FS_RemoveElement
    <3> QED
      BY <3>1
  <2>4. s \ {x} \in SUBSET S /\ x \in S \ (s \ {x}) /\ (s \ {x}) \cup {x} = s
    BY <2>2
  <2>5. \A r \in SUBSET S : Cardinality(r) = n => r \in T
    BY <1>3
  <2>6. s \ {x} \in T
    BY <2>3, <2>4, <2>5
  <2> QED
    BY <2>4, <2>6
<1>4. Nat \subseteq N
  <2> HIDE DEF N
  <2> QED
    BY <1>2, <1>3, CountingUp
<1> QED
  BY <1>1, <1>4

\* A finite set of numbers has a greatest one.
LEMMA GreatestNumber ==
    ASSUME NEW S \in SUBSET Int, IsFiniteSet(S), S # {}
    PROVE  \E m \in S : \A j \in S : j <= m
<1> DEFINE T == {s \in SUBSET S : s = {} \/ \E m \in s : \A j \in s : j <= m}
<1>1. ASSUME NEW s \in SUBSET S, NEW x \in S \ s, s \in T PROVE s \cup {x} \in T
  <2>1. CASE s = {}
    BY <2>1
  <2>2. ASSUME NEW m \in s, \A j \in s : j <= m PROVE s \cup {x} \in T
    <3>1. CASE x <= m
      BY <2>2, <3>1
    <3>2. CASE m <= x
      <4>1. \A j \in s : j <= x
        BY <2>2, <3>2
      <4> QED
        BY <4>1
    <3> QED
      BY <2>2, <3>1, <3>2
  <2> QED
    BY <1>1, <2>1, <2>2
<1>2. \A s \in SUBSET S : s \in T
  <2>1. {} \in T
    OBVIOUS
  <2> HIDE DEF T
  <2> QED
    BY <1>1, <2>1, GrowingSets
<1> QED
  BY <1>2

-----------------------------------------------------------------------------
(* Sums.                                                                   *)

Pick(s) == CHOOSE x \in s : TRUE

\* The value a fold of F has for s, when g has it for smaller sets.
OnePick(F, g, s) == IF s = {} THEN 0 ELSE F[Pick(s)] + g[s \ {Pick(s)}]

IsPartSum(F, g) == g = [s \in SUBSET DOMAIN F |-> OnePick(F, g, s)]

PartSum(F) == CHOOSE g : IsPartSum(F, g)

LEMMA SumIsPartSum == ASSUME NEW F PROVE SumFunction(F) = PartSum(F)[DOMAIN F]
  BY DEF SumFunction, SumFunctionOnSet, FoldFunctionOnSet, MapThenFoldSet, PartSum, IsPartSum, OnePick, Pick

LEMMA PickOfSet == ASSUME NEW s, s # {} PROVE Pick(s) \in s
  BY DEF Pick

\* The recursive definition has a solution.
LEMMA PartSumExists ==
    ASSUME NEW F, IsFiniteSet(DOMAIN F)
    PROVE  IsPartSum(F, PartSum(F))
<1> DEFINE D == DOMAIN F
           Small(n) == {s \in SUBSET D : Cardinality(s) <= n}
           N == {n \in Nat : \E g : g = [s \in Small(n) |-> OnePick(F, g, s)]}
<1>1. \A s \in SUBSET D : IsFiniteSet(s) /\ Cardinality(s) \in Nat /\ Cardinality(s) <= Cardinality(D)
  BY FS_Subset, FS_CardinalityType
<1>2. 0 \in N
  <2>1. Small(0) = {{}}
    BY <1>1, FS_EmptySet
  <2>2. \A g : [s \in Small(0) |-> OnePick(F, g, s)] = [s \in {{}} |-> 0]
    BY <2>1 DEF OnePick
  <2> QED
    BY <2>2
<1>3. ASSUME NEW n \in Nat, n \in N PROVE n + 1 \in N
  <2>1. PICK g : g = [s \in Small(n) |-> OnePick(F, g, s)]
    BY <1>3
  <2> DEFINE h == [s \in Small(n + 1) |-> OnePick(F, g, s)]
  <2>2. ASSUME NEW s \in Small(n + 1) PROVE OnePick(F, g, s) = OnePick(F, h, s)
    <3>1. CASE s = {}
      BY <3>1 DEF OnePick
    <3>2. CASE s # {}
      <4> DEFINE t == s \ {Pick(s)}
      <4>1. t \in SUBSET D /\ Cardinality(t) = Cardinality(s) - 1
        BY <1>1, <3>2, PickOfSet, FS_RemoveElement
      <4>2. t \in Small(n) /\ t \in Small(n + 1)
        BY <1>1, <4>1
      <4>3. h[t] = OnePick(F, g, t) /\ g[t] = OnePick(F, g, t)
        <5> HIDE DEF t, Small
        <5> QED
        BY <2>1, <4>2
      <4> QED
        BY <3>2, <4>3 DEF OnePick
    <3> QED
      BY <3>1, <3>2
  <2>3. h = [s \in Small(n + 1) |-> OnePick(F, h, s)]
    <3> HIDE DEF Small
    <3>1. h = [s \in Small(n + 1) |-> OnePick(F, g, s)]
      OBVIOUS
    <3> HIDE DEF h
    <3> QED
      BY <2>2, <3>1
  <2>4. \E k : k = [s \in Small(n + 1) |-> OnePick(F, k, s)]
    <3> HIDE DEF h, Small
    <3> QED
      BY <2>3
  <2> QED
    BY <2>4
<1>4. Nat \subseteq N
  <2> HIDE DEF N
  <2> QED
    BY <1>2, <1>3, CountingUp
<1>5. Cardinality(D) \in N /\ Small(Cardinality(D)) = SUBSET D
  BY <1>1, <1>4, FS_CardinalityType
<1>6. \E g : IsPartSum(F, g)
  BY <1>5 DEF IsPartSum
<1> QED
  BY <1>6 DEF PartSum

\* So the sum of a part is that of the rest and the element that is chosen.
LEMMA PartSumPicks ==
    ASSUME NEW F, IsFiniteSet(DOMAIN F), NEW s \in SUBSET DOMAIN F
    PROVE  PartSum(F)[s] = IF s = {} THEN 0 ELSE F[Pick(s)] + PartSum(F)[s \ {Pick(s)}]
<1>1. PartSum(F) = [r \in SUBSET DOMAIN F |-> OnePick(F, PartSum(F), r)]
  BY PartSumExists DEF IsPartSum
<1> QED
  BY <1>1 DEF OnePick

\* The elements may be taken in any order.
LEMMA PartSumAnyOrder ==
    ASSUME NEW D, IsFiniteSet(D), NEW F \in [D -> Int], NEW part \in SUBSET D
    PROVE  /\ PartSum(F)[part] \in Int
           /\ \A x \in part : PartSum(F)[part] = F[x] + PartSum(F)[part \ {x}]
<1> DEFINE f == PartSum(F)
           Fine(s) == f[s] \in Int /\ \A x \in s : f[s] = F[x] + f[s \ {x}]
           N == {n \in Nat : \A s \in SUBSET D : Cardinality(s) <= n => Fine(s)}
<1>1. \A s \in SUBSET D :
         /\ IsFiniteSet(s) /\ Cardinality(s) \in Nat
         /\ \A x \in s : Cardinality(s \ {x}) = Cardinality(s) - 1
  BY FS_Subset, FS_CardinalityType, FS_RemoveElement
<1>2. \A s \in SUBSET D : f[s] = IF s = {} THEN 0 ELSE F[Pick(s)] + f[s \ {Pick(s)}]
  BY PartSumPicks
<1> HIDE DEF f
<1>0. Fine({})
  BY <1>2
<1>3. 0 \in N
  <2>1. ASSUME NEW s \in SUBSET D, Cardinality(s) <= 0 PROVE s = {}
    BY <1>1, <2>1, FS_EmptySet
  <2> QED
    BY <1>0, <2>1
<1>4. ASSUME NEW n \in Nat, n \in N PROVE n + 1 \in N
  <2> SUFFICES ASSUME NEW s \in SUBSET D, Cardinality(s) <= n + 1, s # {} PROVE Fine(s)
    <3> HIDE DEF Fine
    <3> QED
      BY <1>0
  <2> DEFINE c == Pick(s)
  <2>1. c \in s /\ c \in D /\ f[s] = F[c] + f[s \ {c}]
    BY <1>2, PickOfSet
  <2> HIDE DEF c
  <2>2. ASSUME NEW r \in SUBSET s, r # s PROVE Fine(r)
    <3>1. PICK x \in s : x \notin r
      BY <2>2
    <3>2. Cardinality(s \ {x}) <= n
      BY <1>1, <3>1
    <3>3. Cardinality(r) <= Cardinality(s \ {x})
      <4>1. r \subseteq s \ {x} /\ IsFiniteSet(s \ {x})
        BY <1>1, <3>1
      <4> QED
        BY <4>1, FS_Subset
    <3>4. r \in SUBSET D /\ Cardinality(r) <= n
      BY <1>1, <3>2, <3>3
    <3>5. \A t \in SUBSET D : Cardinality(t) <= n => Fine(t)
      BY <1>4
    <3> HIDE DEF Fine
    <3> QED
      BY <3>4, <3>5
  <2>3. ASSUME NEW x \in s PROVE f[s] = F[x] + f[s \ {x}]
    <3>1. CASE x = c
      BY <2>1, <3>1
    <3>2. CASE x # c
      <4> DEFINE r == (s \ {x}) \ {c}
      <4>1. (s \ {c}) \ {x} = r
        OBVIOUS
      <4>2. f[s \ {c}] = F[x] + f[r]
        BY <2>1, <2>2, <3>2, <4>1
      <4>3. f[s \ {x}] = F[c] + f[r]
        BY <2>1, <2>2, <3>2
      <4>4. f[r] \in Int
        BY <2>1, <2>2
      <4>5. F[x] \in Int /\ F[c] \in Int
        BY <2>1
      <4> HIDE DEF r
      <4> QED
        BY <2>1, <4>2, <4>3, <4>4, <4>5
    <3> QED
      BY <3>1, <3>2
  <2>4. f[s] \in Int
    <3>1. f[s \ {c}] \in Int /\ F[c] \in Int
      BY <2>1, <2>2
    <3> QED
      BY <2>1, <3>1
  <2> QED
    BY <2>3, <2>4
<1>5. Nat \subseteq N
  <2> HIDE DEF N
  <2> QED
    BY <1>3, <1>4, CountingUp
<1> QED
  <2> SUFFICES Fine(part)
    BY DEF f
  <2>1. Cardinality(part) \in N /\ Cardinality(part) <= Cardinality(part)
    BY <1>1, <1>5
  <2> QED
    BY <2>1

LEMMA PartSumTakes ==
    ASSUME NEW D, IsFiniteSet(D), NEW F \in [D -> Int], NEW part \in SUBSET D, NEW x \in part
    PROVE  PartSum(F)[part] = F[x] + PartSum(F)[part \ {x}]
<1> DEFINE g == PartSum(F)
<1>1. \A y \in part : g[part] = F[y] + g[part \ {y}]
  BY PartSumAnyOrder
<1> HIDE DEF g
<1>2. g[part] = F[x] + g[part \ {x}]
  BY <1>1
<1> QED
  BY <1>2 DEF g

\* The fold of a part is the sum of the part.
LEMMA PartSumIsSum ==
    ASSUME NEW D, IsFiniteSet(D), NEW F \in [D -> Int], NEW S \in SUBSET D
    PROVE  PartSum(F)[S] = SumFunction([x \in S |-> F[x]])
<1> DEFINE G == [x \in S |-> F[x]]
           T == {s \in SUBSET S : PartSum(F)[s] = PartSum(G)[s]}
<1>1. G \in [S -> Int] /\ IsFiniteSet(S)
  BY FS_Subset
<1>2. {} \in T
  <2>1. PartSum(F)[{}] = 0 /\ PartSum(G)[{}] = 0
    BY <1>1, PartSumPicks
  <2> QED
    BY <2>1
<1>3. ASSUME NEW s \in SUBSET S, NEW x \in S \ s, s \in T PROVE s \cup {x} \in T
  <2>1. (s \cup {x}) \ {x} = s /\ s \cup {x} \in SUBSET S /\ s \cup {x} \in SUBSET D
    OBVIOUS
  <2>2. PartSum(F)[s \cup {x}] = F[x] + PartSum(F)[s]
    BY <2>1, PartSumAnyOrder
  <2>3. PartSum(G)[s \cup {x}] = G[x] + PartSum(G)[s]
    <3> HIDE DEF G
    <3>1. PartSum(G)[s \cup {x}] = G[x] + PartSum(G)[(s \cup {x}) \ {x}]
      <4> DEFINE t == s \cup {x}
      <4>1. IsFiniteSet(S) /\ G \in [S -> Int] /\ t \in SUBSET S /\ x \in t
        BY <1>1, <2>1
      <4> HIDE DEF G, t
      <4>2. PartSum(G)[t] = G[x] + PartSum(G)[t \ {x}]
        BY <4>1, PartSumTakes
      <4> QED
        BY <4>2 DEF t
    <3> QED
      BY <2>1, <3>1
  <2> QED
    BY <1>3, <2>1, <2>2, <2>3
<1>4. S \in T
  <2>1. \A s \in SUBSET S : s \in T
    <3> HIDE DEF T
    <3> QED
      BY <1>1, <1>2, <1>3, GrowingSets
  <2> QED
    BY <2>1
<1> QED
  BY <1>1, <1>4, SumIsPartSum

\* A sum is the sum of the other elements and any one.
LEMMA SumStep ==
    ASSUME NEW D, IsFiniteSet(D), NEW F \in [D -> Int], NEW x \in D
    PROVE  SumFunction(F) = F[x] + SumFunction([y \in D \ {x} |-> F[y]])
<1>1. SumFunction(F) = PartSum(F)[D]
  BY SumIsPartSum
<1>2. PartSum(F)[D] = F[x] + PartSum(F)[D \ {x}]
  <2>1. IsFiniteSet(D) /\ F \in [D -> Int] /\ D \in SUBSET D /\ x \in D
    OBVIOUS
  <2> QED
    BY <2>1, PartSumTakes
<1> QED
  BY <1>1, <1>2, PartSumIsSum

LEMMA SumIsInt ==
    ASSUME NEW D, IsFiniteSet(D), NEW F \in [D -> Int]
    PROVE  SumFunction(F) \in Int
<1>1. SumFunction(F) = PartSum(F)[D]
  BY SumIsPartSum
<1> QED
  BY <1>1, PartSumAnyOrder

LEMMA SumOfNothing == ASSUME NEW F, DOMAIN F = {} PROVE SumFunction(F) = 0
<1>1. SumFunction(F) = PartSum(F)[{}]
  BY SumIsPartSum
<1> QED
  BY <1>1, PartSumPicks, FS_EmptySet

\* Sums of amounts are amounts, and a smaller part has a smaller sum.
LEMMA PartSumGrows ==
    ASSUME NEW D, IsFiniteSet(D), NEW F \in [D -> Nat], NEW part \in SUBSET D
    PROVE  /\ PartSum(F)[part] \in Nat
           /\ \A r \in SUBSET part : PartSum(F)[r] <= PartSum(F)[part]
<1> DEFINE f == PartSum(F)
           Fine(s) == f[s] \in Nat /\ \A r \in SUBSET s : f[r] <= f[s]
           T == {s \in SUBSET D : Fine(s)}
<1>1. F \in [D -> Int]
  OBVIOUS
<1>2. \A s \in SUBSET D : \A x \in s : f[s] = F[x] + f[s \ {x}]
  <2> SUFFICES ASSUME NEW s \in SUBSET D, NEW x \in s PROVE f[s] = F[x] + f[s \ {x}]
    OBVIOUS
  <2> QED
    BY <1>1, PartSumTakes
<1>3. f[{}] = 0
  BY PartSumPicks
<1> HIDE DEF f
<1>4. {} \in T
  BY <1>3
<1>5. ASSUME NEW s \in SUBSET D, NEW x \in D \ s, s \in T PROVE s \cup {x} \in T
  <2>1. f[s] \in Nat /\ \A r \in SUBSET s : f[r] \in Int /\ f[r] <= f[s]
    <3>1. ASSUME NEW r \in SUBSET s PROVE f[r] \in Int
      <4>1. r \in SUBSET D
        OBVIOUS
      <4> QED
        BY <1>1, <4>1, PartSumAnyOrder DEF f
    <3> QED
      BY <1>5, <3>1
  <2> DEFINE t == s \cup {x}
  <2>2. f[t] = F[x] + f[s] /\ F[x] \in Nat
    <3>1. t \ {x} = s /\ x \in t /\ t \in SUBSET D
      OBVIOUS
    <3> HIDE DEF t
    <3> QED
      BY <1>2, <3>1
  <2>3. ASSUME NEW r \in SUBSET t PROVE f[r] <= f[t]
    <3>1. CASE x \in r
      <4>1. r \ {x} \in SUBSET s /\ r \in SUBSET D
        OBVIOUS
      <4>2. f[r] = F[x] + f[r \ {x}]
        BY <1>2, <3>1, <4>1
      <4>3. f[r \ {x}] \in Int /\ f[r \ {x}] <= f[s]
        BY <2>1, <4>1
      <4> HIDE DEF t
      <4> QED
        BY <2>1, <2>2, <4>2, <4>3
    <3>2. CASE x \notin r
      <4>1. r \in SUBSET s
        BY <3>2
      <4>2. f[r] \in Int /\ f[r] <= f[s]
        BY <2>1, <4>1
      <4> HIDE DEF t
      <4> QED
        BY <2>1, <2>2, <4>2
    <3> QED
      BY <3>1, <3>2
  <2>4. f[t] \in Nat
    <3> HIDE DEF t
    <3> QED
      BY <2>1, <2>2
  <2> QED
    BY <2>3, <2>4
<1>6. \A s \in SUBSET D : s \in T
  <2> HIDE DEF T
  <2> QED
    BY <1>4, <1>5, GrowingSets
<1> QED
  BY <1>6 DEF f

LEMMA SumIsNat ==
    ASSUME NEW D, IsFiniteSet(D), NEW F \in [D -> Nat]
    PROVE  SumFunction(F) \in Nat
<1>1. SumFunction(F) = PartSum(F)[D] /\ D \in SUBSET D
  BY SumIsPartSum
<1> QED
  BY <1>1, PartSumGrows

\* When each addend of one sum has an addend of its own in the other that is no
\* smaller, the one is not more than the other.
LEMMA SumCovered ==
    ASSUME NEW A, IsFiniteSet(A), NEW F \in [A -> Nat],
           NEW B, IsFiniteSet(B), NEW G \in [B -> Nat],
           NEW h \in [A -> B],
           \A x, y \in A : h[x] = h[y] => x = y,
           \A x \in A : F[x] <= G[h[x]]
    PROVE  SumFunction(F) <= SumFunction(G)
<1> DEFINE f == PartSum(F)
           g == PartSum(G)
           image(s) == {h[x] : x \in s}
           T == {s \in SUBSET A : f[s] <= g[image(s)]}
<1>1. F \in [A -> Int] /\ G \in [B -> Int]
  OBVIOUS
<1>2. {} \in T
  <2>1. f[{}] = 0 /\ g[{}] = 0 /\ image({}) = {}
    BY PartSumPicks
  <2> HIDE DEF f, g
  <2> QED
    BY <2>1
<1>3. ASSUME NEW s \in SUBSET A, NEW x \in A \ s, s \in T PROVE s \cup {x} \in T
  <2> DEFINE t == s \cup {x}
             u == image(t)
  <2>1. t \in SUBSET A /\ x \in t /\ t \ {x} = s
    OBVIOUS
  <2>2. u \in SUBSET B /\ h[x] \in u /\ image(s) \in SUBSET B /\ u \ {h[x]} = image(s)
    OBVIOUS
  <2>3. f[t] = F[x] + f[s] /\ f[s] \in Int
    <3> HIDE DEF t
    <3>1. PartSum(F)[t] = F[x] + PartSum(F)[t \ {x}]
      BY <1>1, <2>1, PartSumTakes
    <3> QED
      BY <1>1, <2>1, <3>1, PartSumAnyOrder
  <2>4. g[u] = G[h[x]] + g[image(s)] /\ g[image(s)] \in Int
    <3> HIDE DEF u, image
    <3>1. PartSum(G)[u] = G[h[x]] + PartSum(G)[u \ {h[x]}]
      BY <1>1, <2>2, PartSumTakes
    <3> QED
      BY <1>1, <2>2, <3>1, PartSumAnyOrder
  <2>5. f[s] <= g[image(s)]
    BY <1>3
  <2>6. F[x] \in Int /\ G[h[x]] \in Int /\ F[x] <= G[h[x]]
    OBVIOUS
  <2>7. f[t] <= g[u]
    <3> HIDE DEF f, g, image, t, u
    <3> QED
      BY <2>3, <2>4, <2>5, <2>6
  <2> QED
    BY <2>1, <2>7
<1>4. \A s \in SUBSET A : s \in T
  <2> HIDE DEF T
  <2> QED
    BY <1>2, <1>3, GrowingSets
<1>5. f[A] <= g[image(A)]
  BY <1>4
<1>6. g[image(A)] <= g[B] /\ g[image(A)] \in Int /\ g[B] \in Int
  <2>1. image(A) \in SUBSET B /\ B \in SUBSET B
    OBVIOUS
  <2> HIDE DEF image
  <2> QED
    BY <1>1, <2>1, PartSumGrows, PartSumAnyOrder
<1>7. SumFunction(F) = f[A] /\ SumFunction(G) = g[B] /\ f[A] \in Int
  <2>1. A \in SUBSET A
    OBVIOUS
  <2> QED
    BY <1>1, <2>1, SumIsPartSum, PartSumAnyOrder
<1> HIDE DEF f, g, image
<1> QED
  BY <1>5, <1>6, <1>7

-----------------------------------------------------------------------------
(* Rounding.                                                               *)

\* A quotient is at most the fraction.
LEMMA QuotientBounds ==
    ASSUME NEW a \in Nat, NEW b \in Nat \ {0}
    PROVE  a \div b \in Nat /\ b * (a \div b) <= a
  OBVIOUS

\* What rounds to more than k is more than k.
LEMMA HalfUpExceeds ==
    ASSUME NEW p \in Nat, NEW n \in Nat \ {0}, NEW k \in Nat, HalfUp(p, n) > k
    PROVE  p > n * k
<1> DEFINE q == (2 * p + n) \div (2 * n)
<1>1. 2 * n \in Nat \ {0} /\ 2 * p + n \in Nat
  OBVIOUS
<1>2. q \in Nat /\ (2 * n) * q <= 2 * p + n
  BY <1>1, QuotientBounds
<1>3. q >= k + 1
  BY <1>2 DEF HalfUp
<1> HIDE DEF q
<1>4. n * q \in Nat /\ n * k \in Nat /\ (2 * n) * q = 2 * (n * q)
  BY <1>2
<1>5. n * q >= n * k + n
  <2>1. q - (k + 1) \in Nat
    BY <1>2, <1>3
  <2>2. n * (q - (k + 1)) \in Nat
    BY <2>1
  <2>3. n * (q - (k + 1)) = n * q - (n * k + n)
    BY <1>2
  <2> QED
    BY <1>4, <2>2, <2>3
<1> QED
  BY <1>2, <1>4, <1>5

-----------------------------------------------------------------------------
(* The fee.                                                                *)

\* A loop that may stop at all stops at the first turn it may.
LEMMA FirstTurnLeast ==
    ASSUME NEW S \in SUBSET Nat, S # {}
    PROVE  FirstTurn(S) \in S /\ \A j \in S : FirstTurn(S) <= j
<1>1. PICK k \in S : \A j \in S : k <= j
  BY LeastNumber
<1> QED
  BY <1>1 DEF FirstTurn

\* Each cent the seller gets costs the buyer at least one.
LEMMA FeeMonotone ==
    ASSUME NEW m \in Nat, NEW n \in Nat, m <= n
    PROVE  Fee(m) \in Nat /\ Fee(n) \in Nat /\ Fee(m) >= 2 /\ m + Fee(m) <= n + Fee(n)
<1>1. /\ (m * 5) \div 100 \in Nat /\ (n * 5) \div 100 \in Nat
      /\ (m * 10) \div 100 \in Nat /\ (n * 10) \div 100 \in Nat
  OBVIOUS
<1>2. (m * 5) \div 100 <= (n * 5) \div 100 /\ (m * 10) \div 100 <= (n * 10) \div 100
  OBVIOUS
<1> QED
  BY <1>1, <1>2 DEF Fee, Larger

LEMMA LoweredBounds ==
    ASSUME NEW buyer \in Nat
    PROVE  /\ Lowered(buyer) \in Nat \ {0}
           /\ Lowered(buyer) = 1 \/ Lowered(buyer) + Fee(Lowered(buyer)) <= buyer
<1> DEFINE seed == Seed(buyer)
           T == {k \in 0..seed : seed - k <= 1 \/ seed - k + Fee(seed - k) <= buyer}
           k0 == FirstTurn(T)
<1>1. seed \in Nat \ {0}
  BY DEF Seed, Larger
<1> HIDE DEF seed
<1>2. seed - 1 \in T /\ T \subseteq Nat
  BY <1>1
<1>3. k0 \in T /\ k0 <= seed - 1
  BY <1>2, FirstTurnLeast
<1>4. Lowered(buyer) = seed - k0
  BY DEF Lowered, seed
<1> HIDE DEF k0
<1> QED
  BY <1>1, <1>3, <1>4

LEMMA RaisedBounds ==
    ASSUME NEW buyer \in Nat
    PROVE  /\ Raised(buyer) \in Nat \ {0}
           /\ Raised(buyer) + 1 + Fee(Raised(buyer) + 1) > buyer
           /\ \/ Raised(buyer) = Lowered(buyer)
              \/ Raised(buyer) + Fee(Raised(buyer)) <= buyer
<1> DEFINE net == Lowered(buyer)
           T == {k \in 0..buyer : net + k + Fee(net + k + 1) + 1 > buyer}
           k0 == FirstTurn(T)
<1>1. net \in Nat \ {0}
  BY LoweredBounds
<1> HIDE DEF net
<1>2. buyer \in T /\ T \subseteq Nat
  BY <1>1, FeeMonotone
<1>3. k0 \in T /\ \A j \in T : k0 <= j
  BY <1>2, FirstTurnLeast
<1>4. Raised(buyer) = net + k0
  BY DEF Raised, net
<1> HIDE DEF k0
<1>5. k0 \in 0..buyer /\ net + k0 + Fee(net + k0 + 1) + 1 > buyer
  BY <1>3
<1>6. CASE k0 = 0
  BY <1>1, <1>4, <1>5, <1>6, FeeMonotone DEF net
<1>7. CASE k0 # 0
  <2>1. k0 - 1 \in 0..buyer /\ k0 - 1 \notin T
    BY <1>3, <1>5, <1>7
  <2>2. ~(net + (k0 - 1) + Fee(net + (k0 - 1) + 1) + 1 > buyer)
    BY <2>1
  <2>3. net + (k0 - 1) + 1 = net + k0
    BY <1>1, <1>5
  <2>4. Fee(net + k0) \in Nat
    BY <1>1, <1>5, FeeMonotone
  <2>5. net + k0 + Fee(net + k0) <= buyer
    BY <1>1, <1>5, <2>2, <2>3, <2>4
  <2> QED
    BY <1>1, <1>4, <1>5, <2>5, FeeMonotone
<1> QED
  BY <1>6, <1>7, <1>5

\* From an estimate that is wrong either way, the two correction loops arrive
\* at exactly what Steam's rule leaves the seller, for every price: no more
\* than fits, and not a cent less (gem_economy.py:77-98).
THEOREM NetIsExact ==
    ASSUME NEW buyer \in Nat
    PROVE  /\ SellerNet(buyer) = NetOf(buyer)
           /\ SellerNet(buyer) > 0 => SellerNet(buyer) + Fee(SellerNet(buyer)) <= buyer
           /\ SellerNet(buyer) \in Nat
<1> DEFINE r == Raised(buyer)
           fits == {0} \cup {n \in 1..buyer : n + Fee(n) <= buyer}
<1>1. r \in Nat \ {0} /\ r + 1 + Fee(r + 1) > buyer /\ Fee(r) \in Nat /\ Fee(r) >= 2
  BY RaisedBounds, FeeMonotone
<1>2. r = Lowered(buyer) \/ r + Fee(r) <= buyer
  BY RaisedBounds
<1>3. r = 1 \/ r + Fee(r) <= buyer
  BY <1>2, LoweredBounds
<1>4. ASSUME NEW n \in fits PROVE n <= r
  <2>1. CASE n >= r + 1
    <3>1. n \in Nat /\ n + Fee(n) <= buyer
      BY <1>1, <2>1
    <3>2. r + 1 + Fee(r + 1) <= n + Fee(n)
      BY <1>1, <2>1, <3>1, FeeMonotone
    <3> QED
      BY <1>1, <3>1, <3>2, FeeMonotone
  <2> QED
    BY <1>1, <2>1
<1> HIDE DEF r
<1>5. CASE r + Fee(r) <= buyer
  <2>1. r \in fits /\ buyer >= MinListing
    BY <1>1, <1>5 DEF MinListing
  <2>2. SellerNet(buyer) = r
    BY <1>1, <1>5, <2>1 DEF SellerNet, MinListing, r
  <2>3. NetOf(buyer) = r
    <3>1. \A m \in fits : m \in Nat
      OBVIOUS
    <3> HIDE DEF fits
    <3>2. \A n \in fits : (\A m \in fits : m <= n) => n = r
      BY <1>1, <1>4, <2>1, <3>1
    <3>3. (CHOOSE n \in fits : \A m \in fits : m <= n) = r
      BY <1>4, <2>1, <3>2
    <3> QED
      BY <3>3 DEF NetOf, fits
  <2> QED
    BY <1>1, <1>5, <2>2, <2>3
<1>6. CASE ~(r + Fee(r) <= buyer)
  <2>1. SellerNet(buyer) = 0
    BY <1>1, <1>6 DEF SellerNet, r
  <2>2. fits = {0}
    <3>1. ASSUME NEW n \in 1..buyer, n + Fee(n) <= buyer PROVE FALSE
      <4>1. r <= n /\ r = 1
        BY <1>1, <1>3, <1>6
      <4>2. r + Fee(r) <= n + Fee(n) /\ Fee(n) \in Nat
        BY <1>1, <4>1, FeeMonotone
      <4> QED
        BY <1>1, <1>6, <3>1, <4>2
    <3> QED
      BY <3>1
  <2>3. NetOf(buyer) = 0
    BY <2>2 DEF NetOf
  <2> QED
    BY <2>1, <2>3
<1> QED
  BY <1>5, <1>6

=============================================================================
