--------------------------- MODULE GreedyProofs ---------------------------
(***************************************************************************)
(* The plan of build_plan, proved for every cost report, budget and XP     *)
(* target: it keeps its budget and uses it up, leaves nothing cheaper      *)
(* unlooked at, buys nothing it no longer needs, and is less than one      *)
(* badge behind the best selection.                                        *)
(***************************************************************************)
EXTENDS PlanQuality, AmountProofs, SequenceTheorems

\* The loop has looked at the badges before next: each is in the plan, or was
\* turned away when it did not fit, and money is never given back.
LoopInv ==
    /\ {ranked[i] : i \in DOMAIN ranked} = Rankable
    /\ Sorted(ranked)
    /\ \A i \in 1..(next - 1) : ranked[i] \in ChosenSet \cup skipped
    /\ \A c \in ChosenSet : \E i \in 1..(next - 1) : c = ranked[i]
    /\ \A b \in skipped : budget # None /\ total + cost[b] > budget
    /\ budget # None => total <= budget
    /\ finished => next > Len(ranked) \/ TargetMet

PlanInv == TypeOK /\ LoopInv /\ LastPurchaseNeeded

\* The inputs of a call, which no step changes.
LEMMA InputIsFixed ==
    ASSUME Next
    PROVE  /\ UNCHANGED input
           /\ Rankable' = Rankable
           /\ \A b \in Rankable : Xp(b)' = Xp(b)
           /\ \A a, b \in Rankable : NotDearer(a, b)' = NotDearer(a, b)
           /\ Sorted(ranked) => Sorted(ranked)'
<1>1. UNCHANGED input
  BY DEF Next, Take, Skip, Finish
<1>2. /\ cost' = cost /\ crafts' = crafts /\ complete' = complete
      /\ ranked' = ranked
  BY <1>1 DEF input
<1> QED
  BY <1>1, <1>2 DEF Rankable, Xp, NotDearer, Sorted

LEMMA InitPlan == ASSUME Init PROVE PlanInv
<1>1. Rankable \subseteq Badges
  BY DEF Rankable
<1>2. Cardinality(Rankable) \in Nat
  BY <1>1, PlannerAssumption, FS_Subset, FS_CardinalityType
<1>3. /\ ranked \in [1..Cardinality(Rankable) -> Rankable]
      /\ {ranked[i] : i \in 1..Cardinality(Rankable)} = Rankable
      /\ Sorted(ranked)
  BY DEF Init, Enumerations
<1>4. /\ ranked \in Seq(Rankable)
      /\ DOMAIN ranked = 1..Cardinality(Rankable)
      /\ Len(ranked) = Cardinality(Rankable)
  BY <1>2, <1>3
<1>5. ChosenSet = {}
  BY DEF Init, ChosenSet
<1>6. TypeOK
  <2>1. /\ cost \in [Badges -> Nat] /\ crafts \in [Badges -> Nat]
        /\ complete \in [Badges -> BOOLEAN]
        /\ budget \in Nat \cup {None} /\ target \in Nat \cup {None}
    BY PlannerAssumption DEF Init
  <2>2. next \in 1..(Len(ranked) + 1)
    BY <1>2, <1>4 DEF Init
  <2>3. chosen = <<>> /\ skipped = {} /\ total = 0 /\ xp = 0 /\ finished = FALSE
    BY DEF Init
  <2>4. chosen \in Seq(Rankable) /\ Len(chosen) = 0
    BY <2>3, EmptySeq
  <2>5. finished \in BOOLEAN /\ skipped \subseteq Rankable
    BY <2>3
  <2>6. total \in Nat /\ xp \in Nat /\ xp >= XpPerCraft * Len(chosen)
    BY <2>3, <2>4 DEF XpPerCraft
  <2> QED
    BY <1>4, <2>1, <2>2, <2>4, <2>5, <2>6 DEF TypeOK
<1>7. LoopInv
  <2>1. next - 1 = 0 /\ skipped = {} /\ finished = FALSE /\ total = 0
    BY DEF Init
  <2>2. budget # None => budget \in Nat
    BY PlannerAssumption DEF Init
  <2> QED
    BY <1>3, <1>4, <1>5, <2>1, <2>2 DEF LoopInv
<1>8. LastPurchaseNeeded
  BY DEF Init, LastPurchaseNeeded
<1> QED
  BY <1>6, <1>7, <1>8 DEF PlanInv

\* The badge the loop looks at is a complete one with a craft left.
LEMMA HereIsRankable ==
    ASSUME TypeOK, next <= Len(ranked)
    PROVE  /\ next \in 1..Len(ranked)
           /\ Here \in Rankable /\ Here \in Badges
           /\ cost[Here] \in Nat
           /\ Xp(Here) \in Nat /\ Xp(Here) >= XpPerCraft
<1>1. Len(ranked) \in Nat /\ next \in 1..Len(ranked)
  BY LenProperties DEF TypeOK
<1>2. Here \in Rankable
  BY <1>1, LenProperties DEF TypeOK, Here
<1>3. Here \in Badges /\ crafts[Here] \in Nat /\ crafts[Here] > 0 /\ cost[Here] \in Nat
  BY <1>2 DEF Rankable, TypeOK
<1> QED
  BY <1>1, <1>2, <1>3 DEF Xp, XpPerCraft

LEMMA TakeStep == ASSUME PlanInv, Take PROVE PlanInv'
<1> USE DEF PlanInv
<1>1. Next
  BY DEF Next
<1>2. next <= Len(ranked) /\ ~finished /\ ~TargetMet
  BY DEF Take, Looking
<1> DEFINE b == Here
<1>3. /\ next \in 1..Len(ranked)
      /\ b \in Rankable /\ b \in Badges /\ cost[b] \in Nat
      /\ Xp(b) \in Nat /\ Xp(b) >= XpPerCraft
  BY <1>2, HereIsRankable
<1>4. b = ranked[next]
  BY DEF Here
<1> HIDE DEF b
<1>5. /\ chosen' = Append(chosen, b) /\ next' = next + 1
      /\ total' = total + cost[b] /\ xp' = xp + Xp(b)
      /\ skipped' = skipped /\ finished' = finished
      /\ budget = None \/ total + cost[b] <= budget
  BY DEF Take, Fits, b
<1>6. /\ cost' = cost /\ crafts' = crafts /\ complete' = complete
      /\ budget' = budget /\ target' = target /\ ranked' = ranked
      /\ Rankable' = Rankable
  BY <1>1, InputIsFixed DEF input
<1>7. /\ chosen \in Seq(Rankable) /\ Len(chosen) \in Nat
      /\ chosen' \in Seq(Rankable)
      /\ Len(chosen') = Len(chosen) + 1
      /\ chosen'[Len(chosen')] = b
      /\ \A i \in 1..Len(chosen) : chosen'[i] = chosen[i]
      /\ DOMAIN chosen = 1..Len(chosen) /\ DOMAIN chosen' = 1..(Len(chosen) + 1)
  BY <1>3, <1>5, AppendProperties, LenProperties DEF TypeOK
<1>8. ChosenSet' = ChosenSet \cup {b}
  BY <1>7 DEF ChosenSet
<1>9. TypeOK'
  <2>1. next' \in 1..(Len(ranked') + 1)
    BY <1>3, <1>5, <1>6, LenProperties DEF TypeOK
  <2>2. total' \in Nat /\ xp' \in Nat /\ xp' >= XpPerCraft * Len(chosen')
    <3>1. total \in Nat /\ xp \in Nat /\ xp >= 100 * Len(chosen)
      BY DEF TypeOK, XpPerCraft
    <3>2. total' \in Nat /\ xp' \in Nat
      BY <1>3, <1>5, <3>1
    <3>3. xp + Xp(b) >= 100 * (Len(chosen) + 1)
      <4> HIDE DEF PlanInv
      <4>1. Xp(b) \in Nat /\ Xp(b) >= 100 /\ Len(chosen) \in Nat
        BY <1>3, <1>7 DEF XpPerCraft
      <4> QED
        BY <3>1, <4>1
    <3> QED
      BY <1>5, <1>7, <3>2, <3>3 DEF XpPerCraft
  <2> QED
    BY <1>5, <1>6, <1>7, <2>1, <2>2 DEF TypeOK
<1>10. LoopInv'
  <2>1. {ranked'[i] : i \in DOMAIN ranked'} = Rankable'
    BY <1>6 DEF LoopInv
  <2>2. Sorted(ranked)'
    BY <1>1, InputIsFixed DEF LoopInv
  <2>3. \A i \in 1..(next' - 1) : ranked'[i] \in ChosenSet' \cup skipped'
    BY <1>3, <1>4, <1>5, <1>6, <1>8 DEF LoopInv
  <2>4. \A c \in ChosenSet' : \E i \in 1..(next' - 1) : c = ranked'[i]
    BY <1>3, <1>4, <1>5, <1>6, <1>8 DEF LoopInv
  <2>5. \A s \in skipped' : budget' # None /\ total' + cost'[s] > budget'
    <3> SUFFICES ASSUME NEW s \in skipped
                 PROVE  budget # None /\ (total + cost[b]) + cost[s] > budget
      BY <1>5, <1>6
    <3>1. budget # None /\ total + cost[s] > budget
      BY DEF LoopInv
    <3>2. budget \in Nat /\ total \in Nat /\ cost[s] \in Nat
      BY <3>1 DEF TypeOK, Rankable
    <3> QED
      BY <1>3, <3>1, <3>2
  <2>6. budget' # None => total' <= budget'
    BY <1>5, <1>6
  <2>7. ~finished'
    BY <1>2, <1>5
  <2> QED
    BY <2>1, <2>2, <2>3, <2>4, <2>5, <2>6, <2>7 DEF LoopInv
<1>11. LastPurchaseNeeded'
  <2>1. Xp(chosen[Len(chosen)])' = Xp(b)
    BY <1>6, <1>7 DEF Xp
  <2>2. target # None => xp < target
    BY <1>2 DEF TargetMet, TypeOK
  <2>3. xp' - Xp(b) = xp
    BY <1>3, <1>5 DEF TypeOK
  <2> QED
    BY <1>6, <2>1, <2>2, <2>3 DEF LastPurchaseNeeded
<1> QED
  BY <1>9, <1>10, <1>11

LEMMA SkipStep == ASSUME PlanInv, Skip PROVE PlanInv'
<1> USE DEF PlanInv
<1>1. Next
  BY DEF Next
<1>2. next <= Len(ranked) /\ ~finished
  BY DEF Skip, Looking
<1> DEFINE b == Here
<1>3. next \in 1..Len(ranked) /\ b \in Rankable /\ cost[b] \in Nat
  BY <1>2, HereIsRankable
<1>4. b = ranked[next]
  BY DEF Here
<1> HIDE DEF b
<1>5. /\ skipped' = skipped \cup {b} /\ next' = next + 1
      /\ UNCHANGED <<chosen, total, xp, finished>>
      /\ budget # None /\ ~(total + cost[b] <= budget)
  BY DEF Skip, Fits, b
<1>6. /\ cost' = cost /\ crafts' = crafts /\ complete' = complete
      /\ budget' = budget /\ target' = target /\ ranked' = ranked
      /\ Rankable' = Rankable
  BY <1>1, InputIsFixed DEF input
<1>7. ChosenSet' = ChosenSet
  BY <1>5 DEF ChosenSet
<1>8. TypeOK'
  <2>1. next' \in 1..(Len(ranked') + 1)
    BY <1>3, <1>5, <1>6, LenProperties DEF TypeOK
  <2> QED
    BY <1>3, <1>5, <1>6, <2>1 DEF TypeOK
<1>9. LoopInv'
  <2>1. {ranked'[i] : i \in DOMAIN ranked'} = Rankable'
    BY <1>6 DEF LoopInv
  <2>2. Sorted(ranked)'
    BY <1>1, InputIsFixed DEF LoopInv
  <2>3. \A i \in 1..(next' - 1) : ranked'[i] \in ChosenSet' \cup skipped'
    BY <1>3, <1>4, <1>5, <1>6, <1>7 DEF LoopInv
  <2>4. \A c \in ChosenSet' : \E i \in 1..(next' - 1) : c = ranked'[i]
    BY <1>3, <1>5, <1>6, <1>7 DEF LoopInv
  <2>5. total + cost[b] > budget
    BY <1>3, <1>5 DEF TypeOK
  <2>6. \A s \in skipped' : budget' # None /\ total' + cost'[s] > budget'
    BY <1>5, <1>6, <2>5 DEF LoopInv
  <2>7. (budget' # None => total' <= budget') /\ ~finished'
    BY <1>2, <1>5, <1>6 DEF LoopInv
  <2> QED
    BY <2>1, <2>2, <2>3, <2>4, <2>6, <2>7 DEF LoopInv
<1>10. LastPurchaseNeeded'
  <2>1. Xp(chosen[Len(chosen)])' = Xp(chosen[Len(chosen)])
    BY <1>5, <1>6 DEF Xp
  <2> QED
    BY <1>5, <1>6, <2>1 DEF LastPurchaseNeeded
<1> QED
  BY <1>8, <1>9, <1>10

LEMMA FinishStep == ASSUME PlanInv, Finish PROVE PlanInv'
<1> USE DEF PlanInv
<1>1. /\ UNCHANGED <<cost, crafts, complete, budget, target, ranked>>
      /\ UNCHANGED <<next, chosen, skipped, total, xp>>
      /\ finished' = TRUE
      /\ next > Len(ranked) \/ TargetMet
  BY DEF Finish, input
<1>2. /\ Rankable' = Rankable /\ ChosenSet' = ChosenSet /\ TargetMet' = TargetMet
      /\ Sorted(ranked)' = Sorted(ranked)
      /\ LastPurchaseNeeded' = LastPurchaseNeeded
  BY <1>1 DEF Rankable, ChosenSet, TargetMet, Sorted, NotDearer, Xp, LastPurchaseNeeded
<1>3. TypeOK'
  BY <1>1, <1>2 DEF TypeOK
<1>4. LoopInv'
  BY <1>1, <1>2 DEF LoopInv
<1> QED
  BY <1>2, <1>3, <1>4

LEMMA PlanInvHolds == Spec => []PlanInv
<1>1. PlanInv /\ UNCHANGED vars => PlanInv'
  BY DEF PlanInv, TypeOK, LoopInv, LastPurchaseNeeded, vars, input, Rankable, Xp,
         ChosenSet, TargetMet, Sorted, NotDearer
<1>2. PlanInv /\ Next => PlanInv'
  BY TakeStep, SkipStep, FinishStep DEF Next
<1> QED
  BY InitPlan, <1>1, <1>2, PTL DEF Spec

\* The plan has its type, and each badge in it adds a craft or more.
THEOREM PlanTyping == Spec => []TypeOK
<1> QED
  BY PlanInvHolds, PTL DEF PlanInv

\* A plan never exceeds its budget, and one that ends short of its target holds
\* every complete badge it could still afford (greedy.py:79-88).
THEOREM BudgetIsUsedUp == Spec => []BudgetUsedUp
<1>1. ASSUME PlanInv PROVE BudgetUsedUp
  <2>1. budget # None => total <= budget
    BY <1>1 DEF PlanInv, LoopInv
  <2>2. ASSUME finished, ~TargetMet, NEW b \in Rankable \ ChosenSet
        PROVE  budget # None /\ total + cost[b] > budget
    <3>1. next - 1 = Len(ranked) /\ DOMAIN ranked = 1..Len(ranked)
      BY <1>1, <2>2, LenProperties DEF PlanInv, TypeOK, LoopInv
    <3>2. PICK i \in DOMAIN ranked : b = ranked[i]
      BY <1>1 DEF PlanInv, LoopInv
    <3>3. b \in skipped
      BY <1>1, <2>2, <3>1, <3>2 DEF PlanInv, LoopInv
    <3> QED
      BY <1>1, <3>3 DEF PlanInv, LoopInv
  <2> QED
    BY <2>1, <2>2 DEF BudgetUsedUp
<1> QED
  BY <1>1, PlanInvHolds, PTL

\* No badge the loop has not looked at is cheaper per XP than one in the plan
\* (greedy.py:70-73).
THEOREM CheapestFirst == Spec => []NothingCheaperLeft
<1>1. ASSUME PlanInv PROVE NothingCheaperLeft
  <2> SUFFICES ASSUME NEW c \in ChosenSet, NEW b \in Rankable,
                      b \notin ChosenSet \cup skipped
               PROVE  NotDearer(c, b)
    BY DEF NothingCheaperLeft
  <2>1. /\ Len(ranked) \in Nat /\ DOMAIN ranked = 1..Len(ranked)
        /\ next \in 1..(Len(ranked) + 1)
    BY <1>1, LenProperties DEF PlanInv, TypeOK
  <2>2. PICK i \in 1..(next - 1) : c = ranked[i]
    BY <1>1 DEF PlanInv, LoopInv
  <2>3. PICK j \in 1..Len(ranked) : b = ranked[j]
    BY <1>1, <2>1 DEF PlanInv, LoopInv
  <2>4. j \notin 1..(next - 1)
    BY <1>1, <2>3 DEF PlanInv, LoopInv
  <2>5. i \in 1..Len(ranked) /\ i < j
    BY <2>1, <2>2, <2>3, <2>4
  <2> QED
    BY <1>1, <2>2, <2>3, <2>5 DEF PlanInv, LoopInv, Sorted
<1> QED
  BY <1>1, PlanInvHolds, PTL

\* The target is met by the last purchase, not before it (greedy.py:80-81).
THEOREM NothingBoughtPastTarget == Spec => []LastPurchaseNeeded
<1> QED
  BY PlanInvHolds, PTL DEF PlanInv

\* A plan uses its budget up, keeps it, and stops at its target
\* (greedy.py:79-88).
THEOREM BothLimitsKept == Spec => []LimitsKept
<1>1. BudgetUsedUp /\ LastPurchaseNeeded => LimitsKept
  BY DEF LimitsKept
<1> QED
  BY <1>1, BudgetIsUsedUp, NothingBoughtPastTarget, PTL

-----------------------------------------------------------------------------
(* How good the plan is.                                                   *)

\* The badges of P are no dearer per XP than b, and all others no cheaper.
Pivot(b, P) ==
    /\ \A a \in P : NotDearer(a, b)
    /\ \A a \in Rankable \ P : NotDearer(b, a)

\* The plan is a selection without repetition, and as soon as a badge has been
\* turned away, the plan held all that is cheaper per XP than the first of those.
QualityInv ==
    /\ \A i, j \in DOMAIN ranked : ranked[i] = ranked[j] => i = j
    /\ total = CostOf(ChosenSet) /\ xp = XpOf(ChosenSet)
    /\ skipped # {} =>
           \E b \in skipped, P \in SUBSET ChosenSet : Pivot(b, P) /\ CostOf(P) + cost[b] > budget

\* P has what is at most n / m dear, and all else is at least that.
Parts(R, C, X, n, m, P) ==
    /\ \A a \in P : C[a] * m <= n * X[a]
    /\ \A a \in R \ P : n * X[a] <= C[a] * m

\* Exchanging a selection for the elements before a pivot, where n / m is the
\* pivot's ratio: what is added is no better than the pivot, what is left out no
\* worse.
LEMMA Exchange ==
    ASSUME NEW R, IsFiniteSet(R), NEW C \in [R -> Nat], NEW X \in [R -> Nat],
           NEW n \in Nat, NEW m \in Nat, NEW P \in SUBSET R, NEW S \in SUBSET R,
           Parts(R, C, X, n, m, P)
    PROVE  n * PartSum(X)[S] + m * PartSum(C)[P] <= n * PartSum(X)[P] + m * PartSum(C)[S]
<1> DEFINE px == PartSum(X)
           pc == PartSum(C)
           T == {s \in SUBSET R : n * px[s \cap S] + m * pc[s \cap P] <=
                                      n * px[s \cap P] + m * pc[s \cap S]}
<1>1. ASSUME NEW s \in SUBSET R
      PROVE  px[s] \in Nat /\ pc[s] \in Nat
  BY PartSumGrows
<1>2. ASSUME NEW s \in SUBSET R, NEW x \in R \ s
      PROVE  px[s \cup {x}] = X[x] + px[s] /\ pc[s \cup {x}] = C[x] + pc[s]
  <2>1. s \cup {x} \in SUBSET R /\ x \in s \cup {x} /\ (s \cup {x}) \ {x} = s
    OBVIOUS
  <2>2. X \in [R -> Int] /\ C \in [R -> Int]
    OBVIOUS
  <2> DEFINE t == s \cup {x}
  <2>3. t \in SUBSET R /\ x \in t /\ t \ {x} = s
    BY <2>1
  <2> HIDE DEF t
  <2>4. px[t] = X[x] + px[t \ {x}]
    BY <2>2, <2>3, PartSumTakes
  <2>5. pc[t] = C[x] + pc[t \ {x}]
    BY <2>2, <2>3, PartSumTakes
  <2> QED
    BY <2>3, <2>4, <2>5 DEF t
<1> HIDE DEF px, pc
<1>3. {} \in T
  BY <1>1
<1>4. ASSUME NEW s \in SUBSET R, NEW x \in R \ s, s \in T PROVE s \cup {x} \in T
  <2> DEFINE xs == px[s \cap S]
             xp1 == px[s \cap P]
             cs == pc[s \cap S]
             cp == pc[s \cap P]
  <2>1. xs \in Nat /\ xp1 \in Nat /\ cs \in Nat /\ cp \in Nat /\ X[x] \in Nat /\ C[x] \in Nat
    BY <1>1
  <2>2. n * xs + m * cp <= n * xp1 + m * cs
    BY <1>4
  <2>3. ASSUME NEW Q \in SUBSET R
        PROVE  /\ x \in Q => /\ px[(s \cup {x}) \cap Q] = X[x] + px[s \cap Q]
                             /\ pc[(s \cup {x}) \cap Q] = C[x] + pc[s \cap Q]
               /\ x \notin Q => (s \cup {x}) \cap Q = s \cap Q
    <3>1. CASE x \in Q
      <4>1. (s \cup {x}) \cap Q = (s \cap Q) \cup {x} /\ s \cap Q \in SUBSET R /\ x \in R \ (s \cap Q)
        BY <3>1
      <4> QED
        BY <1>2, <3>1, <4>1
    <3>2. CASE x \notin Q
      BY <3>2
    <3> QED
      BY <3>1, <3>2
  <2> HIDE DEF xs, xp1, cs, cp
  <2>4. \A a, b, c \in Nat : a * b \in Nat /\ a * (b + c) = a * b + a * c
    OBVIOUS
  <2>5. /\ n * (X[x] + xs) = n * X[x] + n * xs /\ n * (X[x] + xp1) = n * X[x] + n * xp1
        /\ m * (C[x] + cs) = m * C[x] + m * cs /\ m * (C[x] + cp) = m * C[x] + m * cp
        /\ n * X[x] \in Nat /\ m * C[x] \in Nat /\ C[x] * m = m * C[x]
        /\ n * xs \in Nat /\ n * xp1 \in Nat /\ m * cs \in Nat /\ m * cp \in Nat
    BY <2>1, <2>4
  <2>6. (x \in P => m * C[x] <= n * X[x]) /\ (x \notin P => n * X[x] <= m * C[x])
    BY <2>5 DEF Parts
  <2> DEFINE t == s \cup {x}
  <2>7. n * px[t \cap S] + m * pc[t \cap P] <= n * px[t \cap P] + m * pc[t \cap S]
    <3>1. /\ px[t \cap S] = IF x \in S THEN X[x] + xs ELSE xs
          /\ pc[t \cap S] = IF x \in S THEN C[x] + cs ELSE cs
      BY <2>3 DEF xs, cs
    <3>2. /\ px[t \cap P] = IF x \in P THEN X[x] + xp1 ELSE xp1
          /\ pc[t \cap P] = IF x \in P THEN C[x] + cp ELSE cp
      BY <2>3 DEF xp1, cp
    <3> HIDE DEF t
    <3>3. CASE x \in S /\ x \in P
      BY <2>2, <2>5, <3>1, <3>2, <3>3
    <3>4. CASE x \in S /\ x \notin P
      BY <2>2, <2>5, <2>6, <3>1, <3>2, <3>4
    <3>5. CASE x \notin S /\ x \in P
      BY <2>2, <2>5, <2>6, <3>1, <3>2, <3>5
    <3>6. CASE x \notin S /\ x \notin P
      BY <2>2, <3>1, <3>2, <3>6
    <3> QED
      BY <3>3, <3>4, <3>5, <3>6
  <2> QED
    BY <2>7
<1>5. \A s \in SUBSET R : s \in T
  <2> HIDE DEF T
  <2> QED
    BY <1>3, <1>4, GrowingSets
<1>6. R \in T /\ R \cap S = S /\ R \cap P = P
  <2>1. R \in T
    <3> HIDE DEF T
    <3> QED
      BY <1>5
  <2> QED
    BY <2>1
<1> QED
  BY <1>6 DEF px, pc

\* What a selection costs and yields is the part of a sum over all badges.
LEMMA SelectionSums ==
    ASSUME TypeOK
    PROVE  /\ IsFiniteSet(Rankable)
           /\ [b \in Rankable |-> cost[b]] \in [Rankable -> Nat]
           /\ [b \in Rankable |-> Xp(b)] \in [Rankable -> Nat]
           /\ \A S \in Selections :
                 /\ CostOf(S) = PartSum([b \in Rankable |-> cost[b]])[S] /\ CostOf(S) \in Nat
                 /\ XpOf(S) = PartSum([b \in Rankable |-> Xp(b)])[S] /\ XpOf(S) \in Nat
<1> DEFINE C == [b \in Rankable |-> cost[b]]
           X == [b \in Rankable |-> Xp(b)]
<1>1. Rankable \subseteq Badges
  BY DEF Rankable
<1>2. IsFiniteSet(Rankable)
  BY <1>1, PlannerAssumption, FS_Subset
<1>3. C \in [Rankable -> Nat] /\ X \in [Rankable -> Nat]
  <2>1. \A b \in Rankable : cost[b] \in Nat /\ Xp(b) \in Nat
    BY <1>1 DEF TypeOK, Xp, XpPerCraft
  <2> QED
    BY <2>1
<1>4. ASSUME NEW S \in Selections
      PROVE  /\ CostOf(S) = PartSum(C)[S] /\ CostOf(S) \in Nat
             /\ XpOf(S) = PartSum(X)[S] /\ XpOf(S) \in Nat
  <2>1. S \in SUBSET Rankable
    BY DEF Selections
  <2>2. [b \in S |-> C[b]] = [b \in S |-> cost[b]] /\ [b \in S |-> X[b]] = [b \in S |-> Xp(b)]
    BY <2>1
  <2>3. C \in [Rankable -> Int] /\ X \in [Rankable -> Int]
    <3> HIDE DEF C, X
    <3> QED
      BY <1>3
  <2> HIDE DEF C, X
  <2>4. PartSum(C)[S] = SumFunction([b \in S |-> C[b]]) /\ PartSum(X)[S] = SumFunction([b \in S |-> X[b]])
    BY <1>2, <2>1, <2>3, PartSumIsSum
  <2>5. PartSum(C)[S] \in Nat /\ PartSum(X)[S] \in Nat
    BY <1>2, <1>3, <2>1, PartSumGrows
  <2> QED
    BY <2>2, <2>4, <2>5 DEF CostOf, XpOf
<1> QED
  BY <1>2, <1>3, <1>4

LEMMA SelectionGrows ==
    ASSUME TypeOK, NEW S \in Selections, NEW P \in SUBSET S
    PROVE  XpOf(P) <= XpOf(S)
<1> DEFINE X == [b \in Rankable |-> Xp(b)]
<1>1. IsFiniteSet(Rankable) /\ X \in [Rankable -> Nat] /\ S \in SUBSET Rankable /\ P \in Selections
  BY SelectionSums DEF Selections
<1>2. XpOf(S) = PartSum(X)[S] /\ XpOf(P) = PartSum(X)[P]
  BY <1>1, SelectionSums
<1> HIDE DEF X
<1>3. PartSum(X)[P] <= PartSum(X)[S]
  BY <1>1, PartSumGrows
<1> QED
  BY <1>2, <1>3

LEMMA SelectionTakes ==
    ASSUME TypeOK, NEW S \in Selections, NEW b \in Rankable \ S
    PROVE  CostOf(S \cup {b}) = CostOf(S) + cost[b] /\ XpOf(S \cup {b}) = XpOf(S) + Xp(b)
<1> DEFINE C == [a \in Rankable |-> cost[a]]
           X == [a \in Rankable |-> Xp(a)]
           t == S \cup {b}
<1>1. /\ IsFiniteSet(Rankable) /\ C \in [Rankable -> Nat] /\ X \in [Rankable -> Nat]
      /\ t \in SUBSET Rankable /\ b \in t /\ t \ {b} = S
      /\ C[b] = cost[b] /\ X[b] = Xp(b)
  BY SelectionSums DEF Selections
<1>2. t \in Selections
  BY <1>1 DEF Selections
<1>3. /\ CostOf(S) = PartSum(C)[S] /\ XpOf(S) = PartSum(X)[S]
      /\ CostOf(t) = PartSum(C)[t] /\ XpOf(t) = PartSum(X)[t]
      /\ CostOf(S) \in Nat /\ XpOf(S) \in Nat
  BY <1>2, SelectionSums
<1>4. C[b] \in Nat /\ X[b] \in Nat
  BY <1>1
<1>5. C \in [Rankable -> Int] /\ X \in [Rankable -> Int]
  <2> HIDE DEF C, X
  <2> QED
    BY <1>1
<1> HIDE DEF C, X, t
<1>6. PartSum(C)[t] = C[b] + PartSum(C)[t \ {b}]
  BY <1>1, <1>5, PartSumTakes
<1>7. PartSum(X)[t] = X[b] + PartSum(X)[t \ {b}]
  BY <1>1, <1>5, PartSumTakes
<1>8. CostOf(t) = CostOf(S) + cost[b] /\ XpOf(t) = XpOf(S) + Xp(b)
  <2>1. C[b] = cost[b] /\ X[b] = Xp(b) /\ t \ {b} = S
    BY <1>1
  <2>2. cost[b] \in Nat /\ Xp(b) \in Nat
    BY <1>4, <2>1
  <2>3. CostOf(t) = cost[b] + CostOf(S) /\ XpOf(t) = Xp(b) + XpOf(S)
    BY <1>3, <1>6, <1>7, <2>1
  <2> QED
    BY <1>3, <2>2, <2>3
<1> QED
  BY <1>8 DEF t

\* No selection beats the badges before a pivot at the pivot's ratio.
LEMMA PivotBeats ==
    ASSUME TypeOK, NEW b \in Rankable, NEW P \in Selections, Pivot(b, P), NEW S \in Selections
    PROVE  cost[b] * XpOf(S) + Xp(b) * CostOf(P) <= cost[b] * XpOf(P) + Xp(b) * CostOf(S)
<1> DEFINE C == [a \in Rankable |-> cost[a]]
           X == [a \in Rankable |-> Xp(a)]
<1>1. /\ IsFiniteSet(Rankable) /\ C \in [Rankable -> Nat] /\ X \in [Rankable -> Nat]
      /\ P \in SUBSET Rankable /\ S \in SUBSET Rankable
  BY SelectionSums DEF Selections
<1>2. /\ CostOf(S) = PartSum(C)[S] /\ XpOf(S) = PartSum(X)[S]
      /\ CostOf(P) = PartSum(C)[P] /\ XpOf(P) = PartSum(X)[P]
  BY SelectionSums
<1>3. /\ \A a \in P : C[a] * Xp(b) <= cost[b] * X[a]
      /\ \A a \in Rankable \ P : cost[b] * X[a] <= C[a] * Xp(b)
  BY <1>1 DEF Pivot, NotDearer
<1>4. cost[b] \in Nat /\ Xp(b) \in Nat
  <2>1. C[b] = cost[b] /\ X[b] = Xp(b)
    OBVIOUS
  <2> HIDE DEF C, X
  <2> QED
    BY <1>1, <2>1
<1> HIDE DEF C, X
<1>5. cost[b] * PartSum(X)[S] + Xp(b) * PartSum(C)[P] <=
          cost[b] * PartSum(X)[P] + Xp(b) * PartSum(C)[S]
  <2> DEFINE n == cost[b]
             m == Xp(b)
  <2>1. n \in Nat /\ m \in Nat
    BY <1>4
  <2>2. Parts(Rankable, C, X, n, m, P)
    BY <1>3 DEF Parts
  <2> HIDE DEF n, m
  <2>3. n * PartSum(X)[S] + m * PartSum(C)[P] <= n * PartSum(X)[P] + m * PartSum(C)[S]
    BY <1>1, <2>1, <2>2, Exchange
  <2> QED
    BY <2>3 DEF n, m
<1> QED
  BY <1>2, <1>5

\* Sums of the cost report, which no step changes.
LEMMA SumsAreFixed ==
    ASSUME UNCHANGED <<cost, crafts, complete>>
    PROVE  /\ Rankable' = Rankable
           /\ \A b : cost[b]' = cost[b] /\ Xp(b)' = Xp(b)
           /\ \A S : CostOf(S)' = CostOf(S) /\ XpOf(S)' = XpOf(S)
           /\ \A b, P : Pivot(b, P)' = Pivot(b, P)
<1>1. cost' = cost /\ crafts' = crafts /\ complete' = complete
  OBVIOUS
<1>2. \A b : Xp(b)' = Xp(b)
  BY <1>1 DEF Xp
<1>3. Rankable' = Rankable
  BY <1>1 DEF Rankable
<1>4. \A S : CostOf(S)' = CostOf(S)
  BY <1>1 DEF CostOf
<1>5. \A S : XpOf(S)' = XpOf(S)
  BY <1>1 DEF XpOf, Xp
<1>6. \A b, P : Pivot(b, P)' = Pivot(b, P)
  BY <1>1, <1>3 DEF Pivot, NotDearer, Xp
<1> QED
  BY <1>1, <1>2, <1>3, <1>4, <1>5, <1>6

LEMMA InitQuality == ASSUME Init, PlanInv PROVE QualityInv
<1>1. Rankable \subseteq Badges
  BY DEF Rankable
<1>2. IsFiniteSet(Rankable) /\ Cardinality(Rankable) \in Nat
  BY <1>1, PlannerAssumption, FS_Subset, FS_CardinalityType
<1> DEFINE n == Cardinality(Rankable)
<1>3. /\ ranked \in [1..n -> Rankable] /\ {ranked[i] : i \in 1..n} = Rankable
      /\ chosen = <<>> /\ skipped = {} /\ total = 0 /\ xp = 0
  BY DEF Init, Enumerations
<1>4. \A i, j \in DOMAIN ranked : ranked[i] = ranked[j] => i = j
  <2>1. ranked \in Surjection(1..n, Rankable)
    BY <1>3 DEF Surjection
  <2>2. IsFiniteSet(1..n) /\ Cardinality(1..n) = Cardinality(Rankable)
    BY <1>2, FS_Interval
  <2> HIDE DEF n
  <2>3. ranked \in Injection(1..n, Rankable)
    BY <2>1, <2>2, FS_SurjSameCardinalityImpliesInj
  <2> QED
    BY <1>3, <2>3 DEF Injection, IsInjective
<1>5. ChosenSet = {}
  BY <1>3 DEF ChosenSet
<1>6. CostOf({}) = 0 /\ XpOf({}) = 0
  BY SumOfNothing DEF CostOf, XpOf
<1> QED
  BY <1>3, <1>4, <1>5, <1>6 DEF QualityInv

LEMMA TakeQuality == ASSUME PlanInv, QualityInv, Take PROVE QualityInv'
<1> DEFINE b == Here
<1>1. TypeOK /\ ChosenSet \in Selections
  <2>1. chosen \in Seq(Rankable)
    BY DEF PlanInv, TypeOK
  <2>2. \A i \in DOMAIN chosen : chosen[i] \in Rankable
    BY <2>1
  <2> QED
    BY <2>2 DEF PlanInv, Selections, ChosenSet
<1>2. /\ next \in 1..Len(ranked) /\ b \in Rankable /\ b = ranked[next]
      /\ cost[b] \in Nat /\ Xp(b) \in Nat
  BY <1>1, HereIsRankable DEF Take, Looking, Here
<1>3. DOMAIN ranked = 1..Len(ranked) /\ Len(ranked) \in Nat
  BY <1>1, LenProperties DEF TypeOK
<1> HIDE DEF b
<1>4. b \notin ChosenSet
  <2> SUFFICES ASSUME b \in ChosenSet PROVE FALSE
    OBVIOUS
  <2>1. PICK i \in 1..(next - 1) : b = ranked[i]
    BY DEF PlanInv, LoopInv
  <2>2. i \in DOMAIN ranked /\ next \in DOMAIN ranked /\ i # next
    BY <1>2, <1>3, <2>1
  <2> QED
    BY <1>2, <2>1, <2>2 DEF QualityInv
<1>5. /\ chosen' = Append(chosen, b) /\ total' = total + cost[b] /\ xp' = xp + Xp(b)
      /\ UNCHANGED <<skipped, ranked, cost, crafts, complete, budget>>
  BY DEF Take, input, b
<1>6. ChosenSet' = ChosenSet \cup {b}
  <2>1. chosen \in Seq(Rankable)
    BY <1>1 DEF TypeOK
  <2>2. /\ Len(chosen) \in Nat /\ DOMAIN chosen = 1..Len(chosen)
        /\ DOMAIN chosen' = 1..(Len(chosen) + 1)
        /\ chosen'[Len(chosen) + 1] = b
        /\ \A i \in 1..Len(chosen) : chosen'[i] = chosen[i]
    BY <1>2, <1>5, <2>1, AppendProperties, LenProperties
  <2> QED
    BY <2>2 DEF ChosenSet
<1>7. total' = CostOf(ChosenSet)' /\ xp' = XpOf(ChosenSet)'
  <2> DEFINE t == ChosenSet \cup {b}
  <2>1. CostOf(t) = CostOf(ChosenSet) + cost[b] /\ XpOf(t) = XpOf(ChosenSet) + Xp(b)
    BY <1>1, <1>2, <1>4, SelectionTakes
  <2>2. total = CostOf(ChosenSet) /\ xp = XpOf(ChosenSet)
    BY DEF QualityInv
  <2>3. ChosenSet' = t
    BY <1>6
  <2> HIDE DEF t
  <2>4. cost' = cost /\ crafts' = crafts
    BY <1>5
  <2>5. CostOf(ChosenSet)' = CostOf(t) /\ XpOf(ChosenSet)' = XpOf(t)
    BY <2>3, <2>4 DEF CostOf, XpOf, Xp
  <2> QED
    BY <1>5, <2>1, <2>2, <2>5
<1>8. ASSUME skipped # {}
      PROVE  \E a \in skipped, P \in SUBSET ChosenSet' :
                 Pivot(a, P)' /\ CostOf(P)' + cost'[a] > budget'
  <2>1. PICK a \in skipped, P \in SUBSET ChosenSet : Pivot(a, P) /\ CostOf(P) + cost[a] > budget
    BY <1>8 DEF QualityInv
  <2>2. Pivot(a, P)' /\ CostOf(P)' + cost'[a] > budget'
    BY <1>5, <2>1, SumsAreFixed
  <2>3. P \in SUBSET ChosenSet'
    BY <1>6
  <2> QED
    BY <2>2, <2>3
<1>9. \A i, j \in DOMAIN ranked' : ranked'[i] = ranked'[j] => i = j
  BY <1>5 DEF QualityInv
<1> QED
  BY <1>5, <1>7, <1>8, <1>9 DEF QualityInv

\* The first badge that is turned away is a pivot for the plan so far.
LEMMA HereIsPivot ==
    ASSUME PlanInv, next <= Len(ranked), skipped = {}
    PROVE  Pivot(Here, ChosenSet)
<1>1. /\ next \in 1..Len(ranked) /\ Len(ranked) \in Nat /\ DOMAIN ranked = 1..Len(ranked)
      /\ Here = ranked[next]
  BY HereIsRankable, LenProperties DEF PlanInv, TypeOK, Here
<1>2. ASSUME NEW a \in ChosenSet PROVE NotDearer(a, Here)
  <2>1. PICK i \in 1..(next - 1) : a = ranked[i]
    BY DEF PlanInv, LoopInv
  <2>2. i \in 1..Len(ranked) /\ i < next
    BY <1>1, <2>1
  <2> QED
    BY <1>1, <2>1, <2>2 DEF PlanInv, LoopInv, Sorted
<1>3. ASSUME NEW a \in Rankable \ ChosenSet PROVE NotDearer(Here, a)
  <2>1. PICK i \in 1..Len(ranked) : a = ranked[i]
    BY <1>1 DEF PlanInv, LoopInv
  <2>2. i \notin 1..(next - 1)
    BY <2>1 DEF PlanInv, LoopInv
  <2>3. CASE i = next
    BY <1>1, <2>1, <2>3, HereIsRankable DEF NotDearer, PlanInv
  <2>4. CASE i # next
    <3>1. next < i
      BY <1>1, <2>2, <2>4
    <3> QED
      BY <1>1, <2>1, <3>1 DEF PlanInv, LoopInv, Sorted
  <2> QED
    BY <2>3, <2>4
<1> QED
  BY <1>2, <1>3 DEF Pivot

LEMMA SkipQuality == ASSUME PlanInv, QualityInv, Skip PROVE QualityInv'
<1> DEFINE b == Here
<1>1. next <= Len(ranked)
  BY DEF Skip, Looking
<1>2. /\ skipped' = skipped \cup {b} /\ budget # None /\ ~(total + cost[b] <= budget)
      /\ UNCHANGED <<chosen, total, xp, ranked, cost, crafts, complete, budget>>
  BY DEF Skip, Fits, input
<1>3. total \in Nat /\ budget \in Nat /\ cost[b] \in Nat
  BY <1>1, <1>2, HereIsRankable DEF PlanInv, TypeOK
<1>4. skipped = {} => Pivot(b, ChosenSet)
  BY <1>1, HereIsPivot
<1> HIDE DEF b
<1>5. ChosenSet' = ChosenSet
  BY <1>2 DEF ChosenSet
<1>6. PICK a \in skipped', P \in SUBSET ChosenSet : Pivot(a, P) /\ CostOf(P) + cost[a] > budget
  <2>1. CASE skipped = {}
    <3>1. total = CostOf(ChosenSet) /\ total + cost[b] > budget
      BY <1>2, <1>3 DEF QualityInv
    <3>2. ChosenSet \in SUBSET ChosenSet /\ b \in skipped'
      BY <1>2
    <3> QED
      BY <1>4, <2>1, <3>1, <3>2
  <2>2. CASE skipped # {}
    BY <1>2, <2>2 DEF QualityInv
  <2> QED
    BY <2>1, <2>2
<1>7. Pivot(a, P)' /\ CostOf(P)' + cost'[a] > budget'
  BY <1>2, <1>6, SumsAreFixed
<1>8. P \in SUBSET ChosenSet'
  BY <1>5
<1>9. CostOf(ChosenSet)' = CostOf(ChosenSet) /\ XpOf(ChosenSet)' = XpOf(ChosenSet)
  BY <1>2, <1>5 DEF CostOf, XpOf, Xp
<1>10. total' = CostOf(ChosenSet)' /\ xp' = XpOf(ChosenSet)'
  BY <1>2, <1>9 DEF QualityInv
<1>11. \A i, j \in DOMAIN ranked' : ranked'[i] = ranked'[j] => i = j
  BY <1>2 DEF QualityInv
<1> QED
  BY <1>6, <1>7, <1>8, <1>10, <1>11 DEF QualityInv

LEMMA QualityInvHolds == Spec => []QualityInv
<1>1. QualityInv /\ UNCHANGED <<cost, crafts, complete, ranked, budget, chosen, skipped, total, xp>>
          => QualityInv'
  BY DEF QualityInv, ChosenSet, CostOf, XpOf, Xp, Pivot, NotDearer, Rankable
<1>2. PlanInv /\ QualityInv /\ [Next]_vars => QualityInv'
  <2>1. Finish \/ UNCHANGED vars
            => UNCHANGED <<cost, crafts, complete, ranked, budget, chosen, skipped, total, xp>>
    BY DEF Finish, vars, input
  <2> QED
    BY <1>1, <2>1, TakeQuality, SkipQuality DEF Next
<1>3. Init => QualityInv
  BY InitPlan, InitQuality
<1> QED
  BY <1>2, <1>3, PlanInvHolds, PTL DEF Spec

LEMMA BadgeTyped ==
    ASSUME TypeOK, NEW b \in Rankable
    PROVE  cost[b] \in Nat /\ Xp(b) \in Nat \ {0}
<1>1. b \in Badges /\ crafts[b] > 0
  BY DEF Rankable
<1>2. cost[b] \in Nat /\ crafts[b] \in Nat
  BY <1>1 DEF TypeOK
<1> QED
  BY <1>1, <1>2 DEF Xp, XpPerCraft

\* What the plan yields so far cannot be had for less.
LEMMA PrefixIsOptimal ==
    ASSUME PlanInv, QualityInv, skipped = {}, NEW S \in Selections, XpOf(S) >= xp
    PROVE  CostOf(S) >= total
<1>1. /\ TypeOK /\ total = CostOf(ChosenSet) /\ xp = XpOf(ChosenSet)
      /\ CostOf(S) \in Nat /\ XpOf(S) \in Nat /\ total \in Nat /\ xp \in Nat
  BY SelectionSums DEF PlanInv, QualityInv, TypeOK
<1>2. /\ Len(ranked) \in Nat /\ DOMAIN ranked = 1..Len(ranked) /\ next \in 1..(Len(ranked) + 1)
  BY <1>1, LenProperties DEF TypeOK
<1>3. CASE next = 1
  <2>1. ChosenSet = {}
    BY <1>3 DEF PlanInv, LoopInv
  <2>2. total = 0
    BY <1>1, <2>1, SumOfNothing DEF CostOf
  <2> QED
    BY <1>1, <2>2
<1>4. CASE next # 1
  <2> DEFINE last == next - 1
             b == ranked[last]
  <2>1. last \in 1..Len(ranked) /\ last \in 1..(next - 1)
    BY <1>2, <1>4
  <2>2. b \in ChosenSet /\ ChosenSet \in Selections /\ b \in Rankable
    <3>1. b \in ChosenSet
      BY <2>1 DEF PlanInv, LoopInv
    <3>2. chosen \in Seq(Rankable)
      BY <1>1 DEF TypeOK
    <3>3. \A i \in DOMAIN chosen : chosen[i] \in Rankable
      BY <3>2
    <3> QED
      BY <3>1, <3>3 DEF ChosenSet, Selections
  <2>3. cost[b] \in Nat /\ Xp(b) \in Nat \ {0}
    BY <1>1, <2>2, BadgeTyped
  <2>4. ASSUME NEW a \in ChosenSet PROVE NotDearer(a, b)
    <3>1. PICK i \in 1..(next - 1) : a = ranked[i]
      BY DEF PlanInv, LoopInv
    <3>2. CASE i = last
      <4>1. a = b
        BY <3>1, <3>2
      <4> QED
        BY <2>3, <4>1 DEF NotDearer
    <3>3. CASE i # last
      <4>1. i \in 1..Len(ranked) /\ i < last
        BY <1>2, <3>3
      <4> QED
        BY <2>1, <3>1, <4>1 DEF PlanInv, LoopInv, Sorted
    <3> QED
      BY <3>2, <3>3
  <2>5. ASSUME NEW a \in Rankable \ ChosenSet PROVE NotDearer(b, a)
    <3>1. PICK i \in 1..Len(ranked) : a = ranked[i]
      BY <1>2 DEF PlanInv, LoopInv
    <3>2. i \notin 1..(next - 1)
      BY <3>1 DEF PlanInv, LoopInv
    <3>3. last < i
      BY <1>2, <3>2
    <3> QED
      BY <2>1, <3>1, <3>3 DEF PlanInv, LoopInv, Sorted
  <2>6. Pivot(b, ChosenSet)
    BY <2>4, <2>5 DEF Pivot
  <2> HIDE DEF b
  <2>7. cost[b] * XpOf(S) + Xp(b) * total <= cost[b] * xp + Xp(b) * CostOf(S)
    BY <1>1, <2>2, <2>6, PivotBeats
  <2> DEFINE n == cost[b]
             m == Xp(b)
             x == XpOf(S)
             c == CostOf(S)
  <2>8. n \in Nat /\ m \in Nat \ {0} /\ x \in Nat /\ c \in Nat /\ x >= xp
        /\ n * x + m * total <= n * xp + m * c
    BY <1>1, <2>3, <2>7
  <2> HIDE DEF n, m, x, c
  <2>9. n * x >= n * xp
    <3>1. x - xp \in Nat /\ n * (x - xp) = n * x - n * xp
      BY <1>1, <2>8
    <3>2. n * (x - xp) \in Nat
      BY <2>8, <3>1
    <3>3. n * x \in Nat /\ n * xp \in Nat
      BY <1>1, <2>8
    <3> QED
      BY <3>1, <3>2, <3>3
  <2>10. m * total <= m * c
    BY <1>1, <2>8, <2>9
  <2>11. total <= c
    BY <1>1, <2>8, <2>10
  <2> QED
    BY <2>11 DEF c
<1> QED
  BY <1>3, <1>4

\* No selection within the budget beats the plan by the first badge turned away.
LEMMA GapIsBounded ==
    ASSUME PlanInv, QualityInv, finished, budget # None, ~TargetMet,
           NEW S \in Selections, CostOf(S) <= budget
    PROVE  XpOf(S) <= xp \/ \E b \in skipped : XpOf(S) < xp + Xp(b)
<1>1. /\ TypeOK /\ total = CostOf(ChosenSet) /\ xp = XpOf(ChosenSet)
      /\ CostOf(S) \in Nat /\ XpOf(S) \in Nat /\ total \in Nat /\ xp \in Nat /\ budget \in Nat
  BY SelectionSums DEF PlanInv, QualityInv, TypeOK
<1>2. ChosenSet \in Selections
  <2>1. chosen \in Seq(Rankable)
    BY <1>1 DEF TypeOK
  <2>2. \A i \in DOMAIN chosen : chosen[i] \in Rankable
    BY <2>1
  <2> QED
    BY <2>2 DEF ChosenSet, Selections
<1>3. CASE skipped = {}
  <2>1. next - 1 = Len(ranked) /\ DOMAIN ranked = 1..Len(ranked)
    BY <1>1, LenProperties DEF PlanInv, TypeOK, LoopInv
  <2>2. Rankable \subseteq ChosenSet
    BY <1>3, <2>1 DEF PlanInv, LoopInv
  <2>3. S \in SUBSET ChosenSet
    BY <2>2 DEF Selections
  <2>4. XpOf(S) <= XpOf(ChosenSet)
    BY <1>1, <1>2, <2>3, SelectionGrows
  <2> QED
    BY <1>1, <2>4
<1>4. CASE skipped # {}
  <2>1. PICK b \in skipped, P \in SUBSET ChosenSet : Pivot(b, P) /\ CostOf(P) + cost[b] > budget
    BY <1>4 DEF QualityInv
  <2>2. P \in Selections /\ b \in Rankable
    BY <1>1, <1>2 DEF Selections, TypeOK
  <2>3. cost[b] \in Nat /\ Xp(b) \in Nat \ {0}
    BY <1>1, <2>2, BadgeTyped
  <2>4. XpOf(P) <= xp /\ XpOf(P) \in Nat /\ CostOf(P) \in Nat
    BY <1>1, <1>2, <2>2, SelectionGrows, SelectionSums
  <2>5. cost[b] * XpOf(S) + Xp(b) * CostOf(P) <= cost[b] * XpOf(P) + Xp(b) * CostOf(S)
    BY <1>1, <2>1, <2>2, PivotBeats
  <2> DEFINE n == cost[b]
             m == Xp(b)
             x == XpOf(S)
             c == CostOf(S)
             y == XpOf(P)
             d == CostOf(P)
  <2>6. /\ n \in Nat /\ m \in Nat /\ m # 0 /\ x \in Nat /\ c \in Nat /\ y \in Nat /\ d \in Nat
        /\ y <= xp /\ c <= budget /\ d + n > budget
        /\ n * x + m * d <= n * y + m * c
    BY <1>1, <2>1, <2>3, <2>4, <2>5
  <2> HIDE DEF n, m, x, c, y, d
  <2>7. ~(x >= xp + m)
    <3> SUFFICES ASSUME x >= xp + m PROVE FALSE
      OBVIOUS
    <3>1. x - (y + m) \in Nat /\ n * (x - (y + m)) = n * x - (n * y + n * m)
      BY <1>1, <2>6
    <3>2. n * (x - (y + m)) \in Nat /\ n * x \in Nat /\ n * y \in Nat /\ n * m \in Nat
          /\ m * d \in Nat /\ m * c \in Nat
      BY <2>6, <3>1
    <3>3. n * m + m * d <= m * c
      BY <2>6, <3>1, <3>2
    <3>4. c - d < n /\ c - d \in Int
      BY <1>1, <2>6
    <3>5. m * ((d + n) - c) = (m * d + n * m) - m * c /\ (d + n) - c \in Nat \ {0}
      BY <2>6, <3>4
    <3>6. m * ((d + n) - c) > 0
      <4> DEFINE k == (d + n) - c
      <4>1. k \in Nat \ {0}
        BY <3>5
      <4> HIDE DEF k
      <4>2. m * k > 0
        BY <2>6, <4>1
      <4> QED
        BY <4>2 DEF k
    <3> QED
      BY <3>2, <3>3, <3>5, <3>6
  <2>8. x < xp + m
    BY <1>1, <2>6, <2>7
  <2> QED
    BY <2>8 DEF x, m
<1> QED
  BY <1>3, <1>4

\* Until the budget turns a badge away no selection yields as much for less,
\* and a plan that ends short of its target is less than one badge behind the
\* best selection its budget can buy, for every cost report
\* (docs/optimizer-model.md:49-66).
THEOREM PlanIsNearOptimal == Spec => []NearOptimal
<1>1. PlanInv /\ QualityInv => PrefixOptimal
  BY PrefixIsOptimal DEF PrefixOptimal
<1>2. PlanInv /\ QualityInv => GapBounded
  BY GapIsBounded DEF GapBounded
<1> QED
  BY <1>1, <1>2, PlanInvHolds, QualityInvHolds, PTL DEF NearOptimal

=============================================================================
