-------------------------- MODULE PortfolioProofs --------------------------
(***************************************************************************)
(* Proofs about Portfolio, for every account, inventory, list of badges,   *)
(* price and bound.                                                        *)
(*                                                                         *)
(* Pages and places of first copies are lists of sets; with that, what is  *)
(* gathered, counted and written is followed row by row: types, levels,    *)
(* amounts, and what is reported of them.                                  *)
(***************************************************************************)
EXTENDS Portfolio, AmountProofs, SequenceTheorems

-----------------------------------------------------------------------------
(* Lists of sets: pages, and the places of first copies.                   *)

\* s holds the elements of S, each once.
Lists(s, S) ==
    /\ s \in Seq(S)
    /\ \A x \in S : \E i \in DOMAIN s : s[i] = x
    /\ \A i, j \in DOMAIN s : s[i] = s[j] => i = j

\* Numbers of a finite set differ in how many are below them.
LEMMA RankIsOneToOne ==
    ASSUME NEW S \in SUBSET Int, IsFiniteSet(S)
    PROVE  /\ \A i \in S : Cardinality({j \in S : j < i}) + 1 \in 1..Cardinality(S)
           /\ \A i, k \in S : i < k => Cardinality({j \in S : j < i}) < Cardinality({j \in S : j < k})
<1> DEFINE below(i) == {j \in S : j < i}
<1>1. ASSUME NEW i \in S, NEW U \in SUBSET S, below(i) \subseteq U, i \in U
      PROVE  Cardinality(below(i)) \in Nat /\ Cardinality(below(i)) < Cardinality(U) /\ Cardinality(U) \in Nat
  <2>1. IsFiniteSet(U) /\ IsFiniteSet(U \ {i})
    BY FS_Subset
  <2>2. below(i) \subseteq U \ {i}
    BY <1>1
  <2>3. Cardinality(U \ {i}) = Cardinality(U) - 1
    BY <1>1, <2>1, FS_RemoveElement
  <2>4. Cardinality(below(i)) \in Nat /\ Cardinality(U) \in Nat /\ Cardinality(below(i)) <= Cardinality(U \ {i})
    <3> HIDE DEF below
    <3> QED
      BY <2>1, <2>2, FS_Subset, FS_CardinalityType
  <2> HIDE DEF below
  <2> QED
    BY <2>3, <2>4
<1>2. ASSUME NEW i \in S PROVE Cardinality(below(i)) + 1 \in 1..Cardinality(S)
  <2>1. below(i) \subseteq S /\ S \in SUBSET S
    OBVIOUS
  <2> HIDE DEF below
  <2>2. Cardinality(below(i)) \in Nat /\ Cardinality(below(i)) < Cardinality(S) /\ Cardinality(S) \in Nat
    BY <1>1, <2>1
  <2> QED
    BY <2>2
<1>3. ASSUME NEW i \in S, NEW k \in S, i < k PROVE Cardinality(below(i)) < Cardinality(below(k))
  <2>1. below(i) \subseteq below(k) /\ i \in below(k) /\ below(k) \in SUBSET S
    <3>1. \A j \in S : j < i => j < k
      BY <1>3
    <3> QED
      BY <1>3, <3>1
  <2> HIDE DEF below
  <2> QED
    BY <1>1, <2>1
<1> QED
  BY <1>2, <1>3

LEMMA InOrderLists ==
    ASSUME NEW S \in SUBSET Int, IsFiniteSet(S)
    PROVE  Lists(InOrder(S), S)
<1> DEFINE rank == [i \in S |-> Cardinality({j \in S : j < i}) + 1]
           n == Cardinality(S)
           s == InOrder(S)
<1>1. n \in Nat /\ IsFiniteSet(1..n) /\ Cardinality(1..n) = n
  BY FS_CardinalityType, FS_Interval
<1>2. \A i \in S : Cardinality({j \in S : j < i}) \in Int
  BY FS_Subset, FS_CardinalityType
<1>3. rank \in [S -> 1..n] /\ \A i, k \in S : i < k => rank[i] < rank[k]
  BY <1>2, RankIsOneToOne
<1>4. \A i, k \in S : rank[i] = rank[k] => i = k
  <2> HIDE DEF rank
  <2>1. \A i \in S : rank[i] \in Int /\ i \in Int
    BY <1>1, <1>3
  <2> QED
    BY <1>3, <2>1
<1>5. \A k \in 1..n : \E i \in S : rank[i] = k
  <2> HIDE DEF rank
  <2>1. rank \in Injection(S, 1..n)
    BY <1>3, <1>4 DEF Injection, IsInjective
  <2>2. rank \in Surjection(S, 1..n)
    BY <1>1, <2>1, FS_Injection
  <2> QED
    BY <2>2 DEF Surjection
<1>6. s = [k \in 1..n |-> CHOOSE i \in S : rank[i] = k]
  <2>1. \A k \in 1..n : \A i \in S : Cardinality({j \in S : j < i}) = k - 1 <=> rank[i] = k
    BY <1>1, <1>2
  <2>2. \A k \in 1..n : (CHOOSE i \in S : Cardinality({j \in S : j < i}) = k - 1) = (CHOOSE i \in S : rank[i] = k)
    <3> HIDE DEF rank
    <3> QED
      BY <2>1
  <2> DEFINE at(k)   == CHOOSE i \in S : Cardinality({j \in S : j < i}) = k - 1
             with(k) == CHOOSE i \in S : rank[i] = k
  <2>3. s = [k \in 1..n |-> at(k)]
    BY DEF InOrder
  <2> HIDE DEF s, rank
  <2>4. \A k \in 1..n : at(k) = with(k)
    BY <2>2
  <2> HIDE DEF at
  <2>5. s = [k \in 1..n |-> with(k)]
    BY <2>3, <2>4
  <2> QED
    BY <2>5
<1> HIDE DEF rank, s
<1>7. \A k \in 1..n : s[k] \in S /\ rank[s[k]] = k
  BY <1>5, <1>6
<1>8. s \in Seq(S) /\ DOMAIN s = 1..n
  BY <1>1, <1>6, <1>7
<1>9. \A x \in S : rank[x] \in DOMAIN s /\ s[rank[x]] = x
  BY <1>3, <1>4, <1>7, <1>8
<1> QED
  BY <1>7, <1>8, <1>9 DEF Lists, s

LEMMA NewestFirstLists ==
    ASSUME NEW S \in SUBSET Copies
    PROVE  Lists(NewestFirst(S), S)
<1> DEFINE s == InOrder(S)
           t == Reverse(s)
           n == Len(s)
<1>1. Lists(s, S)
  <2>1. Copies \subseteq Nat \ {0} /\ IsFiniteSet(Copies)
    BY InventoryAssumption
  <2>2. IsFiniteSet(S)
    BY <2>1, FS_Subset
  <2>3. S \in SUBSET Int
    BY <2>1
  <2> QED
    BY <2>2, <2>3, InOrderLists
<1> HIDE DEF s
<1>2. n \in Nat /\ DOMAIN s = 1..n /\ s \in Seq(S)
  BY <1>1 DEF Lists
<1>3. t = [i \in 1..n |-> s[(n - i) + 1]]
  BY DEF Reverse
<1> HIDE DEF n, t
<1>4. \A i \in 1..n : (n - i) + 1 \in 1..n
  BY <1>2
<1>5. t \in Seq(S) /\ DOMAIN t = 1..n
  BY <1>2, <1>3, <1>4
<1>6. \A x \in S : \E i \in DOMAIN t : t[i] = x
  <2> SUFFICES ASSUME NEW x \in S PROVE \E i \in 1..n : t[i] = x
    BY <1>5
  <2>1. PICK j \in 1..n : s[j] = x
    BY <1>1, <1>2 DEF Lists
  <2>2. (n - j) + 1 \in 1..n /\ (n - ((n - j) + 1)) + 1 = j
    BY <1>2
  <2> QED
    BY <1>3, <2>1, <2>2
<1>7. ASSUME NEW i \in 1..n, NEW j \in 1..n, t[i] = t[j] PROVE i = j
  <2>1. (n - i) + 1 = (n - j) + 1
    <3>1. s[(n - i) + 1] = s[(n - j) + 1]
      BY <1>3, <1>7
    <3> QED
      BY <1>1, <1>2, <1>4, <3>1 DEF Lists
  <2> QED
    BY <1>2, <2>1
<1> QED
  BY <1>5, <1>6, <1>7 DEF Lists, NewestFirst, t, s

\* Lists of sets that have nothing in common, one after the other.
LEMMA ListsJoin ==
    ASSUME NEW S, NEW T, S \cap T = {}, NEW s, Lists(s, S), NEW t, Lists(t, T)
    PROVE  Lists(s \o t, S \cup T)
<1> DEFINE u == s \o t
           n == Len(s)
           m == Len(t)
<1>1. /\ n \in Nat /\ m \in Nat /\ DOMAIN s = 1..n /\ DOMAIN t = 1..m
      /\ \A i \in 1..n : s[i] \in S
      /\ \A i \in 1..m : t[i] \in T
  BY DEF Lists
<1>2. /\ u \in Seq(S \cup T) /\ DOMAIN u = 1..(n + m)
      /\ \A i \in 1..n : u[i] = s[i]
      /\ \A i \in (n + 1)..(n + m) : u[i] = t[i - n]
  <2>1. s \in Seq(S \cup T) /\ t \in Seq(S \cup T)
    BY DEF Lists
  <2> QED
    BY <2>1
<1> HIDE DEF u, n, m
<1>3. ASSUME NEW x \in S \cup T PROVE \E i \in 1..(n + m) : u[i] = x
  <2>1. CASE x \in S
    <3>1. PICK i \in 1..n : s[i] = x
      BY <1>1, <2>1 DEF Lists
    <3> QED
      BY <1>1, <1>2, <3>1
  <2>2. CASE x \in T
    <3>1. PICK i \in 1..m : t[i] = x
      BY <1>1, <2>2 DEF Lists
    <3>2. i + n \in (n + 1)..(n + m) /\ (i + n) - n = i
      BY <1>1
    <3> QED
      BY <1>1, <1>2, <3>1, <3>2
  <2> QED
    BY <2>1, <2>2
<1>4. ASSUME NEW i \in 1..(n + m), NEW j \in 1..(n + m), u[i] = u[j] PROVE i = j
  <2>1. CASE i <= n /\ j <= n
    <3>1. i \in DOMAIN s /\ j \in DOMAIN s /\ s[i] = s[j]
      BY <1>1, <1>2, <1>4, <2>1
    <3> QED
      BY <3>1 DEF Lists
  <2>2. CASE i > n /\ j > n
    <3>1. i - n \in 1..m /\ j - n \in 1..m
      BY <1>1, <2>2
    <3>2. t[i - n] = t[j - n]
      <4>1. i \in (n + 1)..(n + m) /\ j \in (n + 1)..(n + m)
        BY <1>1, <2>2
      <4> QED
        BY <1>2, <1>4, <4>1
    <3>3. i - n = j - n
      BY <1>1, <3>1, <3>2 DEF Lists
    <3> QED
      BY <1>1, <3>3
  <2>3. CASE i <= n /\ j > n
    BY <1>1, <1>2, <1>4, <2>3
  <2>4. CASE i > n /\ j <= n
    BY <1>1, <1>2, <1>4, <2>4
  <2> QED
    BY <1>1, <2>1, <2>2, <2>3, <2>4
<1> QED
  BY <1>2, <1>3, <1>4 DEF Lists, u

-----------------------------------------------------------------------------
(* Pages, and the copies of an entry.                                      *)

LEMMA CopiesAreNumbers ==
    /\ IsFiniteSet(Copies) /\ Copies \subseteq Int
    /\ \A a \in Copies : a \in Nat /\ a # 0
    /\ \A S \in SUBSET Copies : IsFiniteSet(S)
<1>1. IsFiniteSet(Copies) /\ \A a \in Copies : a \in Nat /\ a # 0
  BY InventoryAssumption
<1> QED
  BY <1>1, FS_Subset

\* A page holds the newest of the copies that are listed, and one at least.
LEMMA PageIsNewest ==
    ASSUME held \subseteq Copies
    PROVE  /\ Page \subseteq Listed /\ Listed \subseteq held
           /\ \A a \in Listed \ Page, b \in Page : a < b
           /\ Page # Listed => Page # {}
           /\ Page # {} => Min(Page) \in Page /\ \A a \in Page : Min(Page) <= a
<1> DEFINE above(a) == {b \in Listed : b > a}
<1>1. Listed \subseteq held /\ Listed \in SUBSET Int /\ IsFiniteSet(Listed)
  BY CopiesAreNumbers DEF Listed
<1>2. Page = {a \in Listed : Cardinality(above(a)) < PageSize}
  BY DEF Page
<1>3. PageSize \in Nat \ {0}
  BY InventoryAssumption
<1>4. ASSUME NEW a \in Listed, NEW b \in Page, a >= b PROVE a \in Page
  <2>1. above(a) \subseteq above(b) /\ above(b) \subseteq Listed /\ b \in Listed
    <3>1. \A c \in Listed : c > a => c > b
      <4>1. \A c \in Listed : c \in Int /\ a \in Int /\ b \in Int
        BY <1>1, <1>2
      <4> QED
        BY <1>4, <4>1
    <3> QED
      BY <1>2, <3>1
  <2> HIDE DEF above
  <2>2. Cardinality(above(a)) <= Cardinality(above(b)) /\ Cardinality(above(a)) \in Nat
        /\ Cardinality(above(b)) \in Nat
    BY <1>1, <2>1, FS_Subset, FS_CardinalityType
  <2>3. Cardinality(above(b)) < PageSize
    BY <1>2
  <2>4. Cardinality(above(a)) < PageSize
    BY <1>3, <2>2, <2>3
  <2> QED
    BY <1>2, <2>4
<1>5. ASSUME Listed # {} PROVE Page # {}
  <2>1. PICK m \in Listed : \A j \in Listed : j <= m
    BY <1>1, <1>5, GreatestNumber
  <2>2. above(m) = {}
    <3>1. \A j \in Listed : j \in Int /\ m \in Int /\ j <= m
      BY <1>1, <2>1
    <3> QED
      BY <3>1
  <2>3. Cardinality(above(m)) = 0
    BY <2>2, FS_EmptySet
  <2> HIDE DEF above
  <2> QED
    BY <1>2, <1>3, <2>3
<1>6. ASSUME Page # {} PROVE Min(Page) \in Page /\ \A a \in Page : Min(Page) <= a
  <2>1. Page \in SUBSET Nat
    BY <1>1, <1>2, CopiesAreNumbers
  <2>2. PICK k \in Page : \A j \in Page : k <= j
    BY <1>6, <2>1, LeastNumber
  <2> QED
    BY <2>2 DEF Min
<1> HIDE DEF above
<1>7. ASSUME NEW a \in Listed \ Page, NEW b \in Page PROVE a < b
  <2>1. a \in Int /\ b \in Int /\ ~(a >= b)
    BY <1>1, <1>2, <1>4
  <2> QED
    BY <2>1
<1> QED
  BY <1>1, <1>2, <1>5, <1>6, <1>7

Tables == {"inventory", "holding"}

\* A copy that is not skipped adds to a name in one of the tables.
LEMMA EntryIsRow ==
    ASSUME NEW a \in Copies
    PROVE  /\ EntryOf[a].table \in Tables =>
                 /\ EntryOf[a].name \in Names
                 /\ EntryOf[a] = Entry(EntryOf[a].table, EntryOf[a].name)
                 /\ IsFoil(DescOf[a]) \in BOOLEAN
           /\ EntryOf[a] = NoEntry \/ EntryOf[a].table \in Tables
<1> DEFINE d == DescOf[a]
<1>1. CASE d = None
  <2>1. EntryOf[a] = NoEntry
    BY <1>1 DEF EntryOf
  <2>2. NoEntry.table \notin Tables
    BY InventoryAssumption DEF NoEntry, Tables
  <2> QED
    BY <2>1, <2>2
<1>2. CASE d # None
  <2>1. d \in Descriptions
    BY <1>2, InventoryAssumption
  <2>2. d.name \in Names \cup {None} /\ d.foilType \in BOOLEAN
    BY <2>1 DEF Descriptions
  <2> DEFINE e == IF IsTradingCard(d)
                  THEN IF d.name # None /\ d.game
                       THEN [table |-> "inventory", name |-> d.name] ELSE NoEntry
                  ELSE IF HoldingName(d) # None
                       THEN [table |-> "holding", name |-> HoldingName(d)] ELSE NoEntry
  <2>3. EntryOf[a] = e
    BY <1>2 DEF EntryOf, Entry
  <2>4. HoldingName(d) \in Names \cup {None}
    BY <2>2, InventoryAssumption DEF HoldingName
  <2>5. IsFoil(d) \in BOOLEAN
    BY <2>2 DEF IsFoil
  <2>6. NoEntry.table \notin Tables
    BY InventoryAssumption DEF NoEntry, Tables
  <2>7. e = NoEntry \/ \E n \in Names : \E table \in Tables : e = [table |-> table, name |-> n]
    BY <2>2, <2>4 DEF Tables
  <2> HIDE DEF e, d
  <2> QED
    BY <2>3, <2>5, <2>6, <2>7 DEF Entry, Tables, d
<1> QED
  BY <1>1, <1>2

\* The amount of an entry grows with the copies.
LEMMA AmountIsNat ==
    ASSUME NEW S \in SUBSET Copies, NEW e
    PROVE  Amount(S, e) \in Nat
<1> DEFINE D == {b \in S : EntryOf[b] = e}
           F == [a \in D |-> AmountOf[a]]
<1>1. IsFiniteSet(D) /\ F \in [D -> Nat]
  <2>1. D \in SUBSET Copies
    OBVIOUS
  <2>2. AmountOf \in [Copies -> Nat]
    BY InventoryAssumption
  <2> HIDE DEF D
  <2> QED
    BY <2>1, <2>2, CopiesAreNumbers
<1> HIDE DEF D, F
<1>2. SumFunction(F) \in Nat
  BY <1>1, SumIsNat
<1> QED
  BY <1>2 DEF Amount, D, F

LEMMA AmountGrows ==
    ASSUME NEW T \in SUBSET Copies, NEW S \in SUBSET T, NEW e
    PROVE  Amount(S, e) <= Amount(T, e)
<1> DEFINE of(U) == {b \in U : EntryOf[b] = e}
           F == [a \in of(S) |-> AmountOf[a]]
           G == [a \in of(T) |-> AmountOf[a]]
           h == [a \in of(S) |-> a]
<1>1. of(S) \in SUBSET of(T) /\ of(T) \in SUBSET Copies /\ of(S) \in SUBSET Copies
  OBVIOUS
<1> HIDE DEF of
<1>2. IsFiniteSet(of(S)) /\ IsFiniteSet(of(T))
  BY <1>1, CopiesAreNumbers
<1>3. AmountOf \in [Copies -> Nat]
  BY InventoryAssumption
<1>4. F \in [of(S) -> Nat] /\ G \in [of(T) -> Nat] /\ h \in [of(S) -> of(T)]
  BY <1>1, <1>3
<1>5. \A x \in of(S) : F[x] <= G[h[x]]
  <2>1. \A x \in of(S) : h[x] = x /\ F[x] = AmountOf[x] /\ G[x] = AmountOf[x] /\ AmountOf[x] \in Nat
    BY <1>1, <1>3
  <2> HIDE DEF F, G, h
  <2> QED
    BY <2>1
<1>6. \A x, y \in of(S) : h[x] = h[y] => x = y
  OBVIOUS
<1> HIDE DEF F, G, h
<1>7. SumFunction(F) <= SumFunction(G)
  BY <1>2, <1>4, <1>5, <1>6, SumCovered
<1> QED
  BY <1>7 DEF Amount, F, G, of

\* Adding up the places of a list is adding up the copies in it.
LEMMA QuantityIsAmount ==
    ASSUME NEW S \in SUBSET Copies, NEW s, Lists(s, S), NEW e
    PROVE  Quantities(s, e) = Amount(S, e)
<1> DEFINE P == Places(s, e)
           D == {b \in S : EntryOf[b] = e}
           F == [i \in P |-> AmountOf[s[i]]]
           G == [a \in D |-> AmountOf[a]]
           h == [i \in P |-> s[i]]
           k == [a \in D |-> CHOOSE i \in DOMAIN s : s[i] = a]
<1>1. /\ Len(s) \in Nat /\ DOMAIN s = 1..Len(s) /\ \A i \in DOMAIN s : s[i] \in S
      /\ \A a \in S : \E i \in DOMAIN s : s[i] = a
      /\ \A i, j \in DOMAIN s : s[i] = s[j] => i = j
  BY DEF Lists
<1>2. AmountOf \in [Copies -> Nat]
  BY InventoryAssumption
<1>3. IsFiniteSet(P) /\ IsFiniteSet(D)
  <2>1. D \in SUBSET Copies /\ P \subseteq 1..Len(s) /\ IsFiniteSet(1..Len(s))
    BY <1>1, FS_Interval DEF Places
  <2> HIDE DEF D, P
  <2> QED
    BY <2>1, CopiesAreNumbers, FS_Subset
<1>4. \A i \in P : s[i] \in D /\ AmountOf[s[i]] \in Nat
  BY <1>1, <1>2 DEF Places
<1>5. \A a \in D : k[a] \in P /\ s[k[a]] = a /\ AmountOf[a] \in Nat
  <2> SUFFICES ASSUME NEW a \in D PROVE k[a] \in P /\ s[k[a]] = a /\ AmountOf[a] \in Nat
    OBVIOUS
  <2>1. k[a] = CHOOSE i \in DOMAIN s : s[i] = a
    OBVIOUS
  <2>2. k[a] \in DOMAIN s /\ s[k[a]] = a
    <3> HIDE DEF k
    <3> QED
      BY <1>1, <2>1
  <2> HIDE DEF k
  <2> QED
    BY <1>2, <2>2 DEF Places
<1>6. F \in [P -> Nat] /\ G \in [D -> Nat] /\ h \in [P -> D] /\ k \in [D -> P]
  <2>1. k = [a \in D |-> k[a]]
    OBVIOUS
  <2> HIDE DEF P, D, k
  <2> QED
    BY <1>4, <1>5, <2>1
<1>7. /\ \A i, j \in P : h[i] = h[j] => i = j
      /\ \A i \in P : F[i] <= G[h[i]]
  <2>1. \A i \in P : h[i] = s[i] /\ i \in DOMAIN s /\ F[i] = AmountOf[s[i]] /\ G[s[i]] = AmountOf[s[i]]
    BY <1>4 DEF Places
  <2> HIDE DEF P, h, F, G
  <2>2. \A i \in P : F[i] <= G[h[i]]
    BY <1>4, <2>1
  <2> QED
    BY <1>1, <2>1, <2>2
<1>8. /\ \A a, b \in D : k[a] = k[b] => a = b
      /\ \A a \in D : G[a] <= F[k[a]]
  <2>1. \A a \in D : G[a] = AmountOf[a]
    OBVIOUS
  <2>2. \A i \in P : F[i] = AmountOf[s[i]]
    OBVIOUS
  <2> HIDE DEF P, D, k, F, G
  <2> QED
    BY <1>5, <2>1, <2>2
<1> HIDE DEF P, D, F, G, h, k
<1>9. SumFunction(F) <= SumFunction(G) /\ SumFunction(G) <= SumFunction(F)
  BY <1>3, <1>6, <1>7, <1>8, SumCovered
<1>10. SumFunction(F) \in Nat /\ SumFunction(G) \in Nat
  BY <1>3, <1>6, SumIsNat
<1>11. SumFunction(F) = SumFunction(G)
  BY <1>9, <1>10
<1> QED
  BY <1>11 DEF Quantities, Amount, F, G, P, D

LEMMA QuantityIsNat ==
    ASSUME NEW s \in Seq(Copies), NEW e
    PROVE  Quantities(s, e) \in Nat
<1> DEFINE P == Places(s, e)
           F == [i \in P |-> AmountOf[s[i]]]
<1>1. Len(s) \in Nat /\ DOMAIN s = 1..Len(s) /\ \A i \in DOMAIN s : s[i] \in Copies
  OBVIOUS
<1>2. P \subseteq 1..Len(s) /\ IsFiniteSet(1..Len(s))
  BY <1>1, FS_Interval DEF Places
<1>3. IsFiniteSet(P)
  <2> HIDE DEF P
  <2> QED
    BY <1>2, FS_Subset
<1>4. F \in [P -> Nat]
  <2>1. AmountOf \in [Copies -> Nat]
    BY InventoryAssumption
  <2> HIDE DEF P
  <2> QED
    BY <1>1, <1>2, <2>1
<1> HIDE DEF P, F
<1>5. SumFunction(F) \in Nat
  BY <1>3, <1>4, SumIsNat
<1> QED
  BY <1>5 DEF Quantities, P, F

\* The first places of the entries of a table.
LEMMA FirstsAre ==
    ASSUME NEW s \in Seq(Copies), NEW table \in Tables
    PROVE  /\ Firsts(s, table) \in Seq(DOMAIN s)
           /\ \A k \in DOMAIN Firsts(s, table) : EntryOf[s[Firsts(s, table)[k]]].table = table
           /\ \A n : Places(s, Entry(table, n)) # {} =>
                 \E k \in DOMAIN Firsts(s, table) : EntryOf[s[Firsts(s, table)[k]]] = Entry(table, n)
<1> DEFINE P == {i \in DOMAIN s : /\ EntryOf[s[i]].table = table
                                  /\ \A j \in 1..(i - 1) : EntryOf[s[j]] # EntryOf[s[i]]}
           f == Firsts(s, table)
<1>1. DOMAIN s = 1..Len(s) /\ Len(s) \in Nat /\ P \in SUBSET DOMAIN s
  OBVIOUS
<1>2. P \in SUBSET Int /\ IsFiniteSet(P)
  <2>1. IsFiniteSet(1..Len(s)) /\ P \subseteq 1..Len(s)
    BY <1>1, FS_Interval
  <2> HIDE DEF P
  <2>2. IsFiniteSet(P)
    BY <2>1, FS_Subset
  <2> QED
    BY <1>1, <2>1, <2>2
<1>3. f = InOrder(P)
  BY DEF Firsts
<1>4. Lists(f, P)
  <2> HIDE DEF P, f
  <2> QED
    BY <1>2, <1>3, InOrderLists
<1>5. f \in Seq(DOMAIN s) /\ \A k \in DOMAIN f : f[k] \in P
  <2> HIDE DEF P, f
  <2>1. f \in Seq(P)
    BY <1>4 DEF Lists
  <2> QED
    BY <1>1, <2>1
<1>6. ASSUME NEW n, Places(s, Entry(table, n)) # {}
      PROVE  \E k \in DOMAIN f : EntryOf[s[f[k]]] = Entry(table, n)
  <2>1. Places(s, Entry(table, n)) \in SUBSET Nat
    BY <1>1 DEF Places
  <2>2. PICK i \in Places(s, Entry(table, n)) : \A j \in Places(s, Entry(table, n)) : i <= j
    BY <1>6, <2>1, LeastNumber
  <2>3. i \in DOMAIN s /\ EntryOf[s[i]] = Entry(table, n)
    BY <2>2 DEF Places
  <2>4. \A j \in 1..(i - 1) : EntryOf[s[j]] # EntryOf[s[i]]
    <3> SUFFICES ASSUME NEW j \in 1..(i - 1), EntryOf[s[j]] = EntryOf[s[i]] PROVE FALSE
      OBVIOUS
    <3>1. j \in DOMAIN s /\ ~(i <= j)
      BY <1>1, <2>3
    <3> QED
      BY <2>2, <2>3, <3>1 DEF Places
  <2>5. i \in P
    BY <2>3, <2>4 DEF Entry
  <2>6. PICK k \in DOMAIN f : f[k] = i
    <3> HIDE DEF P, f
    <3> QED
      BY <1>4, <2>5 DEF Lists
  <2> QED
    BY <2>3, <2>6
<1>7. \A k \in DOMAIN f : EntryOf[s[f[k]]].table = table
  BY <1>5
<1> QED
  BY <1>5, <1>6, <1>7

\* The rows of an inventory have their type, say what the inventory adds up to,
\* and leave no card out.
LEMMA InventoryRowsAre ==
    ASSUME NEW s \in Seq(Copies)
    PROVE  LET t == InventoryRows(s)
           IN  /\ t \in Seq(Rows)
               /\ \A k \in DOMAIN t :
                     /\ t[k].table \in {"card"} \cup Tables
                     /\ t[k].table \in Tables =>
                           t[k].quantity = Quantities(s, Entry(t[k].table, t[k].name))
               /\ \A n : Places(s, Entry("inventory", n)) # {} =>
                     \E k \in DOMAIN t : t[k].table = "inventory" /\ t[k].name = n
<1> DEFINE cards == Firsts(s, "inventory")
           items == Firsts(s, "holding")
           n == Len(cards)
           m == Len(items)
           of(k) == s[cards[(k + 1) \div 2]]
           f == [k \in 1..(2 * n) |-> IF k % 2 = 1 THEN CardRow(of(k))
                                      ELSE QuantityRow("inventory", s, of(k))]
           g == [k \in 1..m |-> QuantityRow("holding", s, s[items[k]])]
           Good(r) == /\ r \in Rows /\ r.table \in {"card"} \cup Tables
                      /\ r.table \in Tables => r.quantity = Quantities(s, Entry(r.table, r.name))
           Y == {r \in Rows : Good(r)}
<1>1. /\ cards \in Seq(DOMAIN s) /\ items \in Seq(DOMAIN s)
      /\ n \in Nat /\ m \in Nat /\ DOMAIN cards = 1..n /\ DOMAIN items = 1..m
  <2>1. cards \in Seq(DOMAIN s) /\ items \in Seq(DOMAIN s)
    BY FirstsAre DEF Tables
  <2> HIDE DEF cards, items
  <2> QED
    BY <2>1
<1>2. InventoryRows(s) = f \o g
  BY <1>1 DEF InventoryRows
<1>3. /\ \A k \in 1..n : s[cards[k]] \in Copies /\ EntryOf[s[cards[k]]].table = "inventory"
      /\ \A k \in 1..m : s[items[k]] \in Copies /\ EntryOf[s[items[k]]].table = "holding"
  <2>1. /\ \A k \in DOMAIN cards : EntryOf[s[cards[k]]].table = "inventory"
        /\ \A k \in DOMAIN items : EntryOf[s[items[k]]].table = "holding"
    BY FirstsAre DEF Tables
  <2>2. /\ \A k \in 1..n : cards[k] \in DOMAIN s
        /\ \A k \in 1..m : items[k] \in DOMAIN s
    <3> HIDE DEF cards, items
    <3> QED
      BY <1>1
  <2>3. \A i \in DOMAIN s : s[i] \in Copies
    OBVIOUS
  <2> HIDE DEF cards, items, n, m
  <2> QED
    BY <1>1, <2>1, <2>2, <2>3
<1>4. ASSUME NEW table \in Tables, NEW a \in Copies, EntryOf[a].table = table
      PROVE  Good(QuantityRow(table, s, a)) /\ Good(CardRow(a))
  <2>1. EntryOf[a].name \in Names /\ EntryOf[a] = Entry(table, EntryOf[a].name)
        /\ IsFoil(DescOf[a]) \in BOOLEAN
    BY <1>4, EntryIsRow
  <2>2. Quantities(s, EntryOf[a]) \in Nat
    BY QuantityIsNat
  <2> DEFINE r == QuantityRow(table, s, a)
  <2>3. r.table = table /\ r.name = EntryOf[a].name /\ r.quantity = Quantities(s, EntryOf[a])
        /\ r \in Rows
    BY <2>1, <2>2 DEF QuantityRow, Rows, Tables
  <2>4. CardRow(a) \in Rows /\ CardRow(a).table = "card"
    BY <2>1 DEF CardRow, Rows
  <2>5. "card" \notin Tables
    BY DEF Tables
  <2> HIDE DEF r
  <2>6. Good(r)
    BY <2>1, <2>3
  <2> QED
    BY <2>4, <2>5, <2>6 DEF r
<1>5. \A k \in 1..(2 * n) : (k + 1) \div 2 \in 1..n
  BY <1>1
<1>6. f \in [1..(2 * n) -> Y] /\ g \in [1..m -> Y]
  <2>1. ASSUME NEW k \in 1..(2 * n) PROVE f[k] \in Y
    <3>1. of(k) \in Copies /\ EntryOf[of(k)].table = "inventory" /\ "inventory" \in Tables
      BY <1>3, <1>5 DEF Tables
    <3>2. Good(QuantityRow("inventory", s, of(k))) /\ Good(CardRow(of(k)))
      <4> HIDE DEF of, Good
      <4> QED
        BY <1>4, <3>1
    <3>3. f[k] = CardRow(of(k)) \/ f[k] = QuantityRow("inventory", s, of(k))
      OBVIOUS
    <3> HIDE DEF f, of
    <3> QED
      BY <3>2, <3>3
  <2>2. ASSUME NEW k \in 1..m PROVE g[k] \in Y
    <3>1. s[items[k]] \in Copies /\ EntryOf[s[items[k]]].table = "holding" /\ "holding" \in Tables
      BY <1>3 DEF Tables
    <3>2. Good(QuantityRow("holding", s, s[items[k]]))
      <4> HIDE DEF Good, items
      <4> QED
        BY <1>4, <3>1
    <3>3. g[k] = QuantityRow("holding", s, s[items[k]])
      OBVIOUS
    <3> HIDE DEF g, items
    <3> QED
      BY <3>2, <3>3
  <2>3. f = [k \in 1..(2 * n) |-> f[k]] /\ g = [k \in 1..m |-> g[k]]
    OBVIOUS
  <2> HIDE DEF f, g, Y, n, m
  <2> QED
    BY <2>1, <2>2, <2>3
<1>7. ASSUME NEW name, Places(s, Entry("inventory", name)) # {}
      PROVE  \E k \in 1..(2 * n) : f[k].table = "inventory" /\ f[k].name = name
  <2>1. PICK j \in DOMAIN cards : EntryOf[s[cards[j]]] = Entry("inventory", name)
    BY <1>7, FirstsAre DEF Tables
  <2>2. 2 * j \in 1..(2 * n) /\ (2 * j + 1) \div 2 = j /\ (2 * j) % 2 = 0
    <3>1. j \in 1..n
      BY <1>1
    <3> HIDE DEF cards, n
    <3>2. j \in Int /\ n \in Int /\ 1 <= j /\ j <= n
      BY <1>1, <3>1
    <3>3. 2 * j \in 1..(2 * n)
      BY <3>2
    <3>4. (2 * j + 1) \div 2 = j
      BY <3>2
    <3>5. (2 * j) % 2 = 0
      BY <3>2
    <3> QED
      BY <3>3, <3>4, <3>5
  <2>3. f[2 * j] = QuantityRow("inventory", s, s[cards[j]])
    <3> HIDE DEF cards, n
    <3> QED
      BY <2>2
  <2>4. f[2 * j].table = "inventory" /\ f[2 * j].name = name
    <3> HIDE DEF f, cards
    <3> QED
      BY <2>1, <2>3 DEF QuantityRow, Entry
  <2> QED
    BY <2>2, <2>4
<1> DEFINE len == 2 * n
<1>8. len \in Nat /\ f \in [1..len -> Y] /\ g \in [1..m -> Y]
  BY <1>1, <1>6
<1>9. \A r \in Y : Good(r)
  OBVIOUS
<1>10. \A name : Places(s, Entry("inventory", name)) # {} =>
          \E k \in 1..len : f[k].table = "inventory" /\ f[k].name = name
  BY <1>7
<1> HIDE DEF len, f, g, Y
<1>11. /\ f \o g \in Seq(Y) /\ DOMAIN (f \o g) = 1..(len + m)
       /\ \A k \in 1..len : (f \o g)[k] = f[k]
  <2>1. m \in Nat
    BY <1>1
  <2> HIDE DEF m
  <2>2. f \in Seq(Y) /\ g \in Seq(Y) /\ Len(f) = len /\ Len(g) = m
    BY <1>8, <2>1
  <2> QED
    BY <1>8, <2>1, <2>2
<1>12. f \o g \in Seq(Rows) /\ \A k \in DOMAIN (f \o g) : Good((f \o g)[k])
  <2>1. Y \subseteq Rows
    BY DEF Y
  <2> DEFINE t == f \o g
  <2>2. t \in Seq(Y)
    BY <1>11
  <2> HIDE DEF Good, t
  <2>3. t \in Seq(Rows) /\ \A k \in DOMAIN t : t[k] \in Y
    BY <2>1, <2>2
  <2> QED
    BY <1>9, <2>3 DEF t
<1>13. 1..len \subseteq 1..(len + m)
  BY <1>1, <1>8
<1>14. \A name : Places(s, Entry("inventory", name)) # {} =>
          \E k \in DOMAIN (f \o g) : (f \o g)[k].table = "inventory" /\ (f \o g)[k].name = name
  BY <1>10, <1>11, <1>13
<1> QED
  BY <1>2, <1>12, <1>14

\* The rows of a list of badges are about badges.
LEMMA BadgeRowsAre ==
    ASSUME NEW entries \in Seq(Entries)
    PROVE  /\ BadgeRows(entries) \in Seq(Rows)
           /\ \A k \in DOMAIN BadgeRows(entries) :
                 BadgeRows(entries)[k].table \in {"progress", "none"}
<1>1. ASSUME NEW i \in DOMAIN entries
      PROVE  BadgeRow(entries, i) \in Rows /\ BadgeRow(entries, i).table \in {"progress", "none"}
  <2>1. entries[i] \in Entries
    OBVIOUS
  <2>2. CASE BadgeRow(entries, i) = NoRow
    BY <2>2 DEF Rows, NoRow
  <2>3. CASE BadgeRow(entries, i) # NoRow
    <3>1. CardBadge(entries[i])
      BY <2>3 DEF BadgeRow
    <3>2. BadgeRow(entries, i) = [table |-> "progress", game |-> entries[i].game,
                                  level |-> Clamp(entries[i].level)]
      BY <2>3 DEF BadgeRow
    <3>3. entries[i].game \in Games /\ entries[i].level \in Int
      BY <2>1, <3>1 DEF CardBadge, Entries
    <3>4. Clamp(entries[i].level) \in 0..MaxLevel
      BY <3>3 DEF Clamp, MaxLevel
    <3> QED
      BY <3>2, <3>3, <3>4 DEF Rows
  <2> QED
    BY <2>2, <2>3
<1>2. BadgeRows(entries) = [i \in 1..Len(entries) |-> BadgeRow(entries, i)]
  BY DEF BadgeRows
<1> QED
  BY <1>1, <1>2

\* What Steam lists is a list of entries.
LEMMA ListsAreEntries ==
    ASSUME NEW of \in [Games -> 0..MaxLevel], NEW entries \in BadgeLists(of)
    PROVE  entries \in Seq(Entries)
<1> DEFINE own == [i \in DOMAIN GameOrder |->
                      [game |-> GameOrder[i], border |-> "normal", level |-> of[GameOrder[i]]]]
<1>1. GameOrder \in Seq(Games) /\ Decoys \in Seq(Entries)
  BY InventoryAssumption
<1>2. own \in Seq(Entries)
  <2>1. ASSUME NEW i \in DOMAIN GameOrder PROVE own[i] \in Entries
    <3>1. GameOrder[i] \in Games /\ of[GameOrder[i]] \in 0..5
      BY <1>1 DEF MaxLevel
    <3> QED
      BY <3>1 DEF Entries
  <2>2. own \in [1..Len(GameOrder) -> Entries] /\ Len(GameOrder) \in Nat
    BY <1>1, <2>1
  <2> HIDE DEF own
  <2> QED
    BY <2>2
<1>3. entries = own \o Decoys \/ entries = Decoys \o own
  BY DEF BadgeLists
<1> HIDE DEF own
<1>4. own \o Decoys \in Seq(Entries) /\ Decoys \o own \in Seq(Entries)
  BY <1>1, <1>2
<1> QED
  BY <1>3, <1>4

-----------------------------------------------------------------------------
(* Types.                                                                  *)

\* A fetch that goes on has pages left.
TypeInv == TypeOK /\ (pc = "fetch" => pages < MaxPages)

LEMMA InitType == Init => TypeInv
<1> SUFFICES ASSUME Init PROVE TypeInv
  OBVIOUS
<1>1. FirstHeld \subseteq Copies /\ MaxPages \in Nat /\ MaxPages # 0 /\ MaxChanges \in Nat
      /\ MaxFaults \in Nat /\ MaxCards \in Nat
  BY InventoryAssumption, PortfolioAssumption
<1>2. InvTypeOK
  <2>1. /\ held = FirstHeld /\ sold = {} /\ levels = NoLevels /\ pc = "idle"
        /\ cursor = 0 /\ gathered = <<>> /\ pages = 0 /\ truncated = FALSE /\ rows = <<>>
        /\ changes = 0 /\ faults = 0 /\ report = None /\ lost = FALSE /\ began = {}
    BY DEF Init, InvInit
  <2>2. held \subseteq Copies /\ sold \subseteq Copies \ held /\ began \subseteq held \cup sold
    BY <1>1, <2>1
  <2>3. levels \in [Games -> 0..MaxLevel]
    BY <2>1 DEF NoLevels, MaxLevel
  <2>4. cursor \in Nat /\ gathered \in Seq(Copies) /\ rows \in Seq(Rows)
    BY <2>1
  <2>5. pages \in 0..MaxPages /\ changes \in 0..MaxChanges /\ faults \in 0..MaxFaults
    BY <1>1, <2>1
  <2>6. /\ known \in [Names -> BOOLEAN \cup {None}] /\ owned \in [Names -> Quantity]
        /\ holdings \in [Names -> Quantity] /\ progress \in [Games -> (0..MaxLevel) \cup {None}]
    BY DEF Init, InvInit, Quantity
  <2> QED
    BY <2>1, <2>2, <2>3, <2>4, <2>5, <2>6 DEF InvTypeOK
<1>3. TypeOK
  <2>1. /\ gpc = "idle" /\ todo = <<>> /\ tried = 0 /\ sack = None
        /\ goo \in [Names -> Nat \cup {None}] /\ pc = "idle"
    BY DEF Init, InvInit
  <2>2. todo \in Seq(Names) /\ tried \in 0..MaxCards
    BY <1>1, <2>1
  <2> QED
    BY <1>2, <2>1, <2>2 DEF TypeOK
<1> QED
  BY <1>3 DEF TypeInv, Init, InvInit

\* What is left to write was there before.
LEMMA FewerRows ==
    ASSUME TypeOK, rows' = rows \/ rows' = <<>> \/ (rows # <<>> /\ rows' = Tail(rows))
    PROVE  /\ rows' \in Seq(Rows)
           /\ \A k \in DOMAIN rows' : \E j \in DOMAIN rows : rows'[k] = rows[j]
<1>1. rows \in Seq(Rows)
  BY DEF TypeOK, InvTypeOK
<1>2. CASE rows' = rows
  BY <1>1, <1>2
<1>3. CASE rows' = <<>>
  BY <1>3
<1>4. CASE rows # <<>> /\ rows' = Tail(rows)
  <2>1. Tail(rows) \in Seq(Rows) /\ Len(Tail(rows)) = Len(rows) - 1 /\ Len(rows) \in Nat
        /\ DOMAIN Tail(rows) = 1..(Len(rows) - 1) /\ DOMAIN rows = 1..Len(rows)
        /\ \A k \in 1..(Len(rows) - 1) : Tail(rows)[k] = rows[k + 1]
    BY <1>1, <1>4
  <2>2. \A k \in 1..(Len(rows) - 1) : k + 1 \in 1..Len(rows)
    BY <2>1
  <2> QED
    BY <1>4, <2>1, <2>2
<1> QED
  BY <1>2, <1>3, <1>4

LEMMA HeadIsRow ==
    ASSUME TypeOK, rows # <<>>
    PROVE  /\ Head(rows) \in Rows /\ 1 \in DOMAIN rows /\ Head(rows) = rows[1]
           /\ \A j \in DOMAIN rows : j # 1 => \E k \in DOMAIN Tail(rows) : Tail(rows)[k] = rows[j]
<1>1. rows \in Seq(Rows) /\ Len(rows) \in Nat \ {0} /\ DOMAIN rows = 1..Len(rows)
  BY DEF TypeOK, InvTypeOK
<1>2. DOMAIN Tail(rows) = 1..(Len(rows) - 1)
      /\ \A k \in 1..(Len(rows) - 1) : Tail(rows)[k] = rows[k + 1]
  BY <1>1
<1>3. \A j \in 1..Len(rows) : j # 1 => j - 1 \in 1..(Len(rows) - 1) /\ (j - 1) + 1 = j
  BY <1>1
<1>4. Head(rows) = rows[1] /\ 1 \in DOMAIN rows /\ rows[1] \in Rows
  BY <1>1
<1> QED
  BY <1>1, <1>2, <1>3, <1>4

\* A step of a fetch adds a page to what was gathered, or clears it.
LEMMA GatheredType ==
    ASSUME TypeOK, gathered' \in {gathered, <<>>, NewestFirst(FirstHeld), gathered \o NewestFirst(Page)}
    PROVE  gathered' \in Seq(Copies)
<1>1. gathered \in Seq(Copies) /\ Page \in SUBSET Copies /\ FirstHeld \in SUBSET Copies
  BY InventoryAssumption, PageIsNewest DEF TypeOK, InvTypeOK
<1>2. NewestFirst(Page) \in Seq(Copies) /\ NewestFirst(FirstHeld) \in Seq(Copies)
  <2>1. ASSUME NEW S \in SUBSET Copies PROVE NewestFirst(S) \in Seq(Copies)
    <3>1. NewestFirst(S) \in Seq(S)
      BY NewestFirstLists DEF Lists
    <3> HIDE DEF NewestFirst
    <3> QED
      BY <3>1
  <2> QED
    BY <1>1, <2>1
<1>3. gathered \o NewestFirst(Page) \in Seq(Copies) /\ <<>> \in Seq(Copies)
  BY <1>1, <1>2
<1> QED
  BY <1>1, <1>2, <1>3

\* The steps of a command but the writing of rows.
LEMMA FetchType ==
    ASSUME TypeInv,
           BeginImport \/ ImportFile \/ LastPage \/ MorePages \/ CursorMissing \/ Refused
               \/ Finish \/ Crash
    PROVE  InvTypeOK' /\ (pc' = "fetch" => pages' < MaxPages)
<1>1. UNCHANGED <<held, sold, levels, known, owned, holdings, progress, changes>>
      /\ (rows' = rows \/ rows' = <<>>)
  BY DEF BeginImport, ImportFile, LastPage, MorePages, CursorMissing, Refused, Finish, Crash,
         account, store
<1>2. gathered' \in {gathered, <<>>, NewestFirst(FirstHeld), gathered \o NewestFirst(Page)}
  BY DEF BeginImport, ImportFile, LastPage, MorePages, CursorMissing, Refused, Finish, Crash,
         Clear, Gather
<1>3. gathered' \in Seq(Copies) /\ rows' \in Seq(Rows)
  BY <1>1, <1>2, GatheredType, FewerRows DEF TypeInv
<1>4. pc' \in {"idle", "fetch", "parse", "write"} /\ truncated' \in BOOLEAN /\ lost' \in BOOLEAN
      /\ report' \in {None, "whole", "partial"} /\ began' \subseteq held' \cup sold'
  <2>1. pc \in {"idle", "fetch", "parse", "write"} /\ truncated \in BOOLEAN /\ lost \in BOOLEAN
        /\ report \in {None, "whole", "partial"} /\ began \subseteq held \cup sold
    BY DEF TypeInv, TypeOK, InvTypeOK
  <2> QED
    BY <1>1, <2>1
       DEF BeginImport, ImportFile, LastPage, MorePages, CursorMissing, Refused, Finish, Crash,
           Goto, Clear, Forget, MarkTruncated, history
<1>5. cursor' \in Nat
  <2>1. cursor \in Nat /\ held \subseteq Copies
    BY DEF TypeInv, TypeOK, InvTypeOK
  <2>2. CASE MorePages
    <3>1. Min(Page) \in Copies /\ cursor' = Min(Page)
      BY <2>1, <2>2, PageIsNewest DEF MorePages, NextCursor
    <3> QED
      BY <3>1, CopiesAreNumbers
  <2> QED
    BY <2>1, <2>2
       DEF BeginImport, ImportFile, LastPage, CursorMissing, Refused, Finish, Crash, Clear
<1>6. pages' \in 0..MaxPages /\ faults' \in 0..MaxFaults /\ (pc' = "fetch" => pages' < MaxPages)
  <2>1. /\ pages \in 0..MaxPages /\ faults \in 0..MaxFaults /\ (pc = "fetch" => pages < MaxPages)
        /\ MaxPages \in Nat /\ MaxPages # 0 /\ MaxFaults \in Nat
    BY InventoryAssumption DEF TypeInv, TypeOK, InvTypeOK
  <2>2. \/ pages' = 0
        \/ pages' = pages /\ pc' # "fetch"
        \/ pc = "fetch" /\ pages' = pages + 1 /\ (pc' = "fetch" => pages + 1 # MaxPages)
    BY DEF BeginImport, ImportFile, LastPage, MorePages, CursorMissing, Refused, Finish, Crash,
           Goto, Clear, Gather
  <2>3. faults' = faults \/ (faults < MaxFaults /\ faults' = faults + 1)
    BY DEF BeginImport, ImportFile, LastPage, MorePages, CursorMissing, Refused, Finish, Crash
  <2> QED
    BY <2>1, <2>2, <2>3
<1>7. /\ held' \subseteq Copies /\ sold' \subseteq Copies \ held' /\ levels' \in [Games -> 0..MaxLevel]
      /\ known' \in [Names -> BOOLEAN \cup {None}] /\ owned' \in [Names -> Quantity]
      /\ holdings' \in [Names -> Quantity] /\ progress' \in [Games -> (0..MaxLevel) \cup {None}]
      /\ changes' \in 0..MaxChanges
  BY <1>1 DEF TypeInv, TypeOK, InvTypeOK
<1> QED
  BY <1>3, <1>4, <1>5, <1>6, <1>7 DEF InvTypeOK

LEMMA ParseType ==
    ASSUME TypeInv, Parse
    PROVE  InvTypeOK' /\ pc' # "fetch"
<1>1. gathered \in Seq(Copies)
  BY DEF TypeInv, TypeOK, InvTypeOK
<1>2. rows' \in Seq(Rows)
  BY <1>1, InventoryRowsAre DEF Parse
<1>3. pc' = "write" /\ UNCHANGED <<account, fetch, store, history, changes, faults>>
  BY DEF Parse, Goto
<1> QED
  BY <1>2, <1>3 DEF TypeInv, TypeOK, InvTypeOK, account, fetch, store, history

LEMMA ReadType ==
    ASSUME TypeInv, ReadBadges
    PROVE  /\ InvTypeOK' /\ pc' # "fetch"
           /\ \A k \in DOMAIN rows' : rows'[k].table \in {"progress", "none"}
<1>1. levels \in [Games -> 0..MaxLevel] /\ NoLevels \in [Games -> 0..MaxLevel]
  BY DEF TypeInv, TypeOK, InvTypeOK, NoLevels, MaxLevel
<1>2. PICK of \in {levels, NoLevels} :
         \E entries \in BadgeLists(of) : rows' = BadgeRows(entries)
  BY DEF ReadBadges
<1>3. PICK entries \in BadgeLists(of) : rows' = BadgeRows(entries)
  BY <1>2
<1>4. entries \in Seq(Entries)
  BY <1>1, ListsAreEntries
<1>5. rows' \in Seq(Rows) /\ \A k \in DOMAIN rows' : rows'[k].table \in {"progress", "none"}
  BY <1>3, <1>4, BadgeRowsAre
<1>6. pc' = "write" /\ UNCHANGED <<account, fetch, store, history, changes, faults>>
  BY DEF ReadBadges, Goto
<1> QED
  BY <1>5, <1>6 DEF TypeInv, TypeOK, InvTypeOK, account, fetch, store, history

LEMMA WriteType ==
    ASSUME TypeInv, WriteRow
    PROVE  InvTypeOK' /\ pc' # "fetch"
<1> DEFINE r == Head(rows)
<1>1. r \in Rows
  BY HeadIsRow DEF WriteRow, TypeInv
<1>2. rows' \in Seq(Rows)
  BY FewerRows DEF WriteRow, TypeInv
<1>3. UNCHANGED <<account, pc, fetch, history, changes, faults>> /\ pc = "write" /\ Upsert(r)
  BY DEF WriteRow
<1> HIDE DEF r
<1>4. /\ known' \in [Names -> BOOLEAN \cup {None}] /\ owned' \in [Names -> Quantity]
      /\ holdings' \in [Names -> Quantity] /\ progress' \in [Games -> (0..MaxLevel) \cup {None}]
  <2>1. /\ known \in [Names -> BOOLEAN \cup {None}] /\ owned \in [Names -> Quantity]
        /\ holdings \in [Names -> Quantity] /\ progress \in [Games -> (0..MaxLevel) \cup {None}]
    BY DEF TypeInv, TypeOK, InvTypeOK
  <2>2. CASE r.table = "card"
    <3>1. r.name \in Names /\ r.foil \in BOOLEAN
      BY <1>1, <2>2 DEF Rows, NoRow
    <3> QED
      BY <1>3, <2>1, <2>2, <3>1 DEF Upsert
  <2>3. CASE r.table \in {"inventory", "holding"}
    <3>1. r.name \in Names /\ r.quantity \in Quantity
      BY <1>1, <2>3 DEF Rows, NoRow, Quantity
    <3> QED
      BY <1>3, <2>1, <2>3, <3>1 DEF Upsert
  <2>4. CASE r.table = "progress"
    <3>1. r.game \in Games /\ r.level \in 0..MaxLevel
      BY <1>1, <2>4 DEF Rows, NoRow
    <3> QED
      BY <1>3, <2>1, <2>4, <3>1 DEF Upsert
  <2>5. CASE r.table = "none"
    BY <1>3, <2>1, <2>5 DEF Upsert, store
  <2> QED
    BY <1>3, <2>2, <2>3, <2>4, <2>5 DEF Upsert
<1> QED
  BY <1>2, <1>3, <1>4 DEF TypeInv, TypeOK, InvTypeOK, account, fetch, history

LEMMA AccountType ==
    ASSUME TypeInv, Account
    PROVE  /\ InvTypeOK' /\ held \cup sold \subseteq held' \cup sold' /\ sold \subseteq sold'
           /\ UNCHANGED <<pc, fetch, rows, store, history, faults>>
           /\ levels' \in [Games -> 0..MaxLevel] /\ \A g \in Games : levels[g] <= levels'[g]
<1>1. /\ held \subseteq Copies /\ sold \subseteq Copies \ held /\ began \subseteq held \cup sold
      /\ levels \in [Games -> 0..5] /\ changes \in 0..MaxChanges /\ MaxChanges \in Nat
  BY InventoryAssumption DEF TypeInv, TypeOK, InvTypeOK, MaxLevel
<1>2. UNCHANGED <<pc, fetch, rows, store, history, faults>>
  BY DEF Account, Receive, Sell, Craft, LosesCopies
<1>3. \/ \E a \in Copies \ (held \cup sold) : held' = held \cup {a} /\ UNCHANGED <<sold, changes>>
      \/ \E S \in SUBSET held : /\ held' = held \ S /\ sold' = sold \cup S
                                /\ changes < MaxChanges /\ changes' = changes + 1
  BY DEF Account, Receive, Sell, Craft, LosesCopies
<1>4. /\ held' \subseteq Copies /\ sold' \subseteq Copies \ held' /\ changes' \in 0..MaxChanges
      /\ held \cup sold \subseteq held' \cup sold' /\ sold \subseteq sold'
  <2>1. CASE \E a \in Copies \ (held \cup sold) : held' = held \cup {a} /\ UNCHANGED <<sold, changes>>
    BY <1>1, <2>1
  <2>2. CASE \E S \in SUBSET held : /\ held' = held \ S /\ sold' = sold \cup S
                                   /\ changes < MaxChanges /\ changes' = changes + 1
    BY <1>1, <2>2
  <2> QED
    BY <1>3, <2>1, <2>2
<1>5. \/ levels' = levels
      \/ \E g \in Games : levels[g] < 5 /\ levels' = [levels EXCEPT ![g] = @ + 1]
  BY DEF Account, Receive, Sell, Craft, MaxLevel
<1>6. levels' \in [Games -> 0..5] /\ \A g \in Games : levels[g] <= levels'[g]
  <2>1. CASE levels' = levels
    BY <1>1, <2>1
  <2>2. ASSUME NEW g \in Games, levels[g] < 5, levels' = [levels EXCEPT ![g] = @ + 1]
        PROVE  levels' \in [Games -> 0..5] /\ \A h \in Games : levels[h] <= levels'[h]
    BY <1>1, <2>2
  <2> QED
    BY <1>5, <2>1, <2>2
<1>7. began' \subseteq held' \cup sold'
  BY <1>1, <1>2, <1>4 DEF history
<1>8. InvTypeOK'
  <2>1. /\ UNCHANGED <<pc, cursor, gathered, pages, truncated, rows, known, owned, holdings,
                       progress, report, lost, faults>>
    BY <1>2 DEF fetch, store, history
  <2> QED
    BY <1>4, <1>6, <1>7, <2>1 DEF TypeInv, TypeOK, InvTypeOK, MaxLevel
<1> QED
  BY <1>2, <1>4, <1>6, <1>8 DEF MaxLevel

LEMMA GemsType ==
    ASSUME TypeInv, pc = "idle", GemCommands,
           UNCHANGED <<account, pc, fetch, rows, store, history, changes>>
    PROVE  TypeInv'
<1>1. /\ gpc \in {"idle", "sack", "goo"} /\ todo \in Seq(Names) /\ tried \in 0..MaxCards
      /\ goo \in [Names -> Nat \cup {None}] /\ sack \in SackPrices \cup {None}
      /\ faults \in 0..MaxFaults /\ MaxFaults \in Nat /\ MaxCards \in Nat /\ MaxCards # 0
  BY InventoryAssumption, PortfolioAssumption DEF TypeInv, TypeOK, InvTypeOK
<1>2. faults' \in 0..MaxFaults
  <2>1. faults' = faults \/ (faults < MaxFaults /\ faults' = faults + 1)
    BY DEF GemCommands, GemSteps, BeginGems, RefreshSack, FetchGoo, MissGoo, FinishGems, StopGems
  <2> QED
    BY <1>1, <2>1
<1>3. InvTypeOK'
  BY <1>2 DEF TypeInv, TypeOK, InvTypeOK, account, fetch, store, history
<1>4. Candidates \in Seq(Names)
  <2> DEFINE P == {i \in DOMAIN CardOrder : Wanted(CardOrder[i])}
             at == InOrder(P)
  <2>1. CardOrder \in Seq(Names)
    BY PortfolioAssumption
  <2>2. P \in SUBSET Int /\ IsFiniteSet(P)
    <3>1. P \subseteq 1..Len(CardOrder) /\ IsFiniteSet(1..Len(CardOrder))
      BY <2>1, FS_Interval
    <3> HIDE DEF P
    <3>2. IsFiniteSet(P)
      BY <3>1, FS_Subset
    <3>3. P \in SUBSET Int
      BY <3>1
    <3> QED
      BY <3>2, <3>3
  <2>3. at \in Seq(P) /\ \A i \in P : i \in DOMAIN CardOrder
    <3>1. \A i \in P : i \in DOMAIN CardOrder
      OBVIOUS
    <3> HIDE DEF P
    <3> QED
      BY <2>2, <3>1, InOrderLists DEF Lists
  <2>4. Candidates = [k \in DOMAIN at |-> CardOrder[at[k]]]
    BY DEF Candidates
  <2> HIDE DEF P, at
  <2>5. DOMAIN at = 1..Len(at) /\ Len(at) \in Nat /\ \A k \in DOMAIN at : CardOrder[at[k]] \in Names
    BY <2>1, <2>3
  <2> QED
    BY <2>4, <2>5
<1>5. todo # <<>> => Head(todo) \in Names /\ Tail(todo) \in Seq(Names)
  BY <1>1
<1>6. /\ gpc' \in {"idle", "sack", "goo"} /\ todo' \in Seq(Names) /\ tried' \in 0..MaxCards
      /\ goo' \in [Names -> Nat \cup {None}] /\ sack' \in SackPrices \cup {None}
  <2>1. <<>> \in Seq(Names)
    OBVIOUS
  <2>2. CASE BeginGems
    <3>1. gpc' = "sack" /\ todo' \in {Candidates, <<>>} /\ tried' = 0 /\ UNCHANGED <<goo, sack>>
      BY <2>2 DEF BeginGems
    <3>2. 0 \in 0..MaxCards
      BY <1>1
    <3> HIDE DEF Candidates
    <3> QED
      BY <1>1, <1>4, <2>1, <3>1, <3>2
  <2>3. CASE RefreshSack
    BY <1>1, <2>3 DEF RefreshSack
  <2>4. CASE FetchGoo
    <3>1. goo' \in [Names -> Nat \cup {None}]
      BY <1>1, <1>5, <2>4, PortfolioAssumption DEF FetchGoo
    <3>2. tried < MaxCards /\ tried' = tried + 1 /\ todo' = Tail(todo) /\ todo # <<>>
          /\ UNCHANGED <<gpc, sack>>
      BY <2>4 DEF FetchGoo, CountTry, Advance
    <3> QED
      BY <1>1, <1>5, <3>1, <3>2
  <2>5. CASE MissGoo
    <3>1. tried < MaxCards /\ tried' = tried + 1 /\ todo' = Tail(todo) /\ todo # <<>>
          /\ UNCHANGED <<gpc, goo, sack>>
      BY <2>5 DEF MissGoo, CountTry, Advance
    <3> QED
      BY <1>1, <1>5, <3>1
  <2>6. CASE FinishGems \/ StopGems
    <3>1. gpc' = "idle" /\ todo' = <<>> /\ tried' = 0 /\ UNCHANGED <<goo, sack>>
      BY <2>6 DEF FinishGems, StopGems, EndGems
    <3>2. 0 \in 0..MaxCards
      BY <1>1
    <3> QED
      BY <1>1, <2>1, <3>1, <3>2
  <2> QED
    BY <2>2, <2>3, <2>4, <2>5, <2>6 DEF GemCommands, GemSteps
<1>7. pc' = "idle"
  OBVIOUS
<1> QED
  BY <1>3, <1>6, <1>7 DEF TypeInv, TypeOK

LEMMA NextType == ASSUME TypeInv, [Next]_vars PROVE TypeInv'
<1>1. CASE gpc = "idle" /\ Commands /\ UNCHANGED gemVars
  <2>1. InvTypeOK' /\ (pc' = "fetch" => pages' < MaxPages)
    BY <1>1, FetchType, ParseType, ReadType, WriteType DEF Commands, Steps
  <2> QED
    BY <1>1, <2>1 DEF TypeInv, TypeOK, gemVars
<1>2. CASE Account /\ UNCHANGED gemVars
  <2>1. InvTypeOK' /\ UNCHANGED <<pc, pages>>
    BY <1>2, AccountType DEF fetch
  <2> QED
    BY <1>2, <2>1 DEF TypeInv, TypeOK, gemVars
<1>3. CASE pc = "idle" /\ GemCommands
              /\ UNCHANGED <<account, pc, fetch, rows, store, history, changes>>
  BY <1>3, GemsType
<1>4. CASE UNCHANGED vars
  BY <1>4 DEF TypeInv, TypeOK, InvTypeOK, vars, invVars, gemVars, account, fetch, store, history
<1> QED
  BY <1>1, <1>2, <1>3, <1>4 DEF Next

LEMMA TypeInvHolds == Spec => []TypeInv
  BY InitType, NextType, PTL DEF Spec

\* Whatever is imported, refused or killed, and however the account changes
\* meanwhile, the variables keep their types: a row to be written has a name or
\* a game the account knows and an amount, and no run goes past its pages or its
\* cards (steam_inventory.py:284-303, goo_value.py:171).
THEOREM PortfolioTyping == Spec => []TypeOK
  BY TypeInvHolds, PTL DEF TypeInv

-----------------------------------------------------------------------------
(* Badge levels.                                                           *)

\* What is going to be written does not put a level ahead.
Fits(r) == r.table = "progress" => r.level <= levels[r.game]

LevelInv == LevelNeverAhead /\ \A k \in DOMAIN rows : Fits(rows[k])

\* The rows of a list of badges fit the levels it was read from.
LEMMA BadgeRowsFit ==
    ASSUME TypeOK, NEW of \in {levels, NoLevels}, NEW entries \in BadgeLists(of)
    PROVE  \A i \in DOMAIN BadgeRows(entries) : Fits(BadgeRows(entries)[i])
<1>1. /\ levels \in [Games -> 0..5] /\ of \in [Games -> 0..5]
      /\ \A g \in Games : of[g] <= levels[g]
  <2>1. levels \in [Games -> 0..5] /\ \A g \in Games : levels[g] <= levels[g] /\ 0 <= levels[g]
    <3>1. levels \in [Games -> 0..5]
      BY DEF TypeOK, InvTypeOK, MaxLevel
    <3>2. \A g \in Games : levels[g] \in 0..5
      BY <3>1
    <3> QED
      BY <3>1, <3>2
  <2>2. NoLevels \in [Games -> 0..5] /\ \A g \in Games : NoLevels[g] = 0
    BY DEF NoLevels
  <2> QED
    BY <2>1, <2>2
<1> DEFINE own == [i \in DOMAIN GameOrder |->
                      [game |-> GameOrder[i], border |-> "normal", level |-> of[GameOrder[i]]]]
           Fair(e) == CardBadge(e) => Clamp(e.level) <= levels[e.game]
           E == {e \in Entries : Fair(e)}
<1>2. GameOrder \in Seq(Games) /\ Decoys \in Seq(Entries)
  BY InventoryAssumption
<1>3. own \in Seq(E)
  <2>1. ASSUME NEW i \in DOMAIN GameOrder PROVE own[i] \in E
    <3>1. GameOrder[i] \in Games /\ of[GameOrder[i]] \in 0..5
      BY <1>1, <1>2
    <3>2. own[i] \in Entries
      BY <3>1 DEF Entries
    <3>3. Clamp(of[GameOrder[i]]) = of[GameOrder[i]] /\ of[GameOrder[i]] <= levels[GameOrder[i]]
      BY <1>1, <3>1 DEF Clamp, MaxLevel
    <3> QED
      BY <3>2, <3>3
  <2>2. own \in [1..Len(GameOrder) -> E] /\ Len(GameOrder) \in Nat
    BY <1>2, <2>1
  <2> HIDE DEF own, E
  <2> QED
    BY <2>2
<1>4. Decoys \in Seq(E)
  <2>1. ASSUME NEW i \in DOMAIN Decoys PROVE Decoys[i] \in E
    <3>1. Decoys[i] \in Entries
      BY <1>2
    <3>2. Decoys[i].border = "normal" /\ Decoys[i].level # None => Decoys[i].level <= 0
      BY InventoryAssumption
    <3>3. ASSUME CardBadge(Decoys[i]) PROVE Clamp(Decoys[i].level) <= levels[Decoys[i].game]
      <4>1. /\ Decoys[i].game \in Games /\ Decoys[i].level \in Int /\ Decoys[i].level <= 0
        BY <3>1, <3>2, <3>3 DEF CardBadge, Entries
      <4>2. levels[Decoys[i].game] \in 0..5
        BY <1>1, <4>1
      <4> QED
        BY <4>1, <4>2 DEF Clamp, MaxLevel
    <3> QED
      BY <3>1, <3>3
  <2>2. Decoys \in [1..Len(Decoys) -> E] /\ Len(Decoys) \in Nat
    BY <1>2, <2>1
  <2> HIDE DEF E
  <2> QED
    BY <2>2
<1>5. entries = own \o Decoys \/ entries = Decoys \o own
  BY DEF BadgeLists
<1> HIDE DEF own
<1>6. \A e \in E : Fair(e)
  OBVIOUS
<1> HIDE DEF E
<1>7. entries \in Seq(E)
  <2>1. own \o Decoys \in Seq(E) /\ Decoys \o own \in Seq(E)
    BY <1>3, <1>4
  <2> QED
    BY <1>5, <2>1
<1>8. ASSUME NEW i \in DOMAIN entries PROVE Fits(BadgeRow(entries, i))
  <2>1. Fair(entries[i])
    BY <1>6, <1>7
  <2>2. CASE BadgeRow(entries, i) = NoRow
    BY <2>2 DEF NoRow, Fits
  <2>3. CASE BadgeRow(entries, i) # NoRow
    <3>1. CardBadge(entries[i])
      BY <2>3 DEF BadgeRow
    <3>2. BadgeRow(entries, i) = [table |-> "progress", game |-> entries[i].game,
                                  level |-> Clamp(entries[i].level)]
      BY <2>3 DEF BadgeRow
    <3> QED
      BY <2>1, <3>1, <3>2 DEF Fits
  <2> QED
    BY <2>2, <2>3
<1> QED
  BY <1>8 DEF BadgeRows

\* Levels only rise: what fits keeps fitting.
LEMMA LevelsKept ==
    ASSUME TypeOK, LevelInv, levels' \in [Games -> 0..MaxLevel],
           \A g \in Games : levels[g] <= levels'[g], progress' = progress,
           rows' = rows \/ rows' = <<>> \/ (rows # <<>> /\ rows' = Tail(rows))
    PROVE  LevelInv'
<1>1. levels \in [Games -> 0..5] /\ levels' \in [Games -> 0..5]
      /\ progress \in [Games -> (0..5) \cup {None}]
  BY DEF TypeOK, InvTypeOK, MaxLevel
<1>2. LevelNeverAhead'
  <2> SUFFICES ASSUME NEW g \in Games, progress[g] # None PROVE progress[g] <= levels'[g]
    BY DEF LevelNeverAhead
  <2>1. progress[g] \in 0..5 /\ progress[g] <= levels[g]
    BY <1>1 DEF LevelInv, LevelNeverAhead
  <2> QED
    BY <1>1, <2>1
<1>3. ASSUME NEW k \in DOMAIN rows' PROVE Fits(rows[k])'
  <2>1. PICK j \in DOMAIN rows : rows'[k] = rows[j]
    BY FewerRows
  <2>2. rows[j] \in Rows /\ Fits(rows[j])
    BY DEF TypeOK, InvTypeOK, LevelInv
  <2>3. CASE rows[j].table = "progress"
    <3>1. rows[j].game \in Games /\ rows[j].level \in 0..MaxLevel /\ rows[j].level <= levels[rows[j].game]
      BY <2>2, <2>3 DEF Rows, NoRow, Fits
    <3> DEFINE g == rows[j].game
               n == rows[j].level
    <3>2. g \in Games /\ n \in 0..5 /\ n <= levels[g] /\ levels[g] \in Int /\ levels'[g] \in Int
          /\ levels[g] <= levels'[g]
      BY <1>1, <3>1 DEF MaxLevel
    <3> HIDE DEF g, n
    <3>3. n <= levels'[g]
      BY <3>2
    <3> QED
      BY <2>1, <3>3 DEF Fits, g, n
  <2> QED
    BY <2>1, <2>3 DEF Fits
<1> QED
  BY <1>2, <1>3 DEF LevelInv

LEMMA NextLevels == ASSUME TypeInv, LevelInv, [Next]_vars PROVE LevelInv'
<1>1. TypeOK /\ levels \in [Games -> 0..MaxLevel]
  BY DEF TypeInv, TypeOK, InvTypeOK
<1>2. levels \in [Games -> 0..5] /\ \A g \in Games : levels[g] <= levels[g]
  BY <1>1 DEF MaxLevel
<1>3. CASE BeginImport \/ ImportFile \/ LastPage \/ MorePages \/ CursorMissing \/ Refused
               \/ Finish \/ Crash
  <2>1. UNCHANGED <<levels, progress>> /\ (rows' = rows \/ rows' = <<>>)
    BY <1>3 DEF BeginImport, ImportFile, LastPage, MorePages, CursorMissing, Refused, Finish,
                Crash, account, store
  <2> QED
    BY <1>1, <1>2, <2>1, LevelsKept
<1>4. CASE Parse
  <2>1. gathered \in Seq(Copies) /\ rows' = InventoryRows(gathered) /\ UNCHANGED <<levels, progress>>
    BY <1>1, <1>4 DEF TypeOK, InvTypeOK, Parse, account, store
  <2>2. \A k \in DOMAIN rows' : rows'[k].table # "progress"
    BY <2>1, InventoryRowsAre DEF Tables
  <2> QED
    BY <2>1, <2>2 DEF LevelInv, LevelNeverAhead, Fits
<1>5. CASE ReadBadges
  <2>1. UNCHANGED <<levels, progress>>
    BY <1>5 DEF ReadBadges, account, store
  <2>2. PICK of \in {levels, NoLevels} :
           \E entries \in BadgeLists(of) : rows' = BadgeRows(entries)
    BY <1>5 DEF ReadBadges
  <2>3. PICK entries \in BadgeLists(of) : rows' = BadgeRows(entries)
    BY <2>2
  <2>4. \A k \in DOMAIN rows' : Fits(rows'[k])
    BY <1>1, <2>3, BadgeRowsFit
  <2> QED
    BY <2>1, <2>4 DEF LevelInv, LevelNeverAhead, Fits
<1>6. CASE WriteRow
  <2> DEFINE r == Head(rows)
  <2>1. rows # <<>> /\ rows' = Tail(rows) /\ Upsert(r) /\ levels' = levels
    BY <1>6 DEF WriteRow, account
  <2>2. r \in Rows /\ Fits(r)
    BY <1>1, <2>1, HeadIsRow DEF LevelInv
  <2> HIDE DEF r
  <2>3. CASE r.table = "progress"
    <3>1. r.game \in Games /\ r.level \in 0..5 /\ r.level <= levels[r.game]
      BY <2>2, <2>3 DEF Rows, NoRow, Fits, MaxLevel
    <3>2. progress' = [progress EXCEPT ![r.game] = r.level]
      BY <2>1, <2>3 DEF Upsert
    <3>3. progress \in [Games -> (0..5) \cup {None}]
      BY <1>1 DEF TypeOK, InvTypeOK, MaxLevel
    <3>4. LevelNeverAhead'
      BY <2>1, <3>1, <3>2, <3>3 DEF LevelInv, LevelNeverAhead
    <3>5. \A k \in DOMAIN rows' : Fits(rows'[k])
      <4> SUFFICES ASSUME NEW k \in DOMAIN rows' PROVE Fits(rows'[k])
        OBVIOUS
      <4>1. PICK j \in DOMAIN rows : rows'[k] = rows[j]
        BY <1>1, <2>1, FewerRows
      <4> QED
        BY <4>1 DEF LevelInv
    <3> QED
      BY <2>1, <3>4, <3>5 DEF LevelInv, Fits
  <2>4. CASE r.table # "progress"
    <3>1. progress' = progress
      BY <2>1, <2>4 DEF Upsert, store
    <3> QED
      BY <1>1, <1>2, <2>1, <3>1, LevelsKept
  <2> QED
    BY <2>3, <2>4
<1>7. CASE Account
  <2>1. levels' \in [Games -> 0..MaxLevel] /\ (\A g \in Games : levels[g] <= levels'[g])
        /\ UNCHANGED <<rows, progress>>
    BY <1>7, AccountType DEF store
  <2> QED
    BY <1>1, <2>1, LevelsKept
<1>8. CASE UNCHANGED <<account, rows, store>>
  BY <1>8 DEF LevelInv, LevelNeverAhead, Fits, account, store
<1> QED
  BY <1>3, <1>4, <1>5, <1>6, <1>7, <1>8 DEF Next, Commands, Steps, vars, invVars

\* The level the planner counts the crafts of a badge from is never higher than
\* the one the user has reached, for every account, list of badges, interleaving
\* with crafts and kills (badge_progress.py:73-120).
THEOREM LevelsTrusted == Spec => []LevelNeverAhead
<1>1. Init => LevelInv
  <2> SUFFICES ASSUME Init PROVE LevelInv
    OBVIOUS
  <2>1. rows = <<>> /\ \A g \in Games : progress[g] = None
    BY DEF Init, InvInit
  <2> QED
    BY <2>1 DEF LevelInv, LevelNeverAhead
<1>2. TypeInv /\ LevelInv /\ [Next]_vars => LevelInv'
  BY NextLevels
<1>3. LevelInv => LevelNeverAhead
  BY DEF LevelInv
<1> QED
  BY <1>1, <1>2, <1>3, TypeInvHolds, PTL DEF Spec

-----------------------------------------------------------------------------
(* Paging.                                                                 *)

\* Who was gathered, each once, was held at some time.
GatheredOnce ==
    /\ Lists(gathered, Range(gathered))
    /\ Range(gathered) \subseteq held \cup sold /\ FirstHeld \subseteq held \cup sold

\* A fetch has everything down to its cursor that was there all the time, and
\* when it ends unmarked it has all of that.
GatheredAll ==
    /\ pc = "fetch" =>
          /\ report = None
          /\ \A a \in Range(gathered) : cursor # 0 /\ a >= cursor
          /\ \A a \in began \ sold : cursor # 0 /\ a >= cursor => a \in Range(gathered)
    /\ pc \in {"parse", "write"} /\ pages # 0 /\ ~truncated /\ ~lost =>
          began \ sold \subseteq Range(gathered)

\* The rows to write say what was gathered, and no card is left out.
RowsCount ==
    /\ pc = "idle" => pages = 0
    /\ pc # "write" => rows = <<>>
    /\ \A k \in DOMAIN rows : rows[k].table \in Tables =>
          rows[k].quantity = Amount(Range(gathered), Entry(rows[k].table, rows[k].name))
    /\ pc = "write" /\ pages # 0 =>
          \A n \in Names : Amount(Range(gathered), Entry("inventory", n)) > 0 =>
              \/ owned[n] = Amount(Range(gathered), Entry("inventory", n))
              \/ \E k \in DOMAIN rows : rows[k].table = "inventory" /\ rows[k].name = n

\* While an import speaks for the rows, nothing else is written over them.
ReportStands ==
    /\ report # None =>
          /\ pc \in {"idle", "write"} /\ pages = 0
          /\ \A k \in DOMAIN rows : rows[k].table \in {"progress", "none"}
    /\ WholeUnlessFlagged

\* No row says more than the account has had.
RowsBounded ==
    \A n \in Names :
        /\ owned[n] # None => owned[n] <= Amount(held \cup sold, Entry("inventory", n))
        /\ holdings[n] # None => holdings[n] <= Amount(held \cup sold, Entry("holding", n))

PagingInv == GatheredOnce /\ GatheredAll /\ RowsCount /\ ReportStands /\ RowsBounded

LEMMA ListsRange == ASSUME NEW S, NEW s, Lists(s, S) PROVE Range(s) = S
<1>1. /\ DOMAIN s = 1..Len(s) /\ \A i \in DOMAIN s : s[i] \in S
      /\ \A x \in S : \E i \in DOMAIN s : s[i] = x
  BY DEF Lists
<1> QED
  BY <1>1 DEF Range

\* Nothing is gathered yet, or any more.
LEMMA NothingGathered ==
    ASSUME NEW s, s = <<>>
    PROVE  Range(s) = {} /\ Lists(s, Range(s))
<1>1. Range(s) = {}
  BY DEF Range
<1>2. Lists(s, {})
  BY DEF Lists
<1> QED
  BY <1>1, <1>2

\* Without a report there is nothing to stand by, and without rows nothing to count.
LEMMA NoReport == ASSUME report' = None PROVE ReportStands'
<1>1. None # "whole"
  BY InventoryAssumption
<1> QED
  BY <1>1 DEF ReportStands, WholeUnlessFlagged

LEMMA NoRows ==
    ASSUME rows' = <<>>, pc' # "write", pc' = "idle" => pages' = 0
    PROVE  RowsCount'
<1>1. DOMAIN rows' = {}
  OBVIOUS
<1> QED
  BY <1>1 DEF RowsCount

\* The account only gets to have had more.
LEMMA BoundsKept ==
    ASSUME TypeInv, RowsBounded, UNCHANGED <<owned, holdings>>,
           held \cup sold \subseteq held' \cup sold', held' \cup sold' \subseteq Copies
    PROVE  RowsBounded'
<1> DEFINE had == held \cup sold
           has == held' \cup sold'
<1> SUFFICES ASSUME NEW n \in Names
             PROVE  /\ owned[n] # None => owned[n] <= Amount(has, Entry("inventory", n))
                    /\ holdings[n] # None => holdings[n] <= Amount(has, Entry("holding", n))
  BY DEF RowsBounded
<1>1. owned[n] \in Nat \cup {None} /\ holdings[n] \in Nat \cup {None}
  BY DEF TypeInv, TypeOK, InvTypeOK, Quantity
<1>2. /\ owned[n] # None => owned[n] <= Amount(had, Entry("inventory", n))
      /\ holdings[n] # None => holdings[n] <= Amount(had, Entry("holding", n))
  BY DEF RowsBounded
<1>3. had \in SUBSET has /\ has \in SUBSET Copies /\ had \in SUBSET Copies
  OBVIOUS
<1> HIDE DEF had, has
<1>4. ASSUME NEW e
      PROVE  Amount(had, e) \in Nat /\ Amount(has, e) \in Nat /\ Amount(had, e) <= Amount(has, e)
  BY <1>3, AmountIsNat, AmountGrows
<1>5. ASSUME NEW q \in Nat, NEW e, q <= Amount(had, e) PROVE q <= Amount(has, e)
  BY <1>4, <1>5
<1> QED
  BY <1>1, <1>2, <1>5

\* What the account kept only gets less.
LEMMA WholeKept ==
    ASSUME TypeInv, WholeUnlessFlagged, UNCHANGED <<owned, report, lost, began>>, sold \subseteq sold'
    PROVE  WholeUnlessFlagged'
<1> SUFFICES ASSUME report = "whole", ~lost, NEW n \in Names, Total(began \ sold', n) > 0
             PROVE  owned[n] # None /\ owned[n] >= Total(began \ sold', n)
  BY DEF WholeUnlessFlagged, Total
<1> DEFINE e == Entry("inventory", n)
<1>1. began \ sold \in SUBSET Copies /\ began \ sold' \in SUBSET (began \ sold)
      /\ began \ sold' \in SUBSET Copies
  BY DEF TypeInv, TypeOK, InvTypeOK
<1>2. Amount(began \ sold, e) \in Nat /\ Amount(began \ sold', e) \in Nat
      /\ Amount(began \ sold', e) <= Amount(began \ sold, e)
  BY <1>1, AmountIsNat, AmountGrows
<1>3. Total(began \ sold', n) = Amount(began \ sold', e) /\ Total(began \ sold, n) = Amount(began \ sold, e)
  BY DEF Total
<1>4. Total(began \ sold, n) > 0
  BY <1>2, <1>3
<1>5. owned[n] # None /\ owned[n] >= Total(began \ sold, n)
  BY <1>4 DEF WholeUnlessFlagged
<1>6. owned[n] \in Nat
  BY <1>5 DEF TypeInv, TypeOK, InvTypeOK, Quantity
<1> QED
  BY <1>2, <1>3, <1>5, <1>6

\* The account: copies come and go, and none is had twice.
LEMMA AccountPages == ASSUME TypeInv, PagingInv, Account PROVE PagingInv'
<1>1. /\ UNCHANGED <<pc, cursor, gathered, pages, truncated, rows, owned, holdings, report, lost, began>>
      /\ held \cup sold \subseteq held' \cup sold' /\ sold \subseteq sold'
      /\ held' \cup sold' \subseteq Copies
  <2>1. InvTypeOK' /\ UNCHANGED <<pc, fetch, rows, store, history>>
        /\ held \cup sold \subseteq held' \cup sold' /\ sold \subseteq sold'
    BY AccountType
  <2>2. held' \cup sold' \subseteq Copies
    BY <2>1 DEF InvTypeOK
  <2> QED
    BY <2>1, <2>2 DEF fetch, store, history
<1>2. GatheredOnce'
  BY <1>1 DEF PagingInv, GatheredOnce
<1>3. GatheredAll'
  BY <1>1 DEF PagingInv, GatheredAll
<1>4. RowsCount'
  BY <1>1 DEF PagingInv, RowsCount
<1>5. RowsBounded'
  BY <1>1, BoundsKept DEF PagingInv
<1>6. ReportStands'
  <2>1. WholeUnlessFlagged'
    BY <1>1, WholeKept DEF PagingInv, ReportStands
  <2> QED
    BY <1>1, <2>1 DEF PagingInv, ReportStands
<1> QED
  BY <1>2, <1>3, <1>4, <1>5, <1>6 DEF PagingInv

\* A page is new, and older than everything that was gathered before.
LEMMA PageIsNew ==
    ASSUME TypeInv, PagingInv, pc = "fetch"
    PROVE  LET all == gathered \o NewestFirst(Page)
           IN  /\ Lists(all, Range(all)) /\ Range(all) = Range(gathered) \cup Page
               /\ Range(all) \subseteq held \cup sold
<1>1. held \subseteq Copies /\ cursor \in Nat /\ gathered \in Seq(Copies)
  BY DEF TypeInv, TypeOK, InvTypeOK
<1>2. Page \subseteq held /\ Page \in SUBSET Copies
      /\ \A a \in Page : a \in Listed
  BY <1>1, PageIsNewest
<1>3. Range(gathered) \cap Page = {}
  <2> SUFFICES ASSUME NEW a \in Range(gathered), a \in Page PROVE FALSE
    OBVIOUS
  <2>1. cursor # 0 /\ a >= cursor
    BY DEF PagingInv, GatheredAll
  <2>2. a < cursor /\ a \in Int
    BY <1>2, <2>1, CopiesAreNumbers DEF Listed
  <2> QED
    BY <1>1, <2>1, <2>2
<1>4. Lists(gathered, Range(gathered)) /\ Range(gathered) \subseteq held \cup sold
  BY DEF PagingInv, GatheredOnce
<1>5. Lists(NewestFirst(Page), Page)
  BY <1>2, NewestFirstLists
<1>6. Lists(gathered \o NewestFirst(Page), Range(gathered) \cup Page)
  BY <1>3, <1>4, <1>5, ListsJoin
<1>7. Range(gathered \o NewestFirst(Page)) = Range(gathered) \cup Page
  BY <1>6, ListsRange
<1> QED
  BY <1>2, <1>4, <1>6, <1>7

LEMMA PagePages ==
    ASSUME TypeInv, PagingInv, LastPage \/ MorePages \/ CursorMissing
    PROVE  PagingInv'
<1> DEFINE all == gathered \o NewestFirst(Page)
<1>1. /\ pc = "fetch" /\ pc' \in {"fetch", "parse"} /\ gathered' = all
      /\ UNCHANGED <<held, sold, rows, owned, holdings, report, began>>
  BY DEF LastPage, MorePages, CursorMissing, Gather, Goto, account, store, history
<1>2. /\ Lists(all, Range(all)) /\ Range(all) = Range(gathered) \cup Page
      /\ Range(all) \subseteq held \cup sold
  BY <1>1, PageIsNew
<1> HIDE DEF all
<1>3. /\ held \subseteq Copies /\ sold \subseteq Copies \ held /\ began \subseteq held \cup sold
      /\ cursor \in Nat
  BY DEF TypeInv, TypeOK, InvTypeOK
<1>4. GatheredOnce'
  BY <1>1, <1>2 DEF PagingInv, GatheredOnce
<1>5. report = None /\ rows = <<>>
  BY <1>1 DEF PagingInv, GatheredAll, RowsCount
<1>6. /\ Page \subseteq Listed /\ Listed \subseteq held
      /\ \A a \in Listed \ Page, b \in Page : a < b
      /\ Page # Listed => Page # {}
      /\ Page # {} => Min(Page) \in Page /\ \A a \in Page : Min(Page) <= a
  BY <1>3, PageIsNewest
<1>7. \A a \in began \ sold : a \in Range(gathered) \/ a \in Listed
  <2> SUFFICES ASSUME NEW a \in began \ sold, a \notin Range(gathered) PROVE a \in Listed
    OBVIOUS
  <2>1. ~(cursor # 0 /\ a >= cursor)
    BY <1>1 DEF PagingInv, GatheredAll
  <2>2. a \in held /\ a \in Int
    BY <1>3, CopiesAreNumbers
  <2> QED
    BY <1>3, <2>1, <2>2 DEF Listed
<1>8. ReportStands' /\ RowsCount' /\ RowsBounded'
  <2>1. ReportStands'
    BY <1>1, <1>5, NoReport
  <2>2. RowsCount'
    BY <1>1, <1>5, NoRows
  <2>3. RowsBounded'
    BY <1>1 DEF PagingInv, RowsBounded
  <2> QED
    BY <2>1, <2>2, <2>3
<1>9. CASE Page = Listed /\ pc' = "parse"
  <2>1. began \ sold \subseteq Range(all)
    BY <1>2, <1>7, <1>9
  <2>2. GatheredAll'
    BY <1>1, <1>9, <2>1 DEF GatheredAll
  <2> QED
    BY <1>4, <1>8, <2>2 DEF PagingInv
<1>10. CASE pc' = "parse" /\ (truncated' \/ lost')
  <2>1. GatheredAll'
    BY <1>10 DEF GatheredAll
  <2> QED
    BY <1>4, <1>8, <2>1 DEF PagingInv
<1>11. CASE MorePages /\ pc' = "fetch"
  <2>1. cursor' = Min(Page) /\ Page # Listed
    BY <1>11 DEF MorePages, NextCursor
  <2>2. cursor' \in Page /\ (\A a \in Page : cursor' <= a) /\ cursor' \in Nat /\ cursor' # 0
    BY <1>3, <1>6, <2>1, CopiesAreNumbers
  <2>3. ASSUME NEW a \in Range(all) PROVE a >= cursor'
    <3>1. CASE a \in Page
      BY <2>2, <3>1, <1>3, <1>6, CopiesAreNumbers
    <3>2. CASE a \in Range(gathered)
      <4>1. cursor # 0 /\ a >= cursor
        BY <1>1, <3>2 DEF PagingInv, GatheredAll
      <4>2. cursor' < cursor
        BY <1>6, <2>2, <4>1 DEF Listed
      <4>3. a \in Int
        BY <1>2, <1>3, CopiesAreNumbers
      <4> QED
        BY <1>3, <2>2, <4>1, <4>2, <4>3
    <3> QED
      BY <1>2, <3>1, <3>2
  <2>4. ASSUME NEW a \in began \ sold, a >= cursor' PROVE a \in Range(all)
    <3>1. CASE a \in Range(gathered)
      BY <1>2, <3>1
    <3>2. CASE a \in Listed
      <4>1. a \notin Page => a < cursor'
        BY <1>6, <2>2, <3>2
      <4>2. a \in Int
        BY <1>3, CopiesAreNumbers
      <4>3. a \in Page
        BY <2>2, <2>4, <4>1, <4>2
      <4> QED
        BY <1>2, <4>3
    <3> QED
      BY <1>7, <3>1, <3>2
  <2>5. GatheredAll'
    BY <1>1, <1>5, <1>11, <2>2, <2>3, <2>4 DEF GatheredAll
  <2> QED
    BY <1>4, <1>8, <2>5 DEF PagingInv
<1>12. \/ Page = Listed /\ pc' = "parse"
       \/ pc' = "parse" /\ (truncated' \/ lost')
       \/ MorePages /\ pc' = "fetch"
  BY <1>1 DEF LastPage, MorePages, CursorMissing, Goto, MarkTruncated
<1> QED
  BY <1>9, <1>10, <1>11, <1>12

\* A command begins, or ends without a word.
LEMMA EndPages ==
    ASSUME TypeInv, PagingInv, BeginImport \/ ImportFile \/ Refused \/ Crash
    PROVE  PagingInv'
<1>1. /\ UNCHANGED <<held, sold, owned, holdings>> /\ report' = None
      /\ FirstHeld \subseteq held \cup sold /\ FirstHeld \in SUBSET Copies
  BY InventoryAssumption
     DEF PagingInv, GatheredOnce, BeginImport, ImportFile, Refused, Crash, Forget, account, store
<1>2. rows' = <<>>
  BY DEF PagingInv, RowsCount, BeginImport, ImportFile, Refused, Crash
<1>3. RowsBounded' /\ ReportStands'
  <2>1. RowsBounded'
    BY <1>1 DEF PagingInv, RowsBounded
  <2> QED
    BY <1>1, <2>1, NoReport
<1>4. CASE ImportFile
  <2>1. gathered' = NewestFirst(FirstHeld) /\ pc' = "parse" /\ pages' = pages /\ pages = 0
    BY <1>4 DEF ImportFile, Goto, PagingInv, RowsCount
  <2>2. Lists(gathered', FirstHeld)
    BY <1>1, <2>1, NewestFirstLists
  <2>3. Range(gathered)' = FirstHeld
    BY <2>2, ListsRange
  <2>4. GatheredOnce' /\ GatheredAll' /\ RowsCount'
    BY <1>1, <1>2, <2>1, <2>2, <2>3 DEF GatheredOnce, GatheredAll, RowsCount
  <2> QED
    BY <1>3, <2>4 DEF PagingInv
<1>5. CASE BeginImport \/ Refused \/ Crash
  <2>1. /\ gathered' = <<>> /\ pages' = 0 /\ cursor' = 0 /\ pc' \in {"fetch", "idle"}
    BY <1>5 DEF BeginImport, Refused, Crash, Goto, Clear
  <2>2. Range(gathered)' = {} /\ Lists(gathered, Range(gathered))'
    BY <2>1, NothingGathered
  <2>3. GatheredOnce' /\ GatheredAll' /\ RowsCount'
    BY <1>1, <1>2, <2>1, <2>2 DEF GatheredOnce, GatheredAll, RowsCount
  <2> QED
    BY <1>3, <2>3 DEF PagingInv
<1> QED
  BY <1>4, <1>5

\* Nothing that paging is about changes.
LEMMA SamePages ==
    ASSUME PagingInv, UNCHANGED <<account, pc, fetch, rows, store, history>>
    PROVE  PagingInv'
<1>1. UNCHANGED <<held, sold, pc, cursor, gathered, pages, truncated, rows, owned, holdings,
                  report, lost, began>>
  BY DEF account, fetch, store, history
<1>2. GatheredOnce' /\ GatheredAll'
  BY <1>1 DEF PagingInv, GatheredOnce, GatheredAll
<1>3. RowsCount' /\ RowsBounded'
  BY <1>1 DEF PagingInv, RowsCount, RowsBounded
<1>4. ReportStands'
  BY <1>1 DEF PagingInv, ReportStands, WholeUnlessFlagged, Total
<1> QED
  BY <1>2, <1>3, <1>4 DEF PagingInv

\* What was gathered is counted into rows, and no card is left out.
LEMMA ParsePages == ASSUME TypeInv, PagingInv, Parse PROVE PagingInv'
<1> DEFINE all == Range(gathered)
<1>1. /\ pc = "parse" /\ pc' = "write" /\ rows' = InventoryRows(gathered)
      /\ UNCHANGED <<held, sold, cursor, gathered, pages, truncated, owned, holdings,
                     report, lost, began>>
  BY DEF Parse, Goto, account, fetch, store, history
<1>2. gathered \in Seq(Copies) /\ Lists(gathered, all) /\ all \in SUBSET Copies
  <2>1. gathered \in Seq(Copies) /\ held \subseteq Copies /\ sold \subseteq Copies
    BY DEF TypeInv, TypeOK, InvTypeOK
  <2>2. Lists(gathered, all) /\ all \subseteq held \cup sold
    BY DEF PagingInv, GatheredOnce
  <2> QED
    BY <2>1, <2>2
<1>3. report = None
  BY <1>1 DEF PagingInv, ReportStands
<1>4. GatheredOnce' /\ GatheredAll' /\ RowsBounded' /\ ReportStands'
  <2>1. GatheredOnce'
    BY <1>1 DEF PagingInv, GatheredOnce
  <2>2. GatheredAll'
    BY <1>1 DEF PagingInv, GatheredAll
  <2>3. RowsBounded'
    BY <1>1 DEF PagingInv, RowsBounded
  <2> QED
    BY <1>1, <1>3, <2>1, <2>2, <2>3, NoReport
<1> HIDE DEF all
<1>5. ASSUME NEW e PROVE Quantities(gathered, e) = Amount(all, e)
  BY <1>2, QuantityIsAmount
<1>6. ASSUME NEW k \in DOMAIN rows', rows'[k].table \in Tables
      PROVE  rows'[k].quantity = Amount(all, Entry(rows'[k].table, rows'[k].name))
  <2>1. rows'[k].quantity = Quantities(gathered, Entry(rows'[k].table, rows'[k].name))
    BY <1>1, <1>2, <1>6, InventoryRowsAre
  <2> QED
    BY <1>5, <2>1
<1>7. ASSUME NEW n \in Names, Amount(all, Entry("inventory", n)) > 0
      PROVE  \E k \in DOMAIN rows' : rows'[k].table = "inventory" /\ rows'[k].name = n
  <2> DEFINE e == Entry("inventory", n)
  <2>1. Places(gathered, e) # {}
    <3> SUFFICES ASSUME Places(gathered, e) = {} PROVE FALSE
      OBVIOUS
    <3>1. Quantities(gathered, e) = 0
      BY SumOfNothing DEF Quantities
    <3> QED
      BY <1>5, <1>7, <3>1
  <2> QED
    BY <1>1, <1>2, <2>1, InventoryRowsAre
<1>8. RowsCount'
  <2>1. all = Range(gathered) /\ gathered' = gathered
    BY <1>1 DEF all
  <2>2. \A k \in DOMAIN rows' : rows'[k].table \in Tables =>
            rows'[k].quantity = Amount(Range(gathered'), Entry(rows'[k].table, rows'[k].name))
    BY <1>6, <2>1
  <2>3. \A n \in Names : Amount(Range(gathered'), Entry("inventory", n)) > 0 =>
            \E k \in DOMAIN rows' : rows'[k].table = "inventory" /\ rows'[k].name = n
    BY <1>7, <2>1
  <2> QED
    BY <1>1, <2>2, <2>3 DEF RowsCount
<1> QED
  BY <1>4, <1>8 DEF PagingInv

LEMMA BadgePages == ASSUME TypeInv, PagingInv, ReadBadges PROVE PagingInv'
<1>1. /\ pc = "idle" /\ pc' = "write"
      /\ UNCHANGED <<held, sold, cursor, gathered, pages, truncated, owned, holdings,
                     report, lost, began>>
  BY DEF ReadBadges, Goto, account, fetch, store, history
<1>2. pages = 0
  BY <1>1 DEF PagingInv, RowsCount
<1>3. \A k \in DOMAIN rows' : rows'[k].table \in {"progress", "none"}
  BY ReadType
<1>4. GatheredOnce' /\ GatheredAll'
  BY <1>1, <1>2 DEF PagingInv, GatheredOnce, GatheredAll
<1>5. RowsCount' /\ RowsBounded'
  BY <1>1, <1>2, <1>3 DEF PagingInv, RowsCount, RowsBounded, Tables
<1>6. ReportStands'
  <2>1. WholeUnlessFlagged'
    BY <1>1 DEF PagingInv, ReportStands, WholeUnlessFlagged, Total
  <2> QED
    BY <1>1, <1>2, <1>3, <2>1 DEF ReportStands
<1> QED
  BY <1>4, <1>5, <1>6 DEF PagingInv

\* The rows are written, and an import with pages speaks for them.
LEMMA FinishPages == ASSUME TypeInv, PagingInv, Finish PROVE PagingInv'
<1>1. /\ pc = "write" /\ pc' = "idle" /\ rows = <<>>
      /\ cursor' = 0 /\ gathered' = <<>> /\ pages' = 0
      /\ report' = (IF pages = 0 THEN report ELSE IF truncated THEN "partial" ELSE "whole")
      /\ UNCHANGED <<held, sold, rows, owned, holdings, lost, began>>
  BY DEF Finish, Goto, Clear, account, store
<1>2. Range(gathered)' = {} /\ Lists(gathered, Range(gathered))'
  BY <1>1, NothingGathered
<1>3. GatheredOnce' /\ GatheredAll' /\ RowsBounded'
  BY <1>1, <1>2 DEF PagingInv, GatheredOnce, GatheredAll, RowsBounded
<1>4. DOMAIN rows' = {} /\ rows' = <<>>
  BY <1>1
<1>5. RowsCount'
  BY <1>1, <1>4 DEF RowsCount
<1>6. WholeUnlessFlagged'
  <2>1. CASE pages = 0
    BY <1>1, <2>1 DEF PagingInv, ReportStands, WholeUnlessFlagged, Total
  <2>2. CASE pages # 0
    <3> SUFFICES ASSUME ~truncated, ~lost, NEW n \in Names,
                        Amount(began \ sold, Entry("inventory", n)) > 0
                 PROVE  /\ owned[n] # None
                        /\ owned[n] >= Amount(began \ sold, Entry("inventory", n))
      <4>1. "partial" # "whole"
        OBVIOUS
      <4> QED
        BY <1>1, <2>2, <4>1 DEF WholeUnlessFlagged, Total
    <3> DEFINE e == Entry("inventory", n)
               all == Range(gathered)
    <3>1. began \ sold \in SUBSET all /\ all \in SUBSET Copies
      <4>1. began \ sold \subseteq all /\ all \subseteq held \cup sold
        BY <1>1, <2>2 DEF PagingInv, GatheredOnce, GatheredAll
      <4>2. held \cup sold \subseteq Copies
        BY DEF TypeInv, TypeOK, InvTypeOK
      <4> QED
        BY <4>1, <4>2
    <3>2. \/ owned[n] = Amount(all, e)
          \/ Amount(all, e) <= 0
          \/ Amount(all, e) \notin Nat
      BY <1>1, <1>4, <2>2 DEF PagingInv, RowsCount
    <3> HIDE DEF all
    <3>3. Amount(all, e) \in Nat /\ Amount(began \ sold, e) \in Nat
          /\ Amount(began \ sold, e) <= Amount(all, e)
      BY <3>1, AmountIsNat, AmountGrows
    <3>4. Amount(began \ sold, e) > 0
      OBVIOUS
    <3> HIDE DEF e
    <3>5. owned[n] = Amount(all, e)
      BY <3>2, <3>3, <3>4
    <3>6. None \notin Nat
      BY InventoryAssumption
    <3>7. owned[n] # None /\ owned[n] >= Amount(began \ sold, e)
      BY <3>3, <3>5, <3>6
    <3> QED
      BY <3>7 DEF e
  <2> QED
    BY <2>1, <2>2
<1>7. ReportStands'
  BY <1>1, <1>4, <1>6 DEF ReportStands
<1> QED
  BY <1>3, <1>5, <1>7 DEF PagingInv

\* A row says what was gathered of its card or item, and nothing else changes.
LEMMA RowPages == ASSUME TypeInv, PagingInv, WriteRow PROVE PagingInv'
<1> DEFINE r == Head(rows)
           all == Range(gathered)
<1>1. /\ pc = "write" /\ rows # <<>> /\ rows' = Tail(rows) /\ Upsert(r)
      /\ UNCHANGED <<held, sold, pc, cursor, gathered, pages, truncated, report, lost, began>>
  BY DEF WriteRow, account, fetch, history
<1>2. /\ 1 \in DOMAIN rows /\ r = rows[1] /\ r \in Rows
      /\ \A j \in DOMAIN rows : j # 1 => \E k \in DOMAIN rows' : rows'[k] = rows[j]
  BY <1>1, HeadIsRow DEF TypeInv
<1>3. \A k \in DOMAIN rows' : \E j \in DOMAIN rows : rows'[k] = rows[j]
  BY <1>1, FewerRows DEF TypeInv
<1>4. /\ owned \in [Names -> Quantity] /\ holdings \in [Names -> Quantity]
      /\ held \cup sold \in SUBSET Copies /\ all \in SUBSET (held \cup sold) /\ all \in SUBSET Copies
  <2>1. /\ owned \in [Names -> Quantity] /\ holdings \in [Names -> Quantity]
        /\ held \subseteq Copies /\ sold \subseteq Copies
    BY DEF TypeInv, TypeOK, InvTypeOK
  <2>2. all \subseteq held \cup sold
    BY DEF PagingInv, GatheredOnce
  <2> QED
    BY <2>1, <2>2
<1> HIDE DEF r
<1>5. r.table \in Tables => r.name \in Names
  BY <1>2 DEF Rows, NoRow, Tables
<1>6. r.table \in Tables => r.quantity = Amount(all, Entry(r.table, r.name))
  BY <1>2 DEF PagingInv, RowsCount
<1> HIDE DEF all
<1>7. ASSUME NEW n \in Names
      PROVE  /\ owned'[n] = IF r.table = "inventory" /\ r.name = n
                            THEN Amount(all, Entry("inventory", n)) ELSE owned[n]
             /\ holdings'[n] = IF r.table = "holding" /\ r.name = n
                               THEN Amount(all, Entry("holding", n)) ELSE holdings[n]
  <2>1. CASE r.table = "inventory"
    <3>1. owned' = [owned EXCEPT ![r.name] = r.quantity] /\ holdings' = holdings
      BY <1>1, <2>1 DEF Upsert, store
    <3>2. r.quantity = Amount(all, Entry("inventory", r.name))
      BY <1>6, <2>1 DEF Tables
    <3> QED
      BY <1>4, <2>1, <3>1, <3>2
  <2>2. CASE r.table = "holding"
    <3>1. holdings' = [holdings EXCEPT ![r.name] = r.quantity] /\ owned' = owned
      BY <1>1, <2>2 DEF Upsert, store
    <3>2. r.quantity = Amount(all, Entry("holding", r.name))
      BY <1>6, <2>2 DEF Tables
    <3> QED
      BY <1>4, <2>2, <3>1, <3>2
  <2>3. CASE r.table \notin Tables
    <3>1. owned' = owned /\ holdings' = holdings
      BY <1>1, <2>3 DEF Upsert, store, Tables
    <3> QED
      BY <2>3, <3>1 DEF Tables
  <2> QED
    BY <2>1, <2>2, <2>3 DEF Tables
<1>8. GatheredOnce' /\ GatheredAll'
  BY <1>1 DEF PagingInv, GatheredOnce, GatheredAll
<1>9. RowsBounded'
  <2> SUFFICES ASSUME NEW n \in Names
               PROVE  /\ owned'[n] # None =>
                            owned'[n] <= Amount(held \cup sold, Entry("inventory", n))
                      /\ holdings'[n] # None =>
                            holdings'[n] <= Amount(held \cup sold, Entry("holding", n))
    BY <1>1 DEF RowsBounded
  <2>1. /\ owned[n] # None => owned[n] <= Amount(held \cup sold, Entry("inventory", n))
        /\ holdings[n] # None => holdings[n] <= Amount(held \cup sold, Entry("holding", n))
    BY DEF PagingInv, RowsBounded
  <2>2. /\ Amount(all, Entry("inventory", n)) <= Amount(held \cup sold, Entry("inventory", n))
        /\ Amount(all, Entry("holding", n)) <= Amount(held \cup sold, Entry("holding", n))
    BY <1>4, AmountGrows
  <2> QED
    BY <1>7, <2>1, <2>2
<1>10. RowsCount'
  <2>1. ASSUME NEW k \in DOMAIN rows', rows'[k].table \in Tables
        PROVE  rows'[k].quantity = Amount(all, Entry(rows'[k].table, rows'[k].name))
    <3>1. PICK j \in DOMAIN rows : rows'[k] = rows[j]
      BY <1>3
    <3>2. rows[j].quantity = Amount(all, Entry(rows[j].table, rows[j].name))
      BY <2>1, <3>1 DEF PagingInv, RowsCount, all
    <3> QED
      BY <3>1, <3>2
  <2>2. ASSUME pages # 0, NEW n \in Names, Amount(all, Entry("inventory", n)) > 0
        PROVE  \/ owned'[n] = Amount(all, Entry("inventory", n))
               \/ \E k \in DOMAIN rows' : rows'[k].table = "inventory" /\ rows'[k].name = n
    <3>1. \/ owned[n] = Amount(all, Entry("inventory", n))
          \/ \E j \in DOMAIN rows : rows[j].table = "inventory" /\ rows[j].name = n
      BY <1>1, <2>2 DEF PagingInv, RowsCount, all
    <3>2. CASE owned[n] = Amount(all, Entry("inventory", n))
      BY <1>7, <3>2
    <3>3. ASSUME NEW j \in DOMAIN rows, rows[j].table = "inventory", rows[j].name = n
          PROVE  \/ owned'[n] = Amount(all, Entry("inventory", n))
                 \/ \E k \in DOMAIN rows' : rows'[k].table = "inventory" /\ rows'[k].name = n
      <4>1. CASE j = 1
        BY <1>2, <1>7, <3>3, <4>1
      <4>2. CASE j # 1
        BY <1>2, <3>3, <4>2
      <4> QED
        BY <4>1, <4>2
    <3> QED
      BY <3>1, <3>2, <3>3
  <2>3. all = Range(gathered')
    BY <1>1 DEF all
  <2> QED
    BY <1>1, <2>1, <2>2, <2>3 DEF RowsCount
<1>11. ReportStands'
  <2>1. CASE report = None
    BY <1>1, <2>1, NoReport
  <2>2. CASE report # None
    <3>1. pages = 0 /\ \A k \in DOMAIN rows : rows[k].table \in {"progress", "none"}
      BY <2>2 DEF PagingInv, ReportStands
    <3>2. r.table \notin Tables
      BY <1>2, <3>1 DEF Tables
    <3>3. \A n \in Names : owned'[n] = owned[n]
      BY <1>7, <3>2 DEF Tables
    <3>4. WholeUnlessFlagged'
      BY <1>1, <3>3 DEF PagingInv, ReportStands, WholeUnlessFlagged, Total
    <3>5. \A k \in DOMAIN rows' : rows'[k].table \in {"progress", "none"}
      BY <1>3, <3>1
    <3> QED
      BY <1>1, <3>1, <3>4, <3>5 DEF ReportStands
  <2> QED
    BY <2>1, <2>2
<1> QED
  BY <1>8, <1>9, <1>10, <1>11 DEF PagingInv

LEMMA InitPages == Init => PagingInv
<1> SUFFICES ASSUME Init PROVE PagingInv
  OBVIOUS
<1>1. /\ pc = "idle" /\ rows = <<>> /\ gathered = <<>> /\ pages = 0 /\ report = None
      /\ held = FirstHeld /\ sold = {} /\ \A n \in Names : owned[n] = None /\ holdings[n] = None
  BY DEF Init, InvInit
<1>2. Range(gathered) = {} /\ Lists(gathered, Range(gathered))
  BY <1>1, NothingGathered
<1>3. GatheredOnce /\ GatheredAll /\ RowsBounded
  BY <1>1, <1>2 DEF GatheredOnce, GatheredAll, RowsBounded
<1>4. None # "whole" /\ DOMAIN rows = {}
  BY <1>1, InventoryAssumption
<1>5. RowsCount /\ ReportStands
  BY <1>1, <1>4 DEF RowsCount, ReportStands, WholeUnlessFlagged
<1> QED
  BY <1>3, <1>5 DEF PagingInv

LEMMA NextPages == ASSUME TypeInv, PagingInv, [Next]_vars PROVE PagingInv'
<1>1. CASE Commands
  BY <1>1, PagePages, EndPages, ParsePages, BadgePages, FinishPages, RowPages DEF Commands, Steps
<1>2. CASE Account
  BY <1>2, AccountPages
<1>3. CASE UNCHANGED <<account, pc, fetch, rows, store, history>>
  BY <1>3, SamePages
<1> QED
  BY <1>1, <1>2, <1>3 DEF Next, vars, invVars

LEMMA PagingInvHolds == Spec => []PagingInv
  BY InitPages, NextPages, TypeInvHolds, PTL DEF Spec

\* However the account receives, sells and crafts between two pages, whatever is
\* refused, killed or read from an old file: no row says more than the account
\* has had, and an import that does not call itself truncated has written every
\* copy that was kept all the time (steam_inventory.py:288-303).
THEOREM PagesCountOnce == Spec => []PagingExact
<1>1. TypeInv /\ PagingInv => PagingExact
  BY DEF PagingInv, RowsBounded, ReportStands, PagingExact, NeverOvercounted, Total
<1> QED
  BY <1>1, TypeInvHolds, PagingInvHolds, PTL

-----------------------------------------------------------------------------
(* What is reported.                                                       *)

\* Half a cent at most is gained by rounding.
LEMMA RoundingBounds ==
    ASSUME NEW p \in Nat
    PROVE  /\ GemsPerSack * (2 * HalfUp(p, GemsPerSack)) <= 2 * p + GemsPerSack
           /\ 2 * p + GemsPerSack < GemsPerSack * (2 * HalfUp(p, GemsPerSack) + 2)
           /\ HalfUp(p, GemsPerSack) \in Nat
  BY DEF HalfUp, GemsPerSack

\* A card flagged as a gem bargain yields more than its ask, whatever the ask,
\* the yield and the price of the Sack: rounding half up and the floors of the
\* fee never turn a loss into a gain (card_gem_arbitrage.py:76-78).
THEOREM BargainsPayOff == Spec => []NoFalseBargain
<1>1. TypeInv => NoFalseBargain
  <2> SUFFICES ASSUME TypeInv, NEW n \in Bargains
               PROVE  goo[n] * NetOf(sack) > GemsPerSack * Asks[n]
    BY DEF NoFalseBargain
  <2>1. n \in Names /\ sack \in Nat /\ goo[n] \in Nat /\ Asks[n] \in Nat /\ Margin(n) > 0
    BY PortfolioAssumption DEF TypeInv, TypeOK, Bargains, Scored
  <2>2. SellerNet(sack) = NetOf(sack) /\ SellerNet(sack) \in Nat
    BY <2>1, NetIsExact
  <2> DEFINE brings == goo[n] * NetOf(sack)
  <2>3. brings \in Nat
    BY <2>1, <2>2
  <2>4. HalfUp(brings, GemsPerSack) - Asks[n] > 0
    BY <2>1, <2>2 DEF Margin, GemsToCents
  <2> HIDE DEF brings
  <2>5. GemsPerSack * (2 * HalfUp(brings, GemsPerSack)) <= 2 * brings + GemsPerSack
        /\ HalfUp(brings, GemsPerSack) \in Nat
    BY <2>3, RoundingBounds
  <2>6. brings > GemsPerSack * Asks[n]
    BY <2>1, <2>3, <2>4, <2>5 DEF GemsPerSack
  <2> QED
    BY <2>6 DEF brings
<1> QED
  BY <1>1, TypeInvHolds, PTL

\* Rows that say no more than the account has had are worth no more.
LEMMA WorthCovers ==
    ASSUME TypeInv, NEW table, NEW names \in SUBSET Names, NEW q \in [Names -> Quantity],
           \A n \in names : q[n] # None => q[n] <= Amount(held \cup sold, Entry(table, n)),
           NEW A \in SUBSET names, \A n \in A : q[n] # None /\ Asks[n] # None
    PROVE  /\ SumFunction([n \in A |-> q[n] * Asks[n]]) <= WorthHad(table, names)
           /\ SumFunction([n \in A |-> q[n] * Asks[n]]) \in Nat /\ WorthHad(table, names) \in Nat
<1> DEFINE B == {m \in names : Asks[m] # None}
           had(n) == Amount(held \cup sold, Entry(table, n))
           F == [n \in A |-> q[n] * Asks[n]]
           G == [n \in B |-> had(n) * Asks[n]]
           h == [n \in A |-> n]
<1>1. IsFiniteSet(A) /\ IsFiniteSet(B)
  <2>1. A \subseteq Names /\ B \subseteq Names /\ IsFiniteSet(Names)
    BY InventoryAssumption
  <2> HIDE DEF B
  <2> QED
    BY <2>1, FS_Subset
<1>2. A \subseteq B
  OBVIOUS
<1>3. \A n \in Names : Asks[n] # None => Asks[n] \in Nat
  BY PortfolioAssumption
<1>4. \A n : had(n) \in Nat
  <2>1. held \cup sold \in SUBSET Copies
    BY DEF TypeInv, TypeOK, InvTypeOK
  <2> QED
    BY <2>1, AmountIsNat
<1> HIDE DEF had
<1>5. \A n \in A : q[n] \in Nat /\ Asks[n] \in Nat /\ q[n] <= had(n)
  BY <1>3 DEF Quantity, had
<1>6. \A a, b, c \in Nat : a * c \in Nat /\ (a <= b => a * c <= b * c)
  OBVIOUS
<1>7. \A n \in A : q[n] * Asks[n] \in Nat /\ q[n] * Asks[n] <= had(n) * Asks[n]
  BY <1>4, <1>5, <1>6
<1>8. \A n \in B : had(n) * Asks[n] \in Nat
  BY <1>3, <1>4, <1>6
<1>9. /\ F \in [A -> Nat] /\ G \in [B -> Nat] /\ h \in [A -> B]
      /\ \A x, y \in A : h[x] = h[y] => x = y
      /\ \A x \in A : F[x] <= G[h[x]]
  <2>1. F \in [A -> Nat] /\ G \in [B -> Nat] /\ h \in [A -> B]
    <3> HIDE DEF B
    <3> QED
      BY <1>2, <1>7, <1>8
  <2>2. \A x \in A : F[x] <= G[h[x]] /\ h[x] = x
    <3> HIDE DEF B
    <3> QED
      BY <1>2, <1>7
  <2> QED
    BY <2>1, <2>2
<1>10. WorthHad(table, names) = SumFunction(G)
  BY DEF WorthHad, had
<1> HIDE DEF F, G, h, B
<1>11. SumFunction(F) <= SumFunction(G)
  BY <1>1, <1>9, SumCovered
<1>12. SumFunction(F) \in Nat /\ SumFunction(G) \in Nat
  BY <1>1, <1>9, SumIsNat
<1> QED
  BY <1>10, <1>11, <1>12 DEF F

LEMMA CardsAreFloor ==
    ASSUME TypeInv, RowsBounded
    PROVE  /\ CardsValue <= WorthHad("inventory", Names)
           /\ CardsValue \in Nat /\ WorthHad("inventory", Names) \in Nat
<1> DEFINE A == {m \in Names : owned[m] \notin {None, 0} /\ Asks[m] # None}
<1>1. /\ owned \in [Names -> Quantity] /\ A \in SUBSET Names /\ Names \in SUBSET Names
      /\ \A n \in A : owned[n] # None /\ Asks[n] # None
  BY DEF TypeInv, TypeOK, InvTypeOK
<1>2. \A n \in Names : owned[n] # None => owned[n] <= Amount(held \cup sold, Entry("inventory", n))
  BY DEF RowsBounded
<1>3. CardsValue = SumFunction([n \in A |-> owned[n] * Asks[n]])
  BY DEF CardsValue
<1> HIDE DEF A
<1> QED
  BY <1>1, <1>2, <1>3, WorthCovers

\* The gems are rounded to the cent, all else is exact.
LEMMA HoldingsAreFloor ==
    ASSUME TypeInv, RowsBounded
    PROVE  LET gems  == IF sack = None THEN 0 ELSE GemsHad * sack
               items == WorthHad("holding", Names \ {LooseGems})
           IN  /\ gems \in Nat /\ items \in Nat /\ HoldingsValue \in Nat
               /\ GemsPerSack * (2 * HoldingsValue) <=
                      2 * gems + GemsPerSack * (2 * items) + GemsPerSack
<1> DEFINE D == {m \in Names : Priced(m)}
           A == D \ {LooseGems}
           F == [n \in D |-> IF n = LooseGems THEN GemsToCents(holdings[n], sack)
                             ELSE holdings[n] * Asks[n]]
           rest == SumFunction([n \in A |-> holdings[n] * Asks[n]])
           items == WorthHad("holding", Names \ {LooseGems})
           gems == IF sack = None THEN 0 ELSE GemsHad * sack
<1>1. /\ holdings \in [Names -> Quantity] /\ sack \in Nat \cup {None}
      /\ Asks \in [Names -> Nat \cup {None}] /\ None \notin Nat
      /\ IsFiniteSet(Names) /\ LooseGems \in Names
  BY InventoryAssumption, PortfolioAssumption DEF TypeInv, TypeOK, InvTypeOK
<1>2. IsFiniteSet(D)
  <2>1. D \subseteq Names
    OBVIOUS
  <2> HIDE DEF D
  <2> QED
    BY <1>1, <2>1, FS_Subset
<1>3. \A n \in A : n \in Names /\ n # LooseGems /\ holdings[n] # None /\ Asks[n] # None
  BY DEF Priced
<1>4. A \in SUBSET (Names \ {LooseGems})
  BY <1>3
<1>5. rest <= items /\ rest \in Nat /\ items \in Nat
  <2> DEFINE others == Names \ {LooseGems}
  <2>1. \A n \in others :
            holdings[n] # None => holdings[n] <= Amount(held \cup sold, Entry("holding", n))
    BY DEF RowsBounded
  <2>2. others \in SUBSET Names /\ A \in SUBSET others
        /\ \A n \in A : holdings[n] # None /\ Asks[n] # None
    BY <1>3, <1>4
  <2>3. holdings \in [Names -> Quantity]
    BY <1>1
  <2> HIDE DEF A, others
  <2>4. /\ SumFunction([n \in A |-> holdings[n] * Asks[n]]) <= WorthHad("holding", others)
        /\ SumFunction([n \in A |-> holdings[n] * Asks[n]]) \in Nat
        /\ WorthHad("holding", others) \in Nat
    BY <2>1, <2>2, <2>3, WorthCovers
  <2> QED
    BY <2>4 DEF others
<1>6. GemsHad \in Nat /\ (holdings[LooseGems] # None => holdings[LooseGems] <= GemsHad)
  <2>1. held \cup sold \in SUBSET Copies
    BY DEF TypeInv, TypeOK, InvTypeOK
  <2> QED
    BY <1>1, <2>1, AmountIsNat DEF RowsBounded, GemsHad
<1>7. gems \in Nat
  BY <1>1, <1>6
<1>8. \A n \in A : holdings[n] * Asks[n] \in Int
  <2>1. \A n \in A : holdings[n] \in Nat /\ Asks[n] \in Nat
    BY <1>1, <1>3 DEF Quantity
  <2> HIDE DEF A
  <2> QED
    BY <2>1
<1>9. HoldingsValue = SumFunction(F)
  BY DEF HoldingsValue
<1>10. CASE LooseGems \in D
  <2> DEFINE g == holdings[LooseGems]
             cash == GemsToCents(g, sack)
  <2>1. g \in Nat /\ sack \in Nat /\ g <= GemsHad
    BY <1>1, <1>6, <1>10 DEF Priced, Quantity
  <2>2. /\ g * sack \in Nat /\ g * sack <= gems
    <3>1. \A a, b, c \in Nat : a * c \in Nat /\ (a <= b => a * c <= b * c)
      OBVIOUS
    <3>2. gems = GemsHad * sack
      BY <1>1, <2>1
    <3> HIDE DEF g, gems
    <3> QED
      BY <1>6, <2>1, <3>1, <3>2
  <2>3. cash \in Nat /\ GemsPerSack * (2 * cash) <= 2 * gems + GemsPerSack
    <3> DEFINE p == g * sack
    <3>1. p \in Nat /\ p <= gems /\ cash = HalfUp(p, GemsPerSack)
      BY <2>2 DEF GemsToCents
    <3> HIDE DEF p, gems, cash
    <3>2. GemsPerSack * (2 * HalfUp(p, GemsPerSack)) <= 2 * p + GemsPerSack
          /\ HalfUp(p, GemsPerSack) \in Nat
      BY <3>1, RoundingBounds
    <3> QED
      BY <1>7, <3>1, <3>2 DEF GemsPerSack
  <2>4. F \in [D -> Int]
    <3>1. cash \in Int
      BY <2>3
    <3>2. \A n \in D : n # LooseGems => holdings[n] * Asks[n] \in Int
      BY <1>8
    <3> HIDE DEF D, cash
    <3>3. \A n \in D : (IF n = LooseGems THEN GemsToCents(holdings[n], sack)
                        ELSE holdings[n] * Asks[n]) \in Int
      BY <3>1, <3>2 DEF cash
    <3> QED
      BY <3>3
  <2>5. [y \in D \ {LooseGems} |-> F[y]] = [n \in A |-> holdings[n] * Asks[n]]
    OBVIOUS
  <2>6. F[LooseGems] = cash
    BY <1>10
  <2>7. SumFunction(F) = F[LooseGems] + SumFunction([y \in D \ {LooseGems} |-> F[y]])
    <3> HIDE DEF D, F
    <3> QED
      BY <1>2, <1>10, <2>4, SumStep
  <2>8. HoldingsValue = cash + rest
    <3> HIDE DEF F, A, D, cash
    <3> QED
      BY <1>9, <2>5, <2>6, <2>7
  <2> HIDE DEF F, A, D, cash, rest, items, gems
  <2>9. /\ HoldingsValue \in Nat
        /\ GemsPerSack * (2 * HoldingsValue) <= 2 * gems + GemsPerSack * (2 * items) + GemsPerSack
    BY <1>5, <1>7, <2>3, <2>8 DEF GemsPerSack
  <2> QED
    BY <1>5, <1>7, <2>9 DEF items, gems
<1>11. CASE LooseGems \notin D
  <2>1. A = D /\ \A n \in D : n # LooseGems
    BY <1>11
  <2>2. F = [n \in A |-> holdings[n] * Asks[n]]
    <3> HIDE DEF D
    <3> QED
      BY <2>1
  <2>3. HoldingsValue = rest
    BY <1>9, <2>2
  <2> HIDE DEF F, A, D, rest, items, gems
  <2>4. /\ HoldingsValue \in Nat
        /\ GemsPerSack * (2 * HoldingsValue) <= 2 * gems + GemsPerSack * (2 * items) + GemsPerSack
    BY <1>5, <1>7, <2>3 DEF GemsPerSack
  <2> QED
    BY <1>5, <1>7, <2>4 DEF items, gems
<1> QED
  BY <1>10, <1>11

LEMMA ValueStands == ASSUME TypeInv, RowsBounded PROVE ValueIsFloor
<1> DEFINE gems == IF sack = None THEN 0 ELSE GemsHad * sack
           cards == WorthHad("inventory", Names)
           items == WorthHad("holding", Names \ {LooseGems})
<1>1. CardsValue <= cards /\ CardsValue \in Nat /\ cards \in Nat
  BY CardsAreFloor
<1>2. /\ gems \in Nat /\ items \in Nat /\ HoldingsValue \in Nat
      /\ GemsPerSack * (2 * HoldingsValue) <= 2 * gems + GemsPerSack * (2 * items) + GemsPerSack
  BY HoldingsAreFloor
<1>3. ValueIsFloor <=>
          2 * GemsPerSack * (CardsValue + HoldingsValue) <=
              2 * (gems + GemsPerSack * (cards + items)) + GemsPerSack
  BY DEF ValueIsFloor, Value
<1> HIDE DEF gems, cards, items
<1>4. 2 * GemsPerSack * (CardsValue + HoldingsValue) <=
          2 * (gems + GemsPerSack * (cards + items)) + GemsPerSack
  BY <1>1, <1>2 DEF GemsPerSack
<1> QED
  BY <1>3, <1>4

\* Nothing is overstated, for every account, cache and history of imports: a
\* level has been reached, a bargain brings what it promises, and the value of what is held is at most
\* what the copies the account has had are asked for, each priced row counted
\* once, but for half a cent of the gems (inventory_valuation.py:11, 91-129).
THEOREM ReportsAreFloors == Spec => []NothingOverstated
<1>1. TypeInv /\ PagingInv => ValueIsFloor
  BY ValueStands DEF PagingInv
<1> QED
  BY <1>1, TypeInvHolds, PagingInvHolds, LevelsTrusted, BargainsPayOff, PTL DEF NothingOverstated

=============================================================================
