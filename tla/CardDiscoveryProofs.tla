------------------------ MODULE CardDiscoveryProofs ------------------------
(***************************************************************************)
(* The catalog's floor and the honesty of complete lists, for any market,  *)
(* any number of discoveries and imports, and any catalog; and that a      *)
(* complete list stays complete on a market that stays still.              *)
(***************************************************************************)
EXTENDS CardDiscovery, FiniteSetTheorems, SequenceTheorems, TLAPS

\* The catalog counts the game's set right.
Right(g) == CatalogSize[g] = Cardinality(Badge(g))

\* What holds of the stored sizes holds of the ones a command has read: the
\* inductive strengthening, since a command writes what it compared with those.
Sound(s) ==
    /\ \A g \in Games : CatalogSize[g] <= s[g]
    /\ \A g \in Games : Right(g) => s[g] = CatalogSize[g]

DiscoveryInv ==
    /\ TypeOK
    /\ Sound(sizes)
    /\ \A p \in Discoverers : Sound(snapshot[p])
    /\ \A p \in Discoverers : pc[p] = "raise" => Raises(p)
    /\ \A g \in Games : \A n \in cards[g] : GameOf[n] = g

-----------------------------------------------------------------------------
(* Lemmas about the operators of one discovery.                            *)

\* A page of search results (_enumerate_cards) is a sequence of names.
LEMMA PageOfNames ==
    ASSUME TypeOK, NEW g \in Games, NEW offset \in Nat,
           NEW reply \in Replies(g, offset)
    PROVE  /\ reply.results \in Seq(Names)
           /\ ToSet(reply.results) \subseteq Names
<1>1. market[g] \in Seq(Names)
  BY DEF TypeOK
<1>2. PICK n \in 0..(IF Len(market[g]) - offset <= 0 THEN 0
                     ELSE IF Len(market[g]) - offset < PageSize
                          THEN Len(market[g]) - offset ELSE PageSize) :
          reply.results = SubSeq(market[g], offset + 1, offset + n)
  BY <1>1, DiscoveryAssumption DEF Replies
<1>3. reply.results \in Seq(Names)
  <2>1. CASE n = 0
    BY <1>1, <1>2, <2>1
  <2>2. CASE n # 0
    <3>1. offset + n <= Len(market[g])
      BY <1>1, <1>2, <2>2, DiscoveryAssumption
    <3> QED
      BY <1>1, <1>2, <3>1
  <2> QED
    BY <2>1, <2>2
<1> QED
  BY <1>3 DEF ToSet

\* The normal cards a discovery keeps are cards of the game's real set.
LEMMA CountIsBounded ==
    ASSUME TypeOK, NEW p \in Discoverers
    PROVE  /\ Count(p) \in Nat
           /\ Count(p) <= Cardinality(Badge(game[p]))
<1>1. Kept(p) \ Foils \in SUBSET Badge(game[p])
  BY DEF TypeOK, Kept, Badge
<1>2. IsFiniteSet(Badge(game[p]))
  <2>1. Badge(game[p]) \in SUBSET Names
    BY DEF Badge
  <2> QED
    BY <2>1, FS_Subset, DiscoveryAssumption
<1>3. IsFiniteSet(Kept(p) \ Foils) /\ Count(p) <= Cardinality(Badge(game[p]))
  BY <1>1, <1>2, FS_Subset DEF Count
<1> QED
  BY <1>3, FS_CardinalityType DEF Count

\* A correction is above the floor and never touches a size that is right.
LEMMA CorrectionIsSound ==
    ASSUME TypeOK, NEW p \in Discoverers, Raises(p), Sound(sizes), Sound(snapshot[p])
    PROVE  Sound([sizes EXCEPT ![game[p]] = Count(p)])
<1>1. /\ game[p] \in Games /\ snapshot[p] \in [Games -> Nat] /\ sizes \in [Games -> Nat]
      /\ Count(p) > snapshot[p][game[p]]
  BY DEF TypeOK, Raises, Known
<1>2. Count(p) \in Nat /\ Count(p) <= Cardinality(Badge(game[p]))
  BY CountIsBounded
<1>3. CatalogSize[game[p]] <= snapshot[p][game[p]] /\ CatalogSize[game[p]] \in Nat
  BY <1>1, DiscoveryAssumption DEF Sound
<1>4. ~ Right(game[p])
  <2>1. SUFFICES ASSUME Right(game[p]) PROVE FALSE
    OBVIOUS
  <2>2. snapshot[p][game[p]] = Cardinality(Badge(game[p]))
    BY <1>1, <2>1 DEF Sound, Right
  <2> QED
    BY <1>1, <1>2, <2>2
<1> QED
  BY <1>1, <1>2, <1>3, <1>4 DEF Sound

\* Delist keeps the market a sequence of names.
LEMMA MarketShrinks ==
    ASSUME NEW s \in Seq(Names), NEW i \in 1..Len(s)
    PROVE  RemoveAt(s, i) \in Seq(Names)
<1>1. SubSeq(s, 1, i - 1) \in Seq(Names) /\ SubSeq(s, i + 1, Len(s)) \in Seq(Names)
  OBVIOUS
<1> QED
  BY <1>1 DEF RemoveAt

-----------------------------------------------------------------------------
(* The inductive invariant.                                                *)

\* The invariant holds of a freshly imported catalog.
LEMMA DiscoveryInit == Init => DiscoveryInv
<1> SUFFICES ASSUME Init PROVE DiscoveryInv
  OBVIOUS
<1>1. TypeOK
  BY DiscoveryAssumption DEF Init, TypeOK, LockHeld, Places
<1>2. Sound(CatalogSize)
  BY DiscoveryAssumption DEF Sound
<1> QED
  BY <1>1, <1>2 DEF Init, DiscoveryInv

\* Setting up the locals of _enumerate_cards keeps their types.
LEMMA ClearTypes ==
    ASSUME TypeOK, NEW p \in Discoverers, Clear(p)
    PROVE  /\ found' \in [Discoverers -> SUBSET Names]
           /\ start' \in [Discoverers -> Nat]
           /\ pages' \in [Discoverers -> Nat]
           /\ complete' \in [Discoverers -> BOOLEAN]
  BY DEF TypeOK, Clear

\* So does the end of a command.
LEMMA ExitTypes ==
    ASSUME TypeOK, NEW p \in Discoverers, Exit(p)
    PROVE  /\ pc' \in [Discoverers -> Places]
           /\ snapshot' \in [Discoverers -> [Games -> Nat]]
           /\ todo' \in [Discoverers -> SUBSET Games]
           /\ game' \in [Discoverers -> Games]
<1>1. pc' \in [Discoverers -> Places]
  BY DEF TypeOK, Exit, Goto, Places
<1>2. todo' \in [Discoverers -> SUBSET Games] /\ game' \in [Discoverers -> Games]
  BY DEF TypeOK, Exit
<1>3. snapshot' \in [Discoverers -> [Games -> Nat]]
  BY DiscoveryAssumption DEF TypeOK, Exit
<1> QED
  BY <1>1, <1>2, <1>3

\* Every handler keeps the types and releases the lock it took.
LEMMA TypeStep == TypeOK /\ [Next]_vars => TypeOK'
<1> SUFFICES ASSUME TypeOK, [Next]_vars PROVE TypeOK'
  OBVIOUS
<1> USE DEF local, store, paging
<1>1. ASSUME NEW p \in Discoverers, Begin(p) PROVE TypeOK'
  <2>1. LockHeld'
    BY <1>1, DiscoveryAssumption DEF Begin, TypeOK, LockHeld, Goto, Places
  <2>2. PICK targets \in SUBSET Games : todo' = [todo EXCEPT ![p] = targets]
    BY <1>1 DEF Begin
  <2>3. snapshot' \in [Discoverers -> [Games -> Nat]]
    BY <1>1 DEF Begin, TypeOK
  <2>4. pc' \in [Discoverers -> Places] /\ todo' \in [Discoverers -> SUBSET Games]
    BY <1>1, <2>2 DEF Begin, TypeOK, Goto, Places
  <2> QED
    BY <1>1, <2>1, <2>3, <2>4 DEF Begin, TypeOK
<1>2. ASSUME NEW p \in Discoverers, Target(p) PROVE TypeOK'
  <2>1. LockHeld'
    BY <1>2, DiscoveryAssumption DEF Target, TypeOK, LockHeld, Goto, Clear, Places
  <2>2. Clear(p)
    BY <1>2 DEF Target
  <2>3. game' \in [Discoverers -> Games] /\ todo' \in [Discoverers -> SUBSET Games]
    BY <1>2 DEF Target, TypeOK
  <2>4. pc' \in [Discoverers -> Places]
    BY <1>2 DEF Target, TypeOK, Goto, Places
  <2> QED
    BY <1>2, <2>1, <2>2, <2>3, <2>4, ClearTypes DEF Target, TypeOK
<1>3. ASSUME NEW p \in Discoverers, Finish(p) PROVE TypeOK'
  <2>1. LockHeld'
    BY <1>3, DiscoveryAssumption DEF Finish, TypeOK, LockHeld, Exit, Goto, Clear, Places
  <2>2. Exit(p) /\ Clear(p)
    BY <1>3 DEF Finish, Exit
  <2> QED
    BY <1>3, <2>1, <2>2, ClearTypes, ExitTypes, DiscoveryAssumption DEF Finish, TypeOK
<1>4. ASSUME NEW p \in Discoverers, Delete(p) PROVE TypeOK'
  <2>1. LockHeld'
    BY <1>4, DiscoveryAssumption DEF Delete, TypeOK, LockHeld, Goto, Places
  <2> QED
    BY <1>4, DiscoveryAssumption, <2>1 DEF Delete, TypeOK, Goto, Places
<1>5. ASSUME NEW p \in Discoverers, Commit(p) PROVE TypeOK'
  <2>1. LockHeld'
    BY <1>5, DiscoveryAssumption DEF Commit, TypeOK, LockHeld, Goto, Clear, Places
  <2>2. pc' \in [Discoverers -> Places]
    BY <1>5 DEF Commit, TypeOK, Goto, Places
  <2>3. cards' \in [Games -> SUBSET Names]
    BY <1>5 DEF Commit, TypeOK, Kept
  <2>4. UNCHANGED paging \/ Clear(p)
    BY <1>5 DEF Commit
  <2> QED
    BY <1>5, <2>1, <2>2, <2>3, <2>4, ClearTypes DEF Commit, TypeOK
<1>6. ASSUME NEW p \in Discoverers, Raise(p) PROVE TypeOK'
  <2>3. Count(p) \in Nat
    BY CountIsBounded
  <2>1. LockHeld'
    BY <1>6, DiscoveryAssumption DEF Raise, TypeOK, LockHeld, Goto, Clear, Places
  <2> QED
    BY <1>6, DiscoveryAssumption, <2>3, <2>1 DEF Raise, TypeOK, Goto, Clear, Places
<1>7. ASSUME NEW p \in Discoverers, Refused(p) PROVE TypeOK'
  <2>1. LockHeld'
    BY <1>7, DiscoveryAssumption DEF Refused, TypeOK, LockHeld, Exit, Goto, Clear, Places
  <2>2. Exit(p) /\ Clear(p)
    BY <1>7 DEF Refused, Exit
  <2>3. faults' \in 0..MaxFaults
    BY <1>7, DiscoveryAssumption DEF Refused, TypeOK
  <2> QED
    BY <1>7, <2>1, <2>2, <2>3, ClearTypes, ExitTypes DEF Refused, TypeOK
<1>8. ASSUME NEW p \in Discoverers, Locked(p) PROVE TypeOK'
  <2>1. LockHeld'
    BY <1>8, DiscoveryAssumption DEF Locked, TypeOK, LockHeld, Exit, Goto, Clear, Places
  <2>2. Exit(p) /\ Clear(p)
    BY <1>8 DEF Locked, Exit
  <2>3. faults' \in 0..MaxFaults
    BY <1>8, DiscoveryAssumption DEF Locked, TypeOK
  <2> QED
    BY <1>8, <2>1, <2>2, <2>3, ClearTypes, ExitTypes DEF Locked, TypeOK
<1>9. ASSUME NEW p \in Discoverers, Crash(p) PROVE TypeOK'
  <2>1. LockHeld'
    BY <1>9, DiscoveryAssumption DEF Crash, TypeOK, LockHeld, Exit, Goto, Clear, Places
  <2>2. Exit(p) /\ Clear(p)
    BY <1>9 DEF Crash, Exit
  <2>3. faults' \in 0..MaxFaults
    BY <1>9, DiscoveryAssumption DEF Crash, TypeOK
  <2> QED
    BY <1>9, <2>1, <2>2, <2>3, ClearTypes, ExitTypes DEF Crash, TypeOK
<1>10. ASSUME NEW p \in Discoverers, Fetch(p) PROVE TypeOK'
  <2>1. PICK reply \in Replies(game[p], start[p]) :
           /\ found' = [found EXCEPT ![p] = @ \cup ToSet(reply.results)]
           /\ start' = [start EXCEPT ![p] = Advanced(p, Len(reply.results))]
           /\ complete' = [complete EXCEPT ![p] = AtEnd(p, reply)]
           /\ Goto(p, IF \/ AtEnd(p, reply) \/ Stuck(p, reply)
                         \/ pages[p] + 1 = MaxPages
                      THEN "delete" ELSE "fetch")
    BY <1>10 DEF Fetch
  <2>2. game[p] \in Games /\ start[p] \in Nat
    BY DEF TypeOK
  <2>3. reply.results \in Seq(Names) /\ ToSet(reply.results) \subseteq Names
    BY <2>2, PageOfNames
  <2>4. Advanced(p, Len(reply.results)) \in Nat
    BY <2>2, <2>3, DiscoveryAssumption DEF Advanced
  <2>5. LockHeld'
    BY <1>10, <2>1 DEF Fetch, TypeOK, LockHeld, Goto, Places
  <2>6. AtEnd(p, reply) \in BOOLEAN
    BY DEF AtEnd
  <2>7. found' \in [Discoverers -> SUBSET Names]
    BY <2>1, <2>3 DEF TypeOK
  <2>8. start' \in [Discoverers -> Nat] /\ complete' \in [Discoverers -> BOOLEAN]
    BY <2>1, <2>4, <2>6 DEF TypeOK
  <2>9. pages' \in [Discoverers -> Nat]
    BY <1>10 DEF Fetch, TypeOK
  <2>10. pc' \in [Discoverers -> Places]
    BY <2>1 DEF TypeOK, Goto, Places
  <2> QED
    BY <1>10, <2>5, <2>7, <2>8, <2>9, <2>10 DEF Fetch, TypeOK
<1>11. ASSUME NEW c \in Importers, StartImport(c) \/ ImportEntry(c) \/ StopImport(c)
       PROVE  TypeOK'
  <2>1. CASE StartImport(c)
    BY <2>1 DEF TypeOK, LockHeld, StartImport
  <2>2. CASE StopImport(c)
    BY <2>2 DEF TypeOK, LockHeld, StopImport
  <2>3. CASE ImportEntry(c)
    <3>1. PICK g \in Games : /\ sizes' = [sizes EXCEPT ![g] = CatalogSize[g]]
                             /\ entries' = [entries EXCEPT ![c] = @ \ {g}]
      BY <2>3 DEF TypeOK, ImportEntry
    <3>2. sizes' \in [Games -> Nat]
      BY <3>1, DiscoveryAssumption DEF TypeOK
    <3>3. entries' \in [Importers -> SUBSET Games]
      BY <3>1 DEF TypeOK
    <3> QED
      BY <2>3, <3>2, <3>3 DEF TypeOK, LockHeld, ImportEntry
  <2> QED
    BY <1>11, <2>1, <2>2, <2>3
<1>12. ASSUME NEW g \in Games, Delist(g) PROVE TypeOK'
  <2>1. PICK i \in 1..Len(market[g]) : market' = [market EXCEPT ![g] = RemoveAt(@, i)]
    BY <1>12 DEF Delist
  <2>2. RemoveAt(market[g], i) \in Seq(Names)
    BY MarketShrinks DEF TypeOK
  <2> QED
    BY <1>12, <2>1, <2>2 DEF Delist, TypeOK, LockHeld
<1>13. ASSUME NEW g \in Games, Relist(g) PROVE TypeOK'
  <2>1. PICK n \in ToSet(FirstMarket[g]) : market' = [market EXCEPT ![g] = Append(@, n)]
    BY <1>13 DEF Relist
  <2>2. n \in Names
    <3>1. FirstMarket[g] \in Seq(Names)
      BY DiscoveryAssumption
    <3> QED
      BY <2>1, <3>1 DEF ToSet
  <2>3. Append(market[g], n) \in Seq(Names)
    BY <2>2 DEF TypeOK
  <2> QED
    BY <1>13, <2>1, <2>3 DEF Relist, TypeOK, LockHeld
<1>14. ASSUME UNCHANGED vars PROVE TypeOK'
  BY <1>14 DEF vars, TypeOK, LockHeld
<1> QED
  BY <1>1, <1>2, <1>3, <1>4, <1>5, <1>6, <1>7, <1>8, <1>9, <1>10, <1>11, <1>12, <1>13, <1>14
     DEF Next, Discover

-----------------------------------------------------------------------------
(* The step that writes a size is the one that must be shown sound; the    *)
(* others carry the four facts along.                                      *)

\* upsert_badge_set, from either of its callers, keeps the sizes sound.
LEMMA SizesStep == DiscoveryInv /\ [Next]_vars => Sound(sizes')
<1> SUFFICES ASSUME DiscoveryInv, [Next]_vars PROVE Sound(sizes')
  OBVIOUS
<1> USE DEF DiscoveryInv
<1>1. ASSUME NEW p \in Discoverers, Raise(p) PROVE Sound(sizes')
  BY <1>1, CorrectionIsSound DEF Raise
<1>2. ASSUME NEW c \in Importers, ImportEntry(c) PROVE Sound(sizes')
  <2>1. PICK g \in Games : sizes' = [sizes EXCEPT ![g] = CatalogSize[g]]
    BY <1>2 DEF ImportEntry, TypeOK
  <2>2. sizes \in [Games -> Nat] /\ Sound(CatalogSize)
    BY DiscoveryAssumption DEF TypeOK, Sound
  <2> QED
    BY <2>1, <2>2 DEF Sound
<1>3. CASE UNCHANGED sizes
  BY <1>3
<1> QED
  BY <1>1, <1>2, <1>3
     DEF Next, Discover, vars, store, Begin, Target, Finish, Fetch, Delete, Commit,
         Refused, Locked, Crash, StartImport, StopImport, Delist, Relist

\* A command's snapshot is what the store held when it began (cli.py:756).
LEMMA SnapshotStep ==
    ASSUME DiscoveryInv, [Next]_vars, NEW q \in Discoverers
    PROVE  Sound(snapshot'[q])
<1> USE DEF DiscoveryInv
<1>1. Sound(CatalogSize) /\ snapshot \in [Discoverers -> [Games -> Nat]]
  BY DiscoveryAssumption DEF Sound, TypeOK
<1>2. ASSUME NEW p \in Discoverers, Begin(p) PROVE snapshot'[q] \in {snapshot[q], sizes}
  BY <1>1, <1>2 DEF Begin
<1>3. ASSUME NEW p \in Discoverers, Exit(p) PROVE snapshot'[q] \in {snapshot[q], CatalogSize}
  BY <1>1, <1>3 DEF Exit
<1>4. CASE UNCHANGED snapshot
  BY <1>4
<1> QED
  BY <1>1, <1>2, <1>3, <1>4
     DEF Next, Discover, vars, local, Target, Finish, Fetch, Delete, Commit, Raise,
         Refused, Locked, Crash, StartImport, ImportEntry, StopImport, Delist, Relist

\* Only Commit leads to "raise"; nobody else touches what Raises reads.
LEMMA RaiseStep ==
    ASSUME DiscoveryInv, [Next]_vars, NEW q \in Discoverers, pc'[q] = "raise"
    PROVE  Raises(q)'
<1>1. /\ pc \in [Discoverers -> Places] /\ snapshot \in [Discoverers -> [Games -> Nat]]
      /\ game \in [Discoverers -> Games] /\ found \in [Discoverers -> SUBSET Names]
      /\ complete \in [Discoverers -> BOOLEAN]
  BY DEF DiscoveryInv, TypeOK
<1> DEFINE Kept_q == /\ found'[q] = found[q] /\ complete'[q] = complete[q]
                    /\ game'[q] = game[q] /\ snapshot'[q] = snapshot[q]
<1>2. ASSUME NEW p \in Discoverers, Discover(p) \/ Refused(p) \/ Locked(p) \/ Crash(p)
      PROVE  Kept_q /\ Raises(q)
  <2>1. CASE p # q
    <3>1. pc[q] = "raise" /\ Kept_q
      BY <1>1, <1>2, <2>1
         DEF Discover, Begin, Target, Finish, Fetch, Delete, Commit, Raise, Refused,
             Locked, Crash, Exit, Clear, Goto, local, paging
    <3> QED
      BY <3>1 DEF DiscoveryInv
  <2>2. CASE p = q
    <3>1. Commit(q) /\ Raises(q)
      BY <1>1, <1>2, <2>2
         DEF Discover, Begin, Target, Finish, Fetch, Delete, Commit, Raise, Refused,
             Locked, Crash, Exit, Goto
    <3>2. UNCHANGED <<found, complete, game, snapshot>>
      BY <1>1, <3>1 DEF Commit, Goto, paging
    <3> QED
      BY <3>1, <3>2
  <2> QED
    BY <2>1, <2>2
<1>3. ASSUME UNCHANGED <<pc, found, complete, game, snapshot>> PROVE Kept_q /\ Raises(q)
  BY <1>3 DEF DiscoveryInv
<1>4. Kept_q /\ Raises(q)
  BY <1>2, <1>3 DEF DiscoveryInv, Next, vars, local, paging, StartImport, ImportEntry,
                    StopImport, Delist, Relist
<1> QED
  BY <1>4 DEF Raises, Count, Kept, Known

\* A list holds only its game's cards (_reconcile).
LEMMA CardsStep ==
    ASSUME DiscoveryInv, [Next]_vars, NEW g \in Games, NEW n \in cards'[g]
    PROVE  GameOf[n] = g
<1>1. ASSUME NEW p \in Discoverers, Commit(p) PROVE GameOf[n] = g
  BY <1>1 DEF DiscoveryInv, TypeOK, Commit, Kept
<1>2. CASE UNCHANGED cards
  BY <1>2 DEF DiscoveryInv
<1> QED
  BY <1>1, <1>2
     DEF Next, Discover, vars, store, Begin, Target, Finish, Fetch, Delete, Raise,
         Refused, Locked, Crash, StartImport, ImportEntry, StopImport, Delist, Relist

\* The inductive invariant holds throughout (import_cards, catalog _persist).
THEOREM DiscoveryIsSound == Spec => []DiscoveryInv
<1>1. ASSUME DiscoveryInv, [Next]_vars PROVE DiscoveryInv'
  <2>1. TypeOK'
    BY <1>1, TypeStep DEF DiscoveryInv
  <2>2. Sound(sizes)'
    BY <1>1, SizesStep DEF Sound, Right, Badge
  <2>3. \A q \in Discoverers : Sound(snapshot[q])'
    BY <1>1, SnapshotStep DEF Sound, Right, Badge
  <2>4. \A q \in Discoverers : pc'[q] = "raise" => Raises(q)'
    BY <1>1, RaiseStep
  <2>5. \A g \in Games : \A n \in cards'[g] : GameOf[n] = g
    BY <1>1, CardsStep
  <2> QED
    BY <2>1, <2>2, <2>3, <2>4, <2>5 DEF DiscoveryInv
<1> QED
  BY DiscoveryInit, <1>1, PTL DEF Spec

-----------------------------------------------------------------------------
(* What follows for the store.                                             *)

\* Types: in particular only a discovery that is replacing a list holds the
\* write lock (replace_cards_for_app), and it is released however it ends.
THEOREM DiscoveryTyping == Spec => []TypeOK
  BY DiscoveryIsSound, PTL DEF DiscoveryInv

\* The catalog is a floor (reconcile_set_size): no undercount, race or kill
\* takes a set size below it.
THEOREM FloorHolds == Spec => []CatalogIsFloor
<1>1. DiscoveryInv => CatalogIsFloor
  BY DEF DiscoveryInv, Sound, CatalogIsFloor
<1> QED
  BY <1>1, DiscoveryIsSound, PTL

\* Foils and leaked cards never change a size the catalog has right
\* (_reconcile, import_cards).
THEOREM RightCatalogStands == Spec => []NoInflation
<1>1. DiscoveryInv => NoInflation
  BY DEF DiscoveryInv, Sound, Right, NoInflation
<1> QED
  BY <1>1, DiscoveryIsSound, PTL

\* Under a right catalog a list that looks complete is the whole set: it holds
\* as many of the set's cards as the set has.
THEOREM ListsAreHonest == Spec => []NoFalseComplete
<1>1. ASSUME DiscoveryInv, NEW g \in Games, Right(g), LooksComplete(g)
      PROVE  cards[g] \ Foils = Badge(g)
  <2>1. cards[g] \ Foils \in SUBSET Badge(g)
    BY <1>1 DEF DiscoveryInv, TypeOK, Badge
  <2>2. Cardinality(cards[g] \ Foils) = Cardinality(Badge(g))
    BY <1>1 DEF DiscoveryInv, Sound, Right, LooksComplete
  <2>3. IsFiniteSet(Badge(g))
    <3>1. Badge(g) \in SUBSET Names
      BY DEF Badge
    <3> QED
      BY <3>1, FS_Subset, DiscoveryAssumption
  <2> QED
    BY <2>1, <2>2, <2>3, FS_Subset
<1>2. DiscoveryInv => NoFalseComplete
  BY <1>1 DEF NoFalseComplete, Right
<1> QED
  BY <1>2, DiscoveryIsSound, PTL

\* For every market the sizes and lists of the store claim neither less than
\* the catalog nor more than they have (card_discovery.py:223-262).
THEOREM SetsStayHonest == Spec => []SetsAreHonest
<1>1. CatalogIsFloor /\ NoFalseComplete /\ NoInflation => SetsAreHonest
  BY DEF SetsAreHonest
<1> QED
  BY <1>1, FloorHolds, ListsAreHonest, RightCatalogStands, PTL

-----------------------------------------------------------------------------
(* The promise of BadgeCatalog.                                            *)

\* An instance has a Cardinality of its own; it is the same.
LEMMA SameCount == \A S : Catalog!Cardinality(S) = Cardinality(S)
  BY DEF Catalog!Cardinality, Cardinality

\* The real set of every game, and so its size, are what the catalog promises.
LEMMA RealSets ==
    ASSUME NEW g \in Games
    PROVE  /\ [h \in Games |-> Badge(h)][g] = Badge(g)
           /\ IsFiniteSet(Badge(g)) /\ Cardinality(Badge(g)) \in Nat
<1>1. Badge(g) \in SUBSET Names
  BY DEF Badge
<1> QED
  BY <1>1, FS_Subset, FS_CardinalityType, DiscoveryAssumption

\* COMMIT publishes a list of the game's own cards.
LEMMA CommitPublishes ==
    ASSUME TypeOK, NEW p \in Discoverers, NEW g \in Games, g = game[p], Commit(p)
    PROVE  Catalog!Publish(g)
<1> DEFINE listed == [h \in Games |-> cards[h] \ Foils]
<1>1. cards \in [Games -> SUBSET Names] /\ found[p] \subseteq Names
  BY DEF TypeOK
<1>2. cards' = [cards EXCEPT ![g] = Kept(p)] /\ sizes' = sizes
  BY DEF Commit
<1>3. listed' = [listed EXCEPT ![g] = Kept(p) \ Foils]
  BY <1>1, <1>2
<1>4. Kept(p) \ Foils \in SUBSET Badge(g)
  BY <1>1 DEF Kept, Badge
<1> QED
  BY <1>1, <1>2, <1>3, <1>4, RealSets DEF Catalog!Publish

\* upsert_badge_set after a discovery writes a correction, whatever others have
\* made of the size since it was read.
LEMMA RaiseCorrects ==
    ASSUME TypeOK, NEW p \in Discoverers, Raises(p), Sound(snapshot[p]), Raise(p)
    PROVE  Catalog!Correct(game[p])
<1>1. game[p] \in Games /\ snapshot[p] \in [Games -> Nat]
  BY DEF TypeOK
<1>2. Count(p) \in Nat /\ Count(p) <= Cardinality(Badge(game[p]))
  BY CountIsBounded
<1>3. /\ CatalogSize[game[p]] \in Nat /\ snapshot[p][game[p]] \in Nat
      /\ CatalogSize[game[p]] <= snapshot[p][game[p]] /\ Count(p) > snapshot[p][game[p]]
  BY <1>1, DiscoveryAssumption DEF Sound, Raises, Known
<1>4. Cardinality(Badge(game[p])) \in Nat
  BY <1>1, RealSets
<1>5. Count(p) \in (CatalogSize[game[p]] + 1)..Cardinality(Badge(game[p]))
  <2> DEFINE low == CatalogSize[game[p]]  old == snapshot[p][game[p]]
             new == Count(p)  high == Cardinality(Badge(game[p]))
  <2>1. low \in Nat /\ old \in Nat /\ new \in Nat /\ high \in Nat
    BY <1>2, <1>3, <1>4
  <2>2. low <= old /\ new > old /\ new <= high
    BY <1>2, <1>3
  <2> HIDE DEF low, old, new, high
  <2>3. new \in (low + 1)..high
    BY <2>1, <2>2
  <2> QED
    BY <2>3 DEF low, new, high
<1>6. sizes' = [sizes EXCEPT ![game[p]] = Count(p)]
  BY DEF Raise
<1> QED
  BY <1>1, <1>5, <1>6, RealSets, SameCount DEF Catalog!Correct, Catalog!Corrections

\* For any market, catalog and faults, and any number of discoveries and
\* imports at once, every statement that is seen outside its transaction is a
\* step of BadgeCatalog: a whole list, a correction, or the catalog's size
\* (replace_cards_for_app, import_cards, _persist).
THEOREM DiscoveriesImplementCatalog == Spec => ImplementsCatalog
<1>1. Init => Catalog!Init
  <2> SUFFICES ASSUME Init PROVE Catalog!Init
    OBVIOUS
  <2>1. \A g \in Games : cards[g] \ Foils = {}
    BY DEF Init
  <2>2. sizes = CatalogSize
    BY DEF Init
  <2> QED
    BY <2>1, <2>2 DEF Catalog!Init
<1>2. DiscoveryInv /\ [Next]_vars => [Catalog!Next]_Catalog!vars
  <2> SUFFICES ASSUME DiscoveryInv, [Next]_vars PROVE [Catalog!Next]_Catalog!vars
    OBVIOUS
  <2> DEFINE listed == [g \in Games |-> cards[g] \ Foils]
  <2>1. ASSUME NEW p \in Discoverers, Commit(p) PROVE Catalog!Next
    <3>1. PICK g \in Games : g = game[p]
      BY DEF DiscoveryInv, TypeOK
    <3>2. Catalog!Publish(g)
      BY <2>1, <3>1, CommitPublishes DEF DiscoveryInv
    <3> QED
      BY <3>2 DEF Catalog!Next
  <2>2. ASSUME NEW p \in Discoverers, Raise(p) PROVE Catalog!Next
    <3>1. game[p] \in Games /\ cards' = cards
      BY <2>2 DEF DiscoveryInv, TypeOK, Raise
    <3>2. pc[p] = "raise"
      BY <2>2 DEF Raise
    <3>3. Catalog!Correct(game[p])
      BY <2>2, <3>2, RaiseCorrects DEF DiscoveryInv
    <3> QED
      BY <3>1, <3>3 DEF Catalog!Next
  <2>3. ASSUME NEW c \in Importers, ImportEntry(c) PROVE Catalog!Next
    <3>1. PICK g \in Games : sizes' = [sizes EXCEPT ![g] = CatalogSize[g]]
      BY <2>3 DEF DiscoveryInv, TypeOK, ImportEntry
    <3>2. cards' = cards
      BY <2>3 DEF ImportEntry
    <3>3. Catalog!Reset(g)
      BY <3>1 DEF Catalog!Reset
    <3> QED
      BY <3>2, <3>3 DEF Catalog!Next
  <2>4. ASSUME UNCHANGED <<sizes, cards>> PROVE UNCHANGED Catalog!vars
    BY <2>4 DEF Catalog!vars
  <2> QED
    BY <2>1, <2>2, <2>3, <2>4
       DEF Next, Discover, vars, store, Begin, Target, Finish, Fetch, Delete,
           Refused, Locked, Crash, StartImport, StopImport, Delist, Relist
<1> QED
  BY <1>1, <1>2, DiscoveryIsSound, PTL DEF Spec, ImplementsCatalog, Catalog!Spec

\* What BadgeCatalog lets a size and a list be: the inductive form of Honest.
CatalogInv ==
    /\ sizes \in [Games -> Nat]
    /\ \A g \in Games :
          /\ sizes[g] = CatalogSize[g]
             \/ sizes[g] \in (CatalogSize[g] + 1)..Cardinality(Badge(g))
          /\ cards[g] \ Foils \subseteq Badge(g)

\* Each of the three ways to write a size or a list keeps to that.
LEMMA CatalogStep ==
    ASSUME CatalogInv, [Catalog!Next]_Catalog!vars
    PROVE  CatalogInv'
<1> DEFINE listed == [g \in Games |-> cards[g] \ Foils]
           real   == [g \in Games |-> Badge(g)]
           InBounds(g, n) ==
               n = CatalogSize[g] \/ n \in (CatalogSize[g] + 1)..Cardinality(Badge(g))
<1>1. \A g \in Games : real[g] = Badge(g) /\ listed[g] = cards[g] \ Foils
  OBVIOUS
<1>2. \A g \in Games : CatalogSize[g] \in Nat /\ Cardinality(Badge(g)) \in Nat
  BY RealSets, DiscoveryAssumption
<1>3. ASSUME NEW g \in Games, Catalog!Correct(g) \/ Catalog!Reset(g)
      PROVE  \E n \in Nat : sizes' = [sizes EXCEPT ![g] = n] /\ InBounds(g, n)
  BY <1>1, <1>2, <1>3, SameCount DEF Catalog!Correct, Catalog!Corrections, Catalog!Reset
<1>4. /\ sizes' \in [Games -> Nat]
      /\ \A h \in Games : InBounds(h, sizes'[h])
  <2>1. CASE sizes' = sizes
    BY <2>1 DEF CatalogInv
  <2>2. ASSUME NEW g \in Games, Catalog!Correct(g) \/ Catalog!Reset(g)
        PROVE  sizes' \in [Games -> Nat] /\ \A h \in Games : InBounds(h, sizes'[h])
    <3>1. PICK n \in Nat : sizes' = [sizes EXCEPT ![g] = n] /\ InBounds(g, n)
      BY <1>3, <2>2
    <3>2. \A h \in Games : sizes'[h] = IF h = g THEN n ELSE sizes[h]
      BY <3>1 DEF CatalogInv
    <3> QED
      BY <3>1, <3>2 DEF CatalogInv
  <2> QED
    BY <2>1, <2>2 DEF Catalog!Next, Catalog!Publish, Catalog!vars
<1>5. \A h \in Games : cards'[h] \ Foils \subseteq Badge(h)
  <2>1. ASSUME NEW g \in Games, NEW new \in SUBSET real[g], listed' = [listed EXCEPT ![g] = new],
               NEW h \in Games
        PROVE  cards'[h] \ Foils \subseteq Badge(h)
    <3>1. listed'[h] = cards'[h] \ Foils
      OBVIOUS
    <3>2. listed'[h] = IF h = g THEN new ELSE listed[h]
      BY <2>1
    <3> QED
      BY <1>1, <3>1, <3>2 DEF CatalogInv
  <2>2. ASSUME listed' = listed, NEW h \in Games PROVE cards'[h] \ Foils \subseteq Badge(h)
    <3>1. listed'[h] = cards'[h] \ Foils
      OBVIOUS
    <3> QED
      BY <1>1, <2>2, <3>1 DEF CatalogInv
  <2>3. ASSUME NEW g \in Games, Catalog!Publish(g)
        PROVE  \E new \in SUBSET real[g] : listed' = [listed EXCEPT ![g] = new]
    BY <2>3 DEF Catalog!Publish
  <2> QED
    BY <2>1, <2>2, <2>3 DEF Catalog!Next, Catalog!vars
<1> QED
  BY <1>4, <1>5 DEF CatalogInv

\* Whoever keeps to the steps of BadgeCatalog keeps its sizes and lists honest,
\* for any catalog and real sets: what SetsAreHonest says of the discoveries
\* follows from the abstract specification alone (card_discovery.py:223-262).
THEOREM CatalogIsHonest == Catalog!Spec => []Catalog!Honest
<1> DEFINE listed == [g \in Games |-> cards[g] \ Foils]
           real   == [g \in Games |-> Badge(g)]
<1>1. Catalog!Init => CatalogInv
  <2> SUFFICES ASSUME Catalog!Init PROVE CatalogInv
    OBVIOUS
  <2>1. sizes = CatalogSize /\ \A g \in Games : listed[g] \subseteq real[g]
    BY DEF Catalog!Init
  <2> QED
    BY <2>1, DiscoveryAssumption DEF CatalogInv
<1>2. CatalogInv /\ [Catalog!Next]_Catalog!vars => CatalogInv'
  BY CatalogStep
<1>3. CatalogInv => Catalog!Honest
  <2> SUFFICES ASSUME CatalogInv, NEW g \in Games
               PROVE  /\ CatalogSize[g] <= sizes[g]
                      /\ Cardinality(real[g]) <= CatalogSize[g] => sizes[g] = CatalogSize[g]
                      /\ Cardinality(real[g]) = CatalogSize[g] /\ Cardinality(listed[g]) = sizes[g]
                            => listed[g] = real[g]
    BY SameCount DEF Catalog!Honest
  <2>1. real[g] = Badge(g) /\ listed[g] = cards[g] \ Foils /\ listed[g] \subseteq real[g]
    BY DEF CatalogInv
  <2>2. IsFiniteSet(real[g]) /\ Cardinality(real[g]) \in Nat /\ CatalogSize[g] \in Nat
    BY <2>1, RealSets, DiscoveryAssumption
  <2>3. /\ CatalogSize[g] <= sizes[g]
        /\ Cardinality(real[g]) <= CatalogSize[g] => sizes[g] = CatalogSize[g]
    BY <2>1, <2>2 DEF CatalogInv
  <2>4. ASSUME Cardinality(real[g]) = CatalogSize[g], Cardinality(listed[g]) = sizes[g]
        PROVE  listed[g] = real[g]
    <3>1. Cardinality(listed[g]) = Cardinality(real[g])
      BY <2>2, <2>3, <2>4
    <3> QED
      BY <2>1, <2>2, <3>1, FS_Subset
  <2> QED
    BY <2>3, <2>4
<1> QED
  BY <1>1, <1>2, <1>3, PTL DEF Catalog!Spec

-----------------------------------------------------------------------------
(* A market that stays still.  Every enumeration that gets to the store    *)
(* has then seen the whole search, so every list written is the same one.  *)

Offered(g) == ToSet(FirstMarket[g])
Whole(g)   == {n \in Offered(g) : GameOf[n] = g}

\* Nothing but discoveries runs, no listing comes or goes and no page is
\* empty too soon; the search lists a name once, and MaxPages pages reach its
\* end however short they are; a set has a card (models/badge.py:19).
StillMarket ==
    /\ Faults = {} /\ Importers = {}
    /\ \A g \in Games :
           /\ CatalogSize[g] > 0
           /\ Len(FirstMarket[g]) <= MaxPages
           /\ \A i, j \in 1..Len(FirstMarket[g]) :
                  FirstMarket[g][i] = FirstMarket[g][j] => i = j

\* How far the enumeration of p has come: a page brings at least one card.
FoundSoFar(p) ==
    /\ start[p] <= Len(FirstMarket[game[p]])
    /\ pages[p] <= start[p]
    /\ found[p] = ToSet(SubSeq(FirstMarket[game[p]], 1, start[p]))

StillInv ==
    /\ market = FirstMarket
    /\ \A g \in Games : cards[g] \in {{}, Whole(g)}
    /\ \A p \in Discoverers : pc[p] = "fetch" => FoundSoFar(p)
    /\ \A p \in Discoverers :
           pc[p] \in {"delete", "commit", "raise"} => found[p] = Offered(game[p])

\* The pages read so far and the next one are a longer prefix of the search.
LEMMA PrefixGrows ==
    ASSUME NEW s \in Seq(Names), NEW m \in 0..Len(s), NEW n \in 0..(Len(s) - m)
    PROVE  LET page == SubSeq(s, m + 1, m + n)
           IN  /\ Len(page) = n
               /\ ToSet(SubSeq(s, 1, m + n)) = ToSet(SubSeq(s, 1, m)) \cup ToSet(page)
               /\ \A x \in ToSet(page) : \E i \in (m + 1)..(m + n) : x = s[i]
               /\ \A i \in (m + 1)..(m + n) : s[i] \in ToSet(page)
               /\ \A x \in ToSet(SubSeq(s, 1, m)) : \E i \in 1..m : x = s[i]
<1> DEFINE page == SubSeq(s, m + 1, m + n)
           past == SubSeq(s, 1, m)
           all  == SubSeq(s, 1, m + n)
<1>1. DOMAIN page = 1..n /\ Len(page) = n /\ \A i \in 1..n : page[i] = s[m + i]
  <2>1. page \in Seq(Names) /\ Len(page) = n
    BY SubSeqProperties
  <2>2. \A i \in 1..n : page[i] = s[(m + 1) + i - 1]
    BY SubSeqProperties
  <2> QED
    BY <2>1, <2>2
<1>2. DOMAIN past = 1..m /\ \A i \in 1..m : past[i] = s[i]
  BY SubSeqProperties
<1>3. DOMAIN all = 1..(m + n) /\ \A i \in 1..(m + n) : all[i] = s[i]
  BY SubSeqProperties
<1>4. ToSet(page) = {s[i] : i \in (m + 1)..(m + n)}
  <2>1. \A i \in (m + 1)..(m + n) : (i - m) \in 1..n /\ page[i - m] = s[i]
    BY <1>1
  <2>2. \A i \in 1..n : (m + i) \in (m + 1)..(m + n)
    OBVIOUS
  <2>3. \A x : x \in ToSet(page) <=> \E i \in 1..n : x = page[i]
    BY <1>1 DEF ToSet
  <2>4. \A x : (\E i \in 1..n : x = page[i]) <=> (\E i \in (m + 1)..(m + n) : x = s[i])
    BY <1>1, <2>1, <2>2
  <2> QED
    BY <2>3, <2>4
<1>5. ToSet(past) = {s[i] : i \in 1..m}
  BY <1>2 DEF ToSet
<1>6. ToSet(all) = {s[i] : i \in 1..(m + n)}
  BY <1>3 DEF ToSet
<1>7. 1..(m + n) = 1..m \cup (m + 1)..(m + n)
  OBVIOUS
<1> QED
  BY <1>1, <1>4, <1>5, <1>6, <1>7

\* What a still market answers: some of what is left, all of it new, and
\* nothing only when nothing is left.
LEMMA StillAnswers ==
    ASSUME StillMarket, market = FirstMarket, NEW g \in Games,
           NEW offset \in 0..Len(FirstMarket[g]), NEW reply \in Replies(g, offset)
    PROVE  LET s == FirstMarket[g]
               n == Len(reply.results)
           IN  /\ n \in 0..(Len(s) - offset)
               /\ n = 0 => offset = Len(s)
               /\ n > 0 => reply.results # <<>>
               /\ reply.results = <<>> => n = 0
               /\ reply.total_count \in {0, Len(s)}
               /\ ToSet(SubSeq(s, 1, offset + n))
                      = ToSet(SubSeq(s, 1, offset)) \cup ToSet(reply.results)
               /\ n > 0 => ~ ToSet(reply.results) \subseteq ToSet(SubSeq(s, 1, offset))
<1> DEFINE s == FirstMarket[g]
           n == Len(reply.results)
<1>1. s \in Seq(Names) /\ Len(s) \in Nat
  BY DiscoveryAssumption
<1>2. /\ reply.total_count \in {0, Len(s)}
      /\ \E k \in (IF Len(s) - offset > 0 THEN 1 ELSE 0)..
                   (IF Len(s) - offset <= 0 THEN 0
                    ELSE IF Len(s) - offset < PageSize THEN Len(s) - offset ELSE PageSize) :
             reply.results = SubSeq(s, offset + 1, offset + k)
  BY DEF Replies, StillMarket
<1>3. PICK k \in 0..(Len(s) - offset) :
          /\ reply.results = SubSeq(s, offset + 1, offset + k)
          /\ k = 0 => offset = Len(s)
  <2>1. CASE offset = Len(s)
    BY <1>1, <1>2, <2>1
  <2>2. CASE offset < Len(s)
    <3>1. PICK k \in 1..(IF Len(s) - offset < PageSize THEN Len(s) - offset ELSE PageSize) :
              reply.results = SubSeq(s, offset + 1, offset + k)
      BY <1>1, <1>2, <2>2
    <3>2. k \in 0..(Len(s) - offset) /\ k # 0
      BY <1>1, <2>2, <3>1, DiscoveryAssumption
    <3> QED
      BY <3>1, <3>2
  <2> QED
    BY <1>1, <2>1, <2>2
<1> HIDE DEF s
<1>4. /\ Len(SubSeq(s, offset + 1, offset + k)) = k
      /\ ToSet(SubSeq(s, 1, offset + k))
             = ToSet(SubSeq(s, 1, offset)) \cup ToSet(SubSeq(s, offset + 1, offset + k))
      /\ \A i \in (offset + 1)..(offset + k) : s[i] \in ToSet(SubSeq(s, offset + 1, offset + k))
      /\ \A x \in ToSet(SubSeq(s, 1, offset)) : \E i \in 1..offset : x = s[i]
  BY <1>1, PrefixGrows, offset \in 0..Len(s) DEF s
<1>5. n = k
  BY <1>3, <1>4
<1>6. ToSet(SubSeq(s, 1, offset + n)) = ToSet(SubSeq(s, 1, offset)) \cup ToSet(reply.results)
  BY <1>3, <1>5, <1>4
<1>7. ASSUME n > 0 PROVE ~ ToSet(reply.results) \subseteq ToSet(SubSeq(s, 1, offset))
  <2>1. (offset + 1) \in (offset + 1)..(offset + k) /\ (offset + 1) \in 1..Len(s)
    BY <1>1, <1>3, <1>5, <1>7
  <2>2. s[offset + 1] \in ToSet(reply.results)
    BY <1>3, <1>4, <2>1
  <2>3. ASSUME s[offset + 1] \in ToSet(SubSeq(s, 1, offset)) PROVE FALSE
    <3>1. PICK i \in 1..offset : s[offset + 1] = s[i]
      BY <1>4, <2>3
    <3>2. i \in 1..Len(s) /\ i # offset + 1
      BY <1>1
    <3> QED
      BY <2>1, <3>1, <3>2 DEF StillMarket, s
  <2> QED
    BY <2>2, <2>3
<1>8. /\ n > 0 => reply.results # <<>>
      /\ reply.results = <<>> => n = 0
  OBVIOUS
<1> QED
  BY <1>2, <1>3, <1>5, <1>6, <1>7, <1>8 DEF s

\* An offset that is inside the search and at least its length is its end, and
\* one more page of at least one card brings every offset past its number.
LEMMA AtMost ==
    ASSUME NEW len \in Nat, NEW offset \in 0..len, NEW n \in 0..(len - offset)
    PROVE  /\ offset + n >= len => offset + n = len
           /\ \A page \in Nat : page <= offset /\ n > 0 => offset + n >= page + 1
  OBVIOUS

\* One turn of the loop in _enumerate_cards: it goes on with a longer prefix,
\* or leaves with the whole search, whichever of its three exits it takes.
LEMMA StillFetch ==
    ASSUME StillMarket, TypeOK, market = FirstMarket,
           NEW p \in Discoverers, pc[p] = "fetch", FoundSoFar(p), Fetch(p)
    PROVE  /\ pc'[p] \in {"fetch", "delete"}
           /\ pc'[p] = "fetch" => FoundSoFar(p)'
           /\ pc'[p] = "delete" => found'[p] = Offered(game[p])
<1> DEFINE s == FirstMarket[game[p]]
<1>1. /\ game[p] \in Games /\ s \in Seq(Names) /\ Len(s) \in Nat
      /\ start[p] \in 0..Len(s) /\ pages[p] \in Nat /\ pages[p] <= start[p]
      /\ found[p] = ToSet(SubSeq(s, 1, start[p]))
  BY DiscoveryAssumption DEF TypeOK, FoundSoFar
<1>2. PICK reply \in Replies(game[p], start[p]) :
         /\ found' = [found EXCEPT ![p] = @ \cup ToSet(reply.results)]
         /\ start' = [start EXCEPT ![p] = Advanced(p, Len(reply.results))]
         /\ Goto(p, IF \/ AtEnd(p, reply) \/ Stuck(p, reply)
                       \/ pages[p] + 1 = MaxPages
                    THEN "delete" ELSE "fetch")
  BY DEF Fetch
<1> DEFINE n == Len(reply.results)
<1>3. /\ n \in 0..(Len(s) - start[p])
      /\ n = 0 => start[p] = Len(s)
      /\ n > 0 => reply.results # <<>>
      /\ reply.results = <<>> => n = 0
      /\ reply.total_count \in {0, Len(s)}
      /\ ToSet(SubSeq(s, 1, start[p] + n))
            = ToSet(SubSeq(s, 1, start[p])) \cup ToSet(reply.results)
      /\ n > 0 => ~ ToSet(reply.results) \subseteq ToSet(SubSeq(s, 1, start[p]))
  BY <1>1, StillAnswers
<1>4. /\ game' = game /\ pages'[p] = pages[p] + 1 /\ start'[p] = Advanced(p, n)
      /\ found'[p] = ToSet(SubSeq(s, 1, start[p] + n))
      /\ pc'[p] = IF AtEnd(p, reply) \/ Stuck(p, reply) \/ pages[p] + 1 = MaxPages
                  THEN "delete" ELSE "fetch"
  BY <1>1, <1>2, <1>3 DEF Fetch, TypeOK, Goto
<1>5. ASSUME start[p] + n = Len(s) PROVE found'[p] = Offered(game[p])
  <2>1. SubSeq(s, 1, Len(s)) = s
    BY <1>1, SubSeqFull
  <2> QED
    BY <1>4, <1>5, <2>1 DEF Offered
<1>6. ASSUME pc'[p] = "delete" PROVE start[p] + n = Len(s)
  <2>1. CASE n = 0
    BY <1>1, <1>3, <2>1
  <2>2. CASE n > 0
    <3>1. Advanced(p, n) = start[p] + n
      BY <2>2 DEF Advanced
    <3>2. ~ Stuck(p, reply)
      BY <1>1, <1>3, <2>2 DEF Stuck
    <3>3. CASE AtEnd(p, reply)
      <4>1. reply.total_count = Len(s) /\ Advanced(p, n) >= reply.total_count
        BY <1>3, <2>2, <3>3 DEF AtEnd
      <4>2. start[p] + n >= Len(s)
        BY <3>1, <4>1
      <4> QED
        BY <1>1, <1>3, <4>2, AtMost
    <3>4. CASE pages[p] + 1 = MaxPages
      <4>1. Len(s) <= MaxPages
        BY <1>1 DEF StillMarket
      <4>2. start[p] + n >= pages[p] + 1
        BY <1>1, <1>3, <2>2, AtMost
      <4>3. start[p] + n >= Len(s)
        BY <1>1, <3>4, <4>1, <4>2, DiscoveryAssumption
      <4> QED
        BY <1>1, <1>3, <4>3, AtMost
    <3> QED
      BY <1>4, <1>6, <3>2, <3>3, <3>4
  <2> QED
    BY <1>3, <2>1, <2>2
<1>7. ASSUME pc'[p] = "fetch" PROVE FoundSoFar(p)'
  <2>1. n > 0
    BY <1>3, <1>4, <1>7 DEF AtEnd
  <2>2. start'[p] = start[p] + n
    BY <1>4, <2>1 DEF Advanced
  <2> QED
    BY <1>1, <1>3, <1>4, <2>1, <2>2 DEF FoundSoFar
<1> QED
  BY <1>4, <1>5, <1>6, <1>7

\* The invariant holds before any discovery.
LEMMA StillInit == ASSUME Init PROVE StillInv
  BY DEF Init, StillInv

\* Nobody but its own loop changes how far an enumeration has come, and only
\* the loop hands over to the store.
LEMMA StillPaging ==
    ASSUME StillMarket, TypeOK, StillInv, [Next]_vars, NEW q \in Discoverers
    PROVE  /\ (pc[q] = "fetch" => FoundSoFar(q))'
           /\ (pc[q] \in {"delete", "commit", "raise"} => found[q] = Offered(game[q]))'
<1> DEFINE Goal == /\ (pc[q] = "fetch" => FoundSoFar(q))'
                   /\ (pc[q] \in {"delete", "commit", "raise"}
                          => found[q] = Offered(game[q]))'
<1>1. /\ pc \in [Discoverers -> Places] /\ game \in [Discoverers -> Games]
      /\ found \in [Discoverers -> SUBSET Names]
      /\ start \in [Discoverers -> Nat] /\ pages \in [Discoverers -> Nat]
  BY DEF TypeOK
<1>2. ASSUME pc'[q] = pc[q] /\ game'[q] = game[q] /\ found'[q] = found[q]
             /\ start'[q] = start[q] /\ pages'[q] = pages[q]
      PROVE  Goal
  BY <1>2 DEF StillInv, FoundSoFar, Offered
<1>3. ASSUME NEW p \in Discoverers, p # q, Discover(p) \/ Refused(p) \/ Locked(p) \/ Crash(p)
      PROVE  Goal
  <2>1. /\ pc'[q] = pc[q] /\ game'[q] = game[q] /\ found'[q] = found[q]
        /\ start'[q] = start[q] /\ pages'[q] = pages[q]
    BY <1>1, <1>3
       DEF Discover, Begin, Target, Finish, Fetch, Delete, Commit, Raise, Refused,
           Locked, Crash, Exit, Clear, Goto, local, paging
  <2> QED
    BY <1>2, <2>1
<1>4. ASSUME pc'[q] \in {"idle", "next"} PROVE Goal
  BY <1>4
<1>5. CASE Begin(q) \/ Finish(q) \/ Raise(q) \/ Refused(q) \/ Locked(q) \/ Crash(q)
  <2>1. pc'[q] \in {"idle", "next"}
    BY <1>1, <1>5 DEF Begin, Finish, Raise, Refused, Locked, Crash, Exit, Goto
  <2> QED
    BY <1>4, <2>1
<1>6. CASE Target(q)
  <2>1. /\ pc'[q] = "fetch" /\ game'[q] \in Games
        /\ found'[q] = {} /\ start'[q] = 0 /\ pages'[q] = 0
    <3>1. PICK g \in Games : game' = [game EXCEPT ![q] = g]
      BY <1>6 DEF Target, TypeOK
    <3>2. pc'[q] = "fetch" /\ found'[q] = {} /\ start'[q] = 0 /\ pages'[q] = 0
      BY <1>1, <1>6 DEF Target, Goto, Clear
    <3> QED
      BY <1>1, <3>1, <3>2
  <2>2. /\ Len(FirstMarket[game'[q]]) \in Nat
        /\ ToSet(SubSeq(FirstMarket[game'[q]], 1, 0)) = {}
    BY <2>1, DiscoveryAssumption DEF ToSet
  <2> QED
    BY <2>1, <2>2 DEF FoundSoFar
<1>7. CASE Fetch(q)
  <2>1. pc[q] = "fetch" /\ game' = game
    BY <1>7 DEF Fetch
  <2> QED
    BY <1>7, <2>1, StillFetch DEF StillInv, Offered
<1>8. CASE Delete(q)
  <2>1. pc[q] = "delete" /\ pc'[q] = "commit" /\ UNCHANGED <<found, game>>
    BY <1>1, <1>8 DEF Delete, Goto, local, paging
  <2> QED
    BY <2>1 DEF StillInv, Offered
<1>9. CASE Commit(q)
  <2>1. CASE Raises(q)
    <3>1. pc[q] = "commit" /\ pc'[q] = "raise" /\ UNCHANGED <<found, game>>
      BY <1>1, <1>9, <2>1 DEF Commit, Goto, paging
    <3> QED
      BY <3>1 DEF StillInv, Offered
  <2>2. CASE ~ Raises(q)
    <3>1. pc'[q] = "next"
      BY <1>1, <1>9, <2>2 DEF Commit, Goto
    <3> QED
      BY <1>4, <3>1
  <2> QED
    BY <2>1, <2>2
<1>10. CASE UNCHANGED <<pc, local>>
  BY <1>2, <1>10 DEF local, paging
<1> QED
  BY <1>3, <1>5, <1>6, <1>7, <1>8, <1>9, <1>10
     DEF Next, Discover, vars, StartImport, ImportEntry, StopImport, Delist, Relist

\* What replace_cards_for_app writes is the whole set that is on sale.
LEMMA StillCommit ==
    ASSUME StillInv, NEW p \in Discoverers, pc[p] \in {"commit", "raise"}
    PROVE  Kept(p) = Whole(game[p])
  BY DEF StillInv, Kept, Whole

\* A list is empty until the first commit and the whole set from then on.
LEMMA StillStep ==
    ASSUME StillMarket, TypeOK, StillInv, [Next]_vars
    PROVE  StillInv'
<1>1. market' = FirstMarket
  <2>1. \A g \in Games : ~ Delist(g) /\ ~ Relist(g)
    BY DEF StillMarket, Delist, Relist
  <2> QED
    BY <2>1
       DEF StillInv, Next, Discover, vars, Begin, Target, Finish, Fetch, Delete, Commit,
           Raise, Refused, Locked, Crash, StartImport, ImportEntry, StopImport
<1>2. \A g \in Games : cards'[g] \in {{}, Whole(g)}
  <2>1. ASSUME NEW p \in Discoverers, Commit(p), NEW g \in Games
        PROVE  cards'[g] \in {{}, Whole(g)}
    <3>1. cards' = [cards EXCEPT ![game[p]] = Whole(game[p])]
      BY <2>1, StillCommit DEF Commit
    <3> QED
      BY <2>1, <3>1 DEF TypeOK, StillInv
  <2>2. CASE UNCHANGED cards
    BY <2>2 DEF StillInv
  <2> QED
    BY <2>1, <2>2
       DEF Next, Discover, vars, store, Begin, Target, Finish, Fetch, Delete, Raise,
           Refused, Locked, Crash, StartImport, ImportEntry, StopImport, Delist, Relist
<1> QED
  BY <1>1, <1>2, StillPaging DEF StillInv, Whole, Offered

\* A list that looks complete is the whole set, so writing the whole set again
\* (Commit) or its size (Raise) leaves it complete.
LEMMA StillComplete ==
    ASSUME StillMarket, DiscoveryInv, StillInv, [Next]_vars,
           NEW g \in Games, LooksComplete(g)
    PROVE  LooksComplete(g)'
<1>1. /\ sizes \in [Games -> Nat] /\ cards \in [Games -> SUBSET Names]
      /\ game \in [Discoverers -> Games]
  BY DEF DiscoveryInv, TypeOK
<1>2. cards[g] = Whole(g)
  <2>1. CatalogSize[g] \in Nat /\ 0 < CatalogSize[g] /\ CatalogSize[g] <= sizes[g]
    BY DiscoveryAssumption DEF StillMarket, DiscoveryInv, Sound
  <2>2. ASSUME cards[g] = {} PROVE FALSE
    <3>1. Cardinality(cards[g] \ Foils) = 0
      BY <2>2, FS_EmptySet
    <3> QED
      BY <1>1, <2>1, <3>1 DEF LooksComplete
  <2> QED
    BY <2>2 DEF StillInv
<1>3. ASSUME NEW p \in Discoverers, Commit(p)
      PROVE  cards' = [cards EXCEPT ![game[p]] = Whole(game[p])] /\ sizes' = sizes
  BY <1>3, StillCommit DEF Commit
<1>4. ASSUME NEW p \in Discoverers, Raise(p)
      PROVE  /\ sizes' = [sizes EXCEPT ![game[p]] = Cardinality(Whole(game[p]) \ Foils)]
             /\ cards' = cards
  BY <1>4, StillCommit DEF Raise, Count
<1>5. ASSUME NEW c \in Importers PROVE FALSE
  BY <1>5 DEF StillMarket
<1>6. ASSUME UNCHANGED <<sizes, cards>> PROVE LooksComplete(g)'
  BY <1>6 DEF LooksComplete
<1>7. ASSUME NEW p \in Discoverers, Commit(p) \/ Raise(p) PROVE LooksComplete(g)'
  <2>1. CASE game[p] # g
    BY <1>1, <1>3, <1>4, <1>7, <2>1 DEF LooksComplete
  <2>2. CASE game[p] = g
    BY <1>1, <1>2, <1>3, <1>4, <1>7, <2>2 DEF LooksComplete
  <2> QED
    BY <2>1, <2>2
<1> QED
  BY <1>5, <1>6, <1>7
     DEF Next, Discover, vars, store, Begin, Target, Finish, Fetch, Delete,
         Refused, Locked, Crash, Delist, Relist

\* On a market that stays still, whatever the number of discoveries at work,
\* the order of their steps and the refusals, lock timeouts and kills among
\* them, no step makes a complete list incomplete (replace_cards_for_app).
THEOREM CompleteListsStay == ASSUME StillMarket PROVE Spec => CompleteStays
<1>1. Init => StillInv
  BY StillInit
<1>2. DiscoveryInv /\ StillInv /\ [Next]_vars => StillInv'
  BY StillStep DEF DiscoveryInv
<1>3. DiscoveryInv /\ StillInv /\ [Next]_vars
        => [\A g \in Games : LooksComplete(g) => LooksComplete(g)']_<<cards, sizes>>
  BY StillComplete
<1> QED
  BY <1>1, <1>2, <1>3, DiscoveryIsSound, PTL DEF Spec, CompleteStays

=============================================================================
