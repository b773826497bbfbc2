------------------------- MODULE PricingPassProofs -------------------------
(***************************************************************************)
(* Proofs about the passes and the views of PricingPass, for every market, *)
(* catalog, store to start from, bound and number of games.                *)
(*                                                                         *)
(* What a pass delivers rests on Delivery, which says of the game a pass   *)
(* is in what FetchedIsCosted says of the games it has gone through, and   *)
(* of the games a booster pass has yet to quote that they can be compared. *)
(***************************************************************************)
EXTENDS PricingPass, AmountProofs, SequenceTheorems

\* Every price is a sound observation.
SoundPrices == \A c \in AllCards : prices[c] # None => Sound(prices[c])

\* All of a game's cards are known and may be bought, and all are priced but for
\* those in S.
PricedBut(g, S) ==
    /\ cards[g] = RealCards[g] /\ \A c \in cards[g] \ S : Unit(c) # None
    /\ unmarketable \cap RealCards[g] = {}

AtGame == pc \in {"items", "quote"} /\ kind # "enrich" => targets # <<>>

Delivery ==
    /\ pc = "quote" => kind = "booster"
    /\ pc = "items" /\ kind \in {"plan", "auto"} /\ clean => PricedBut(Head(targets), items)
    /\ \A g \in done : PricedBut(g, {})
    /\ done # {} => kind \in {"plan", "auto"}
    /\ kind = "booster" => \A i \in DOMAIN targets : Costed(targets[i])
    /\ \A g \in Games : quotes[g] # None => Costed(g) /\ kind = "booster"

Inv == TypeOK /\ AtGame /\ SoundPrices /\ Delivery

-----------------------------------------------------------------------------
(* Sequences of games.                                                     *)

LEMMA FirstTyped ==
    ASSUME NEW n \in Nat, NEW S, NEW s \in Seq(S)
    PROVE  /\ First(n, s) \in Seq(S) /\ Len(First(n, s)) <= n
           /\ \A i \in DOMAIN First(n, s) : First(n, s)[i] \in S
<1> DEFINE m == IF n < Len(s) THEN n ELSE Len(s)
<1>1. m \in 0..Len(s) /\ m <= n
  OBVIOUS
<1>2. SubSeq(s, 1, m) \in Seq(S) /\ Len(SubSeq(s, 1, m)) = m
  BY <1>1, SubSeqProperties
<1>3. First(n, s) = SubSeq(s, 1, m)
  BY DEF First
<1> QED
  BY <1>1, <1>2, <1>3

\* What the passes go through are games, and no more than the bound.
LEMMA TargetsTyped ==
    /\ \A s \in PlanTargets \cup AutoTargets \cup Top(MaxGames) :
          s \in Seq(Games) /\ Len(s) <= MaxGames
    /\ \A n \in Nat : \A s \in Top(n) : s \in Seq(Games) /\ \A i \in DOMAIN s : Ranked(s[i])
<1>1. \A S \in SUBSET Games : IsFiniteSet(S)
  BY CostAssumption, FS_Subset
<1> DEFINE R == {g \in Games : Ranked(g)}
<1>2. ASSUME NEW n \in Nat, NEW s \in Top(n)
      PROVE  s \in Seq(Games) /\ Len(s) <= n /\ \A i \in DOMAIN s : Ranked(s[i])
  <2>1. PICK t \in Sorted(R, Cheaper) : s = First(n, t)
    BY <1>2 DEF Top
  <2> HIDE DEF R
  <2>2. t \in [1..Cardinality(R) -> R] /\ IsFiniteSet(R)
    BY <1>1 DEF Sorted, R
  <2>4. t \in Seq(R)
    BY <2>2, FS_CardinalityType
  <2>3. s \in Seq(R) /\ Len(s) <= n /\ \A i \in DOMAIN s : s[i] \in R
    BY <2>1, <2>4, FirstTyped
  <2> QED
    BY <2>3 DEF R
<1>3. ASSUME NEW s \in PlanTargets PROVE s \in Seq(Games) /\ Len(s) <= MaxGames
  <2>1. PICK t \in [1..Cardinality(Candidates) -> Candidates] : s = First(MaxGames, t)
    BY <1>3 DEF PlanTargets, Sorted
  <2>2. Candidates \subseteq Games
    BY DEF Candidates
  <2>3. t \in Seq(Games)
    BY <1>1, <2>2, FS_CardinalityType
  <2> QED
    BY <2>1, <2>3, FirstTyped, CostAssumption
<1>4. ASSUME NEW s \in AutoTargets PROVE s \in Seq(Games) /\ Len(s) <= MaxGames
  <2> DEFINE A == {g \in Games : Relevant(g)}
  <2>1. PICK t \in Sorted(A, MoreOwned) : s = First(MaxGames, t)
    BY <1>4 DEF AutoTargets
  <2>2. t \in Seq(Games)
    BY <1>1, FS_CardinalityType DEF Sorted
  <2> QED
    BY <2>1, <2>2, FirstTyped, CostAssumption
<1> QED
  BY <1>2, <1>3, <1>4, CostAssumption

-----------------------------------------------------------------------------
(* Observations.                                                           *)

\* A new observation is sound, in the user's currency, and hides no ask.
LEMMA ObservedSound ==
    ASSUME NEW c \in AllCards, NEW q \in QuotesOf[c], NEW old \in Prices \cup {None}
    PROVE  /\ Observed(old, q) \in Prices /\ Observed(old, q) # None
           /\ Sound(Observed(old, q)) /\ Observed(old, q).home
           /\ old # None /\ old.lastAsk # None => Observed(old, q).lastAsk # None
<1>1. q \in Quotes /\ (q.ask # None \/ q.median # None)
  BY PassAssumption
<1>2. Observed(old, q) \in Prices
  BY <1>1 DEF Observed, Prices, Quotes, Keep, Cents
<1>3. Observed(old, q) # None
  BY <1>2, PassAssumption
<1> QED
  BY <1>1, <1>2, <1>3 DEF Observed, Sound, Keep

\* A sound price in the user's currency is a price.
LEMMA UnitKnown ==
    ASSUME NEW c \in AllCards, prices[c] # None, prices[c].home, Sound(prices[c])
    PROVE  Unit(c) # None
BY DEF Unit, Sound

\* A price that comes in takes no price away.
LEMMA PriceKeeps ==
    ASSUME TypeOK, SoundPrices, NEW i, NEW q \in QuotesOf[i],
           prices' = [prices EXCEPT ![i] = Observed(@, q)]
    PROVE  /\ prices' \in [AllCards -> Prices \cup {None}] /\ SoundPrices'
           /\ \A c \in AllCards :
                 /\ Unit(c) # None \/ c = i => (Unit(c) # None)'
                 /\ LastAsk(c) # None => (LastAsk(c) # None)'
<1>1. prices \in [AllCards -> Prices \cup {None}]
  BY DEF TypeOK
<1>2. ASSUME NEW c \in AllCards, c # i PROVE prices'[c] = prices[c]
  BY <1>1, <1>2
<1>3. ASSUME NEW c \in AllCards, c = i
      PROVE  /\ prices'[c] \in Prices /\ prices'[c] # None
             /\ Sound(prices'[c]) /\ prices'[c].home
             /\ prices[c] # None /\ prices[c].lastAsk # None => prices'[c].lastAsk # None
  <2>1. prices'[c] = Observed(prices[c], q) /\ prices[c] \in Prices \cup {None}
    BY <1>1, <1>3
  <2> QED
    BY <1>3, <2>1, ObservedSound
<1>4. prices' \in [AllCards -> Prices \cup {None}]
  BY <1>1, <1>2, <1>3
<1>5. SoundPrices'
  BY <1>2, <1>3 DEF SoundPrices, Sound
<1>6. ASSUME NEW c \in AllCards
      PROVE  /\ Unit(c) # None \/ c = i => (Unit(c) # None)'
             /\ LastAsk(c) # None => (LastAsk(c) # None)'
  BY <1>2, <1>3 DEF Unit, LastAsk, Sound
<1> QED
  BY <1>4, <1>5, <1>6

\* Nor does time.
LEMMA ExpireKeeps ==
    ASSUME TypeOK, SoundPrices, Expire
    PROVE  /\ prices' \in [AllCards -> Prices \cup {None}] /\ SoundPrices'
           /\ \A c \in AllCards :
                 /\ Unit(c) # None => (Unit(c) # None)'
                 /\ LastAsk(c) # None => (LastAsk(c) # None)'
<1>1. ASSUME NEW c \in AllCards
      PROVE  IF prices[c] = None THEN prices'[c] = None
             ELSE /\ prices[c] \in Prices /\ prices'[c] \in Prices /\ prices'[c] # None
                  /\ prices'[c].ask = prices[c].ask /\ prices'[c].median = prices[c].median
                  /\ prices'[c].home = prices[c].home
                  /\ prices'[c].lastAsk = prices[c].lastAsk
  <2>1. prices[c] = None => prices'[c] = None
    BY DEF Expire
  <2>2. CASE prices[c] # None
    <3>1. prices[c] \in Prices /\ prices'[c] = [prices[c] EXCEPT !.fresh = FALSE]
      BY <2>2 DEF TypeOK, Expire
    <3>2. prices'[c] \in Prices
      BY <3>1 DEF Prices
    <3> QED
      BY <2>2, <3>1, <3>2, PassAssumption DEF Prices
  <2> QED
    BY <2>1, <2>2
<1>2. prices' \in [AllCards -> Prices \cup {None}]
  BY <1>1 DEF Expire
<1> QED
  BY <1>1, <1>2 DEF SoundPrices, Sound, Unit, LastAsk

-----------------------------------------------------------------------------
(* The steps.                                                              *)

LEMMA InitInv == Init => Inv
<1> SUFFICES ASSUME Init PROVE Inv
  OBVIOUS
<1>1. TypeOK
  BY PassAssumption, CostAssumption DEF Init, TypeOK, NoQuotes, Cents
<1> QED
  BY <1>1, PassAssumption DEF Init, Inv, AtGame, SoundPrices, Delivery, NoQuotes

\* Commands that start: the passes over games, and the enrichment.
LEMMA StartInv ==
    ASSUME Inv, StartPlan \/ StartAuto \/ StartBooster \/ StartEnrich
    PROVE  Inv'
<1> USE DEF Inv
<1>1. UNCHANGED <<store, quotes, clean, done, faults>>
  BY DEF StartPlan, StartAuto, StartBooster, StartEnrich, Begin
<1>2. targets' \in Seq(Games) /\ Len(targets') <= MaxGames
  BY TargetsTyped DEF StartPlan, StartAuto, StartBooster, StartEnrich, TypeOK
<1>3. items' \subseteq AllCards
  <2>1. CASE StartEnrich
    <3>1. PICK s \in Top(EnrichTop) : items' = UNION {cards[s[i]] : i \in DOMAIN s}
      BY <2>1 DEF StartEnrich
    <3>2. \A i \in DOMAIN s : s[i] \in Games
      BY <3>1, TargetsTyped, PassAssumption
    <3> QED
      BY <3>1, <3>2 DEF TypeOK
  <2> QED
    BY <2>1 DEF StartPlan, StartAuto, StartBooster, TypeOK
<1>4. /\ kind' \in {"plan", "auto", "enrich", "booster"} /\ kind = "none"
      /\ pc' = IF kind' = "enrich" THEN "items" ELSE "game"
  BY DEF StartPlan, StartAuto, StartBooster, StartEnrich, Begin, TypeOK
<1>5. TypeOK'
  BY <1>1, <1>2, <1>3, <1>4 DEF TypeOK, store
<1>6. AtGame' /\ SoundPrices'
  BY <1>1, <1>4 DEF AtGame, SoundPrices, Sound, store
<1>7. kind' = "booster" => \A i \in DOMAIN targets' : Costed(targets'[i])
  <2> SUFFICES ASSUME kind' = "booster" PROVE \A i \in DOMAIN targets' : Costed(targets'[i])
    OBVIOUS
  <2>1. targets' \in Top(MaxGames)
    BY DEF StartPlan, StartAuto, StartBooster, StartEnrich, Begin
  <2>2. ASSUME NEW i \in DOMAIN targets' PROVE Costed(targets'[i])
    <3> DEFINE g == targets'[i]
    <3>1. Ranked(g) /\ g \in Games
      BY <2>1, <1>2, TargetsTyped, CostAssumption
    <3>2. \A c \in cards[g] : c \in AllCards /\ LastAsk(c) # None
      BY <3>1 DEF Ranked, Ask, LastAsk, SoundPrices, Sound, TypeOK
    <3>3. Cardinality(cards[g]) \in Nat
      <4>1. IsFiniteSet(cards[g])
        BY <3>1, CostAssumption, FS_Subset DEF TypeOK
      <4> QED
        BY <4>1, FS_CardinalityType
    <3>4. ~(sizes[g] # 0 /\ Cardinality(cards[g]) < sizes[g])
      BY <3>1, <3>3 DEF Ranked, KnownSet, TypeOK
    <3> HIDE DEF g
    <3>5. Costed(g)
      BY <3>1, <3>2, <3>4 DEF Costed, Ranked
    <3> QED
      BY <3>5 DEF g
  <2> QED
    BY <2>2
<1>8. Delivery'
  <2>1. /\ done' = done /\ quotes' = quotes
        /\ cards' = cards /\ prices' = prices /\ sizes' = sizes
    BY <1>1 DEF store
  <2>2. (\A g \in Games : quotes[g] = None) /\ done = {}
    BY <1>4 DEF Delivery
  <2>5. kind' = "booster" => \A i \in DOMAIN targets' : Costed(targets[i])'
    BY <2>1, <1>7 DEF Costed, LastAsk
  <2> QED
    BY <1>4, <2>1, <2>2, <2>5 DEF Delivery
<1> QED
  BY <1>5, <1>6, <1>8

\* What can be costed stays so, as long as no list and no price is lost.
LEMMA ViewsKept ==
    ASSUME TypeOK, cards' = cards, sizes' = sizes, unmarketable' = unmarketable,
           \A c \in AllCards : /\ Unit(c) # None => (Unit(c) # None)'
                               /\ LastAsk(c) # None => (LastAsk(c) # None)'
    PROVE  \A g \in Games : /\ Costed(g) => Costed(g)'
                            /\ \A S : PricedBut(g, S) => PricedBut(g, S)'
<1> SUFFICES ASSUME NEW g \in Games
             PROVE  /\ Costed(g) => Costed(g)'
                    /\ \A S : PricedBut(g, S) => PricedBut(g, S)'
  OBVIOUS
<1>1. ASSUME NEW c \in cards[g]
      PROVE  /\ Unit(c) # None => Unit(c)' # None
             /\ LastAsk(c) # None => LastAsk(c)' # None
  <2>1. c \in AllCards
    BY DEF TypeOK
  <2> QED
    BY <2>1
<1>2. Costed(g) => Costed(g)'
  BY <1>1 DEF Costed
<1>3. ASSUME NEW S PROVE PricedBut(g, S) => PricedBut(g, S)'
  BY <1>1 DEF PricedBut
<1> QED
  BY <1>2, <1>3

LEMMA StoreKept ==
    ASSUME TypeOK, UNCHANGED store
    PROVE  \A g \in Games : /\ Costed(g) => Costed(g)'
                            /\ \A S : PricedBut(g, S) => PricedBut(g, S)'
<1>1. \A c \in AllCards : /\ Unit(c) # None => (Unit(c) # None)'
                          /\ LastAsk(c) # None => (LastAsk(c) # None)'
  BY DEF store, Unit, LastAsk
<1> QED
  BY <1>1, ViewsKept DEF store

\* The end of a pass.
LEMMA EndInv ==
    ASSUME Inv, End, UNCHANGED store, faults' \in 0..MaxFaults
    PROVE  Inv'
<1>1. TypeOK'
  BY CostAssumption DEF Inv, TypeOK, End, store, NoQuotes, Cents
<1>2. AtGame' /\ SoundPrices'
  BY DEF Inv, End, AtGame, SoundPrices, Sound, store
<1>3. Delivery'
  BY DEF Inv, End, Delivery, NoQuotes
<1> QED
  BY <1>1, <1>2, <1>3 DEF Inv

\* Moving on to the next game.
LEMMA TailTyped ==
    ASSUME TypeOK, targets # <<>>
    PROVE  /\ Tail(targets) \in Seq(Games) /\ Len(Tail(targets)) <= MaxGames
           /\ Head(targets) \in Games /\ 1 \in DOMAIN targets /\ Head(targets) = targets[1]
           /\ \A i \in DOMAIN Tail(targets) :
                  i + 1 \in DOMAIN targets /\ Tail(targets)[i] = targets[i + 1]
<1>1. targets \in Seq(Games) /\ Len(targets) <= MaxGames
  BY DEF TypeOK
<1> QED
  BY <1>1, CostAssumption

LEMMA TargetsKept ==
    ASSUME Inv, UNCHANGED store, kind = "booster",
           targets' = targets \/ (targets # <<>> /\ targets' = Tail(targets))
    PROVE  \A i \in DOMAIN targets' : Costed(targets[i])'
<1> SUFFICES ASSUME NEW i \in DOMAIN targets' PROVE Costed(targets[i])'
  OBVIOUS
<1>1. PICK j \in DOMAIN targets : targets'[i] = targets[j]
  BY TailTyped DEF Inv
<1>2. Costed(targets[j])
  BY DEF Inv, Delivery
<1> QED
  BY <1>1, <1>2 DEF Costed, LastAsk, store

LEMMA SkipGameInv == ASSUME Inv, SkipGame PROVE Inv'
<1> USE DEF Inv
<1>1. targets # <<>> /\ kind \in {"plan", "auto"} /\ pc = "game"
  BY DEF SkipGame, Discovers
<1>2. faults' \in 0..MaxFaults
  BY PassAssumption DEF SkipGame, Fault, TypeOK
<1>3. TypeOK'
  BY <1>1, <1>2, TailTyped DEF SkipGame, NextGame, TypeOK, store
<1>4. AtGame' /\ SoundPrices'
  BY <1>1 DEF SkipGame, NextGame, AtGame, SoundPrices, Sound, store
<1>5. \A g \in Games : PricedBut(g, {}) => PricedBut(g, {})'
  BY StoreKept DEF SkipGame
<1>6. \A g \in Games : Costed(g) => Costed(g)'
  BY StoreKept DEF SkipGame
<1>7. Delivery'
  BY <1>1, <1>5, <1>6 DEF SkipGame, NextGame, Delivery, TypeOK
<1> QED
  BY <1>3, <1>4, <1>7

LEMMA NeedVolumeInv == ASSUME Inv, NeedVolume PROVE Inv'
<1> USE DEF Inv
<1>1. targets # <<>> /\ kind = "booster" /\ pc = "game" /\ UNCHANGED store
  BY DEF NeedVolume
<1>2. items' \subseteq AllCards
  BY <1>1, TailTyped DEF NeedVolume, TypeOK
<1>3. TypeOK'
  BY <1>1, <1>2 DEF NeedVolume, TypeOK, store
<1>4. AtGame' /\ SoundPrices'
  BY <1>1 DEF NeedVolume, AtGame, SoundPrices, Sound, store
<1>5. \A g \in Games : PricedBut(g, {}) => PricedBut(g, {})'
  BY <1>1, StoreKept
<1>6. \A g \in Games : Costed(g) => Costed(g)'
  BY <1>1, StoreKept
<1>7. Delivery'
  BY <1>1, <1>5, <1>6 DEF NeedVolume, Delivery, TypeOK
<1> QED
  BY <1>3, <1>4, <1>7

LEMMA GameDoneInv == ASSUME Inv, GameDone PROVE Inv'
<1> USE DEF Inv
<1>1. pc = "items" /\ items = {} /\ UNCHANGED <<store, items, quotes, faults>> /\ clean' = TRUE
  BY DEF GameDone
<1>2. kind # "enrich" => targets # <<>>
  BY <1>1 DEF AtGame
<1>3. kind \in {"plan", "auto", "booster", "enrich"}
  BY <1>1 DEF TypeOK
<1>4. \/ /\ kind' = kind /\ kind \in {"plan", "auto"} /\ pc' = "game" /\ targets' = Tail(targets)
         /\ done' = IF clean THEN done \cup {Head(targets)} ELSE done
      \/ kind' = kind /\ kind = "booster" /\ pc' = "quote" /\ targets' = targets /\ done' = done
      \/ kind = "enrich" /\ kind' = "none" /\ pc' = "idle" /\ targets' = targets /\ done' = done
  BY DEF GameDone, NextGame
<1>5. TypeOK'
  BY <1>1, <1>2, <1>4, TailTyped DEF TypeOK, store
<1>6. AtGame' /\ SoundPrices'
  BY <1>1, <1>2, <1>4 DEF AtGame, SoundPrices, Sound, store
<1>7. \A g \in Games : PricedBut(g, {}) => PricedBut(g, {})'
  BY <1>1, StoreKept
<1>8. \A g \in Games : Costed(g) => Costed(g)'
  BY <1>1, StoreKept
<1>9. clean /\ kind \in {"plan", "auto"} => PricedBut(Head(targets), {})
  BY <1>1 DEF Delivery
<1>10. \A g \in done' : PricedBut(g, {})'
  BY <1>2, <1>4, <1>7, <1>9, TailTyped DEF Delivery, TypeOK
<1>11. kind' = "booster" => \A i \in DOMAIN targets' : Costed(targets[i])'
  BY <1>1, <1>2, <1>4, TargetsKept
<1>12. \A g \in Games : quotes'[g] # None => Costed(g)' /\ kind' = "booster"
  BY <1>1, <1>4, <1>8 DEF Delivery
<1>13. Delivery'
  BY <1>4, <1>10, <1>11, <1>12 DEF Delivery
<1> QED
  BY <1>5, <1>6, <1>13

LEMMA QuoteInv == ASSUME Inv, Quote PROVE Inv'
<1> USE DEF Inv
<1>1. pc = "quote" /\ kind = "booster" /\ targets # <<>> /\ UNCHANGED store
  BY DEF Quote, AtGame, Delivery
<1>2. Costed(Head(targets)) /\ Head(targets) \in Games
  BY <1>1, TailTyped DEF Delivery
<1>3. PICK price \in PackPrices \cup {None} :
         quotes' = [quotes EXCEPT ![Head(targets)] = price]
  BY DEF Quote
<1>4. quotes' \in [Games -> Cents]
  BY <1>3, PassAssumption DEF TypeOK, Cents
<1>5. TypeOK'
  BY <1>1, <1>4, TailTyped DEF Quote, NextGame, TypeOK, store
<1>6. AtGame' /\ SoundPrices'
  BY <1>1 DEF Quote, NextGame, AtGame, SoundPrices, Sound, store
<1>7. \A g \in Games : PricedBut(g, {}) => PricedBut(g, {})'
  BY <1>1, StoreKept
<1>8. \A g \in Games : Costed(g) => Costed(g)'
  BY <1>1, StoreKept
<1>9. kind' = "booster" /\ pc' = "game" /\ done' = done /\ targets' = Tail(targets)
  BY <1>1 DEF Quote, NextGame
<1>10. \A g \in done' : PricedBut(g, {})'
  BY <1>7, <1>9 DEF Delivery, TypeOK
<1>11. \A i \in DOMAIN targets' : Costed(targets[i])'
  BY <1>1, <1>9, TargetsKept
<1>12. \A g \in Games : quotes'[g] # None => Costed(g)'
  BY <1>2, <1>3, <1>8 DEF Delivery, TypeOK
<1>13. Delivery'
  BY <1>1, <1>9, <1>10, <1>11, <1>12 DEF Delivery
<1> QED
  BY <1>5, <1>6, <1>13

LEMMA DiscoverInv == ASSUME Inv, Discover PROVE Inv'
<1> USE DEF Inv
<1>1. targets # <<>> /\ kind \in {"plan", "auto"} /\ pc = "game" /\ pc' = "items"
  BY DEF Discover, Discovers
<1>2. UNCHANGED <<prices, kind, targets, quotes>>
  BY DEF Discover
<1> DEFINE g == Head(targets)
<1>3. g \in Games
  BY <1>1, TailTyped
<1>4. PICK list \in SUBSET RealCards[g], complete \in BOOLEAN :
         /\ cards' = [cards EXCEPT ![g] = list]
         /\ sizes' = [sizes EXCEPT ![g] = Reconciled(g, list, complete)]
         /\ IF list = RealCards[g] /\ complete THEN UNCHANGED faults ELSE Fault
         /\ unmarketable' = unmarketable \ RealCards[g]
         /\ clean' = (list = RealCards[g])
         /\ items' = list
  BY DEF Discover
<1>5. done' = done \ {g}
  BY DEF Discover
<1> HIDE DEF g
<1>6. IsFiniteSet(list) /\ Cardinality(list) \in Nat
  BY <1>3, CostAssumption, FS_Subset, FS_CardinalityType
<1>7. list \subseteq AllCards
  BY <1>3 DEF AllCards
<1>8. sizes' \in [Games -> Nat]
  BY <1>3, <1>4, <1>6 DEF TypeOK, Reconciled
<1>9. cards' \in [Games -> SUBSET AllCards] /\ \A h \in Games : cards'[h] \subseteq RealCards[h]
  BY <1>4, <1>7 DEF TypeOK
<1>10. faults' \in 0..MaxFaults
  BY <1>4, PassAssumption DEF Fault, TypeOK
<1>11. TypeOK'
  BY <1>1, <1>2, <1>4, <1>5, <1>7, <1>8, <1>9, <1>10 DEF TypeOK
<1>12. AtGame' /\ SoundPrices'
  BY <1>1, <1>2 DEF AtGame, SoundPrices, Sound
<1>13. clean' => PricedBut(Head(targets), items)'
  BY <1>2, <1>3, <1>4 DEF PricedBut, TypeOK, g
<1>14. \A h \in done' : PricedBut(h, {})'
  <2> SUFFICES ASSUME NEW h \in done' PROVE PricedBut(h, {})'
    OBVIOUS
  <2>1. PricedBut(h, {}) /\ cards'[h] = cards[h]
    BY <1>4, <1>5 DEF Delivery, TypeOK
  <2> QED
    BY <1>2, <1>4, <2>1 DEF PricedBut, Unit
<1>15. \A h \in Games : quotes'[h] = None
  BY <1>1, <1>2 DEF Delivery
<1>16. Delivery'
  BY <1>1, <1>2, <1>13, <1>14, <1>15 DEF Delivery
<1> QED
  BY <1>11, <1>12, <1>16

\* One card after the other: those that are left are fewer.
LEMMA ItemInv ==
    ASSUME Inv, pc = "items", UNCHANGED <<sizes, cards, unmarketable, kind, pc, targets, quotes, done>>,
           items' \subseteq items, clean' \in BOOLEAN, faults' \in 0..MaxFaults,
           prices' \in [AllCards -> Prices \cup {None}], SoundPrices',
           clean' => clean /\ \A c \in AllCards : c \in items \ items' => Unit(c)' # None,
           \A c \in AllCards : /\ Unit(c) # None => (Unit(c) # None)'
                               /\ LastAsk(c) # None => (LastAsk(c) # None)'
    PROVE  Inv'
<1> USE DEF Inv
<1>1. TypeOK'
  BY DEF TypeOK
<1>2. AtGame'
  BY DEF AtGame
<1>3. \A g \in Games : PricedBut(g, {}) => PricedBut(g, {})'
  BY ViewsKept
<1>4. \A g \in Games : Costed(g) => Costed(g)'
  BY ViewsKept
<1>5. kind \in {"plan", "auto"} /\ clean' => PricedBut(Head(targets), items)'
  <2> SUFFICES ASSUME kind \in {"plan", "auto"}, clean' PROVE PricedBut(Head(targets), items)'
    OBVIOUS
  <2> DEFINE g == Head(targets)
  <2>1. g \in Games /\ PricedBut(g, items)
    BY TailTyped DEF AtGame, Delivery
  <2>2. ASSUME NEW c \in cards[g] \ items' PROVE Unit(c)' # None
    <3>1. c \in AllCards
      BY <2>1 DEF TypeOK
    <3>2. CASE c \in items
      BY <3>1, <3>2, <2>2
    <3>3. CASE c \notin items
      <4>1. Unit(c) # None
        BY <2>1, <2>2, <3>3 DEF PricedBut
      <4> QED
        BY <3>1, <4>1
    <3> QED
      BY <3>2, <3>3
  <2> QED
    BY <2>1, <2>2 DEF PricedBut, Unit
<1>6. kind = "booster" => \A i \in DOMAIN targets' : Costed(targets[i])'
  <2> SUFFICES ASSUME kind = "booster", NEW i \in DOMAIN targets PROVE Costed(targets[i])'
    OBVIOUS
  <2>1. targets[i] \in Games /\ Costed(targets[i])
    BY DEF TypeOK, Delivery
  <2> HIDE DEF Inv
  <2> QED
    BY <1>4, <2>1 DEF Costed, LastAsk
<1>7. \A g \in done' : PricedBut(g, {})'
  BY <1>3 DEF Delivery, TypeOK
<1>8. \A g \in Games : quotes'[g] # None => Costed(g)' /\ kind' = "booster"
  BY <1>4 DEF Delivery
<1>9. Delivery'
  BY <1>5, <1>6, <1>7, <1>8 DEF Delivery
<1> QED
  BY <1>1, <1>2, <1>9

LEMMA ItemsInv == ASSUME Inv, SkipFresh \/ Price \/ Unpriced PROVE Inv'
<1> USE DEF Inv
<1>1. CASE Price
  <2>1. PICK q \in QuotesOf[Item] : prices' = [prices EXCEPT ![Item] = Observed(@, q)]
    BY <1>1 DEF Price
  <2> DEFINE i == Item
  <2>2. items' = items \ {i} /\ prices' = [prices EXCEPT ![i] = Observed(@, q)]
        /\ q \in QuotesOf[i]
    BY <1>1, <2>1 DEF Price, ItemDone
  <2> HIDE DEF i
  <2>3. /\ prices' \in [AllCards -> Prices \cup {None}] /\ SoundPrices'
        /\ \A c \in AllCards :
              /\ Unit(c) # None \/ c = i => (Unit(c) # None)'
              /\ LastAsk(c) # None => (LastAsk(c) # None)'
    BY <2>2, PriceKeeps
  <2>4. UNCHANGED <<sizes, cards, unmarketable, kind, pc, targets, quotes, clean, done, faults>>
        /\ pc = "items"
    BY <1>1 DEF Price
  <2>5. clean' \in BOOLEAN /\ faults' \in 0..MaxFaults
    BY <2>4 DEF TypeOK
  <2> QED
    BY <2>2, <2>3, <2>4, <2>5, ItemInv
<1>2. CASE SkipFresh
  <2> DEFINE i == Item
  <2>1. items' = items \ {i} /\ clean' = (clean /\ prices[i].home) /\ prices[i] # None
    BY <1>2 DEF SkipFresh, ItemDone, Fresh
  <2> HIDE DEF i
  <2>2. pc = "items" /\ UNCHANGED <<store, kind, pc, targets, quotes, done, faults>>
    BY <1>2 DEF SkipFresh
  <2>3. \A c \in AllCards : c = i /\ clean' => Unit(c)' # None
    BY <2>1, <2>2, UnitKnown DEF SoundPrices, Unit, store
  <2>4. SoundPrices' /\ prices' \in [AllCards -> Prices \cup {None}]
    BY <2>2 DEF SoundPrices, Sound, TypeOK, store
  <2>5. faults' \in 0..MaxFaults
    BY <2>2 DEF TypeOK
  <2>6. clean' => clean /\ \A c \in AllCards : c \in items \ items' => Unit(c)' # None
    BY <2>1, <2>3
  <2>7. \A c \in AllCards : /\ Unit(c) # None => (Unit(c) # None)'
                            /\ LastAsk(c) # None => (LastAsk(c) # None)'
    BY <2>2 DEF Unit, LastAsk, store
  <2>8. (clean /\ prices[i].home) \in BOOLEAN
    OBVIOUS
  <2>9. clean' \in BOOLEAN
    BY <2>1, <2>8
  <2> QED
    BY <2>1, <2>2, <2>4, <2>5, <2>6, <2>7, <2>9, ItemInv DEF store
<1>3. CASE Unpriced
  <2>1. /\ pc = "items" /\ UNCHANGED <<store, kind, pc, targets, quotes, done>>
        /\ items' \subseteq items /\ clean' = FALSE
    BY <1>3 DEF Unpriced, ItemDone
  <2>2. SoundPrices' /\ prices' \in [AllCards -> Prices \cup {None}]
    BY <2>1 DEF SoundPrices, Sound, TypeOK, store
  <2>3. faults' \in 0..MaxFaults
    BY <1>3, PassAssumption DEF Unpriced, Fault, TypeOK
  <2>4. \A c \in AllCards : /\ Unit(c) # None => (Unit(c) # None)'
                            /\ LastAsk(c) # None => (LastAsk(c) # None)'
    BY <2>1 DEF Unit, LastAsk, store
  <2> QED
    BY <2>1, <2>2, <2>3, <2>4, ItemInv DEF store
<1> QED
  BY <1>1, <1>2, <1>3

LEMMA ExpireInv == ASSUME Inv, Expire PROVE Inv'
<1> USE DEF Inv
<1>1. UNCHANGED <<sizes, cards, unmarketable, kind, pc, targets, items, quotes, clean, done,
                  faults>>
  BY DEF Expire
<1>2. /\ prices' \in [AllCards -> Prices \cup {None}] /\ SoundPrices'
      /\ \A c \in AllCards : /\ Unit(c) # None => (Unit(c) # None)'
                             /\ LastAsk(c) # None => (LastAsk(c) # None)'
  BY ExpireKeeps
<1>3. CASE pc = "items"
  BY <1>1, <1>2, <1>3, ItemInv DEF TypeOK
<1>4. CASE pc # "items"
  <2>1. TypeOK' /\ AtGame'
    BY <1>1, <1>2 DEF TypeOK, AtGame
  <2>2. \A g \in Games : PricedBut(g, {}) => PricedBut(g, {})'
    BY <1>1, <1>2, ViewsKept
  <2>3. \A g \in Games : Costed(g) => Costed(g)'
    BY <1>1, <1>2, ViewsKept
  <2>4. \A g \in done' : PricedBut(g, {})'
    BY <1>1, <2>2 DEF Delivery, TypeOK
  <2>5. kind = "booster" => \A i \in DOMAIN targets' : Costed(targets[i])'
    <3> SUFFICES ASSUME kind = "booster", NEW i \in DOMAIN targets PROVE Costed(targets[i])'
      BY <1>1
    <3>1. targets[i] \in Games /\ Costed(targets[i])
      BY DEF TypeOK, Delivery
    <3> QED
      BY <1>1, <2>3, <3>1 DEF Costed, LastAsk
  <2>6. Delivery'
    BY <1>1, <1>4, <2>3, <2>4, <2>5 DEF Delivery
  <2> QED
    BY <1>2, <2>1, <2>6
<1> QED
  BY <1>3, <1>4

\* Nothing is in hand when the inventory is imported.
LEMMA ImportCardInv == ASSUME Inv, ImportCard PROVE Inv'
<1> USE DEF Inv
<1>1. /\ pc = "idle" /\ kind = "none" /\ pc' = pc /\ kind' = kind
      /\ UNCHANGED <<sizes, prices, targets, items, quotes, clean, done, faults>>
  BY DEF ImportCard, TypeOK
<1>2. PICK g \in Games : \E c \in RealCards[g] :
         /\ cards' = [cards EXCEPT ![g] = @ \cup {c}]
         /\ unmarketable' = unmarketable \ {c} \/ unmarketable' = unmarketable \cup {c}
  BY DEF ImportCard
<1>3. PICK c \in RealCards[g] :
         /\ cards' = [cards EXCEPT ![g] = @ \cup {c}]
         /\ unmarketable' = unmarketable \ {c} \/ unmarketable' = unmarketable \cup {c}
  BY <1>2
<1>4. c \in AllCards
  BY DEF AllCards
<1>5. /\ cards' \in [Games -> SUBSET AllCards] /\ unmarketable' \subseteq AllCards
      /\ \A h \in Games : cards'[h] \subseteq RealCards[h]
  BY <1>3, <1>4 DEF TypeOK
<1>6. TypeOK'
  BY <1>1, <1>5 DEF TypeOK
<1>7. AtGame' /\ SoundPrices'
  BY <1>1 DEF AtGame, SoundPrices, Sound
<1>8. Delivery'
  BY <1>1 DEF Delivery
<1> QED
  BY <1>6, <1>7, <1>8

LEMMA NextInv == ASSUME Inv, [Next]_vars PROVE Inv'
<1>1. CASE StartPlan \/ StartAuto \/ StartBooster \/ StartEnrich
  BY <1>1, StartInv
<1>2. CASE Discover \/ SkipGame \/ NeedVolume
  BY <1>2, DiscoverInv, SkipGameInv, NeedVolumeInv
<1>3. CASE SkipFresh \/ Price \/ Unpriced
  BY <1>3, ItemsInv
<1>4. CASE GameDone \/ Quote
  BY <1>4, GameDoneInv, QuoteInv
<1>5. CASE Finish
  BY <1>5, EndInv DEF Finish, Inv, TypeOK
<1>6. CASE Stop
  <2>1. faults' \in 0..MaxFaults
    BY <1>6, PassAssumption DEF Stop, Fault, Inv, TypeOK
  <2> QED
    BY <1>6, <2>1, EndInv DEF Stop
<1>7. CASE Expire
  BY <1>7, ExpireInv
<1>8. CASE ImportCard
  BY <1>8, ImportCardInv
<1>9. CASE UNCHANGED vars
  <2>1. Inv' <=> Inv
    BY <1>9 DEF vars, store, Inv, TypeOK, AtGame, SoundPrices, Sound, Delivery, PricedBut,
                Costed, Unit, LastAsk
  <2> QED
    BY <2>1
<1> QED
  BY <1>1, <1>2, <1>3, <1>4, <1>5, <1>6, <1>7, <1>8, <1>9 DEF Next, Steps

LEMMA SpecInv == Spec => []Inv
BY InitInv, NextInv, PTL DEF Spec

-----------------------------------------------------------------------------
(* What the invariant says of the views.                                   *)

LEMMA CardsFinite ==
    ASSUME TypeOK, NEW g \in Games
    PROVE  /\ IsFiniteSet(cards[g]) /\ Cardinality(cards[g]) \in Nat
           /\ IsFiniteSet(RealCards[g]) /\ Cardinality(RealCards[g]) \in Nat
           /\ Cardinality(cards[g]) >= Cardinality(RealCards[g]) => cards[g] = RealCards[g]
<1>1. cards[g] \subseteq RealCards[g] /\ IsFiniteSet(RealCards[g])
  BY CostAssumption DEF TypeOK
<1> QED
  BY <1>1, FS_Subset, FS_CardinalityType

\* A known ask is the unit price, and everything about it is a number.
LEMMA AskIsUnit ==
    ASSUME TypeOK, NEW c \in AllCards, Ask(c) # None
    PROVE  /\ Unit(c) = Ask(c) /\ Ask(c) \in Nat
           /\ prices[c] # None /\ prices[c].ask = Ask(c) /\ prices[c].median \in Cents
<1>1. prices[c] # None /\ prices[c] \in Prices
  BY DEF Ask, TypeOK
<1>2. prices[c].ask \in Cents /\ prices[c].median \in Cents
  BY <1>1 DEF Prices
<1> QED
  BY <1>1, <1>2 DEF Ask, Unit, Cents

LEMMA CraftsTyped ==
    ASSUME NEW g \in Games
    PROVE  Crafts(g) \in Nat /\ \A c \in AllCards : Missing(g, c) \in Nat
<1>1. Crafts(g) \in Nat
  BY CostAssumption DEF Crafts, Larger
<1>2. ASSUME NEW c \in AllCards PROVE Missing(g, c) \in Nat
  <2>1. Owned[c] \in Nat
    BY CostAssumption
  <2> QED
    BY <1>1, <2>1 DEF Missing, Larger
<1> QED
  BY <1>1, <1>2

\* Buying several copies never comes to less than the ask for each, and one
\* copy costs the ask.
LEMMA LineBounds ==
    ASSUME NEW base \in Nat, NEW median \in Cents, NEW qty \in Nat \ {0}
    PROVE  /\ LineCents(base, median, qty) >= qty * base
           /\ qty = 1 => LineCents(base, median, qty) = base
<1> DEFINE extra == IF median # None /\ median >= base
                    THEN IF median < 2 * base THEN median ELSE 2 * base
                    ELSE -((-115 * base) \div 100)
           more  == Larger(extra, base)
<1>1. extra \in Int
  <2>1. -((-115 * base) \div 100) \in Int
    OBVIOUS
  <2>2. median # None => median \in Int
    BY DEF Cents
  <2> QED
    BY <2>1, <2>2
<1>2. more \in Int /\ more >= base
  BY <1>1 DEF Larger
<1>3. LineCents(base, median, qty) = base + (qty - 1) * more
  BY DEF LineCents
<1> HIDE DEF more, extra
<1>4. (qty - 1) * (more - base) >= 0
  <2>1. qty - 1 \in Nat /\ more - base \in Nat
    BY <1>2
  <2> HIDE DEF more
  <2> QED
    BY <2>1
<1>5. (qty - 1) * (more - base) = (qty - 1) * more - (qty - 1) * base
  BY <1>2
<1>6. (qty - 1) * base = qty * base - base
  OBVIOUS
<1>7. (qty - 1) * more \in Int /\ (qty - 1) * base \in Int /\ qty * base \in Int
  BY <1>2
<1>8. LineCents(base, median, qty) >= qty * base
  BY <1>3, <1>4, <1>5, <1>6, <1>7
<1>9. qty = 1 => LineCents(base, median, qty) = base
  BY <1>2, <1>3
<1> QED
  BY <1>8, <1>9

LEMMA InvUnderpriced == Inv => NeverUnderpriced
<1> SUFFICES ASSUME TypeOK, NEW g \in Games, sizes[g] >= Cardinality(RealCards[g])
             PROVE  /\ Ranked(g) => cards[g] = RealCards[g]
                    /\ Complete(g) /\ (\A c \in Needed(g) : Ask(c) # None) =>
                          /\ cards[g] = RealCards[g]
                          /\ \A c \in Needed(g) : Line(g, c) >= Missing(g, c) * Ask(c)
  BY DEF Inv, NeverUnderpriced
<1>1. sizes[g] \in Nat
  BY DEF TypeOK
<1>2. Ranked(g) => cards[g] = RealCards[g]
  BY <1>1, CardsFinite DEF Ranked, KnownSet
<1>3. Complete(g) => cards[g] = RealCards[g]
  BY <1>1, CardsFinite DEF Complete
<1>4. ASSUME NEW c \in Needed(g), Ask(c) # None
      PROVE  Line(g, c) >= Missing(g, c) * Ask(c)
  <2>1. c \in AllCards /\ Missing(g, c) \in Nat \ {0}
    BY CraftsTyped DEF Needed, TypeOK
  <2>2. Line(g, c) = LineCents(Ask(c), prices[c].median, Missing(g, c))
    BY <1>4, <2>1, AskIsUnit DEF Line
  <2> QED
    BY <1>4, <2>1, <2>2, AskIsUnit, LineBounds
<1> QED
  BY <1>2, <1>3, <1>4

LEMMA InvViews == Inv => ViewsAgree
<1> SUFFICES ASSUME TypeOK, NEW g \in Games, Ranked(g)
             PROVE  /\ Scanned(g) /\ ScanCost(g) = SetCost(g)
                    /\ Cardinality(cards[g]) = sizes[g] /\ Crafts(g) > 0 =>
                          (Complete(g) <=> Needed(g) \cap unmarketable = {})
                    /\ Complete(g) /\ Crafts(g) = 1 /\ (\A c \in cards[g] : Owned[c] = 0)
                          => KnownCost(g) = SetCost(g)
                    /\ g \notin Candidates
  BY DEF Inv, ViewsAgree
<1>1. ASSUME NEW c \in cards[g]
      PROVE  c \in AllCards /\ Ask(c) # None /\ Unit(c) = Ask(c) /\ Unit(c) # None
  <2>1. c \in AllCards /\ Ask(c) # None
    BY DEF TypeOK, Ranked
  <2> QED
    BY <2>1, AskIsUnit
<1>2. Scanned(g)
  BY <1>1 DEF Scanned, Ranked
<1>3. ScanCost(g) = SetCost(g)
  <2>1. [c \in cards[g] |-> Unit(c)] = [c \in cards[g] |-> Ask(c)]
    BY <1>1
  <2> QED
    BY <2>1 DEF ScanCost, SetCost, Sum
<1>4. Cardinality(cards[g]) = sizes[g] /\ Crafts(g) > 0 =>
         (Complete(g) <=> Needed(g) \cap unmarketable = {})
  <2>1. Costable(g) = Needed(g) \ unmarketable
    BY <1>1 DEF Costable, Needed
  <2> QED
    BY <2>1 DEF Complete
<1>5. ASSUME Complete(g), Crafts(g) = 1, \A c \in cards[g] : Owned[c] = 0
      PROVE  KnownCost(g) = SetCost(g)
  <2>1. ASSUME NEW c \in cards[g] PROVE Missing(g, c) = 1 /\ Line(g, c) = Ask(c)
    <3>1. Missing(g, c) = 1
      BY <1>5 DEF Missing, Larger
    <3>2. Line(g, c) = LineCents(Ask(c), prices[c].median, 1)
      BY <1>1, <3>1, AskIsUnit DEF Line
    <3> QED
      BY <1>1, <3>1, <3>2, AskIsUnit, LineBounds
  <2>2. Costable(g) = cards[g]
    BY <1>5, <2>1 DEF Complete, Needed
  <2>3. [c \in cards[g] |-> Line(g, c)] = [c \in cards[g] |-> Ask(c)]
    BY <2>1
  <2> QED
    BY <2>2, <2>3 DEF KnownCost, SetCost, Sum
<1>6. g \notin Candidates
  <2>1. PricedCards(g) = cards[g]
    BY <1>1 DEF PricedCards
  <2> QED
    BY <2>1, CardsFinite DEF Candidates, Priced, Ranked, KnownSet, TypeOK
<1> QED
  BY <1>2, <1>3, <1>4, <1>5, <1>6

LEMMA InvDelivers == Inv => PassDelivers
<1> SUFFICES ASSUME Inv PROVE FetchedIsCosted /\ QuotedIsCompared
  BY DEF PassDelivers
<1>1. QuotedIsCompared
  BY DEF Inv, Delivery, QuotedIsCompared
<1>2. ASSUME NEW g \in done
      PROVE  /\ Cardinality(RealCards[g]) >= sizes[g] => g \notin Candidates
             /\ Cardinality(RealCards[g]) = sizes[g] /\ Crafts(g) > 0 => Complete(g)
  <2>1. /\ g \in Games /\ cards[g] = RealCards[g] /\ unmarketable \cap cards[g] = {}
        /\ \A c \in cards[g] : Unit(c) # None
    BY DEF Inv, TypeOK, Delivery, PricedBut
  <2>2. PricedCards(g) = RealCards[g]
    BY <2>1 DEF PricedCards
  <2>3. sizes[g] \in Nat /\ Cardinality(RealCards[g]) \in Nat
    BY <2>1, CardsFinite DEF Inv, TypeOK
  <2>4. Costable(g) = Needed(g)
    BY <2>1 DEF Costable, Needed
  <2> QED
    BY <2>1, <2>2, <2>3, <2>4 DEF Candidates, Priced, Complete
<1> QED
  BY <1>1, <1>2 DEF FetchedIsCosted

LEMMA InvPacks == Inv => PacksPayOff
<1> SUFFICES ASSUME Inv, NEW g \in Games, Arb(g)
             PROVE  /\ 3 * Sum(cards[g], LAMBDA c : NetOf(LastAsk(c))) >
                           Cardinality(cards[g]) * quotes[g]
                    /\ MinListings <= MinDemand => Liquid(g)
  BY DEF PacksPayOff
<1> DEFINE S == cards[g]
           n == Cardinality(S)
           F == [c \in S |-> SellerNet(LastAsk(c))]
           G == [c \in S |-> NetOf(LastAsk(c))]
<1>1. /\ Costed(g) /\ InDemand(g) /\ Contents(g) > quotes[g] /\ quotes[g] \in Nat
      /\ S # {} /\ S \subseteq AllCards
      /\ prices \in [AllCards -> Prices \cup {None}]
  BY DEF Arb, Inv, TypeOK, Costed, Cents
<1>2. IsFiniteSet(S) /\ n \in Nat \ {0}
  <2>1. IsFiniteSet(S)
    BY CardsFinite DEF Inv
  <2> HIDE DEF S
  <2> QED
    BY <1>1, <2>1, FS_CardinalityType, FS_EmptySet
<1>3. ASSUME NEW c \in S
      PROVE  SellerNet(LastAsk(c)) = NetOf(LastAsk(c)) /\ SellerNet(LastAsk(c)) \in Nat
  <2>1. LastAsk(c) # None /\ c \in AllCards
    BY <1>1 DEF Costed
  <2>2. prices[c] # None /\ prices[c] \in Prices
    BY <1>1, <2>1 DEF LastAsk
  <2>3. LastAsk(c) \in Nat
    BY <2>1, <2>2 DEF LastAsk, Prices, Cents
  <2> QED
    BY <2>3, NetIsExact
<1>4. F = G /\ F \in [S -> Nat]
  <2> HIDE DEF S
  <2> QED
    BY <1>3
<1>5. SumFunction(F) \in Nat
  <2> HIDE DEF S, F
  <2> QED
    BY <1>2, <1>4, SumIsNat
<1>6. Sum(cards[g], LAMBDA c : NetOf(LastAsk(c))) = SumFunction(G)
  BY DEF Sum
<1>7. Contents(g) = HalfUp(3 * SumFunction(F), n)
  BY DEF Sum, Contents
<1>8. 3 * SumFunction(F) > n * quotes[g]
  <2> DEFINE p == 3 * SumFunction(F)
  <2>1. p \in Nat /\ HalfUp(p, n) > quotes[g]
    BY <1>1, <1>5, <1>7
  <2> HIDE DEF p, n
  <2>2. p > n * quotes[g]
    BY <1>1, <1>2, <2>1, HalfUpExceeds
  <2> QED
    BY <2>2 DEF p
<1>9. ASSUME MinListings <= MinDemand PROVE Liquid(g)
  <2>1. MinListings \in Nat /\ MinDemand \in Nat /\ MinListings <= MinDemand
    BY <1>9, CostAssumption
  <2>2. ASSUME NEW c \in S PROVE Enough(prices[c].volume, MinListings)
    <3>1. prices[c] # None /\ prices[c] \in Prices
      BY <1>1 DEF Costed, LastAsk
    <3>2. Enough(prices[c].volume, MinDemand) /\ prices[c].volume \in Nat \cup {None}
      BY <1>1, <3>1 DEF InDemand, Prices, Cents
    <3> QED
      BY <2>1, <3>2 DEF Enough
  <2> QED
    BY <2>2 DEF Liquid
<1> HIDE DEF F, G, n, S
<1> QED
  BY <1>4, <1>6, <1>8, <1>9 DEF n, S

-----------------------------------------------------------------------------
(* The theorems.                                                           *)

\* The passes and the store stay well typed, and a pass goes through no more
\* games than it may.
THEOREM PassTyping == Spec => []TypeOK
<1>1. Inv => TypeOK
  BY DEF Inv
<1> QED
  BY <1>1, SpecInv, PTL

\* A ranked or planned badge is costed from its whole set, at no less than the
\* asks, for every market, catalog and history of answers and failures
\* (cheapest_badges.py:72-77, cost.py:45-57).
THEOREM NoUnderpricing == Spec => []NeverUnderpriced
BY InvUnderpriced, SpecInv, PTL

\* About every ranked badge the ranking, the set scan and the choice of candidates
\* agree, and on its cost to the cent (market_scan.py:173, candidate_selection.py:60).
\* The planner costs it as well unless one of the cards still to be bought is
\* marked unmarketable, and then it never does (cost.py:157-160).
THEOREM OneStore == Spec => []ViewsAgree
BY InvViews, SpecInv, PTL

\* Games that a pass completed can be costed, and packs that it quoted can be
\* compared, whatever failed in between (cli.py:1086-1128, cli.py:1268-1307).
THEOREM Delivered == Spec => []PassDelivers
BY InvDelivers, SpecInv, PTL

\* A pack is flagged only when its cards bring more than it costs, for every
\* quote, set and sales count, whatever a pass was refused or killed in: the
\* rounding of the mean and of the fee never makes a loss a gain, and what is
\* flagged is liquid by the ranking's bar as well, unless the user has set a lower
\* one for the scan (booster_arbitrage.py:46, 88-92).
THEOREM FlaggedPacksPay == Spec => []PacksPayOff
  BY SpecInv, InvPacks, PTL

\* Both together: no badge is recommended below what it costs and no pack above
\* what it brings, whatever the commands fetched, missed or found in the store.
THEOREM NoOverpromise == Spec => []NothingOverpromised
  BY NoUnderpricing, FlaggedPacksPay, PTL DEF NothingOverpromised

-----------------------------------------------------------------------------
(* The promise of BadgeCatalog.                                            *)

\* An instance has a Cardinality of its own; it is the same.
LEMMA SameCount == \A S : Catalog!Cardinality(S) = Cardinality(S)
  BY DEF Catalog!Cardinality, Cardinality

\* A correction is measured against the size that is stored, so it can only be
\* seen to exceed the catalog's if that one never falls below it.
Above == \A g \in Games : SeedSizes[g] <= sizes[g]

\* A discovery publishes a list, with a correction when it raises the size.
LEMMA DiscoverPublishes ==
    ASSUME Inv, Above, Discover
    PROVE  Above' /\ Catalog!Next
<1> DEFINE g == Head(targets)
<1>1. g \in Games
  BY TailTyped DEF Inv, Discover, Discovers
<1>2. PICK list \in SUBSET RealCards[g], complete \in BOOLEAN :
         /\ cards' = [cards EXCEPT ![g] = list]
         /\ sizes' = [sizes EXCEPT ![g] = Reconciled(g, list, complete)]
  BY DEF Discover
<1> HIDE DEF g
<1>3. sizes \in [Games -> Nat] /\ SeedSizes \in [Games -> Nat]
  BY PassAssumption DEF Inv, TypeOK
<1>4. /\ IsFiniteSet(RealCards[g]) /\ Cardinality(list) \in Nat
      /\ Cardinality(RealCards[g]) \in Nat /\ Cardinality(list) <= Cardinality(RealCards[g])
  BY <1>1, CostAssumption, FS_Subset, FS_CardinalityType
<1>5. CASE Reconciled(g, list, complete) = sizes[g]
  <2>1. sizes' = sizes
    BY <1>2, <1>3, <1>5
  <2>2. Catalog!Publish(g)
    BY <1>2, <2>1 DEF Catalog!Publish
  <2> QED
    BY <1>1, <2>1, <2>2 DEF Above, Catalog!Next
<1>6. CASE Reconciled(g, list, complete) # sizes[g]
  <2>1. Reconciled(g, list, complete) = Cardinality(list) /\ Cardinality(list) > sizes[g]
    BY <1>1, <1>3, <1>4, <1>6 DEF Reconciled
  <2>2. SeedSizes[g] <= sizes[g] /\ sizes[g] \in Nat /\ SeedSizes[g] \in Nat
    BY <1>1, <1>3 DEF Above
  <2>3. Cardinality(list) \in (SeedSizes[g] + 1)..Cardinality(RealCards[g])
    <3> DEFINE low == SeedSizes[g]  old == sizes[g]
               new == Cardinality(list)  high == Cardinality(RealCards[g])
    <3>1. low \in Nat /\ old \in Nat /\ new \in Nat /\ high \in Nat
      BY <1>4, <2>2
    <3>2. low <= old /\ new > old /\ new <= high
      BY <1>4, <2>1, <2>2
    <3> HIDE DEF low, old, new, high
    <3>3. new \in (low + 1)..high
      BY <3>1, <3>2
    <3> QED
      BY <3>3 DEF low, new, high
  <2>4. Catalog!Correct(g)
    BY <1>2, <2>1, <2>3, SameCount DEF Catalog!Correct, Catalog!Corrections
  <2>5. Catalog!Publish(g)
    BY <1>2, <2>4 DEF Catalog!Publish
  <2>6. Above'
    BY <1>2, <1>3, <1>4, <2>1, <2>2 DEF Above
  <2> QED
    BY <1>1, <2>5, <2>6 DEF Catalog!Next
<1> QED
  BY <1>5, <1>6

\* An import adds a card to a list, and leaves the sizes.
LEMMA ImportPublishes ==
    ASSUME Inv, ImportCard
    PROVE  sizes' = sizes /\ Catalog!Next
<1>1. PICK g \in Games :
         \E c \in RealCards[g] : cards' = [cards EXCEPT ![g] = cards[g] \cup {c}]
  BY DEF ImportCard
<1>2. PICK c \in RealCards[g] : cards' = [cards EXCEPT ![g] = cards[g] \cup {c}]
  BY <1>1
<1>3. cards[g] \cup {c} \in SUBSET RealCards[g] /\ sizes' = sizes
  BY DEF Inv, TypeOK, ImportCard
<1>4. Catalog!Publish(g)
  BY <1>2, <1>3 DEF Catalog!Publish
<1> QED
  BY <1>3, <1>4 DEF Catalog!Next

\* No other step writes a size or a list.
LEMMA OthersKeepSets ==
    ASSUME [Next]_vars, ~Discover, ~ImportCard
    PROVE  sizes' = sizes /\ cards' = cards
  BY DEF Next, Steps, vars, store, StartPlan, StartAuto, StartBooster, StartEnrich, Begin,
         SkipGame, NeedVolume, SkipFresh, Price, Unpriced, GameDone, Quote, Finish, Stop, Expire

\* For any store to start from, catalog and sequence of passes, failures and
\* kills, every step of a pass is one that BadgeCatalog allows (import_cards,
\* reconcile_set_size): the one-step discovery of the passes keeps the promise
\* that CardDiscoveryProofs proves of the discovery in full.
THEOREM PassesImplementCatalog == Spec => ImplementsCatalog
<1>1. Init => Catalog!Init /\ Above
  BY PassAssumption DEF Init, Catalog!Init, Above
<1>2. Inv /\ Above /\ [Next]_vars => Above' /\ [Catalog!Next]_Catalog!vars
  BY DiscoverPublishes, ImportPublishes, OthersKeepSets DEF Above, Catalog!vars
<1> QED
  BY <1>1, <1>2, SpecInv, PTL DEF Spec, ImplementsCatalog, Catalog!Spec

=============================================================================
