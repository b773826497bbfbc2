---------------------------- MODULE PricingPass ----------------------------
(***************************************************************************)
(* The commands that choose games from what the store says, go out to      *)
(* complete them one by one, and read the store again: plan-cheapest,      *)
(* optimize --auto-fetch, cheapest-badges --enrich-top and                 *)
(* booster-arbitrage (cli.py).  They compose card discovery, the price     *)
(* refresh and the reading of BadgeCosts.                                  *)
(*                                                                         *)
(* The commands are typed one after the other, and the inventory may be    *)
(* imported between them.  A discovery may end early, a game or a price    *)
(* may be refused, a rate limit or a kill ends a pass where it stands.     *)
(* What the Store has when the system starts came from sweeps and          *)
(* refreshes in the user's or another currency.                            *)
(***************************************************************************)
EXTENDS BadgeCosts

CONSTANTS
    SeedSizes, SeedCards, SeedPrices, \* the store when the system starts
    DeadGames,  \* games the market search does not answer for
    Restricted, \* owned cards with a copy that may not be marketable
    MaxSetSize, \* MAX_SET_SIZE
    QuotesOf,   \* what priceoverview may say of a card
    PackPrices, \* what a booster may be asked for
    EnrichTop,  \* --enrich-top
    MaxFaults   \* bound: partial answers, failures, rate limits, kills

Quotes == [ask : Cents, median : Cents, volume : Cents]

ASSUME PassAssumption ==
    /\ SeedSizes \in [Games -> Nat] /\ SeedCards \in [Games -> SUBSET AllCards]
    /\ \A g \in Games : SeedCards[g] \subseteq RealCards[g]
    /\ SeedPrices \in [AllCards -> Prices \cup {None}]
    /\ \A c \in AllCards : SeedPrices[c] # None => Sound(SeedPrices[c])
    /\ DeadGames \subseteq Games /\ Restricted \subseteq AllCards /\ MaxSetSize \in Nat
    /\ QuotesOf \in [AllCards -> SUBSET Quotes]
    /\ \A c \in AllCards : \A q \in QuotesOf[c] : q.ask # None \/ q.median # None
    /\ None \notin Prices
    /\ PackPrices \subseteq Nat /\ EnrichTop \in Nat \ {0} /\ MaxFaults \in Nat

VARIABLES
    kind,    \* the command that runs, or "none"
    pc,
    targets, \* the games it has still to go through, the first one now
    items,   \* the cards of this game it has still to price
    quotes,  \* local `quotes` of booster-arbitrage
    clean,   \* history: nothing was missed in this game so far
    done,    \* history: the games of this pass that nothing was missed in
    faults

store == <<sizes, cards, unmarketable, prices>>
vars  == <<store, kind, pc, targets, items, quotes, clean, done, faults>>

TypeOK ==
    /\ sizes \in [Games -> Nat]
    /\ cards \in [Games -> SUBSET AllCards] /\ \A g \in Games : cards[g] \subseteq RealCards[g]
    /\ unmarketable \subseteq AllCards
    /\ prices \in [AllCards -> Prices \cup {None}]
    /\ kind \in {"none", "plan", "auto", "enrich", "booster"}
    /\ pc \in {"idle", "game", "items", "quote"} /\ (pc = "idle" <=> kind = "none")
    /\ targets \in Seq(Games) /\ Len(targets) <= MaxGames \* the requests are bounded
    /\ items \subseteq AllCards
    /\ quotes \in [Games -> Cents]
    /\ clean \in BOOLEAN /\ done \subseteq Games /\ faults \in 0..MaxFaults

NoQuotes == [g \in Games |-> None]

Init ==
    /\ sizes = SeedSizes /\ cards = SeedCards /\ prices = SeedPrices /\ unmarketable = {}
    /\ kind = "none" /\ pc = "idle" /\ targets = <<>> /\ items = {}
    /\ quotes = NoQuotes /\ clean = TRUE /\ done = {} /\ faults = 0

Fault == faults < MaxFaults /\ faults' = faults + 1

-----------------------------------------------------------------------------

Begin(command, place) ==
    /\ pc = "idle"
    /\ kind' = command /\ pc' = place
    /\ UNCHANGED <<store, quotes, clean, done, faults>>

StartPlan  == Begin("plan", "game") /\ targets' \in PlanTargets /\ targets' # <<>>
                /\ UNCHANGED items

StartAuto  == Begin("auto", "game") /\ targets' \in AutoTargets /\ targets' # <<>>
                /\ UNCHANGED items

StartBooster == Begin("booster", "game") /\ targets' \in Top(MaxGames)
                  /\ targets' # <<>> /\ UNCHANGED items

\* _enrich_candidates: the cards of the top badges at once.
StartEnrich ==
    /\ Begin("enrich", "items")
    /\ \E s \in Top(EnrichTop) : items' = UNION {cards[s[i]] : i \in DOMAIN s}
    /\ items' # {}
    /\ UNCHANGED targets

\* The pass is over, at its end or by a rate limit or a kill; its locals are
\* gone.  The store is read again.
End ==
    /\ kind' = "none" /\ pc' = "idle" /\ targets' = <<>> /\ items' = {}
    /\ quotes' = NoQuotes /\ clean' = TRUE /\ done' = {}

NextGame == pc' = "game" /\ targets' = Tail(targets)

Discovers == kind \in {"plan", "auto"} /\ pc = "game" /\ targets # <<>>

\* Mutant: the catalog's size is not kept as a floor.
CountedSize(g, list, complete) == IF complete THEN Cardinality(list) ELSE sizes[g]

\* reconcile_set_size: a full enumeration may raise the size, up to the ceiling.
Reconciled(g, list, complete) ==
    IF complete /\ Cardinality(list) \in (sizes[g] + 1)..MaxSetSize
    THEN Cardinality(list) ELSE sizes[g]

\* import_cards: the list is replaced by rows that are marketable, and a full
\* enumeration may raise the set size; the cards to price are read afterwards.
\* Less than the market has, or no proof of the end, is a fault.
Discover ==
    /\ Discovers
    /\ LET g == Head(targets)
       IN  /\ g \notin DeadGames /\ done' = done \ {g}
           /\ \E list \in SUBSET RealCards[g], complete \in BOOLEAN :
                 /\ cards' = [cards EXCEPT ![g] = list]
                 /\ sizes' = [sizes EXCEPT ![g] = Reconciled(g, list, complete)]
                 /\ unmarketable' = unmarketable \ RealCards[g]
                 /\ IF list = RealCards[g] /\ complete THEN UNCHANGED faults ELSE Fault
                 /\ clean' = (list = RealCards[g])
                 /\ items' = list
    /\ pc' = "items"
    /\ UNCHANGED <<prices, kind, targets, quotes>>

\* Mutant: a game that fails ends the pass.
AbortPass ==
    /\ Discovers
    /\ IF Head(targets) \in DeadGames THEN UNCHANGED faults ELSE Fault
    /\ End /\ UNCHANGED store

\* CardDiscoveryError or FetchError: the game is skipped.
SkipGame ==
    /\ Discovers
    /\ IF Head(targets) \in DeadGames THEN UNCHANGED faults ELSE Fault
    /\ NextGame
    /\ UNCHANGED <<store, kind, items, quotes, clean, done>>

\* booster-arbitrage: the cards that no sales count is known of.
NeedVolume ==
    /\ kind = "booster" /\ pc = "game" /\ targets # <<>>
    /\ items' = {c \in cards[Head(targets)] : prices[c] = None \/ prices[c].volume = None}
    /\ pc' = "items" /\ clean' = TRUE
    /\ UNCHANGED <<store, kind, targets, quotes, done, faults>>

-----------------------------------------------------------------------------
(* refresh_prices, item by item.                                           *)

Item == Min(items)
Fresh == prices[Item] # None /\ prices[Item].fresh
Forced == kind \in {"enrich", "booster"}

ItemDone == items' = items \ {Item}

\* skipped_cached += 1; a foreign price is no price to the reader.
SkipFresh ==
    /\ pc = "items" /\ items # {} /\ ~Forced /\ Fresh
    /\ ItemDone /\ clean' = (clean /\ prices[Item].home)
    /\ UNCHANGED <<store, kind, pc, targets, quotes, done, faults>>

Keep(new, old) == IF new # None THEN new ELSE old

\* add_price_snapshot: the newest observation, in the user's currency.
Observed(old, q) ==
    [ask |-> q.ask, median |-> q.median, home |-> TRUE, fresh |-> TRUE,
     lastAsk  |-> Keep(q.ask, IF old = None THEN None ELSE old.lastAsk),
     listings |-> IF old = None THEN None ELSE old.listings,
     volume   |-> Keep(q.volume, IF old = None THEN None ELSE old.volume)]

\* fetched += 1
Price ==
    /\ pc = "items" /\ items # {} /\ (Forced \/ ~Fresh)
    /\ \E q \in QuotesOf[Item] : prices' = [prices EXCEPT ![Item] = Observed(@, q)]
    /\ ItemDone
    /\ UNCHANGED <<sizes, cards, unmarketable, kind, pc, targets, quotes, clean, done, faults>>

\* failed += 1: no answer, or none with a price.
Unpriced ==
    /\ pc = "items" /\ items # {} /\ (Forced \/ ~Fresh)
    /\ Fault /\ ItemDone /\ clean' = FALSE
    /\ UNCHANGED <<store, kind, pc, targets, quotes, done>>

\* The refresh returns.
GameDone ==
    /\ pc = "items" /\ items = {}
    /\ \/ /\ kind \in {"plan", "auto"}
          /\ NextGame /\ done' = IF clean THEN done \cup {Head(targets)} ELSE done
          /\ UNCHANGED kind
       \/ kind = "booster" /\ pc' = "quote" /\ UNCHANGED <<kind, targets, done>>
       \/ kind = "enrich" /\ kind' = "none" /\ pc' = "idle" /\ UNCHANGED <<targets, done>>
    /\ clean' = TRUE
    /\ UNCHANGED <<store, items, quotes, faults>>

\* fetch_booster_price: a quote, no pack on offer, or a FetchError.
Quote ==
    /\ pc = "quote"
    /\ \E price \in PackPrices \cup {None} : quotes' = [quotes EXCEPT ![Head(targets)] = price]
    /\ NextGame
    /\ UNCHANGED <<store, kind, items, clean, done, faults>>

\* scan_booster_arbitrage: flagged, when the pack has listings enough.
Arb(g) == quotes[g] # None /\ Costed(g) /\ InDemand(g) /\ Contents(g) > quotes[g]

\* All games are through: the store is read and reported.
Finish ==
    /\ pc = "game" /\ targets = <<>>
    /\ End
    /\ UNCHANGED <<store, faults>>

\* 429 at any request, or Ctrl-C.
Stop ==
    /\ pc # "idle" /\ Fault
    /\ End
    /\ UNCHANGED store

\* The prices outlive their TTL.
Expire ==
    /\ \E c \in AllCards : prices[c] # None /\ prices[c].fresh
    /\ prices' = [c \in AllCards |->
                     IF prices[c] = None THEN None ELSE [prices[c] EXCEPT !.fresh = FALSE]]
    /\ UNCHANGED <<sizes, cards, unmarketable, kind, pc, targets, items, quotes, clean, done,
                   faults>>

\* inventory import: the row of an owned card, with the mark of its first copy;
\* an import that is truncated or killed writes some of the rows.
ImportCard ==
    /\ pc = "idle"
    /\ \E g \in Games : \E c \in RealCards[g] :
          /\ Owned[c] > 0
          /\ cards' = [cards EXCEPT ![g] = @ \cup {c}]
          /\ \/ unmarketable' = unmarketable \ {c}
             \/ c \in Restricted /\ unmarketable' = unmarketable \cup {c}
    /\ UNCHANGED <<sizes, prices, kind, pc, targets, items, quotes, clean, done, faults>>

Steps == Discover \/ SkipGame \/ NeedVolume \/ SkipFresh \/ Price \/ GameDone \/ Quote \/ Finish

Next ==
    \/ StartPlan \/ StartAuto \/ StartBooster \/ StartEnrich
    \/ Steps \/ Unpriced \/ Stop \/ Expire \/ ImportCard

Spec == Init /\ [][Next]_vars

\* plan-cheapest is typed again and again, a command that runs goes on, and
\* time passes.  Failures and kills are finitely many.
FairSpec == Spec /\ SF_vars(StartPlan) /\ WF_vars(Steps) /\ WF_vars(Expire)

-----------------------------------------------------------------------------
(* Properties.                                                             *)

\* A badge that is ranked or planned is never costed from a part of its set,
\* and never below what the asks come to, as long as the catalog does not
\* count too few cards: discoveries that end early, and prices that are
\* missing, keep it out (cheapest_badges.py:72-77, cost.py:36).
NeverUnderpriced ==
    \A g \in Games : sizes[g] >= Cardinality(RealCards[g]) =>
        /\ Ranked(g) => cards[g] = RealCards[g]
        /\ Complete(g) /\ (\A c \in Needed(g) : Ask(c) # None) =>
              /\ cards[g] = RealCards[g]
              /\ \A c \in Needed(g) : Line(g, c) >= Missing(g, c) * Ask(c)

\* How far the readers agree on one store.  What the ranking costs, the set scan
\* costs the same (market_scan.py:173-176), and plan-cheapest does not choose to
\* fetch again (candidate_selection.py:60-61).  Unless the catalog counts fewer
\* cards, the planner costs it too, and the same for a single craft from
\* nothing, but for one reason: a card still to be bought has been imported as
\* unmarketable, which no other reader looks at (cost.py:157-160).
ViewsAgree ==
    \A g \in Games : Ranked(g) =>
        /\ Scanned(g) /\ ScanCost(g) = SetCost(g)
        /\ Cardinality(cards[g]) = sizes[g] /\ Crafts(g) > 0 =>
              (Complete(g) <=> Needed(g) \cap unmarketable = {})
        /\ Complete(g) /\ Crafts(g) = 1 /\ (\A c \in cards[g] : Owned[c] = 0) =>
              KnownCost(g) = SetCost(g)
        /\ g \notin Candidates

\* A game a pass went through without missing anything needs no second pass:
\* it is no candidate any more, and the planner can cost it if the market has
\* as many cards as the catalog.
FetchedIsCosted ==
    \A g \in done :
        /\ Cardinality(RealCards[g]) >= sizes[g] => g \notin Candidates
        /\ Cardinality(RealCards[g]) = sizes[g] /\ Crafts(g) > 0 => Complete(g)

\* "so a later fetch in a different currency can't mask a usable price"
\* (store.py:438): every pack that was quoted is compared with its cards, even
\* when the refresh of the sales counts found cards nobody offers any more.
QuotedIsCompared == \A g \in Games : quotes[g] # None => Costed(g)

\* What a pass spent requests on is in its report.
PassDelivers == FetchedIsCosted /\ QuotedIsCompared

\* A pack that is flagged as an arbitrage brings more than it costs if its three
\* cards are average and sell at their asks, fee and rounding included
\* (booster_arbitrage.py:88-92), and its cards are no less liquid than the
\* ranking asks for ("This bar is STRICTER", booster_arbitrage.py:46), unless
\* the user asks for less.
PacksPayOff ==
    \A g \in Games : Arb(g) =>
        /\ 3 * Sum(cards[g], LAMBDA c : NetOf(LastAsk(c))) > Cardinality(cards[g]) * quotes[g]
        /\ MinListings <= MinDemand => Liquid(g)

\* No recommendation promises more than the prices it was made from: neither the
\* cost of a badge nor the gain of a pack.
NothingOverpromised == NeverUnderpriced /\ PacksPayOff

\* What a pass does to the sets in one step keeps the promise that discoveries
\* keep statement by statement (import_cards): replacing a list never lowers a
\* size below the catalog's or raises it above what the set has.
Catalog == INSTANCE BadgeCatalog WITH
    Real  <- RealCards,
    Floor <- SeedSizes,
    size  <- sizes,
    list  <- cards

ImplementsCatalog == Catalog!Spec

\* "a fully-priced set is already rankable" (candidate_selection.py:61).
FullyPricedIsRanked ==
    \A g \in Games : sizes[g] > 0 /\ Priced(g) >= sizes[g] => Ranked(g)

\* Typing plan-cheapest again completes every candidate that can be completed,
\* although games that never answer are chosen first each time, as long as a
\* pass takes more games than there are of those.
CandidatesRunOut ==
    <>[](\A g \in Games \ DeadGames :
            Cardinality(RealCards[g]) >= SeedSizes[g] => g \notin Candidates)

=============================================================================
