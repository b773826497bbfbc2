----------------------------- MODULE BadgeCosts -----------------------------
(***************************************************************************)
(* What the store's sets and prices are read as: the cost of a badge       *)
(* (optimize/cost.py), the ranking and the candidates of cheapest badges   *)
(* (analytics/cheapest_badges.py, candidate_selection.py), the set scan    *)
(* (market_scan.py) and the booster scan (booster_arbitrage.py).  Nothing  *)
(* here changes the store; the commands that fill it are in PricingPass.   *)
(*                                                                         *)
(* Games and cards are numbers, so that they sort.  A price is what the    *)
(* history of a card is asked for: its newest observation, the newest ask  *)
(* in the user's currency, and the newest counts of listings and sales.    *)
(***************************************************************************)
EXTENDS FeeMath, Sequences, SequencesExt, FiniteSetsExt

CONSTANTS
    None,
    Games,       \* the appids of the catalog
    RealCards,   \* the normal cards of a game
    Owned,       \* user_card_inventory
    LevelOf,     \* user_badge_progress, or None
    TargetLevel, \* --badge-level
    MaxGames,    \* --max-games
    MinListings, \* MIN_LISTINGS of the ranking
    MinDemand    \* --min-listings of the booster scan

AllCards == UNION {RealCards[g] : g \in Games}

ASSUME CostAssumption ==
    /\ Games \subseteq Nat /\ IsFiniteSet(Games) /\ None \notin Int
    /\ RealCards \in [Games -> SUBSET Nat]
    /\ \A g \in Games : IsFiniteSet(RealCards[g])
    /\ Owned \in [AllCards -> Nat] /\ LevelOf \in [Games -> (0..5) \cup {None}]
    /\ TargetLevel \in 0..5 /\ MaxGames \in Nat \ {0}
    /\ MinListings \in Nat \ {0} /\ MinDemand \in Nat \ {0}

VARIABLES
    sizes,        \* catalog_badge_set
    cards,        \* the normal cards in `card`, by game
    unmarketable, \* those whose row says so
    prices        \* what the price history of a card says, or None

Cents == Nat \cup {None}

Prices == [ask : Cents, median : Cents, home : BOOLEAN, \* newest observation
           fresh : BOOLEAN,                             \* within its TTL
           lastAsk : Cents,                             \* newest ask in the currency
           listings : Cents, volume : Cents]            \* newest that are not None

\* An observation has an ask or a median, and an ask in the user's currency is
\* also the newest there is.
Sound(row) ==
    /\ row.ask # None \/ row.median # None
    /\ row.home /\ row.ask # None => row.lastAsk = row.ask

\* snap.lowest or snap.median, in the user's currency.
Unit(c) ==
    IF prices[c] = None \/ ~prices[c].home THEN None
    ELSE IF prices[c].ask # None THEN prices[c].ask ELSE prices[c].median

\* latest.lowest, in the user's currency.
Ask(c) == IF prices[c] = None \/ ~prices[c].home THEN None ELSE prices[c].ask

Sum(S, f(_)) == SumFunction([x \in S |-> f(x)])

\* The orders of S with the lesser element first, for sort(key=...).
Sorted(S, less(_, _)) ==
    {s \in [1..Cardinality(S) -> S] :
        \A i, j \in 1..Cardinality(S) : i < j => less(s[i], s[j])}

\* Mutant: the bound is not applied.
AllOf(n, s) == s

First(n, s) == SubSeq(s, 1, IF n < Len(s) THEN n ELSE Len(s))

-----------------------------------------------------------------------------
(* compute_costs.                                                          *)

Crafts(g) == Larger(0, TargetLevel - (IF LevelOf[g] = None THEN 0 ELSE LevelOf[g]))

Missing(g, c) == Larger(0, Crafts(g) - Owned[c])

Needed(g) == {c \in cards[g] : Missing(g, c) > 0}

\* _multi_unit_line_cents, for qty > 0: the median up to twice the ask, or 15%
\* more than the ask, for every copy after the first.
LineCents(base, median, qty) ==
    LET extra == IF median # None /\ median >= base
                 THEN IF median < 2 * base THEN median ELSE 2 * base
                 ELSE -((-115 * base) \div 100)
    IN  base + (qty - 1) * Larger(extra, base)

Line(g, c) ==
    LineCents(Unit(c), IF prices[c].ask # None THEN prices[c].median ELSE None, Missing(g, c))

\* Mutant: the mark of a row is not looked at.
AnyPriced(g) == {c \in Needed(g) : Unit(c) # None}

\* The cards that get a line; any other that is needed makes the badge
\* `uncostable`.
Costable(g) == {c \in Needed(g) : c \notin unmarketable /\ Unit(c) # None}

Complete(g) ==
    Cardinality(cards[g]) = sizes[g] /\ Crafts(g) > 0 /\ Needed(g) = Costable(g)

KnownCost(g) == Sum(Costable(g), LAMBDA c : Line(g, c))

\* _auto_fetch_candidates: incomplete badges the user has to do with.
OwnedOf(g) == Cardinality({c \in RealCards[g] : Owned[c] > 0})

Relevant(g) ==
    /\ Crafts(g) > 0 /\ ~Complete(g)
    /\ OwnedOf(g) > 0 \/ LevelOf[g] \in 1..4

MoreOwned(g, h) == OwnedOf(g) > OwnedOf(h) \/ (OwnedOf(g) = OwnedOf(h) /\ g < h)

AutoTargets ==
    {First(MaxGames, s) : s \in Sorted({g \in Games : Relevant(g)}, MoreOwned)}

-----------------------------------------------------------------------------
(* rank_cheapest_badges.                                                   *)

\* Mutant: a set is costed whatever part of it is known.
AnyPart(g) == cards[g] # {}

\* "Need at least the catalog's card count".
KnownSet(g) == sizes[g] # 0 /\ Cardinality(cards[g]) >= sizes[g]

Ranked(g) == KnownSet(g) /\ cards[g] # {} /\ \A c \in cards[g] : Ask(c) # None

SetCost(g) == Sum(cards[g], Ask)

Enough(n, min) == n # None /\ n >= min

Liquid(g) ==
    \A c \in cards[g] :
        Enough(prices[c].listings, MinListings) \/ Enough(prices[c].volume, MinListings)

Cheaper(g, h) ==
    IF Liquid(g) # Liquid(h) THEN Liquid(g)
    ELSE SetCost(g) < SetCost(h) \/ (SetCost(g) = SetCost(h) /\ g < h)

Top(n) == {First(n, s) : s \in Sorted({g \in Games : Ranked(g)}, Cheaper)}

-----------------------------------------------------------------------------
(* select_candidate_games.                                                 *)

PricedCards(g) == {c \in cards[g] : Unit(c) # None}

Priced(g) == Cardinality(PricedCards(g))

Candidates == {g \in Games : sizes[g] > 0 /\ Priced(g) \in 1..(sizes[g] - 1)}

\* _p75: the nearest rank, of the known prices of all candidates.
Proxy ==
    LET known == UNION {PricedCards(g) : g \in Candidates}
        index == HalfUp(3 * (Cardinality(known) - 1), 4)
    IN  Min({p \in {Unit(c) : c \in known} :
                Cardinality({c \in known : Unit(c) <= p}) > index})

\* What each comes to, with the proxy for what is not priced.
Estimates ==
    [g \in Candidates |-> Sum(PricedCards(g), Unit) + (sizes[g] - Priced(g)) * Proxy]

\* Less than DEFAULT_MIN_PRICED_FRACTION of the set is priced.
Sparse(g) == 100 * Priced(g) < 34 * sizes[g]

Closer(estimate, g, h) ==
    IF Sparse(g) # Sparse(h) THEN Sparse(h)
    ELSE estimate[g] < estimate[h] \/ (estimate[g] = estimate[h] /\ g < h)

\* The estimates are made once, and then the list is sorted.
PlanTargets ==
    UNION {{First(MaxGames, s) : s \in Sorted(Candidates, LAMBDA g, h : Closer(estimate, g, h))}
              : estimate \in {Estimates}}

-----------------------------------------------------------------------------
(* scan_sets and scan_booster_arbitrage.                                   *)

\* Mutant: the exact match of before #144.
ExactlyScanned(g) == Cardinality(cards[g]) = sizes[g] /\ \A c \in cards[g] : Unit(c) # None

Scanned(g) == KnownSet(g) /\ cards[g] # {} /\ \A c \in cards[g] : Unit(c) # None

ScanCost(g) == Sum(cards[g], Unit)

\* Mutant: the newest observation is taken, whatever it is.
NewestOnly(c) == Ask(c)

\* latest_price(currency=...), which looks past observations without an ask.
LastAsk(c) == IF prices[c] = None THEN None ELSE prices[c].lastAsk

\* The pack of a game can be compared with the cards in it.
Costed(g) ==
    /\ cards[g] # {} /\ ~(sizes[g] # 0 /\ Cardinality(cards[g]) < sizes[g])
    /\ \A c \in cards[g] : LastAsk(c) # None

\* evaluate_booster: three cards at the mean of what a seller gets for one.
Contents(g) ==
    HalfUp(3 * Sum(cards[g], LAMBDA c : SellerNet(LastAsk(c))), Cardinality(cards[g]))

InDemand(g) == \A c \in cards[g] : Enough(prices[c].volume, MinDemand)

=============================================================================
