----------------------------- MODULE Portfolio -----------------------------
(***************************************************************************)
(* What the imported holdings are worth: `market gems` and                 *)
(* `market card-gem-arbitrage` (analytics/gem_economy.py,                  *)
(* card_gem_arbitrage.py, sources/goo_value.py) and `inventory value`      *)
(* (analytics/inventory_valuation.py), composed with the imports that make *)
(* foils and holdings known.                                               *)
(*                                                                         *)
(* The asks of cards are cached by other commands and stay as they are.    *)
(* Commands are typed one after the other; each may be refused by a rate   *)
(* limit or killed.                                                        *)
(***************************************************************************)
EXTENDS InventoryImport, FeeMath

CONSTANTS
    Asks,       \* the cached lowest ask of a name, or None
    GooOf,      \* the gems a card yields; None if Steam never tells
    CardOrder,  \* list_cards' order
    SackPrices, \* what the Sack of Gems may be offered at
    MaxCards    \* --max-cards

ASSUME PortfolioAssumption ==
    /\ Asks \in [Names -> Nat \cup {None}]
    /\ GooOf \in [Names -> Nat \cup {None}]
    /\ CardOrder \in Seq(Names)
    /\ SackPrices \subseteq Nat /\ MaxCards \in Nat \ {0}

VARIABLES
    gpc,         \* where the gem command is
    todo,        \* the candidates refresh_goo_values has still to look at
    tried,       \* locals fetched + failed
    goo,         \* the store: card_goo_value, or None
    sack         \* the store: latest ask of the Sack of Gems, or None

gemVars == <<gpc, todo, tried, goo, sack>>
vars    == <<invVars, gemVars>>

TypeOK ==
    /\ InvTypeOK
    /\ gpc \in {"idle", "sack", "goo"}
    /\ todo \in Seq(Names) /\ tried \in 0..MaxCards
    /\ goo \in [Names -> Nat \cup {None}]
    /\ sack \in SackPrices \cup {None}
    /\ pc = "idle" \/ gpc = "idle"

Init ==
    /\ InvInit
    /\ gpc = "idle" /\ todo = <<>> /\ tried = 0
    /\ goo = [n \in Names |-> None]
    /\ sack = None

-----------------------------------------------------------------------------
(* market gems, market card-gem-arbitrage --online --confirm.              *)

\* Foil cards the store knows, with a price and no gem yield yet.
Wanted(n) == known[n] = TRUE /\ Asks[n] # None /\ goo[n] = None

\* The candidates, in list_cards' order.
Candidates ==
    LET at == InOrder({i \in DOMAIN CardOrder : Wanted(CardOrder[i])})
    IN  [k \in DOMAIN at |-> CardOrder[at[k]]]

BeginGems ==
    /\ gpc = "idle"
    /\ gpc' = "sack" /\ tried' = 0
    /\ todo' \in {Candidates, <<>>}  \* <<>>: `market gems`
    /\ UNCHANGED <<goo, sack, faults>>

EndGems == gpc' = "idle" /\ todo' = <<>> /\ tried' = 0

\* refresh_sack_price: the Sack is priced; or its price is fresh, or not to be
\* had, and stays.
RefreshSack ==
    /\ gpc = "sack"
    /\ gpc' = "goo"
    /\ sack' \in SackPrices \cup {sack}
    /\ UNCHANGED <<todo, tried, goo, faults>>

Advance == todo' = Tail(todo)

\* Mutant: the run ends with the first card Steam does not answer for.
CountAll == tried' = MaxCards

\* fetched or failed goes up by one.
CountTry == tried' = tried + 1

\* fetch_card_goo: both requests are answered and the yield is cached.
FetchGoo ==
    /\ gpc = "goo" /\ todo # <<>> /\ tried < MaxCards
    /\ GooOf[Head(todo)] # None
    /\ goo' = [goo EXCEPT ![Head(todo)] = GooOf[Head(todo)]]
    /\ CountTry /\ Advance
    /\ UNCHANGED <<gpc, sack, faults>>

\* A page without the call, or a request that fails: the card is passed over.
MissGoo ==
    /\ gpc = "goo" /\ todo # <<>> /\ tried < MaxCards
    /\ \/ GooOf[Head(todo)] = None /\ UNCHANGED faults
       \/ GooOf[Head(todo)] # None /\ faults < MaxFaults /\ faults' = faults + 1
    /\ CountTry /\ Advance
    /\ UNCHANGED <<gpc, goo, sack>>

\* No candidate is left, or max_cards were tried; the scan follows.
FinishGems ==
    /\ gpc = "goo" /\ (todo = <<>> \/ tried = MaxCards)
    /\ EndGems
    /\ UNCHANGED <<goo, sack, faults>>

\* A rate limit ends the fetching; what is cached is scanned.  Or a kill.
StopGems ==
    /\ gpc # "idle" /\ faults < MaxFaults
    /\ faults' = faults + 1
    /\ EndGems
    /\ UNCHANGED <<goo, sack>>

GemSteps == RefreshSack \/ FetchGoo \/ MissGoo \/ FinishGems

GemCommands == BeginGems \/ GemSteps \/ StopGems

-----------------------------------------------------------------------------
(* What is reported.                                                       *)

\* Mutant: the gems are taken at what the Sack costs.
GrossMargin(n) == GemsToCents(goo[n], sack) - Asks[n]

\* scan_card_gem_arbitrage: what selling the gems brings over the ask.
Margin(n) == GemsToCents(goo[n], SellerNet(sack)) - Asks[n]

Scored == {n \in Names : /\ sack # None /\ known[n] = TRUE
                         /\ goo[n] # None /\ Asks[n] # None}

Bargains == {n \in Scored : Margin(n) > 0}

\* value_inventory: gems at the Sack's price, everything else at its own ask;
\* rows without copies or without a price do not count.
CardsValue ==
    SumFunction([n \in {m \in Names : owned[m] \notin {None, 0} /\ Asks[m] # None}
                     |-> owned[n] * Asks[n]])

Priced(n) == holdings[n] \notin {None, 0} /\ (IF n = LooseGems THEN sack ELSE Asks[n]) # None

HoldingsValue ==
    SumFunction([n \in {m \in Names : Priced(m)} |->
        IF n = LooseGems THEN GemsToCents(holdings[n], sack) ELSE holdings[n] * Asks[n]])

Value == CardsValue + HoldingsValue

-----------------------------------------------------------------------------

Next ==
    \/ gpc = "idle" /\ Commands /\ UNCHANGED gemVars
    \/ Account /\ UNCHANGED gemVars
    \/ pc = "idle" /\ GemCommands
          /\ UNCHANGED <<account, pc, fetch, rows, store, history, changes>>

Spec == Init /\ [][Next]_vars

\* The user types the commands again and again; a command that is running goes
\* on.  Rate limits, kills and failures are finitely many.
FairSpec ==
    /\ Spec
    /\ SF_vars(gpc = "idle" /\ BeginImport /\ UNCHANGED gemVars)
    /\ WF_vars(Steps /\ UNCHANGED gemVars)
    /\ SF_vars(/\ pc = "idle" /\ BeginGems /\ todo' = Candidates
               /\ UNCHANGED <<account, pc, fetch, rows, store, history, changes>>)
    /\ WF_vars(GemSteps /\ UNCHANGED <<account, pc, fetch, rows, store, history, changes>>)

-----------------------------------------------------------------------------
(* Properties.                                                             *)

\* What is flagged as profitable really is: buying the card, turning it into
\* gems and selling those in a Sack brings more than the ask, fee and rounding
\* included (card_gem_arbitrage.py:76-78).
NoFalseBargain ==
    \A n \in Bargains : goo[n] * NetOf(sack) > GemsPerSack * Asks[n]

\* What the copies of a table that the account has had are asked for.
WorthHad(table, names) ==
    SumFunction([n \in {m \in names : Asks[m] # None} |->
        Amount(held \cup sold, Entry(table, n)) * Asks[n]])

GemsHad == Amount(held \cup sold, Entry("holding", LooseGems))

\* "the total is always a floor over the priced subset"
\* (inventory_valuation.py:11): it never exceeds what the copies the account
\* has had are asked for, but for the rounding of the gems.
ValueIsFloor ==
    LET gems  == IF sack = None THEN 0 ELSE GemsHad * sack
        cards == WorthHad("inventory", Names)
        items == WorthHad("holding", Names \ {LooseGems})
    IN  2 * GemsPerSack * Value <= 2 * (gems + GemsPerSack * (cards + items)) + GemsPerSack

\* Nothing that plans and reports start from is overstated: neither the level a
\* badge is counted from, nor a bargain, nor the value of what is held.
NothingOverstated == LevelNeverAhead /\ NoFalseBargain /\ ValueIsFloor

\* Every foil that gets known, has a price and yields gems gets its yield
\* cached in the end, although a run is bounded and cards that never answer
\* are tried first in every run, as long as the bound exceeds their number.
YieldsGetCached ==
    <>[](\A n \in Names :
            known[n] = TRUE /\ Asks[n] # None /\ GooOf[n] # None => goo[n] # None)

=============================================================================
