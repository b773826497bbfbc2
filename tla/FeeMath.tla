------------------------------ MODULE FeeMath ------------------------------
(***************************************************************************)
(* The integer arithmetic of analytics/gem_economy.py and                  *)
(* booster_arbitrage.py: Steam's fee and its inversion, and gems in money. *)
(* Decimal divisions are kept as fractions and rounded where the code      *)
(* rounds.                                                                 *)
(***************************************************************************)
EXTENDS Integers

MinListing  == 3
GemsPerSack == 1000

Larger(a, b) == IF a >= b THEN a ELSE b

\* ROUND_HALF_UP of the fraction p/q.
HalfUp(p, q) == (2 * p + q) \div (2 * q)

\* _fee_cents: 5% and 10% of the seller's net, each at least one cent.
Fee(net) == Larger(1, (net * 5) \div 100) + Larger(1, (net * 10) \div 100)

\* The number of turns of a loop that stops after k turns for a k in S.
FirstTurn(S) == CHOOSE k \in S : \A j \in S : k <= j

Seed(buyer) == Larger(1, (buyer * 100) \div 115)

\* while net > 1 and net + _fee_cents(net) > buyer_cents: net -= 1
Lowered(buyer) ==
    LET seed == Seed(buyer)
    IN  seed - FirstTurn({k \in 0..seed : seed - k <= 1 \/ seed - k + Fee(seed - k) <= buyer})

\* while net + _fee_cents(net + 1) + 1 <= buyer_cents: net += 1
Raised(buyer) ==
    LET net == Lowered(buyer)
    IN  net + FirstTurn({k \in 0..buyer : net + k + Fee(net + k + 1) + 1 > buyer})

\* Mutant: the flat 15% the docstring warns of.
FlatNet(buyer) == (buyer * 100) \div 115

\* seller_net_cents: what the seller gets of what the buyer pays.
SellerNet(buyer) ==
    IF buyer < MinListing \/ Raised(buyer) + Fee(Raised(buyer)) > buyer
    THEN 0 ELSE Raised(buyer)

\* Reference, from Steam's rule alone: the largest net that fits, or none.
NetOf(buyer) ==
    LET fits == {0} \cup {n \in 1..buyer : n + Fee(n) <= buyer}
    IN  CHOOSE n \in fits : \A m \in fits : m <= n

\* gems_to_money at `sack` cents per Sack of Gems.
GemsToCents(gems, sack) == HalfUp(gems * sack, GemsPerSack)

=============================================================================
