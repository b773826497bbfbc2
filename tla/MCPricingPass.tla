--------------------------- MODULE MCPricingPass ---------------------------
(* Three games for TLC: a badge in progress with a copy that may be marked *)
(* unmarketable, a game with more cards than the catalog counts and a      *)
(* fresh foreign price, and a delisted game that looks cheapest to         *)
(* complete.  The Gap constants are two games that the catalog counts      *)
(* right, with no price but in the user's currency.                        *)
EXTENDS PricingPass

MCGames  == 1..3
MCReal   == <<{11, 12}, {21, 22, 23}, {31, 32}>>
MCSizes  == <<2, 2, 2>>
MCSeeded == <<{11}, {21, 22}, {31}>>
MCLevels == <<2, 4, None>>
MCOwned  == [c \in AllCards |-> IF c \in {11, 31} THEN 1 ELSE 0]

Listed(ask) == [ask |-> ask, median |-> None, home |-> TRUE, fresh |-> TRUE,
                lastAsk |-> ask, listings |-> 3, volume |-> None]
Foreign(ask) == [Listed(ask) EXCEPT !.home = FALSE, !.lastAsk = None]

MCPrices == [c \in AllCards |-> CASE c = 11 -> Listed(5) [] c = 21 -> Listed(4)
                                  [] c = 22 -> Foreign(3) [] c = 31 -> Listed(1)
                                  [] OTHER -> None]

Offer(ask, median, volume) == [ask |-> ask, median |-> median, volume |-> volume]
MCQuotes == [c \in AllCards |->
    CASE c = 11 -> {Offer(5, 8, 6), Offer(None, 4, None)}
      [] c = 12 -> {Offer(6, 5, 6)}
      [] c = 22 -> {Offer(3, 7, 6)}
      [] OTHER  -> {Offer(4, None, 6)}]

GapGames  == 1..2
GapReal   == <<{11, 12}, {21, 22}>>
GapSizes  == <<2, 2>>
GapSeeded == <<{11}, {21}>>
GapLevels == <<2, 4>>
GapPrices == [c \in AllCards |-> CASE c = 11 -> Listed(5) [] c = 21 -> Listed(4)
                                   [] OTHER -> None]
=============================================================================
