--------------------------- MODULE MCMarketSweep ---------------------------
(* Small markets for TLC: four or five listings of two games, one of them  *)
(* unusable, one of them foil.                                             *)
EXTENDS MarketSweep

MCListings == {"a1", "a2", "b1", "bFoil", "junk"}
MCSkipped  == {"junk"}
MCFoils    == {"bFoil"}
MCGames    == {"a", "b"}
MCGameOf   == [l \in MCListings |-> IF l \in {"a1", "a2"} THEN "a" ELSE "b"]
MCSetSize  == [g \in MCGames |-> IF g = "a" THEN 2 ELSE 1]
MCMarket   == <<"a1", "junk", "b1", "a2", "bFoil">>
MCShort    == <<"a1", "junk", "b1", "a2">>

=============================================================================
