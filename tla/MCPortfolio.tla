---------------------------- MODULE MCPortfolio ----------------------------
(* A small account for TLC: two copies of the only card of a badge, one of *)
(* them received later, foils, a stack of loose gems, and an item without  *)
(* a description.                                                          *)
EXTENDS Portfolio

MCCopies == 1..5
MCFirst  == 1..4
MCNames  == {"A", "DFoil", "FFoil", LooseGems}
MCGames  == {"a"}
MCGameOrder == <<"a">>

Normal == [name |-> "A", game |-> TRUE, border |-> "normal", foilType |-> FALSE,
           class |-> "card", marketable |-> TRUE]
Foil(n) == [Normal EXCEPT !.name = n, !.border = "foil"]
Gems    == [Normal EXCEPT !.name = LooseGems, !.border = None, !.class = "gems"]

MCDesc   == <<Normal, Foil("FFoil"), Gems, Foil("DFoil"), Normal>>
MCAmount == <<1, 1, 700, 1, 1>>
MCSets   == [g \in MCGames |-> {"A"}]
MCDecoys == <<[game |-> "a", border |-> None, level |-> 7],
              [game |-> "a", border |-> "foil", level |-> 1],
              [game |-> "a", border |-> "normal", level |-> -1],
              [game |-> None, border |-> None, level |-> 9]>>

MCAsks  == [n \in MCNames |-> CASE n = "A" -> 5 [] n = "DFoil" -> 4
                                [] n = "FFoil" -> 4 [] OTHER -> None]
MCGoo   == [n \in MCNames |-> IF n = "FFoil" THEN 90 ELSE None]
MCOrder == <<"A", "DFoil", "FFoil">>

=============================================================================
