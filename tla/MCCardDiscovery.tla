-------------------------- MODULE MCCardDiscovery --------------------------
(* Small catalogs and markets for TLC.                                     *)
EXTENDS CardDiscovery

\* Two games whose sets the catalog has right.  Nobody offers "a1", but the
\* search for "b" leaks it, beside a foil.
MCGames  == {"a", "b"}
MCNames  == {"a1", "b1", "bFoil"}
MCFoils  == {"bFoil"}
MCGameOf == [n \in MCNames |-> IF n = "a1" THEN "a" ELSE "b"]
MCSizes  == [g \in MCGames |-> 1]
MCMarket == [g \in MCGames |-> IF g = "a" THEN <<>> ELSE <<"b1", "bFoil", "a1">>]

\* One game whose catalog is two cards short, with a foil on sale.
OneGame   == {"a"}
OneNames  == {"a1", "a2", "a3", "aFoil"}
OneFoils  == {"aFoil"}
OneGameOf == [n \in OneNames |-> "a"]
OneSizes  == [g \in OneGame |-> 1]
OneMarket == [g \in OneGame |-> <<"a1", "aFoil", "a2", "a3">>]

=============================================================================
