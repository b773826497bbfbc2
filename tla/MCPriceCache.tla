---------------------------- MODULE MCPriceCache ----------------------------
(***************************************************************************)
(* Constants for model checking the price cache: a refresh in dollars, a   *)
(* forced one in euros, and a sweep, on the same items.                    *)
(***************************************************************************)
EXTENDS PriceCache

MCItems      == {"card", "sack"}
MCListsOf    == [p \in Procs |->
                   IF p = "usd" THEN {<<"sack", "card">>} ELSE {<<"card">>}]
MCCurrencyOf == [p \in Procs |-> IF p = "eur" THEN "EUR" ELSE "USD"]

=============================================================================
