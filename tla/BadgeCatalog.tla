---------------------------- MODULE BadgeCatalog ----------------------------
(***************************************************************************)
(* What the set sizes and card lists of the store promise their readers,   *)
(* whoever writes them: a list is written as a whole, with cards of its    *)
(* own game, and a size is the catalog's or a correction between that and  *)
(* what the set really has.  CardDiscovery and PricingPass implement it,   *)
(* the one with every statement a step, the other with a discovery as one. *)
(***************************************************************************)
EXTENDS Integers, FiniteSets

CONSTANTS
    Games,
    Real,   \* the normal cards a game's set really has
    Floor   \* the catalog's size of a game's set

VARIABLES
    size,   \* the size the store gives for a game's set
    list    \* the normal cards it lists for a game

vars == <<size, list>>

Init ==
    /\ size = Floor
    /\ DOMAIN list = Games /\ \A g \in Games : list[g] \subseteq Real[g]

Corrections(g) == (Floor[g] + 1)..Cardinality(Real[g])

\* The market shows more cards than the catalog counts.
Correct(g) == \E n \in Corrections(g) : size' = [size EXCEPT ![g] = n]

\* A new list, alone or with the correction it calls for.
Publish(g) ==
    /\ \E found \in SUBSET Real[g] : list' = [list EXCEPT ![g] = found]
    /\ UNCHANGED size \/ Correct(g)

\* The catalog is imported again.
Reset(g) == size' = [size EXCEPT ![g] = Floor[g]]

Next == \E g \in Games : Publish(g) \/ ((Correct(g) \/ Reset(g)) /\ UNCHANGED list)

Spec == Init /\ [][Next]_vars

-----------------------------------------------------------------------------

\* The catalog is a floor, a size it has right stays as it is, and a list with
\* as many cards as such a size is the whole set.
Honest ==
    \A g \in Games :
        /\ Floor[g] <= size[g]
        /\ Cardinality(Real[g]) <= Floor[g] => size[g] = Floor[g]
        /\ Cardinality(Real[g]) = Floor[g] /\ Cardinality(list[g]) = size[g] => list[g] = Real[g]

=============================================================================
