--------------------------- MODULE CardDiscovery ---------------------------
(***************************************************************************)
(* `cards discover` (sources/card_discovery.py) against the catalog import *)
(* (sources/steam_badges_db.py): two writers of badge_set.set_size.        *)
(*                                                                         *)
(* A discovery reads every set size once, then for each game pages the     *)
(* market search, replaces the game's card list in one transaction and, in *)
(* a later statement, raises the set size when a full enumeration found    *)
(* more cards than the size it had read.  Commands run concurrently on one *)
(* SQLite file and may be killed between any two steps.                    *)
(*                                                                         *)
(* The market is external.  Faults names what it may do beyond answering   *)
(* truthfully: "emptyPage", an empty page although listings remain, and    *)
(* "shift", listings that come and go while a discovery is under way.      *)
(***************************************************************************)
EXTENDS Integers, Sequences, SequencesExt, FiniteSets

CONSTANTS
    Discoverers, \* processes running `cards discover`
    Importers,   \* processes running `catalog import`
    Games,       \* the games of the catalog
    Names,       \* market_hash_names
    Foils,       \* names _is_foil recognises
    GameOf,      \* the game a name is prefixed with
    CatalogSize, \* the catalog's size of a game's set
    FirstMarket, \* what the search for a game returns when the system starts
    PageSize, MaxPages,
    MaxSetSize,  \* MAX_SET_SIZE
    MaxFaults,   \* bound: refused requests, lock timeouts and kills
    Faults       \* the market's faults, see above

Nobody == "nobody"

ASSUME DiscoveryAssumption ==
    /\ IsFiniteSet(Names) /\ Foils \subseteq Names
    /\ GameOf \in [Names -> Games]
    /\ CatalogSize \in [Games -> Nat]
    /\ FirstMarket \in [Games -> Seq(Names)]
    /\ PageSize \in Nat \ {0} /\ MaxPages \in Nat \ {0}
    /\ MaxSetSize \in Nat /\ MaxFaults \in Nat
    /\ Nobody \notin Discoverers
    /\ Faults \subseteq {"emptyPage", "shift"}

VARIABLES
    market,   \* what the search for a game returns now
    sizes,    \* the store: badge_set.set_size
    cards,    \* the store: the rows of `card` of a game
    writer,   \* who is inside the transaction of replace_cards_for_app
    pc,       \* where a discovery is
    snapshot, \* local `sizes`, read when the command starts
    todo,     \* the targets left
    game,     \* local `app_id`
    found, start, pages, complete, \* the locals of _enumerate_cards
    entries,  \* the catalog entries an import has still to write
    faults

paging == <<found, start, pages, complete>>
local  == <<snapshot, todo, game, paging>>
store  == <<sizes, cards, writer>>
vars   == <<market, store, pc, local, entries, faults>>

Places == {"idle", "next", "fetch", "delete", "commit", "raise"}

\* A discovery is inside the transaction exactly when it holds the write lock.
LockHeld == \A p \in Discoverers : pc[p] = "commit" <=> writer = p

TypeOK ==
    /\ market \in [Games -> Seq(Names)]
    /\ sizes \in [Games -> Nat]
    /\ cards \in [Games -> SUBSET Names]
    /\ writer \in Discoverers \cup {Nobody}
    /\ pc \in [Discoverers -> Places]
    /\ snapshot \in [Discoverers -> [Games -> Nat]]
    /\ todo \in [Discoverers -> SUBSET Games]
    /\ game \in [Discoverers -> Games]
    /\ found \in [Discoverers -> SUBSET Names]
    /\ start \in [Discoverers -> Nat]
    /\ pages \in [Discoverers -> Nat]
    /\ complete \in [Discoverers -> BOOLEAN]
    /\ entries \in [Importers -> SUBSET Games]
    /\ faults \in 0..MaxFaults
    /\ LockHeld

\* The catalog has been imported once, no card list is known.
Init ==
    /\ market = FirstMarket
    /\ sizes = CatalogSize
    /\ cards = [g \in Games |-> {}]
    /\ writer = Nobody
    /\ pc = [p \in Discoverers |-> "idle"]
    /\ snapshot = [p \in Discoverers |-> CatalogSize]
    /\ todo = [p \in Discoverers |-> {}]
    /\ game \in [Discoverers -> Games]
    /\ found = [p \in Discoverers |-> {}]
    /\ start = [p \in Discoverers |-> 0]
    /\ pages = [p \in Discoverers |-> 0]
    /\ complete = [p \in Discoverers |-> FALSE]
    /\ entries = [c \in Importers |-> {}]
    /\ faults = 0

-----------------------------------------------------------------------------
(* The search endpoint, and what a discovery makes of its answers.         *)

\* What search/render answers: between one and PageSize results while some
\* remain, and total_count, which may be missing (0).
Replies(g, offset) ==
    LET left == Len(market[g]) - offset
        most == IF left <= 0 THEN 0 ELSE IF left < PageSize THEN left ELSE PageSize
        least == IF left > 0 /\ "emptyPage" \notin Faults THEN 1 ELSE 0
    IN  [results : {SubSeq(market[g], offset + 1, offset + n) : n \in least..most},
         total_count : {0, Len(market[g])}]

\* Mutant: a leaked card of another game is kept.
KeptAll(p) == found[p]

\* _reconcile: only names with the game's prefix are kept.
Kept(p) == {n \in found[p] : GameOf[n] = game[p]}

\* Mutant: foils count for the set size.
CountFoils(p) == Cardinality(Kept(p))

\* How many normal cards were found.
Count(p) == Cardinality(Kept(p) \ Foils)

\* The catalog_size the command passes on.
Known(p) == snapshot[p][game[p]]

\* Mutant: nothing to correct when the same cards are stored already.
RaisesNewCards(p) ==
    complete[p] /\ Count(p) > Known(p) /\ ~ Kept(p) \subseteq cards[game[p]]

\* reconcile_set_size and import_cards' ceiling: the size is corrected.
Raises(p) == complete[p] /\ Count(p) > Known(p) /\ Count(p) <= MaxSetSize

-----------------------------------------------------------------------------
(* One run of `cards discover`.                                            *)

Goto(p, place) == pc' = [pc EXCEPT ![p] = place]

\* The locals of an enumeration are set up, or dead and cleared.
Clear(p) ==
    /\ found' = [found EXCEPT ![p] = {}]
    /\ start' = [start EXCEPT ![p] = 0]
    /\ pages' = [pages EXCEPT ![p] = 0]
    /\ complete' = [complete EXCEPT ![p] = FALSE]

\* The command ends, with all it knew.
Exit(p) ==
    /\ Goto(p, "idle") /\ Clear(p)
    /\ todo' = [todo EXCEPT ![p] = {}]
    /\ snapshot' = [snapshot EXCEPT ![p] = CatalogSize]
    /\ UNCHANGED game

\* cards_discover: read all sizes, choose one game or all of them.
Begin(p) ==
    /\ pc[p] = "idle"
    /\ Goto(p, "next")
    /\ snapshot' = [snapshot EXCEPT ![p] = sizes]
    /\ \E targets \in {Games} \cup {{g} : g \in Games} :
           todo' = [todo EXCEPT ![p] = targets]
    /\ UNCHANGED <<market, store, game, paging, entries, faults>>

\* The next target: the locals of _enumerate_cards are set up.
Target(p) ==
    /\ pc[p] = "next"
    /\ Goto(p, "fetch")
    /\ \E g \in todo[p] :
           /\ game' = [game EXCEPT ![p] = g]
           /\ todo' = [todo EXCEPT ![p] = @ \ {g}]
    /\ Clear(p)
    /\ UNCHANGED <<market, store, snapshot, entries, faults>>

\* No target is left.
Finish(p) ==
    /\ pc[p] = "next" /\ todo[p] = {}
    /\ Exit(p)
    /\ UNCHANGED <<market, store, entries, faults>>

\* The offset after a page of n results.
Advanced(p, n) == start[p] + (IF n > 0 THEN n ELSE PageSize)

\* An empty page, or the offset is past the reported total.
AtEnd(p, reply) ==
    \/ reply.results = <<>>
    \/ /\ reply.total_count # 0
       /\ Advanced(p, Len(reply.results)) >= reply.total_count

\* A page that brings nothing new; the loop gives up.
Stuck(p, reply) == reply.results # <<>> /\ ToSet(reply.results) \subseteq found[p]

\* One turn of the loop in _enumerate_cards.
Fetch(p) ==
    /\ pc[p] = "fetch"
    /\ \E reply \in Replies(game[p], start[p]) :
           /\ found' = [found EXCEPT ![p] = @ \cup ToSet(reply.results)]
           /\ start' = [start EXCEPT ![p] = Advanced(p, Len(reply.results))]
           /\ complete' = [complete EXCEPT ![p] = AtEnd(p, reply)]
           /\ Goto(p, IF \/ AtEnd(p, reply) \/ Stuck(p, reply)
                         \/ pages[p] + 1 = MaxPages
                      THEN "delete" ELSE "fetch")
    /\ pages' = [pages EXCEPT ![p] = @ + 1]
    /\ UNCHANGED <<market, store, snapshot, todo, game, entries, faults>>

\* RateLimited, FetchError or a page that does not parse ends the command.
Refused(p) ==
    /\ pc[p] = "fetch" /\ faults < MaxFaults
    /\ faults' = faults + 1
    /\ Exit(p)
    /\ UNCHANGED <<market, store, entries>>

\* Mutant: every statement commits on its own.
DeleteCommitted(p) ==
    /\ pc[p] = "delete" /\ writer = Nobody
    /\ writer' = p
    /\ cards' = [cards EXCEPT ![game[p]] = {}]
    /\ Goto(p, "commit")
    /\ UNCHANGED <<market, sizes, local, entries, faults>>

\* replace_cards_for_app: BEGIN and DELETE, which take the write lock.  The
\* rows are gone for this transaction only.
Delete(p) ==
    /\ pc[p] = "delete" /\ writer = Nobody
    /\ writer' = p
    /\ Goto(p, "commit")
    /\ UNCHANGED <<market, sizes, cards, local, entries, faults>>

\* The rows are inserted and COMMIT makes the new list the game's.
Commit(p) ==
    /\ pc[p] = "commit"
    /\ writer' = Nobody
    /\ cards' = [cards EXCEPT ![game[p]] = Kept(p)]
    /\ IF Raises(p) THEN Goto(p, "raise") /\ UNCHANGED paging
                    ELSE Goto(p, "next") /\ Clear(p)
    /\ UNCHANGED <<market, sizes, snapshot, todo, game, entries, faults>>

\* upsert_badge_set with the corrected size.
Raise(p) ==
    /\ pc[p] = "raise" /\ writer = Nobody
    /\ sizes' = [sizes EXCEPT ![game[p]] = Count(p)]
    /\ Goto(p, "next") /\ Clear(p)
    /\ UNCHANGED <<market, cards, writer, snapshot, todo, game, entries, faults>>

\* SQLite gives up waiting for the lock; the error ends the command.
Locked(p) ==
    /\ pc[p] \in {"delete", "raise"} /\ writer # Nobody /\ faults < MaxFaults
    /\ faults' = faults + 1
    /\ Exit(p)
    /\ UNCHANGED <<market, store, entries>>

\* Mutant: the transaction of a dead process is never rolled back.
CrashKeepsLock(p) ==
    /\ pc[p] # "idle" /\ faults < MaxFaults
    /\ faults' = faults + 1
    /\ Exit(p)
    /\ UNCHANGED <<market, store, entries>>

\* The process dies; SQLite rolls its transaction back.
Crash(p) ==
    /\ pc[p] # "idle" /\ faults < MaxFaults
    /\ faults' = faults + 1
    /\ writer' = IF writer = p THEN Nobody ELSE writer
    /\ Exit(p)
    /\ UNCHANGED <<market, sizes, cards, entries>>

-----------------------------------------------------------------------------
(* The catalog import, and the market.                                     *)

StartImport(c) ==
    /\ entries[c] = {}
    /\ entries' = [entries EXCEPT ![c] = Games]
    /\ UNCHANGED <<market, store, pc, local, faults>>

\* _persist: one autocommitted upsert of badge_set per entry.
ImportEntry(c) ==
    /\ writer = Nobody
    /\ \E g \in entries[c] :
           /\ sizes' = [sizes EXCEPT ![g] = CatalogSize[g]]
           /\ entries' = [entries EXCEPT ![c] = @ \ {g}]
    /\ UNCHANGED <<market, cards, writer, pc, local, faults>>

\* Killed, or locked out, with entries left to write.
StopImport(c) ==
    /\ entries[c] # {}
    /\ entries' = [entries EXCEPT ![c] = {}]
    /\ UNCHANGED <<market, store, pc, local, faults>>

\* The last copy of a card is bought.
Delist(g) ==
    /\ "shift" \in Faults
    /\ \E i \in 1..Len(market[g]) :
           market' = [market EXCEPT ![g] = RemoveAt(@, i)]
    /\ UNCHANGED <<store, pc, local, entries, faults>>

\* A card that was on sale at first is offered again, at the end.
Relist(g) ==
    /\ "shift" \in Faults
    /\ \E n \in ToSet(FirstMarket[g]) \ ToSet(market[g]) :
           market' = [market EXCEPT ![g] = Append(@, n)]
    /\ UNCHANGED <<store, pc, local, entries, faults>>

Discover(p) ==
    \/ Begin(p) \/ Target(p) \/ Finish(p) \/ Fetch(p)
    \/ Delete(p) \/ Commit(p) \/ Raise(p)

Next ==
    \/ \E p \in Discoverers : Discover(p) \/ Refused(p) \/ Locked(p) \/ Crash(p)
    \/ \E c \in Importers : StartImport(c) \/ ImportEntry(c) \/ StopImport(c)
    \/ \E g \in Games : Delist(g) \/ Relist(g)

Spec == Init /\ [][Next]_vars

\* The user runs the command again until it has been through; refusals, lock
\* timeouts and kills are finitely many.
FairSpec == Spec /\ \A p \in Discoverers : WF_vars(Discover(p))

-----------------------------------------------------------------------------
(* Properties.                                                             *)

\* The real set: every normal card that carries the game's prefix.
Badge(g) == {n \in Names : GameOf[n] = g} \ Foils

\* What cost.py:144 and market_sweep.py take for a complete list.
LooksComplete(g) == Cardinality(cards[g] \ Foils) = sizes[g]

\* The catalog is a floor: however discoveries, imports and kills interleave,
\* no market undercount brings a set size below it (card_discovery.py:13).
CatalogIsFloor == \A g \in Games : CatalogSize[g] <= sizes[g]

\* No false complete: with a catalog that counts right, a list that looks
\* complete is the whole set, whatever foils, leaked cards, undercounts and
\* other runs the store has seen (card_discovery.py:241, :268).
NoFalseComplete ==
    \A g \in Games :
        (CatalogSize[g] = Cardinality(Badge(g)) /\ LooksComplete(g))
            => cards[g] \ Foils = Badge(g)

\* With a catalog that counts right the market never changes a set size:
\* foils and leaked cards cannot inflate it (card_discovery.py:241).
NoInflation ==
    \A g \in Games : CatalogSize[g] = Cardinality(Badge(g)) => sizes[g] = CatalogSize[g]

\* What the store says of a set is never less than the catalog and never a lie
\* about a set the catalog has right.
SetsAreHonest == CatalogIsFloor /\ NoFalseComplete /\ NoInflation

\* Step by step, the writers keep the promise of BadgeCatalog: a reader meets
\* neither half a list nor a card of another game nor a size out of bounds,
\* between any two statements of any of them.
Catalog == INSTANCE BadgeCatalog WITH
    Real  <- [g \in Games |-> Badge(g)],
    Floor <- CatalogSize,
    size  <- sizes,
    list  <- [g \in Games |-> cards[g] \ Foils]

ImplementsCatalog == Catalog!Spec

\* On a market that stays still a complete list stays complete: discovering
\* again, concurrently, refused, locked out or killed anywhere, never costs
\* what an earlier run had found (store.py:152).
CompleteStays ==
    [][\A g \in Games : LooksComplete(g) => LooksComplete(g)']_<<cards, sizes>>

\* Discovering again until it has been through heals whatever a refusal or a
\* kill between the list and the size left behind: in the end every game's
\* list is complete and stays so.
ListsGetComplete == <>[](\A g \in Games : LooksComplete(g))

=============================================================================
