---------------------------- MODULE MarketSweep ----------------------------
(***************************************************************************)
(* The bounded, resumable market sweep (sources/market_sweep.py).          *)
(*                                                                         *)
(* A sweep pages the market cheapest-first, stores every usable listing in *)
(* the SQLite store (two autocommitted statements per listing), advances   *)
(* its offset by what the server returned, and writes the offset to a      *)
(* cursor file that the next run resumes from.  Several sweeps may run on  *)
(* the same data directory; each may be killed between any two steps.  The *)
(* file write truncates before it writes, so a kill may leave garbage.     *)
(*                                                                         *)
(* The market and its search endpoint are external.  Faults names what the *)
(* environment may do beyond answering truthfully:                         *)
(*   "emptyPage"  an empty page although listings remain,                  *)
(*   "delist"     a listing disappears while a sweep is under way,         *)
(*   "deleteAll"  the user runs `delete-all` between two sweeps.           *)
(***************************************************************************)
EXTENDS Integers, Sequences, FiniteSets

CONSTANTS
    Sweepers,    \* processes running `market sweep` on one data directory
    Listings,    \* market_hash_names
    Skipped,     \* listings without a game prefix or without a price
    Foils,       \* listings recognised as foil cards
    Games,       \* games of the catalog (badge sets)
    GameOf,      \* the game a listing's name is prefixed with
    SetSize,     \* the catalog's set_size of a game
    FirstMarket, \* the market, cheapest first, when the system starts
    PageSize,    \* `count`: the most listings a page holds
    MaxPages,    \* max_pages, the hard cap of one run
    StopAfter,   \* stop_after_complete_sets; None is a number never reached
    MaxCrashes,  \* bound: kills the model allows
    MaxOffset,   \* bound: offsets past the end that the model tells apart
    Faults       \* the environment's faults, see above

ASSUME SweepAssumption ==
    /\ FirstMarket \in Seq(Listings)
    /\ Skipped \subseteq Listings /\ Foils \subseteq Listings
    /\ IsFiniteSet(Listings)
    /\ GameOf \in [Listings -> Games] /\ SetSize \in [Games -> Nat]
    /\ PageSize \in Nat \ {0} /\ MaxPages \in Nat \ {0}
    /\ StopAfter \in Nat /\ MaxCrashes \in Nat
    /\ MaxOffset \in Nat /\ MaxOffset >= Len(FirstMarket)
    /\ Faults \subseteq {"emptyPage", "delist", "deleteAll"}

VARIABLES
    market,      \* the listings now on sale, cheapest first
    cards,       \* the store: listings with a row in `card`
    priced,      \* the store: listings with a price snapshot
    cursorFile,  \* the offset in sweep_cursor.json, or NoCursor
    pc,          \* where each sweep is in sweep_cheapest
    start,       \* local `start`
    pages,       \* local `pages`
    total,       \* local `total_count`
    page,        \* the listings of the page in hand
    at,          \* how many of them the loop has gone through
    result,      \* the SweepResult of the last run, or NoResult
    crashes      \* kills so far

store  == <<cards, priced>>
local  == <<start, pages, total, page, at>>
vars   == <<market, store, cursorFile, pc, local, result, crashes>>

\* No file, or a file no offset can be read from (truncated by a kill).
NoCursor == -1
NoResult == [reason |-> "none", next |-> NoCursor]

Reasons == {"none", "end_of_market", "max_pages", "early_exit", "rate_limited"}
Places  == {"idle", "fetch", "store", "price", "save", "decide"}

TypeOK ==
    /\ market \in Seq(Listings)
    /\ cards \subseteq Listings /\ priced \subseteq Listings
    /\ cursorFile \in Nat \cup {NoCursor}
    /\ pc \in [Sweepers -> Places]
    /\ start \in [Sweepers -> Nat]
    /\ pages \in [Sweepers -> 0..MaxPages]
    /\ total \in [Sweepers -> Nat]
    /\ page \in [Sweepers -> Seq(Listings)]
    /\ at \in [Sweepers -> Nat]
    /\ \A p \in Sweepers : at[p] <= Len(page[p])
    /\ result \in [Sweepers -> [reason : Reasons, next : Nat \cup {NoCursor}]]
    /\ crashes \in 0..MaxCrashes

Init ==
    /\ market = FirstMarket
    /\ cards = {} /\ priced = {}
    /\ cursorFile = NoCursor
    /\ pc = [p \in Sweepers |-> "idle"]
    /\ start = [p \in Sweepers |-> 0]
    /\ pages = [p \in Sweepers |-> 0]
    /\ total = [p \in Sweepers |-> 0]
    /\ page = [p \in Sweepers |-> <<>>]
    /\ at = [p \in Sweepers |-> 0]
    /\ result = [p \in Sweepers |-> NoResult]
    /\ crashes = 0

-----------------------------------------------------------------------------
(* The search endpoint and the sets completed so far.                      *)

Smaller(m, n) == IF m <= n THEN m ELSE n

\* What search/render answers for an offset: between one and PageSize
\* listings while some remain, and total_count, which may be missing (0).
Replies(offset) ==
    LET left == Len(market) - offset
        most == IF left > 0 THEN Smaller(left, PageSize) ELSE 0
        least == IF left > 0 /\ "emptyPage" \notin Faults THEN 1 ELSE 0
    IN  [listings : {SubSeq(market, offset + 1, offset + n) : n \in least..most},
         total_count : {0, Len(market)}]

\* _count_complete_sets: every normal card the catalog expects is known and
\* priced.
CompleteSets ==
    {g \in Games :
        LET known == {l \in cards : GameOf[l] = g /\ l \notin Foils}
        IN  /\ SetSize[g] # 0
            /\ Cardinality(known) = SetSize[g]
            /\ known \subseteq priced}

\* Mutant: an unreadable or absent cursor is all _load_cursor ever sees.
LoadCursorForgets == 0

\* _load_cursor: a missing or unreadable file means the beginning.
LoadCursor == IF cursorFile = NoCursor THEN 0 ELSE cursorFile

\* Mutant: an offset that is off by one page entry counts as the end.
AtEndEarly(p) == page[p] = <<>> \/ (total[p] # 0 /\ start[p] + 1 >= total[p])

\* The page was empty, or the offset is past the reported total.
AtEnd(p) == page[p] = <<>> \/ (total[p] # 0 /\ start[p] >= total[p])

\* Mutant: advance by what was asked for, not by what the server returned.
AdvancedByCount(p) == Smaller(start[p] + PageSize, MaxOffset)

\* The offset after a page: by what the server returned, or by PageSize
\* after an empty page.  Two sweeps that read each other's offsets past the
\* end can push them up for ever; all of them behave alike (an empty page),
\* so they are cut at MaxOffset.
Advanced(p) ==
    IF page[p] = <<>> THEN Smaller(start[p] + PageSize, MaxOffset)
                      ELSE start[p] + Len(page[p])

-----------------------------------------------------------------------------
(* One run of sweep_cheapest.                                              *)

Goto(p, place) == pc' = [pc EXCEPT ![p] = place]

Return(p, reason, next) ==
    /\ Goto(p, "idle")
    /\ result' = [result EXCEPT ![p] = [reason |-> reason, next |-> next]]

\* The command starts: the offset comes from the cursor file.
Begin(p) ==
    /\ pc[p] = "idle"
    /\ Goto(p, "fetch")
    /\ start' = [start EXCEPT ![p] = LoadCursor]
    /\ pages' = [pages EXCEPT ![p] = 0]
    /\ total' = [total EXCEPT ![p] = 0]
    /\ page' = [page EXCEPT ![p] = <<>>]
    /\ at' = [at EXCEPT ![p] = 0]
    /\ result' = [result EXCEPT ![p] = NoResult]
    /\ UNCHANGED <<market, store, cursorFile, crashes>>

\* A page arrives.  A missing total keeps the last one reported.
FetchPage(p) ==
    /\ pc[p] = "fetch"
    /\ \E reply \in Replies(start[p]) :
         /\ page' = [page EXCEPT ![p] = reply.listings]
         /\ total' = [total EXCEPT ![p] = IF reply.total_count # 0
                                          THEN reply.total_count ELSE @]
    /\ at' = [at EXCEPT ![p] = 0]
    /\ Goto(p, "store")
    /\ UNCHANGED <<market, store, cursorFile, start, pages, result, crashes>>

\* 429, another HTTP error or exhausted transport retries: a hard stop.
Blocked(p) ==
    /\ pc[p] = "fetch"
    /\ Return(p, "rate_limited", start[p])
    /\ UNCHANGED <<market, store, cursorFile, local, crashes>>

\* The body does not parse: CardDiscoveryError leaves the command without a
\* SweepResult.
Unparsable(p) ==
    /\ pc[p] = "fetch"
    /\ Goto(p, "idle")
    /\ UNCHANGED <<market, store, cursorFile, local, result, crashes>>

InHand(p) == page[p][at[p] + 1]

SkipListing(p) ==
    /\ pc[p] = "store" /\ at[p] < Len(page[p])
    /\ InHand(p) \in Skipped
    /\ at' = [at EXCEPT ![p] = @ + 1]
    /\ UNCHANGED <<market, store, cursorFile, pc, start, pages, total, page,
                   result, crashes>>

\* Mutant: only normal cards get a card row, all get a snapshot.
UpsertNormalCard(p) ==
    /\ pc[p] = "store" /\ at[p] < Len(page[p])
    /\ InHand(p) \notin Skipped
    /\ cards' = cards \cup ({InHand(p)} \ Foils)
    /\ Goto(p, "price")
    /\ UNCHANGED <<market, priced, cursorFile, local, result, crashes>>

\* store.upsert_card, autocommitted.
UpsertCard(p) ==
    /\ pc[p] = "store" /\ at[p] < Len(page[p])
    /\ InHand(p) \notin Skipped
    /\ cards' = cards \cup {InHand(p)}
    /\ Goto(p, "price")
    /\ UNCHANGED <<market, priced, cursorFile, local, result, crashes>>

\* store.add_price_snapshot, autocommitted.
AddSnapshot(p) ==
    /\ pc[p] = "price"
    /\ priced' = priced \cup {InHand(p)}
    /\ at' = [at EXCEPT ![p] = @ + 1]
    /\ Goto(p, "store")
    /\ UNCHANGED <<market, cards, cursorFile, start, pages, total, page,
                   result, crashes>>

\* Mutant: the offset advances before the page is stored.
TruncateCursorBeforeStore(p) ==
    /\ pc[p] = "store" /\ at[p] <= Len(page[p])
    /\ start' = [start EXCEPT ![p] = Advanced(p)]
    /\ pages' = [pages EXCEPT ![p] = @ + 1]
    /\ cursorFile' = NoCursor
    /\ Goto(p, "save")
    /\ UNCHANGED <<market, store, total, page, at, result, crashes>>

\* The page is stored: advance, and open the cursor file for writing, which
\* truncates it.
TruncateCursor(p) ==
    /\ pc[p] = "store" /\ at[p] = Len(page[p])
    /\ start' = [start EXCEPT ![p] = Advanced(p)]
    /\ pages' = [pages EXCEPT ![p] = @ + 1]
    /\ cursorFile' = NoCursor
    /\ Goto(p, "save")
    /\ UNCHANGED <<market, store, total, page, at, result, crashes>>

\* Mutant: the offset of the page just stored is saved, not the next one.
SaveCursorStale(p) ==
    /\ pc[p] = "save"
    /\ cursorFile' = start[p] - Len(page[p])
    /\ Goto(p, "decide")
    /\ UNCHANGED <<market, store, local, result, crashes>>

SaveCursor(p) ==
    /\ pc[p] = "save"
    /\ cursorFile' = start[p]
    /\ Goto(p, "decide")
    /\ UNCHANGED <<market, store, local, result, crashes>>

\* End of the market: the cursor file is removed.
ReachEnd(p) ==
    /\ pc[p] = "decide" /\ AtEnd(p)
    /\ cursorFile' = NoCursor
    /\ Return(p, "end_of_market", NoCursor)
    /\ UNCHANGED <<market, store, local, crashes>>

EnoughSets(p) == Cardinality(CompleteSets) >= StopAfter

ExitEarly(p) ==
    /\ pc[p] = "decide" /\ ~AtEnd(p) /\ EnoughSets(p)
    /\ Return(p, "early_exit", start[p])
    /\ UNCHANGED <<market, store, cursorFile, local, crashes>>

\* Mutant: the page cap is off by one.
NextPageOverCap(p) ==
    /\ pc[p] = "decide" /\ ~AtEnd(p) /\ ~EnoughSets(p)
    /\ pages[p] <= MaxPages
    /\ Goto(p, "fetch")
    /\ UNCHANGED <<market, store, cursorFile, local, result, crashes>>

NextPage(p) ==
    /\ pc[p] = "decide" /\ ~AtEnd(p) /\ ~EnoughSets(p)
    /\ pages[p] < MaxPages
    /\ Goto(p, "fetch")
    /\ UNCHANGED <<market, store, cursorFile, local, result, crashes>>

\* The `for _ in range(max_pages)` loop is exhausted.
StopAtCap(p) ==
    /\ pc[p] = "decide" /\ ~AtEnd(p) /\ ~EnoughSets(p)
    /\ pages[p] >= MaxPages
    /\ Return(p, "max_pages", start[p])
    /\ UNCHANGED <<market, store, cursorFile, local, crashes>>

\* Ctrl-C, a kill or an SQLite error: local state is lost, files stay.
Crash(p) ==
    /\ pc[p] # "idle" /\ crashes < MaxCrashes
    /\ crashes' = crashes + 1
    /\ Goto(p, "idle")
    /\ UNCHANGED <<market, store, cursorFile, local, result>>

-----------------------------------------------------------------------------
(* The environment's faults.                                               *)

\* Someone buys the last copy of a listing: those behind it move up.
Delist ==
    /\ "delist" \in Faults
    /\ \E i \in 1..Len(market) :
         market' = SubSeq(market, 1, i - 1) \o SubSeq(market, i + 1, Len(market))
    /\ UNCHANGED <<store, cursorFile, pc, local, result, crashes>>

\* `delete-all` removes the database and its sidecars, nothing else.  It is
\* run while no sweep holds the database open.
DeleteAll ==
    /\ "deleteAll" \in Faults
    /\ \A p \in Sweepers : pc[p] = "idle"
    /\ cards' = {} /\ priced' = {}
    /\ UNCHANGED <<market, cursorFile, pc, local, result, crashes>>

\* The steps a running sweep takes by itself.
Work(p) ==
    \/ SkipListing(p) \/ UpsertCard(p) \/ AddSnapshot(p)
    \/ TruncateCursor(p) \/ SaveCursor(p)
    \/ ReachEnd(p) \/ ExitEarly(p) \/ NextPage(p) \/ StopAtCap(p)

Next ==
    \/ \E p \in Sweepers :
         \/ Begin(p) \/ FetchPage(p) \/ Blocked(p) \/ Unparsable(p)
         \/ Work(p) \/ Crash(p)
    \/ Delist \/ DeleteAll

Spec == Init /\ [][Next]_vars

\* The user re-runs the command whenever it stops, a running sweep is
\* scheduled, and the server answers infinitely often if asked that often.
FairSpec ==
    /\ Spec
    /\ \A p \in Sweepers : WF_vars(Begin(p) \/ Work(p)) /\ SF_vars(FetchPage(p))

-----------------------------------------------------------------------------
(* Properties.                                                             *)

Covered(n) == \A i \in 1..Len(market) :
                 i <= n => market[i] \in Skipped \cup priced

\* Resuming never skips a listing: everything in front of the offset in the
\* cursor file is durably priced, whatever was killed, however two sweeps
\* overwrite each other's cursor (market_sweep.py:194-200).
CursorCovered == Covered(LoadCursor)

\* A run that reports END_OF_MARKET, "sweep is complete"
\* (market_sweep.py:59), leaves no usable listing without a price, although
\* it may itself have fetched only the last page of many runs.
EndMeansAllPriced ==
    \A p \in Sweepers :
        result[p].reason = "end_of_market" => Covered(Len(market))

\* A stored price belongs to a card the store knows: a snapshot without its
\* card row would be invisible to every ranking (market_sweep.py:181-191).
PricedCardsKnown == priced \subseteq cards

\* "progress is saved ... re-run to resume" (cli.py:1036-1040): when a lone
\* sweep has returned, the next run starts where the result says, at the
\* beginning after END_OF_MARKET.  (A second sweep may move the file.)
ResultResumable ==
    \A p \in Sweepers :
        pc[p] = "idle" /\ result[p] # NoResult =>
            LoadCursor = (IF result[p].next = NoCursor THEN 0 ELSE result[p].next)

\* Although every run is capped at MaxPages and may be blocked or killed,
\* re-running the sweep reaches the end of the market again and again
\* ("resumable", market_sweep.py:18).
SweepReachesEnd ==
    []<>(\E p \in Sweepers : result[p].reason = "end_of_market")

\* While the market stands still, the sweeps together are one resumable scan
\* of it: done are the positions with a price, the resume point is what the
\* next run would load, finished are the sweeps that reported the end.
Scan == INSTANCE ResumableScan WITH
    N        <- Len(FirstMarket),
    Need     <- {i \in 1..Len(FirstMarket) : FirstMarket[i] \notin Skipped},
    Clients  <- Sweepers,
    done     <- {i \in 1..Len(FirstMarket) : FirstMarket[i] \in priced},
    point    <- LoadCursor,
    finished <- {p \in Sweepers : result[p].reason = "end_of_market"}

ImplementsScan == Scan!Spec

=============================================================================
