-------------------------- MODULE InventoryImport --------------------------
(***************************************************************************)
(* `inventory import` (sources/steam_inventory.py) and `badges import`     *)
(* (sources/badge_progress.py): what the store believes the account holds. *)
(*                                                                         *)
(* The inventory is fetched page by page, newest copy first, each page     *)
(* after the last asset id of the one before; copies of a name are added   *)
(* up and upserted row by row in autocommit, so that a kill leaves part of *)
(* an import.  Rows of names that were not seen are left as they are.      *)
(*                                                                         *)
(* The account is external: between any two steps it may receive a copy,   *)
(* sell one, or craft a badge.  Badge levels are one request.              *)
(***************************************************************************)
EXTENDS Integers, Sequences, SequencesExt, FiniteSetsExt

CONSTANTS
    None,       \* no row, no value
    Copies,     \* asset ids, 1, 2, ... in the order the copies are received
    FirstHeld,  \* the copies held when the system starts
    DescOf,     \* the description of a copy, or None
    AmountOf,   \* the amount of a copy
    Names,      \* market_hash_names and the name of loose gems
    Games, GameOrder, \* the games, and a sequence of them all
    SetOf,      \* the normal cards of a game's badge
    Decoys,     \* the foil, event and malformed entries of GetBadges, a sequence
    PageSize, MaxPages,
    MaxChanges, \* bound: sales and crafts
    MaxFaults   \* bound: refused requests, pages without a cursor, kills

LooseGems == "Gems"
MaxLevel  == 5

Descriptions ==
    [name : Names \cup {None},       \* market_hash_name
     game : BOOLEAN,                 \* _game_appid finds the game
     border : {None, "normal", "foil"}, \* the cardborder tag
     foilType : BOOLEAN,             \* the type says "foil"
     class : {"card", "booster", "gems", "sack", "item"}, \* by class, type or name
     marketable : BOOLEAN]

Entries ==
    [game : Games \cup {None}, border : {None, "normal", "foil"}, level : Int \cup {None}]

ASSUME InventoryAssumption ==
    /\ Copies \subseteq Nat \ {0} /\ IsFiniteSet(Copies) /\ FirstHeld \subseteq Copies
    /\ DescOf \in [Copies -> Descriptions \cup {None}]
    /\ AmountOf \in [Copies -> Nat]
    /\ IsFiniteSet(Names) /\ LooseGems \in Names
    /\ None \notin Names \cup Games \cup Descriptions
    /\ None \notin Int \cup BOOLEAN
    /\ None \notin {"normal", "foil", "inventory", "holding", "whole", "partial"}
    /\ GameOrder \in Seq(Games) /\ Range(GameOrder) = Games
    /\ SetOf \in [Games -> SUBSET Names]
    /\ Decoys \in Seq(Entries)
    /\ \A i \in DOMAIN Decoys : \* no second, higher level of a badge
          Decoys[i].border = "normal" /\ Decoys[i].level # None => Decoys[i].level <= 0
    /\ PageSize \in Nat \ {0} /\ MaxPages \in Nat \ {0}
    /\ MaxChanges \in Nat /\ MaxFaults \in Nat

VARIABLES
    held, sold,  \* the account: the copies it has, and those it had
    levels,      \* the account: the level of a game's badge
    pc,
    cursor,      \* local start_assetid, 0 for None
    gathered,    \* local all_assets
    pages,       \* how often the loop of fetch_inventory has turned
    truncated,   \* local `truncated`
    rows,        \* what _persist has still to write
    known,       \* the store: is_foil of a `card` row, or None
    owned,       \* the store: quantity of a user_card_inventory row, or None
    holdings,    \* the store: quantity of a user_item_holding row, or None
    progress,    \* the store: level of a user_badge_progress row, or None
    report,      \* what the last online inventory import said of itself
    lost, began, \* history: a page had no cursor; held when the import began
    changes, faults

account == <<held, sold, levels>>
fetch   == <<cursor, gathered, pages, truncated>>
store   == <<known, owned, holdings, progress>>
history == <<report, lost, began>>
invVars == <<account, pc, fetch, rows, store, history, changes, faults>>

NoEntry == [table |-> None, name |-> None]
NoRow   == [table |-> "none"]

Quantity == Nat \cup {None}

Rows ==
    [table : {"card"}, name : Names, foil : BOOLEAN]
        \cup [table : {"inventory", "holding"}, name : Names, quantity : Nat]
        \cup [table : {"progress"}, game : Games, level : 0..MaxLevel] \cup {NoRow}

InvTypeOK ==
    /\ held \subseteq Copies /\ sold \subseteq Copies \ held
    /\ levels \in [Games -> 0..MaxLevel]
    /\ pc \in {"idle", "fetch", "parse", "write"}
    /\ cursor \in Nat /\ gathered \in Seq(Copies) /\ pages \in 0..MaxPages
    /\ truncated \in BOOLEAN
    /\ rows \in Seq(Rows)
    /\ known \in [Names -> BOOLEAN \cup {None}]
    /\ owned \in [Names -> Quantity] /\ holdings \in [Names -> Quantity]
    /\ progress \in [Games -> (0..MaxLevel) \cup {None}]
    /\ report \in {None, "whole", "partial"}
    /\ lost \in BOOLEAN /\ began \subseteq held \cup sold
    /\ changes \in 0..MaxChanges /\ faults \in 0..MaxFaults

NoLevels == [g \in Games |-> 0]

InvInit ==
    /\ held = FirstHeld /\ sold = {} /\ levels = NoLevels
    /\ pc = "idle"
    /\ cursor = 0 /\ gathered = <<>> /\ pages = 0 /\ truncated = FALSE
    /\ rows = <<>>
    /\ known = [n \in Names |-> None]
    /\ owned = [n \in Names |-> None] /\ holdings = [n \in Names |-> None]
    /\ progress = [g \in Games |-> None]
    /\ report = None /\ lost = FALSE /\ began = {}
    /\ changes = 0 /\ faults = 0

-----------------------------------------------------------------------------
(* Parsing.                                                                *)

IsTradingCard(d) == d.border # None \/ d.class = "card"

IsFoil(d) == IF d.border # None THEN d.border = "foil" ELSE d.foilType

\* _classify_holding: the name a non-card item is kept under, or None.
HoldingName(d) ==
    CASE d.class = "sack"    -> d.name
      [] d.class = "booster" -> IF d.game THEN d.name ELSE None
      [] d.class = "gems"    -> LooseGems
      [] OTHER               -> IF d.marketable /\ d.game THEN d.name ELSE None

Entry(table, n) == [table |-> table, name |-> n]

\* What parse_inventory_json makes of a copy; NoEntry when it is skipped.
EntryOf == [a \in Copies |->
    LET d == DescOf[a]
    IN  IF d = None THEN NoEntry
        ELSE IF IsTradingCard(d)
             THEN IF d.name # None /\ d.game
                  THEN Entry("inventory", d.name) ELSE NoEntry
             ELSE IF HoldingName(d) # None
                  THEN Entry("holding", HoldingName(d)) ELSE NoEntry]

\* The copies of s that add up to an entry, as places in s.
Places(s, e) == {i \in DOMAIN s : EntryOf[s[i]] = e}

Quantities(s, e) == SumFunction([i \in Places(s, e) |-> AmountOf[s[i]]])

\* The numbers of S, the lowest first.
InOrder(S) ==
    [k \in 1..Cardinality(S) |-> CHOOSE i \in S : Cardinality({j \in S : j < i}) = k - 1]

\* The first copies of the entries of a table, in the order of the document.
Firsts(s, table) ==
    InOrder({i \in DOMAIN s : /\ EntryOf[s[i]].table = table
                             /\ \A j \in 1..(i - 1) : EntryOf[s[j]] # EntryOf[s[i]]})

\* _persist: for each card its `card` row and its inventory row, then the
\* holdings.  Flags come from the first copy.
CardRow(a) == [table |-> "card", name |-> EntryOf[a].name, foil |-> IsFoil(DescOf[a])]

QuantityRow(table, s, a) ==
    [table |-> table, name |-> EntryOf[a].name, quantity |-> Quantities(s, EntryOf[a])]

InventoryRows(s) ==
    LET cards == Firsts(s, "inventory")
        items == Firsts(s, "holding")
    IN  [k \in 1..(2 * Len(cards)) |->
            LET a == s[cards[(k + 1) \div 2]]
            IN  IF k % 2 = 1 THEN CardRow(a) ELSE QuantityRow("inventory", s, a)]
            \o [k \in DOMAIN items |-> QuantityRow("holding", s, s[items[k]])]

\* Mutant: an event badge counts as the card badge.
AnyNormalBadge(e) == e.game # None /\ e.border # "foil" /\ e.level # None

\* parse_badges_response keeps entries of a normal card badge only.
CardBadge(e) ==
    e.game # None /\ e.border # None /\ e.border # "foil" /\ e.level # None

\* Mutant: the level is taken as it is.
Unclamped(level) == level

Clamp(level) == IF level < 0 THEN 0 ELSE IF level > MaxLevel THEN MaxLevel ELSE level

\* The row of an entry; the first entry of a game counts, the others are
\* passed over.
BadgeRow(entries, i) ==
    IF /\ CardBadge(entries[i])
       /\ \A j \in 1..(i - 1) : CardBadge(entries[j]) => entries[j].game # entries[i].game
    THEN [table |-> "progress", game |-> entries[i].game, level |-> Clamp(entries[i].level)]
    ELSE NoRow

BadgeRows(entries) == [i \in DOMAIN entries |-> BadgeRow(entries, i)]

-----------------------------------------------------------------------------
(* The commands, typed one after the other.                                *)

Goto(place) == pc' = place

\* The locals of a fetch are set up, or dead and cleared.
Clear == cursor' = 0 /\ gathered' = <<>> /\ pages' = 0 /\ truncated' = FALSE

\* The last import has nothing to say of the rows any more.
Forget == report' = None /\ lost' = FALSE /\ began' = {}

\* inventory import --steamid --online: fetch_inventory sets up its locals.
BeginImport ==
    /\ pc = "idle"
    /\ Goto("fetch") /\ Clear
    /\ report' = None /\ lost' = FALSE /\ began' = held
    /\ UNCHANGED <<account, rows, store, changes, faults>>

\* Newest copies first, after the cursor.
Listed == {a \in held : cursor = 0 \/ a < cursor}

Page == {a \in Listed : Cardinality({b \in Listed : b > a}) < PageSize}

NewestFirst(S) == Reverse(InOrder(S))

\* all_assets += page["assets"]
Gather == gathered' = gathered \o NewestFirst(Page) /\ pages' = pages + 1

\* Mutant: the next page is asked for without start_assetid.
ForgottenCursor(a) == cursor' = 0

\* start_assetid of the next request.
NextCursor(a) == cursor' = a

\* Mutant: running out of pages is not marked.
UnmarkedTruncation == UNCHANGED truncated

\* The else branch of the loop: pages are used up, more items remain.
MarkTruncated == truncated' = TRUE

\* The last page: more_items is not set.
LastPage ==
    /\ pc = "fetch" /\ Page = Listed
    /\ Gather /\ Goto("parse")
    /\ UNCHANGED <<account, cursor, truncated, rows, store, history, changes, faults>>

\* more_items is set and last_assetid tells where to go on.
MorePages ==
    /\ pc = "fetch" /\ Page # Listed
    /\ Gather /\ NextCursor(Min(Page))
    /\ IF pages + 1 = MaxPages
       THEN MarkTruncated /\ Goto("parse")
       ELSE UNCHANGED <<truncated, pc>>
    /\ UNCHANGED <<account, rows, store, history, changes, faults>>

\* more_items is set without last_assetid: the loop breaks, truncated or not.
CursorMissing ==
    /\ pc = "fetch" /\ Page # Listed /\ faults < MaxFaults
    /\ faults' = faults + 1
    /\ Gather /\ Goto("parse") /\ lost' = TRUE
    /\ UNCHANGED <<account, cursor, truncated, rows, store, report, began, changes>>

\* 403, 429, another error or a page that is not an object ends the command.
Refused ==
    /\ pc = "fetch" /\ faults < MaxFaults
    /\ faults' = faults + 1
    /\ Goto("idle") /\ Clear /\ Forget
    /\ UNCHANGED <<account, rows, store, changes>>

\* inventory import --file: an inventory saved when the system started.
ImportFile ==
    /\ pc = "idle"
    /\ gathered' = NewestFirst(FirstHeld) /\ Goto("parse") /\ Forget
    /\ UNCHANGED <<account, cursor, pages, truncated, rows, store, changes, faults>>

\* parse_inventory_json; _persist starts.
Parse ==
    /\ pc = "parse"
    /\ rows' = InventoryRows(gathered) /\ Goto("write")
    /\ UNCHANGED <<account, fetch, store, history, changes, faults>>

\* What GetBadges lists: the card badges and the entries to be skipped.
BadgeLists(of) ==
    LET cards == [i \in DOMAIN GameOrder |->
                     [game |-> GameOrder[i], border |-> "normal", level |-> of[GameOrder[i]]]]
    IN  {cards \o Decoys, Decoys \o cards}

\* badges import, online or from an answer saved when the system started.
ReadBadges ==
    /\ pc = "idle"
    /\ \E of \in {levels, NoLevels} :
       \E entries \in BadgeLists(of) : rows' = BadgeRows(entries)
    /\ Goto("write")
    /\ UNCHANGED <<account, fetch, store, history, changes, faults>>

Upsert(row) ==
    \/ /\ row.table = "card" /\ known' = [known EXCEPT ![row.name] = row.foil]
       /\ UNCHANGED <<owned, holdings, progress>>
    \/ /\ row.table = "inventory" /\ owned' = [owned EXCEPT ![row.name] = row.quantity]
       /\ UNCHANGED <<known, holdings, progress>>
    \/ /\ row.table = "holding" /\ holdings' = [holdings EXCEPT ![row.name] = row.quantity]
       /\ UNCHANGED <<known, owned, progress>>
    \/ /\ row.table = "progress" /\ progress' = [progress EXCEPT ![row.game] = row.level]
       /\ UNCHANGED <<known, owned, holdings>>
    \/ row.table = "none" /\ UNCHANGED store

\* _persist: one autocommitted upsert.
WriteRow ==
    /\ pc = "write" /\ rows # <<>>
    /\ Upsert(Head(rows))
    /\ rows' = Tail(rows)
    /\ UNCHANGED <<account, pc, fetch, history, changes, faults>>

\* The command prints its result; an online inventory import has pages.
Finish ==
    /\ pc = "write" /\ rows = <<>>
    /\ Goto("idle")
    /\ report' = IF pages = 0 THEN report ELSE IF truncated THEN "partial" ELSE "whole"
    /\ Clear
    /\ UNCHANGED <<account, rows, store, lost, began, changes, faults>>

\* Killed, with requests to make or rows to write.
Crash ==
    /\ pc # "idle" /\ faults < MaxFaults
    /\ faults' = faults + 1
    /\ Goto("idle") /\ Clear /\ Forget /\ rows' = <<>>
    /\ UNCHANGED <<account, store, changes>>

-----------------------------------------------------------------------------
(* The account.                                                            *)

\* A new copy has the highest asset id.
Receive ==
    /\ \E a \in Copies \ (held \cup sold) :
          /\ \A b \in held \cup sold : b < a
          /\ held' = held \cup {a}
    /\ UNCHANGED <<sold, levels, pc, fetch, rows, store, history, changes, faults>>

LosesCopies(S) ==
    /\ held' = held \ S /\ sold' = sold \cup S
    /\ changes < MaxChanges /\ changes' = changes + 1
    /\ UNCHANGED <<pc, fetch, rows, store, history, faults>>

Sell == \E a \in held : LosesCopies({a}) /\ UNCHANGED levels

\* A badge is crafted from one copy of each card of the set.
Craft(g) ==
    /\ levels[g] < MaxLevel
    /\ levels' = [levels EXCEPT ![g] = @ + 1]
    /\ \E S \in SUBSET held :
          /\ {EntryOf[a].name : a \in S} = SetOf[g] /\ Cardinality(S) = Cardinality(SetOf[g])
          /\ S # {}
          /\ LosesCopies(S)

Steps == LastPage \/ MorePages \/ Parse \/ WriteRow \/ Finish

Commands ==
    BeginImport \/ ImportFile \/ ReadBadges \/ Steps
        \/ CursorMissing \/ Refused \/ Crash

Account == Receive \/ Sell \/ (\E g \in Games : Craft(g))

InvNext == Commands \/ Account

InvSpec == InvInit /\ [][InvNext]_invVars

-----------------------------------------------------------------------------
(* Properties.                                                             *)

\* How many copies of an entry S holds.
Amount(S, e) == SumFunction([a \in {b \in S : EntryOf[b] = e} |-> AmountOf[a]])

\* How many copies of a card S holds.
Total(S, n) == Amount(S, Entry("inventory", n))

\* No copy is counted twice, however the account changes between two pages:
\* a row never says more than the account has had (steam_inventory.py:288).
NeverOvercounted ==
    \A n \in Names : owned[n] # None => owned[n] <= Total(held \cup sold, n)

\* An import that does not call itself truncated has written every copy the
\* account kept from its first page to its last (steam_inventory.py:301).  A
\* page without a cursor is the exception the code knows of.
WholeUnlessFlagged ==
    report = "whole" /\ ~lost =>
        \A n \in Names :
            LET kept == Total(began \ sold, n)
            IN  kept > 0 => owned[n] # None /\ owned[n] >= kept

\* Both together: paging neither repeats nor silently loses a copy.
PagingExact == NeverOvercounted /\ WholeUnlessFlagged

\* No plan rests on a level the user has not reached: foil and event badges
\* and answers of any age do not put the stored level ahead of the real one
\* (badge_progress.py:95-98).
LevelNeverAhead ==
    \A g \in Games : progress[g] # None => progress[g] <= levels[g]

\* Importing again gets every card the account holds recorded with its copies,
\* again and again, whatever was refused, killed, moved, or overwritten from an
\* old file meanwhile, as long as the inventory fits into the pages.
HeldGetsRecorded ==
    []<>(Cardinality(held) <= MaxPages * PageSize =>
            \A n \in Names : Total(held, n) > 0 => owned[n] = Total(held, n))

=============================================================================
