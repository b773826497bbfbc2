----------------------------- MODULE PriceCache -----------------------------
(***************************************************************************)
(* The price history of the Store and the commands that read it as a cache *)
(* and add to it: refresh_prices (sources/steam_market.py), which          *)
(* `prices refresh`, the enrichment and auto-fetch steps and the Sack of   *)
(* Gems all go through, and the market sweep, which adds ask-only          *)
(* observations of another lifetime.  The commands are processes on one    *)
(* database; each looks at the newest observation, goes to the network,    *)
(* and stores what it got some time later.                                 *)
(*                                                                         *)
(* Times are ticks.  Every response gets a tick of its own, as fetched_at  *)
(* has microseconds; the rows of an item are told apart by it.  Amounts    *)
(* are left out: a row has an ask or only a median.  Provenance rows,      *)
(* written just before, are left out.                                      *)
(***************************************************************************)
EXTENDS Integers, Sequences

CONSTANTS
    Refreshers, \* commands that run refresh_prices
    Sweepers,   \* commands that run sweep_cheapest
    Forced,     \* the refreshers with force=True
    Items,      \* the items that are priced
    ListsOf,    \* the item lists, or pages, each command may go through
    Currencies, \* the values of settings.currency
    CurrencyOf, \* that of each command
    LongTTL,    \* DEFAULT_TTL_SECONDS of a priceoverview (24 h)
    ShortTTL,   \* TTL_SECONDS of a sweep page (12 h)
    MaxClock    \* bound: ticks

Procs == Refreshers \cup Sweepers
Any   == "any currency"

ASSUME CacheAssumption ==
    /\ Forced \subseteq Refreshers /\ Refreshers \cap Sweepers = {}
    /\ ListsOf \in [Procs -> SUBSET (Seq(Items) \ {<<>>})]
    /\ CurrencyOf \in [Procs -> Currencies] /\ Any \notin Currencies
    /\ LongTTL \in Nat /\ ShortTTL \in Nat /\ ShortTTL <= LongTTL
    /\ MaxClock \in Nat

\* A row of price_snapshot; `by` is the command that fetched it.
Rows == [at : Nat, ttl : {ShortTTL, LongTTL}, cur : Currencies, ask : BOOLEAN, by : Procs]

\* What a command has in hand when it has nothing: a row never stored.
Blank(p) == [at |-> 0, ttl |-> ShortTTL, cur |-> CurrencyOf[p], ask |-> FALSE, by |-> p]

VARIABLES
    now,     \* the clock
    history, \* the rows of each item
    pc,      \* "idle", "check", "ask", "store"
    todo,    \* the items a command has still to go through, the first one now
    got,     \* the observation a command has in hand
    began,   \* when the command started
    served   \* the items it counts as fetched or as cached

vars == <<now, history, pc, todo, got, began, served>>

Init ==
    /\ now = 0
    /\ history = [i \in Items |-> {}]
    /\ pc = [p \in Procs |-> "idle"]
    /\ todo = [p \in Procs |-> <<>>]
    /\ got = [p \in Procs |-> Blank(p)]
    /\ began = [p \in Procs |-> 0]
    /\ served = [p \in Procs |-> {}]

-----------------------------------------------------------------------------
(* Reading the history.                                                    *)

\* Mutant: observations without an ask are passed over in any case.
LatestAsk(i, c) ==
    LET rows == {r \in history[i] : r.ask /\ c \in {Any, r.cur}}
    IN  {r \in rows : \A s \in rows : s.at <= r.at}

\* latest_price: the newest row, or with a currency the newest whose ask is
\* in that currency; the empty set for None.
Latest(i, c) ==
    LET rows == {r \in history[i] : c = Any \/ (r.ask /\ r.cur = c)}
    IN  {r \in rows : \A s \in rows : s.at <= r.at}

\* Mutant: what is cached never expires.
FreshForever(i) == history[i] # {}

\* `latest is not None and not latest.is_stale()`, by the row's own lifetime.
Fresh(i) == \E r \in Latest(i, Any) : now - r.at <= r.ttl

Item(p) == Head(todo[p])
Goto(p, place) == pc' = [pc EXCEPT ![p] = place]

\* fetched += 1 or skipped += 1, with the item that was counted.
Serve(p) == IF p \in Refreshers THEN [served EXCEPT ![p] = @ \cup {Item(p)}] ELSE served

\* The command ends; its locals are gone.
Stop(p) ==
    /\ Goto(p, "idle")
    /\ todo' = [todo EXCEPT ![p] = <<>>]
    /\ got' = [got EXCEPT ![p] = Blank(p)]
    /\ began' = [began EXCEPT ![p] = 0]
    /\ served' = [served EXCEPT ![p] = {}]

-----------------------------------------------------------------------------
(* refresh_prices.                                                         *)

Begin(p) ==
    /\ p \in Refreshers /\ pc[p] = "idle"
    /\ \E list \in ListsOf[p] : todo' = [todo EXCEPT ![p] = list]
    /\ began' = [began EXCEPT ![p] = now]
    /\ served' = [served EXCEPT ![p] = {}]
    /\ Goto(p, "check")
    /\ UNCHANGED <<now, history, got>>

SkipCached(p) ==
    /\ pc[p] = "check" /\ todo[p] # <<>>
    /\ p \notin Forced /\ Fresh(Item(p))
    /\ served' = Serve(p)
    /\ todo' = [todo EXCEPT ![p] = Tail(@)]
    /\ UNCHANGED <<now, history, pc, got, began>>

\* No fresh row: the request goes out, and the history is not looked at again.
Ask(p) ==
    /\ pc[p] = "check" /\ todo[p] # <<>>
    /\ p \in Forced \/ ~Fresh(Item(p))
    /\ Goto(p, "ask")
    /\ UNCHANGED <<now, history, todo, got, began, served>>

\* fetch_price returns None: an HTTP or JSON error, no success, no price.
Unavailable(p) ==
    /\ pc[p] = "ask"
    /\ todo' = [todo EXCEPT ![p] = Tail(@)]
    /\ Goto(p, "check")
    /\ UNCHANGED <<now, history, got, began, served>>

\* Mutant: the loop goes on to the next item past a 429.
HammerOn(p) ==
    /\ pc[p] = "ask"
    /\ todo' = [todo EXCEPT ![p] = Tail(@)]
    /\ UNCHANGED <<now, history, pc, got, began, served>>

\* 429 leaves refresh_prices at once; what is stored stays.
RateLimited(p) ==
    /\ pc[p] = "ask"
    /\ Stop(p)
    /\ UNCHANGED <<now, history>>

\* A response is stamped with the time it came in.
Stamp(p, ttl, ask) ==
    /\ now < MaxClock /\ now' = now + 1
    /\ got' = [got EXCEPT ![p] = [at |-> now', ttl |-> ttl, cur |-> CurrencyOf[p],
                                  ask |-> ask, by |-> p]]
    /\ Goto(p, "store")
    /\ UNCHANGED history

\* A lowest price, or only a median.
Priced(p) ==
    /\ pc[p] = "ask"
    /\ \E ask \in BOOLEAN : Stamp(p, LongTTL, ask)
    /\ UNCHANGED <<todo, began, served>>

\* refresh_prices goes on with its list, a sweep with the next listing of its
\* page.
GoOn(p) ==
    IF p \in Sweepers /\ Tail(todo[p]) # <<>>
      THEN UNCHANGED <<pc, got>>
      ELSE /\ Goto(p, IF p \in Sweepers THEN "idle" ELSE "check")
           /\ got' = [got EXCEPT ![p] = Blank(p)]

\* Mutant: the row of an item is replaced, like the other tables' rows.
UpsertSnapshot(p) ==
    /\ pc[p] = "store"
    /\ history' = [history EXCEPT ![Item(p)] = {got[p]}]
    /\ served' = Serve(p)
    /\ todo' = [todo EXCEPT ![p] = Tail(@)]
    /\ GoOn(p)
    /\ UNCHANGED <<now, began>>

\* add_price_snapshot appends; the item counts as fetched.
AddSnapshot(p) ==
    /\ pc[p] = "store"
    /\ history' = [history EXCEPT ![Item(p)] = @ \cup {got[p]}]
    /\ served' = Serve(p)
    /\ todo' = [todo EXCEPT ![p] = Tail(@)]
    /\ GoOn(p)
    /\ UNCHANGED <<now, began>>

\* The list is exhausted: the RefreshResult is returned.
Finish(p) ==
    /\ pc[p] = "check" /\ todo[p] = <<>>
    /\ Stop(p)
    /\ UNCHANGED <<now, history>>

\* A sweep has a page: one fetch time for all its listings, asks only.
SweepPage(p) ==
    /\ p \in Sweepers /\ pc[p] = "idle"
    /\ \E page \in ListsOf[p] : todo' = [todo EXCEPT ![p] = page]
    /\ Stamp(p, ShortTTL, TRUE)
    /\ UNCHANGED <<began, served>>

\* Ctrl-C or a kill; also a network error that ends the command.
Crash(p) ==
    /\ pc[p] # "idle"
    /\ Stop(p)
    /\ UNCHANGED <<now, history>>

Tick ==
    /\ now < MaxClock /\ now' = now + 1
    /\ UNCHANGED <<history, pc, todo, got, began, served>>

Next ==
    \/ Tick
    \/ \E p \in Procs :
         \/ Begin(p) \/ SkipCached(p) \/ Ask(p) \/ Unavailable(p) \/ RateLimited(p)
         \/ Priced(p) \/ AddSnapshot(p) \/ Finish(p) \/ SweepPage(p) \/ Crash(p)

Spec == Init /\ [][Next]_vars

-----------------------------------------------------------------------------
(* Properties.                                                             *)

\* Every variable has its type; a command that is at the network or about to
\* store has an item to do it for.
TypeOK ==
    /\ now \in 0..MaxClock
    /\ history \in [Items -> SUBSET Rows]
    /\ pc \in [Procs -> {"idle", "check", "ask", "store"}]
    /\ todo \in [Procs -> Seq(Items)]
    /\ got \in [Procs -> Rows]
    /\ began \in [Procs -> Nat] /\ served \in [Procs -> SUBSET Items]
    /\ \A p \in Procs : pc[p] \in {"ask", "store"} => todo[p] # <<>>

\* "so a later fetch in a different currency can't mask a usable price"
\* (store.py:439): what latest_price answers in a currency is never lost and
\* never replaced by something older, although commands store what they
\* fetched in any order.
NewestStands ==
    [][\A i \in Items, c \in Currencies \cup {Any} :
           \A r \in Latest(i, c) : \E s \in Latest(i, c)' : s.at >= r.at]_vars

\* "A cached snapshot within its TTL is reused" (steam_market.py:146): when a
\* command that is not forced fetches an item again, an observation at least
\* as new as its own last one had outlived its lifetime, whatever the others
\* stored in between.
CacheSpares ==
    \A i \in Items : \A r, s \in history[i] :
        r.by = s.by /\ r.by \in Refreshers \ Forced /\ r.at < s.at =>
            \E t \in history[i] : r.at <= t.at /\ t.at + t.ttl < s.at

\* What a refresh counts as fetched or cached really has an observation that
\* was within its lifetime when the refresh started, also when other commands
\* worked on the same items meanwhile (steam_market.py:151-162).
ServedIsFresh ==
    \A p \in Refreshers : \A i \in served[p] :
        \E r \in Latest(i, Any) : r.at + LongTTL >= began[p]

=============================================================================
