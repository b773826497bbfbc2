# Badgewright in TLA+

Badgewright (`src/steam_badge_optimizer`) is a local command-line tool: it
reads public data about Steam trading cards with guarded GET requests, keeps it
in one SQLite file, and plans which badges are cheapest to craft. This directory
holds TLA+ models of its parts, TLC configurations that check them on small
instances, and TLAPS proofs for every instance. `PROJECT.json` is the index:
components, runs, the source lines each definition stands for, findings,
hazards and theorems. Source positions below are relative to
`src/src/steam_badge_optimizer`.

    tlc -config <run>.cfg MC<Module>     a run
    tlapm <Module>Proofs.tla             the proofs of a module

## 1. The system

There is no server and no thread: a command is a process that runs to its end.
What makes the system hard is what several such processes do to each other and
to the files they leave behind, when any of them can be stopped at any point,
and that the market they page through moves while they read it.

| Part | State it keeps | Operations | Talks to | What is hard | What makes it correct |
|---|---|---|---|---|---|
| Market sweep `sources/market_sweep.py` | offset in `sweep_cursor.json`; locals of one run | one bounded run: load cursor, fetch page, store listings, save cursor, stop | client, store, cursor file | kill between two writes; two sweeps on one cursor; market moving; server cutting pages short | nothing in front of the cursor is unpriced; "end of market" means all is priced; re-running gets there |
| HTTP client `sources/http_client.py`, `safety.py` | time of the last request, cookie jar, attempt count | `get`: guard, pace, send, classify, retry | httpx | failures half way through; retries; redirects | only guarded URLs leave, without cookies, spaced; one documented outcome per kind of failure |
| Schema migrations `db/schema.py` | tables, `user_version` | `apply_migrations` at every open | SQLite | concurrent first runs; version read outside the transaction; kills | schema is exactly what `user_version` says and complete once open |
| Store `db/store.py` | all tables | upserts, appends, one explicit transaction, queries | every command | autocommit between related writes | related rows agree |
| Card discovery `sources/card_discovery.py` | `card`, `badge_set.set_size` | enumerate, reconcile, replace list, correct size | client, store | stale sizes, partial enumerations, leaked cards and foils | no false complete set; the catalog is a floor; re-running heals |
| Catalog import `sources/steam_badges_db.py` | `steam_app`, `badge_set` | parse, upsert entry by entry | client or file, store | overwrites what discovery corrected | valid entries land, sizes keep the floor |
| Price refresh `sources/steam_market.py`, gem values `goo_value.py` | `price_snapshot`, goo values | refresh unless fresh, hard stop on 429 | client, store | freshness against currency; partial refresh; bounds | fresh data is not fetched again, attempts bounded |
| Inventory and badge imports `steam_inventory.py`, `badge_progress.py` | owned copies, holdings, levels | page, parse, upsert row by row | client or file, store | truncation, rows of cards that were sold, kills half way | no copy counted twice or silently lost; levels never ahead; importing again catches up |
| Cost model `optimize/cost.py` | none | `compute_costs` | store | completeness, currency, rounding | costs are conservative, incomplete badges are never costed |
| Greedy planner `optimize/greedy.py` | locals of one call | rank, take, skip, stop | cost model | ties, free badges, tight budgets | keeps and uses up the budget, cheapest first, stops at the target |
| Ranking and selection `analytics/cheapest_badges.py`, `candidate_selection.py` | none | rank, select | store | three readers with two notions of "complete" and two of "priced" | no set is costed from a part, the readers agree |
| Scans, gems, boosters, valuation `analytics/*`, `booster_market.py` | none | pure computations | store | integer fees, expected values | exact fee inversion, fail closed |
| Command line `cli.py` | none | composes the above | all | data read before and used after long network work | what a pass fetched is in its report; repeating it uses the candidates up |
| Models, config, reports `models/`, `config.py`, `reports/` | none | validate, render | - | - | - |

Interactions are calls inside a command and shared state between commands: the
SQLite file (autocommit, one writer at a time) and the cursor file. No callback
and no message is involved.

## 2. Modules

| Module | Models | State corresponds to | Actions correspond to |
|---|---|---|---|
| `MarketSweep` | `sweep_cheapest`, the cursor file, `_count_complete_sets` | `cards`, `priced`: rows; `cursorFile`: the file; `pc`, `start`, `pages`, `total`, `page`, `at`: locals of each sweep | one per statement that can be separated by a kill from its neighbours: `FetchPage`, `UpsertCard`, `AddSnapshot`, `TruncateCursor`, `SaveCursor`; one per way to return |
| `ResumableScan` | nothing: the abstract promise of a resumable scan | `done`, `point`, `finished` | `MarketSweep` implements it under the mapping `Scan` |
| `GreedyPlanner` | `build_plan` | the cost report, the ranking, the locals of the loop | `Take`, `Skip`, `Finish`: turns of the loop; `Init` chooses the inputs |
| `PlanQuality` | nothing: `GreedyPlanner` measured against every other selection | - | - |
| `SafeClient` | `SafeClient.get`, `_do_get`, the guard, pacing | `elapsed` since the last request, `jar`, `attempt`, `reply`, `outcome`; `sent` records what left the process | `Get`, `Send`, `Answer`, one per way an attempt ends, `Tick` |
| `SchemaMigrations` | `apply_migrations` and SQLite's transactions | `db`: committed schema and `user_version`; `txn`, `writer`; `index`, `at`: locals | `Begin`, `Execute`, `SetVersion`, `Commit`, one per failure |
| `CardDiscovery` | `cards discover`, `import_cards`, `catalog import` | `sizes`: `set_size`; `cards`: rows; `snapshot`: the sizes read at start; `found`, `start`, `pages`, `complete`: locals | `Begin`, `Target`, `Fetch`, `Delete`, `Commit`, `Raise`; `ImportEntry`; the market's `Delist`, `Relist` |
| `BadgeCatalog` | nothing: the abstract promise of set sizes and card lists | `size`, `list` | `CardDiscovery` and `PricingPass` implement it, each under its mapping `Catalog`: `Publish` (a list, alone or with its correction), `Correct`, `Reset` (the catalog is imported again) |
| `PriceCache` | `refresh_prices`, `latest_price`, `add_price_snapshot`, the sweep's observations | `history`: rows of `price_snapshot`; `pc`, `todo`, `got`: where a command is, its list, the observation in hand; `began`, `served`: start and counted items; `now`: the clock | `SkipCached`, `Ask`, `Priced`, `AddSnapshot` and the ways to fail: turns of the loop, split at the request and at the write; `SweepPage`; `Tick` |
| `InventoryImport` | `inventory import`, `badges import` | `held`, `sold`, `levels`: the account (external); `cursor`, `gathered`, `pages`, `truncated`: locals of `fetch_inventory`; `rows`: what `_persist` has still to write; `known`, `owned`, `holdings`, `progress`: tables; `report`, `lost`, `began`: history | `BeginImport`, the turns of the paging loop `LastPage`, `MorePages`, `CursorMissing`, `Refused`; `ImportFile`, `ReadBadges`; `Parse`, `WriteRow`, `Finish`, `Crash`; the account's `Receive`, `Sell`, `Craft` |
| `FeeMath` | the integer arithmetic of `gem_economy.py` | none: pure | - |
| `Portfolio` | composes `InventoryImport` with `market gems`, `market card-gem-arbitrage` and `inventory value` | `goo`: `card_goo_value`; `sack`: latest ask of the Sack; `todo`, `tried`: locals of `refresh_goo_values` | `BeginGems`, `RefreshSack`, `FetchGoo`, `MissGoo`, `FinishGems`, `StopGems` |
| `BadgeCosts` | `compute_costs`, `rank_cheapest_badges`, `select_candidate_games`, `scan_sets`, the reading half of the booster scan | none of its own: operators over `sizes`, `cards`, `unmarketable` (the rows of `card` that say so), `prices` | - |
| `PricingPass` | `market plan-cheapest`, `optimize --auto-fetch`, `market cheapest-badges --enrich-top`, `market booster-arbitrage`: choose from the store, fetch, read again | the tables of `BadgeCosts`; `targets`, `items`, `quotes`: locals; `clean`, `done`: history | `Start*`; `Discover`, `SkipGame`, `NeedVolume`, `SkipFresh`, `Price`, `Unpriced`, `GameDone`, `Quote`, `Finish`; `Stop`; `ImportCard` (a row that `inventory import` writes between two commands); the clock's `Expire` |

`MC<Module>` gives constants their small values. The theorems are in
`MarketSweepProofs`, `GreedyProofs`, `FoundationProofs` (of `SafeClient` and
`SchemaMigrations`), `CardDiscoveryProofs`, `PriceCacheProofs`,
`PortfolioProofs` (with `InventoryImport`), `PricingPassProofs` (with
`BadgeCosts`) and `AmountProofs` (sums, roundings and fees, which the last two
and `GreedyProofs` use). Definitions marked *Mutant* in a comment are plausible
bugs; no specification uses them, they show that a property would notice.

Market, server, SQLite and the operating system are external and modelled by
what the code relies on. A page holds between one and `PageSize` listings while
some remain, with or without a total. `Faults` turns on what the environment
may do beyond that, so that each property says which faults it survives. SQLite
is one writer at a time, transactions atomic, each autocommitted statement
atomic, a dead process rolled back. Names, prices and pages are model values or
small sets; parsing is a classification (usable or skipped, foil or normal, of
which game).

A detail that one module spells out is one step in a module that composes it:
the enumeration, reconciliation and the two writes of a discovery are separate
in `CardDiscovery` and one `Discover` in `PricingPass`, whose outcomes are any
part of the market's list with or without proof of the end (both implement
`BadgeCatalog`, so the coarse step does nothing the fine ones may not); the rows of a price
history are in `PriceCache`, and `PricingPass` keeps of a history what its
readers ask for (`Prices`). `Portfolio` and `PricingPass` type one command after
the other; races between commands on these tables are in `CardDiscovery` and
`PriceCache`.

Arithmetic is exact. `ceil(1.15 * base)` of `cost.py`, computed in floating
point, equals the exact value (compared up to 3000 cents). A mean that
`booster_arbitrage.py` takes with 28 decimal digits may round an exact half
down where the model rounds it up, in sets of 6 or 12 cards, which can only
miss a bargain.

## 3. Runs

Passing runs check every property named; `PROJECT.json` names for each a
mutation of the model that the run catches.

| Run | Question | Bounds |
|---|---|---|
| `sweep_concurrent` | Two sweeps race on one cursor and are killed: does it ever run ahead? Is the end honest? Do they implement the scan? | 2 sweeps, 4 listings, pages of 2, 2 pages a run, 1 kill |
| `sweep_faults` | With every fault on, does a lone, capped, blocked, killed sweep resume where its result said, keep prices with cards, and reach the end when re-run? | 1 sweep, 5 listings, 1 kill, all faults, fair |
| `plan_greedy` | Budget used up and kept, target (`LimitsKept`), order (`NothingCheaperLeft`), and optimality against every selection (`NearOptimal`) | 3 badges, small costs, crafts, budgets and targets with ties and zeros |
| `client_guard` | Guard and cookies (`NothingLeaks`), pacing, retries, and does every call end? | 2 calls, 3 attempts, interval 2, all kinds of reply, fair |
| `migrate_race` | Schema under concurrent first runs, lock conflicts, kills (`SchemaWhole`, `ForwardOnly`); does every command get its Store open? | 3 processes, 1 kill or refused commit, fair |
| `discover_market` | Floor, honesty and no inflation (`SetsAreHonest`) on a moving market with empty pages, while the catalog is imported again | 1 discovery, 1 import, 2 games, a foil and a leaked card, 1 kill, refusal or lock timeout |
| `discover_still` | Do racing discoveries implement `BadgeCatalog`? Is a complete list ever lost? Does discovering again complete every list? | 2 discoveries, 1 game of 3 cards and a foil, still market, 2 faults, fair |
| `price_cache` | A refresh, a forced one in another currency and a sweep on one history: does an answer ever go back in time? Is anything fetched that is fresh, or counted that is not? | 2 refreshers, 1 sweep, 2 items, 2 currencies, lifetimes of 0 and 1 ticks, 4 ticks |
| `portfolio` | The account changes between the pages of its inventory: is a copy counted twice or lost unmarked (`PagingExact`)? Is a level ever ahead, a bargain or the total too high (`NothingOverstated`)? Does repeating the commands record everything and cache every yield? | 5 copies, 4 of them at first, pages of 2, `MaxPages` 2, 1 sale or craft, 1 fault, `MaxCards` 2, fair |
| `plan_cheapest` | Four commands choose, fetch and read again over one store: is a set costed from a part or too low, does a flagged pack pay (`NothingOverpromised`), do the readers agree (all but the planner when a card is marked unmarketable), is what was fetched in the report, do the passes implement `BadgeCatalog`, and do the candidates run out? | 3 games (one never answers, one has more cards than the catalog counts), one owned card that an import may mark, `MaxGames` 2, `EnrichTop` 1, 2 faults, fair |
| `sweep_delete_all`, `rank_gap` | the two findings below | as `sweep_faults` with delete-all; 2 games that the catalog counts right, one currency, no faults and no marks |

Why the bounds are enough to be interesting. A sweep needs several pages per
market, a run that stops at its cap before the end, an unusable listing and a
foil, and a second sweep to clobber the cursor. A discovery needs a set larger
than the catalog says, a foil and a leaked card. In `discover_still` five pages
reach the end of four listings even when each page brings one: four and the
empty one that proves the end. The races between commands
need two of each, with one kill at any step; migrations have three processes,
because a third can come between a loser and its retry. A price needs to be
fetched, expire, and be fetched again by someone else while a request is out:
`MaxClock` allows four observations or waits with a lifetime of one, and each
response has a tick of its own, as `fetched_at` has microseconds. The clock
does not run backwards.

An inventory of five copies on pages of two needs three pages and is allowed
two: it is truncated or not, depending on what is sold. Selling a copy while a
page is out moves the next page; the copy received later is on no page of an
import that has begun. `GetBadges` lists a foil, an event and two malformed
entries before or after the real one, of the same game. A foil is asked for at
four cents, what its gems bring at the Sack's net to a rounding, so that fee
and rounding decide; the other foil sorts first and never yields. A pricing
pass has more candidates than `MaxGames` and the delisted one looks cheapest;
its other two are a badge in progress, one of whose cards may turn out to have
a median and no ask, and a set larger than its catalog size with a fresh price
in a foreign currency. The badge in progress still needs the card that an import
may mark, so that the planner's answer depends on the mark. Two faults allow a
partial list and a missing price in one pass, or the same twice.

`MaxOffset` merges offsets past the end, which all get the same empty page;
`MaxCrashes`, `MaxFaults` and `MaxChanges` bound kills, refusals, sales and
crafts; `MaxCalls` bounds calls. The theorems remove these bounds for the safety
properties.

`CHECK_DEADLOCK FALSE` is used where the system ends: a plan returned, all
calls made, every Store open.

### Findings

Two runs expect a violation. Each states what a comment or message says:

- `sweep_delete_all`: `delete-all` promises that the local data is gone
  (`cli.py:103`, `cli.py:129`) and keeps `sweep_cursor.json`; the next sweep
  starts in the middle over an empty store.
- `rank_gap`: a card with a median and no ask is priced for
  `select_candidate_games` (`candidate_selection.py:79`) and unpriced for
  `rank_cheapest_badges` (`cheapest_badges.py:85`). Its game is neither ranked
  nor a candidate, although "a fully-priced set is already rankable"
  (`candidate_selection.py:61`). In the trace a pass discovers the two cards of a
  game, the price of the one it knew has outlived its lifetime, and the refresh
  finds a median for it and no ask, and an ask for the other. Sizes, lists and
  currencies are right in this instance, so that nothing else can set the two
  readers apart.

Deviations that the models contain and no run states:

Market sweep and discovery
- a purchase between two pages shifts an unseen listing into the part already
  fetched; the sweep still reports the market complete (`market_sweep.py:199`,
  `market_sweep.py:59`);
- an empty page is taken for the end although `total_count` says otherwise
  (`market_sweep.py:202`, `card_discovery.py:204`). With `"emptyPage"` or
  `"delist"` in `Faults`, `EndMeansAllPriced` and `CursorCovered` fail;
- two discoveries that hold the same old size: the later write can lower the
  corrected one (`card_discovery.py:302`, `cli.py:756`, against the promise at
  `card_discovery.py:226`);
- `catalog import` takes a corrected size back (`steam_badges_db.py:98`);
- an empty search page leaves a game without a list; having no priced card, it
  is then not even a candidate any more (`candidate_selection.py:85`).

Client
- a `Retry-After` that is a date escapes as `ValueError` (`http_client.py:175`,
  against `http_client.py:146`), an undecodable body as `httpx.DecodingError`
  (`http_client.py:157`).

Prices and plans
- with a target and no budget, the plan is not the cheapest way to the target
  (`docs/optimizer-model.md:40`): the last badge may overshoot
  (`greedy.py:86`). `NearOptimal` says what does hold;
- a cached price in another currency, or without an ask, counts as fresh
  (`steam_market.py:153`): `refresh_sack_price` may return nothing although
  it says that it returns the current price in the currency asked for, and a
  pricing pass leaves such a card unpriced;
- while the catalog counts fewer cards than a set has, a partial discovery of
  that many cards is ranked as the whole set, although the ranking "never
  under-costs" (`cheapest_badges.py:69`). `NeverUnderpriced` excepts this case;
- in the same case, a game with as many priced cards as the catalog counts and
  one more without a usable price is no candidate and not ranked
  (`candidate_selection.py:85`, `cheapest_badges.py:85`);
- an inventory import marks the row of an owned card unmarketable by its first
  copy (`steam_inventory.py:243`). Only the planner looks at the mark and leaves
  the badge out if it needs more of that card (`cost.py:157-160`); the ranking,
  the set scan and the choice of candidates cost the set as before. A discovery,
  such as `--auto-fetch` makes of exactly those incomplete badges, writes the row
  anew as marketable (`card_discovery.py:270`), and the planner costs the badge
  until the next import. `ViewsAgree` says that this is the only difference;
- with a `--min-listings` below the ranking's bar the booster scan is not the
  stricter of the two (`booster_arbitrage.py:46`); `PacksPayOff` asks for the
  default's order before it promises liquid cards;
- `booster_market.py:46` says that failures other than 429 degrade to no quote;
  a `FetchError` does in `booster-arbitrage`, other exceptions end the command;
- when `--max-games` is no larger than the number of candidates that cannot be
  completed and look cheapest, each pass takes those again and the others never
  get their turn (`candidate_selection.py:110`); likewise foils that never tell
  their gems and `--max-cards` (`goo_value.py:171`). `CandidatesRunOut` and
  `YieldsGetCached` hold in instances with fewer of them.

Inventory
- the rows of cards that were sold or crafted stay as they are
  (`steam_inventory.py:313`, `schema.py:71`), so `PagingExact` and
  `NothingOverstated` count against everything the account has had;
- a page with `more_items` and no cursor ends the paging without the truncated
  mark (`steam_inventory.py:298`); the variable `lost` excepts it;
- flags of a card come from its first copy, in document order;
- a file saved long ago may be imported over newer rows; `HeldGetsRecorded` is
  therefore `[]<>` and not `<>[]`.

### Fairness

- `MarketSweep`, `CardDiscovery`: weak fairness on a command's own steps and on
  starting it again. The code resumes or repeats only when the user re-runs it,
  and that is what the documentation asks for ("re-run to resume"). A sweep's
  fetch has strong fairness instead: it may be blocked any number of times, but
  not for ever. In `CardDiscovery` refusals, lock timeouts and kills together
  are bounded by `MaxFaults`.
- `SafeClient`: weak fairness on the client and on time; httpx's timeout ends
  an exchange that the server does not.
- `SchemaMigrations`: weak fairness on each process, and a failed one is run
  again; faults are bounded.

- `Portfolio`: strong fairness on typing the inventory import and the gem
  command, which is only possible while no other command runs; weak fairness on
  the steps of a command. Faults are finitely many.
- `PricingPass`: strong fairness on typing `plan-cheapest`, weak fairness on the
  steps of a command and on prices growing older than their lifetime.

Nothing is assumed of the market, of the account, of `catalog import`, or of
kills.

## 4. Proofs

Theorems hold for every value of the constants that satisfies the named
assumption of the module (finite name sets, positive page sizes, well-typed
maps), and without the bounds on processes, listings and kills.

- **`MarketSweepProofs`**: `Typing`; `ResumeSkipsNothing` (`CursorCovered`),
  `EndIsComplete` (`EndMeansAllPriced`) and `SweepsImplementScan` under the
  assumption that the market stands still and is not cut short (`Faults = {}`);
  `PricedCardsStayKnown` and `LoneSweepResumes` under all faults. Argument:
  what lies in front of each sweep's own offset is priced (its page up to `at`
  included), and so is what lies in front of the cursor file. The cursor file
  alone is not inductive: `SaveCursor` writes a local offset, and that must be
  covered first. Prices only grow, so neither another sweep nor a kill can
  uncover an offset.
- **`GreedyProofs`**: `PlanTyping`, `BudgetIsUsedUp`,
  `NothingBoughtPastTarget`, together `BothLimitsKept` (`LimitsKept`);
  `CheapestFirst` (`NothingCheaperLeft`); `PlanIsNearOptimal` (`NearOptimal`).
  Argument: chosen and skipped together are the part of the ranking in front of
  `next`; a skipped badge did not fit a total that has only grown since. The
  order being sorted gives the rest. For `NearOptimal` the invariant
  (`QualityInv`) keeps, from the first badge turned away on, that badge and the
  part of the plan in front of it: all in it is at most as dear per XP, all
  outside at least as dear, and the badge did not fit on top of it (`Pivot`).
  Any other selection within the budget is compared with that part by exchange
  (`Exchange`): what it gains outside it pays for at the pivot's rate or a
  worse one, and the budget does not reach for the pivot's XP.
- **`FoundationProofs`**, the client: `ClientTyping`, `GuardHolds` and
  `CookiesStayHome`, together `BoundaryHolds` (`NothingLeaks`);
  `RequestsAreSpaced`, `OnlyTransportRetried`. Argument: what is about to be
  sent has passed the guard, and the jar is empty outside an exchange because
  the `finally` clears it. The schema: `MigrationTyping`, `SchemaStaysWhole` and
  `OpenStoreIsCurrent`, together `SchemaAlwaysWhole` (`SchemaWhole`);
  `VersionsGoForward`, provided that the first statement of a migration cannot
  run twice (every shipped one starts with `CREATE TABLE` or `ADD COLUMN`).
  Argument: the process inside a transaction that has written sits at the
  committed version; one with a stale version fails on its first statement.
  Without the stale reader the invariant would not be inductive.
- **`CardDiscoveryProofs`**, under all faults: `DiscoveryTyping`, `FloorHolds`
  (`CatalogIsFloor`), `RightCatalogStands` (`NoInflation`), `ListsAreHonest`
  (`NoFalseComplete`), together `SetsStayHonest` (`SetsAreHonest`);
  `DiscoveriesImplementCatalog` (`ImplementsCatalog`). Argument
  (`DiscoveryInv`): the sizes every command has read obey the same bounds as the
  stored ones, because a command writes what it compared with its own snapshot;
  whoever is about to write still has a count above its snapshot; every list
  holds only its own game's cards, so it is a subset of the real set and, when
  it has as many cards, is that set. The refinement needs it too: a list is
  published when its transaction commits, and the correction that follows as a
  statement of its own is one only because the snapshot never fell below the
  catalog. `CatalogIsHonest` proves what `SetsAreHonest` says of `BadgeCatalog`
  alone (`Honest`): the promise needs nothing of how lists and sizes are written
  but that they are written in these steps.

  `CompleteListsStay` (`CompleteStays`) has hypotheses (`StillMarket`), the ones
  of `discover_still`: the market does not move and is not cut short, since a
  later discovery believes what it sees; no catalog is imported meanwhile, since
  that takes a size back; the pages reach the end of the search, since a
  discovery that stops at `MaxPages` publishes what it has; a listing appears
  once in a search and a set has a card. Any number of discoveries may still
  race, be refused, time out on the lock and be killed. Argument (`StillInv`):
  what an enumeration has found is the part of the search in front of its
  offset, so whoever writes has found all there is, and each stored list is
  empty or whole.
- **`PriceCacheProofs`**: `CacheTyping`, `RefetchOnlyExpired` (`CacheSpares`),
  `ServedAreFresh` (`ServedIsFresh`), `NewestIsKept` (`NewestStands`), for any
  commands, items, currencies and lifetimes. Argument (`CacheInv`): an item with
  rows has a newest one, and none is from the future; a request only goes out
  when the newest row has outlived its lifetime, which stays true while others
  append, since only the command itself adds rows of its own; what it then
  stores is newer than those. Appending replaces an answer only by a newer one.
- **`PortfolioProofs`**: `PortfolioTyping`, `PagesCountOnce` (`PagingExact`);
  `LevelsTrusted`, `BargainsPayOff` and with the value of the holdings
  `ReportsAreFloors` (`NothingOverstated`). Argument for paging (`PagingInv`):
  what is gathered is a list without repetition of copies held at some time,
  all at or above the cursor, and holds every copy there that was held all the
  time; a row still to be written carries the sum over what was gathered, and a
  row written is no more than the sum over all that was ever held, because a sum
  over a part is at most the sum over the whole; the value follows from the rows
  in the same way. A bargain pays because a rounded value that exceeds a whole
  number of cents exceeds it before rounding. A level row waiting to be written is never ahead either (`LevelInv`): levels only
  grow, and of the entries of a game only the real one passes the filter with a
  level above zero. `TypeOK` is not inductive: that a turn of the paging
  loop stays within `MaxPages` needs the guard of the loop (`TypeInv`).
- **`PricingPassProofs`**: `PassTyping`; `NoUnderpricing` and `FlaggedPacksPay`,
  together `NoOverpromise` (`NothingOverpromised`); `OneStore` (`ViewsAgree`),
  `Delivered` (`PassDelivers`), `PassesImplementCatalog` (`ImplementsCatalog`).
  Argument: the newest observation with an ask in the user's currency is the
  newest ask there is (`SoundPrices`), so the readers that ask differently get
  the same answer; in a game nothing was missed in so far, every card is still
  to be priced or has a price, and none is marked unmarketable, because the
  discovery wrote the rows (`PricedBut`); no later step of the pass takes that
  back, and an import, which could, only comes when no pass is under way
  (`Delivery`). `ViewsAgree` needs no history: of a ranked set the costed lines
  are the cards still needed less those that are marked. The bound on multi-copy
  pricing is a lemma on `LineCents`. A pack that is flagged beats its price after the mean of the nets
  and the fee were rounded, and so before.
- **`AmountProofs`**: `NetIsExact`, for every price the two correction loops of
  `seller_net_cents` give the largest net that fits with its fee. Argument: net
  plus fee is strictly monotone, so the first loop ends at an amount that fits
  or at one cent, and the second at one whose successor does not fit. Its lemmas
  say what the sums of the models are: a fold takes the elements in an order of
  its own, and a sum is unchanged by that order, of the type of its terms,
  additive, and monotone. Induction theorems that take a predicate cannot be
  used by the provers; the inductions here are about the set of sizes at which a
  claim fails, which has a least member unless it is empty (`LeastNumber`).

The assumptions of the modules are what the code guarantees or what is true of
the world: types, positive bounds, and finitely many listings, names and badges
(a sum over an infinite set has no value).

Only model-checked: liveness (`SweepReachesEnd`, `CallsEnd`, `EveryoneOpens`,
`ListsGetComplete`, `HeldGetsRecorded`, `YieldsGetCached`, `CandidatesRunOut`),
which needs fairness and `ENABLED`. Every invariant, action property and
refinement that a run checks is proved.

## 5. Not modelled, and the plan

Not modelled for good: reports and HTML escaping (pure output), data models
beyond the bounds they enforce, parsing of bodies beyond the classification
above, prompts and messages of the command line.

Not modelled for another reason: anomalies and card scores of
`market_scan.py` are floating-point statistics over one price history, without
state and out of TLC's reach; configuration is read once and appears as
constants.

Not modelled inside modelled parts: amounts, volume and their parsing in
`PriceCache` (a row has an ask or only a median); the two statements of
`add_price_snapshot` (they are one step; the UNIQUE key makes a race between
them an error); DNS and TLS below the HTTP client; the
byte counts of a capped body; provenance rows; the resolution of a vanity name
in front of an inventory import; the tradable flag of a card, and in
`InventoryImport` the marketable one (`PricingPass` has it);
confidence and notes of costs and rankings; the order of a valuation's listing;
`card_discovery.import_from_file` (no command calls it); the clock's resolution.

Plan. Done, in the order of importance it had: `MarketSweep`, `ResumableScan`;
`GreedyPlanner`, `PlanQuality`; `SafeClient`; `SchemaMigrations`;
`CardDiscovery`; `PriceCache`; `InventoryImport`; `FeeMath`, `Portfolio`;
`BadgeCosts`, `PricingPass`; `BadgeCatalog`; proofs of all safety properties
that the runs check. Left:

1. a pricing pass racing a sweep or an import on the same tables, of which
   `BadgeCatalog` and `PriceCache` are what the pass would rely on;
2. an abstract migration (one atomic step from version to version), implemented
   by `SchemaMigrations`;
3. an abstract price history (answers that only get newer), implemented by
   `PriceCache` and by the prices of `PricingPass`.

The project keeps the number of runs at twelve, so that all of them can be
repeated after every change: when one of the above needs a run, a finding that
is fixed or agreed on makes room.
