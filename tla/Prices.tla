--------------------------------- MODULE Prices -------------------------------
(* The market side of a trading tick. It gathers rows of the pinned series,   *)
(* of discovery or of the live events, and of the open positions; lays the    *)
(* prices of the stream over them; and, several requests later, replaces the  *)
(* prices by those rows. The stream writes prices meanwhile. A price is       *)
(* represented by the time it was quoted. The account snapshot of the tick is *)
(* gathered with the rows.                                                    *)
EXTENDS Catalog

CONSTANTS
  PinnedRefresh,    \* _PINNED_MARKET_REFRESH_SEC
  MaxObjects,       \* _MAX_MARKET_OBJECT_CACHE
  TickEvery,        \* the pause between two ticks
  StaleSec,         \* strategy.price_staleness_corroborate_sec
  SnapshotRefresh   \* _ACCOUNT_SNAPSHOT_REFRESH_SEC

(* The live markets of a tick fit into what an eviction leaves of the cache.  *)
ASSUME PricesAssumption ==
  /\ {PinnedRefresh, MaxObjects, SnapshotRefresh} \subseteq Nat /\ TickEvery \in Nat \ {0}
  /\ IsFiniteSet(Markets)
  /\ \A s \in Scenarios :
       /\ {"held", "mode", "live"} \subseteq DOMAIN s /\ s.held \subseteq Markets
       /\ s.mode = "live" => s.live \subseteq Markets /\ 2 * (Cardinality(s.live) - 1) <= MaxObjects

VARIABLES
  objects,          \* market_object_cache: per market its price and when it was asked, or NoObject
  latest,           \* latest_prices, latest_prices_updated_at, and how often a rebuild put back an older price
  tick,             \* the tick in progress
  account           \* the fills at the exchange, the snapshot cache, what is shown, and since when the process runs

priceVars == << objects, latest, tick, account >>

Missing == -300
NoObject == [price |-> Missing, at |-> Missing]
NoRows == [k \in Markets |-> Missing]
IdleTick == [phase |-> "idle", started |-> Never, ended |-> Never, rows |-> NoRows, shown |-> {}, ask |-> {}, snapshot |-> "none", fills |-> {}]

PricesInit ==
  /\ objects = [k \in Markets |-> NoObject]
  /\ latest = [price |-> NoRows, stamp |-> NoRows, put_back |-> [k \in Markets |-> 0]]
  /\ tick = IdleTick
  /\ account = [real |-> {}, sent |-> {}, cache |-> {}, fetched |-> Never, asked |-> Never, shown |-> {}, shared |-> FALSE, up |-> 0]

Held == budget.held

(* The rows a tick begins with: of the pinned series with open markets in the *)
(* catalog, whose rows have no price, then of the mode's own choice.          *)
open_markets_for_series(s) == { k \in open_candidates : SeriesOf[k] = s }
pinned_markets == UNION { open_markets_for_series(s) : s \in Watchlist }
discovered == IF budget.mode = "discovery" THEN discovery.markets \ pinned_markets ELSE {}
live_candidates == IF budget.mode = "live" THEN { k \in open_candidates : k \in budget.live } \ pinned_markets ELSE {}
first_row(k) ==
  IF k \in discovered /\ k \notin discovery.unconfirmed THEN discovery.fetched ELSE Missing

(* _cached_market_fetch: which of the tickers it asks for, and the cache with *)
(* the answer in it, cut to half its size once over the limit.                *)
stale_or_missing(tickers) == { k \in tickers : objects[k] = NoObject \/ now - objects[k].at > PinnedRefresh }
stored(asked, at) == [k \in Markets |-> IF k \in asked THEN [price |-> now, at |-> at] ELSE objects[k]]
held_in(cache) == { k \in Markets : cache[k] # NoObject }
evictions(cache) ==
  { out \in SUBSET held_in(cache) :
      /\ Cardinality(out) = IF Cardinality(held_in(cache)) > MaxObjects THEN Cardinality(held_in(cache)) \div 2 ELSE 0
      /\ \A k \in out, l \in held_in(cache) \ out : cache[k].at <= cache[l].at }

(* The tick begins: the live candidates, if any, are looked up first.         *)
(* Faulty variant: the first snapshot is kept. *)
snapshot_kept == account.fetched # Never
snapshot_cached == account.fetched # Never /\ now - account.fetched < SnapshotRefresh
start_tick ==
  /\ tick.phase = "idle" /\ now - tick.ended >= TickEvery
  /\ tick' = [tick EXCEPT !.phase = IF live_candidates = {} THEN "rows" ELSE "hydrate", !.started = now,
                !.rows = [k \in Markets |-> first_row(k)],
                !.shown = pinned_markets \cup discovered \cup live_candidates,
                !.ask = live_candidates,
                !.snapshot = IF snapshot_cached THEN "cached" ELSE "asked"]
  /\ account' = [account EXCEPT !.asked = IF snapshot_cached THEN @ ELSE now]
  /\ UNCHANGED << objects, latest, budget >>

(* A lookup of markets. A failed look at the live candidates leaves their     *)
(* rows as the catalog has them; one at the positions gives up the tick.      *)
looked_up(tickers, omitted) ==
  LET asked == stale_or_missing(tickers) \ omitted
  IN  \E out \in evictions(stored(asked, now)) :
        /\ objects' = [k \in Markets |-> IF k \in out THEN NoObject ELSE stored(asked, now)[k]]
        /\ tick' = [tick EXCEPT !.phase = IF @ = "hydrate" THEN "rows" ELSE "gather", !.ask = {},
                      !.rows = [k \in Markets |-> IF k \in tickers /\ objects'[k] # NoObject THEN objects'[k].price ELSE @[k]],
                      !.shown = @ \cup { k \in tickers : objects'[k] # NoObject }]

hydrate(failed) ==
  /\ tick.phase = "hydrate"
  /\ IF failed
     THEN /\ Spends("faults")
          /\ tick' = [tick EXCEPT !.phase = "rows", !.ask = {}]
          /\ UNCHANGED objects
     ELSE looked_up(tick.ask, {}) /\ UNCHANGED budget
  /\ UNCHANGED << latest, account >>

fetch_positions ==
  /\ tick.phase = "rows"
  /\ \E omitted \in SUBSET (Held \ tick.shown) :
       /\ IF omitted = {} THEN UNCHANGED budget ELSE Spends("omits")
       /\ looked_up(Held \ tick.shown, omitted)
  /\ UNCHANGED << latest, account >>

(* overlay_live_prices: a price written within PinnedRefresh wins over the    *)
(* row's, and so does any price over a row without one; otherwise the row's   *)
(* own stands and is stamped with the time of the overlay.                    *)
(* Faulty variant: what is in memory wins whatever its age. *)
always_in_memory(k) == latest.price[k] # Missing
fresh_in_memory(k) == now - latest.stamp[k] <= PinnedRefresh
memory_wins(k) == latest.price[k] # Missing /\ (fresh_in_memory(k) \/ tick.rows[k] = Missing)
overlaid(k) == IF memory_wins(k) THEN latest.price[k] ELSE tick.rows[k]
restamped(k) == IF k \in tick.shown /\ ~memory_wins(k) /\ tick.rows[k] # Missing THEN now ELSE latest.stamp[k]

(* The account snapshot is read some time before the gathered answers are     *)
(* used, and a cached one when the tick begins. What is shown meanwhile is    *)
(* not the snapshot that was just cached.                                     *)
read_snapshot ==
  /\ tick.phase # "idle" /\ tick.snapshot = "asked"
  /\ tick' = [tick EXCEPT !.snapshot = "read", !.fills = account.real]
  /\ account' = [account EXCEPT !.cache = account.real, !.fetched = account.asked, !.shared = FALSE]
  /\ UNCHANGED << objects, latest, budget >>

gathered ==
  /\ tick.phase = "gather" /\ tick.snapshot # "asked"
  /\ latest' = [latest EXCEPT !.stamp = [k \in Markets |-> restamped(k)]]
  /\ tick' = [tick EXCEPT !.phase = "later", !.rows = [k \in Markets |-> IF k \in tick.shown THEN overlaid(k) ELSE Missing]]
  /\ account' = [account EXCEPT !.shared = tick.snapshot = "read",
                   !.shown = IF tick.snapshot = "read" THEN tick.fills ELSE account.cache]
  /\ UNCHANGED << objects, budget >>

(* The prices are replaced by the rows, the stamps of the others dropped, and *)
(* the exits are checked at once.                                             *)
rebuild ==
  /\ tick.phase = "later"
  /\ latest' = [price |-> tick.rows, stamp |-> [k \in Markets |-> IF tick.rows[k] = Missing THEN Missing ELSE latest.stamp[k]],
                 put_back |-> [k \in Markets |-> latest.put_back[k] + IF tick.rows[k] < latest.price[k] THEN 1 ELSE 0]]
  /\ tick' = [IdleTick EXCEPT !.ended = now]
  /\ UNCHANGED << objects, account, budget >>

tick_fails ==
  /\ tick.phase \in {"rows", "gather", "later"} /\ Spends("faults")
  /\ tick' = [IdleTick EXCEPT !.ended = now]
  /\ UNCHANGED << objects, latest, account >>

(* A message of the stream: a price, or a fill of the account.                *)
process_stream_ticker(k) ==
  /\ Spends("quotes")
  /\ latest' = [latest EXCEPT !.price[k] = now, !.stamp[k] = now]
  /\ UNCHANGED << objects, tick, account >>

fill_happens(f) ==
  /\ ~\E g \in account.real : g.id = f
  /\ account' = [account EXCEPT !.real = @ \cup {[id |-> f, at |-> now]}, !.sent = @ \cup {[id |-> f, at |-> now]}]
  /\ UNCHANGED << objects, latest, tick, budget >>

(* A fill of the stream is written into the account as it is shown, which is  *)
(* the cached snapshot itself when the tick has just fetched it.              *)
process_stream_fill(f) ==
  /\ f \in account.sent
  /\ account' = [account EXCEPT !.sent = @ \ {f}, !.shown = @ \cup {f}, !.cache = IF account.shared THEN @ \cup {f} ELSE @]
  /\ UNCHANGED << objects, latest, tick, budget >>

PricesPrompt ==
  "prices" \in budget.parts => IF tick.phase = "idle" THEN now - tick.ended < TickEvery ELSE now < tick.started + AnswerTime

restart_prices ==
  /\ objects' = [k \in Markets |-> NoObject]
  /\ latest' = [price |-> NoRows, stamp |-> NoRows, put_back |-> [k \in Markets |-> 0]]
  /\ tick' = IdleTick
  /\ account' = [account EXCEPT !.sent = {}, !.cache = {}, !.fetched = Never, !.shown = {}, !.shared = FALSE, !.up = now]

-------------------------------------------------------------------------------
(* While no request fails, the price of an open position is never older than  *)
(* a row may be plus the time a written price is trusted, and what two ticks  *)
(* take: a quiet ticker is refreshed from REST (market_fetch.py:283-292). A   *)
(* message between overlay and rebuild is put back by the rebuild and keeps   *)
(* its stamp: each adds at most one refresh. Not so in the pinned series.     *)
TickTime == TickEvery + AnswerTime
RowAge == IF PinnedRefresh > DiscoveryRefresh + 1 + AnswerTime THEN PinnedRefresh ELSE DiscoveryRefresh + 1 + AnswerTime
Refreshes(n) == n * (PinnedRefresh + TickTime + AnswerTime)
PriceIsRefreshed(k) ==
  latest.price[k] # Missing => now - latest.price[k] <= RowAge + TickTime + AnswerTime + Refreshes(latest.put_back[k] + 1)
PricesAreRefreshed == NoFailureYet => \A k \in Held : SeriesOf[k] \notin Watchlist => PriceIsRefreshed(k)

(* The same of every open position, pinned series or not: the overlay's       *)
(* promise that a quiet ticker is refreshed from REST instead of never.       *)
QuietPricesRefreshed == NoFailureYet => \A k \in Held : PriceIsRefreshed(k)

(* A price whose stamp says it was written within StaleSec was quoted within  *)
(* StaleSec: what the exits trust without corroboration (exit_engine.py:288). *)
StampTellsPrice ==
  \A k \in Held : latest.price[k] # Missing /\ now - latest.stamp[k] <= StaleSec => now - latest.price[k] <= StaleSec

(* A fill of the account is shown for good once a snapshot has been read      *)
(* after it, and at most one refresh and two ticks pass until then, counted   *)
(* from the start of the process for a fill it did not see.                   *)
FillsAreReconciled ==
  NoFailureYet /\ "prices" \in budget.parts =>
    \A f \in account.real :
      now - f.at > SnapshotRefresh + 2 * TickTime /\ now - account.up > SnapshotRefresh + 2 * TickTime => f \in account.shown
=============================================================================
