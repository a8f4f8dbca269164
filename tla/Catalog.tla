-------------------------------- MODULE Catalog -------------------------------
(* Market discovery. A background scan keeps the catalog of markets warm, a   *)
(* few series at a time; the list of series is itself cached and refreshed by *)
(* deltas, with a full list once a day; the discovery refresh selects markets *)
(* from the catalog and asks the exchange whether they still trade. Lifecycle *)
(* messages of the stream write the same rows. A price or a volume is         *)
(* represented by the time it was read.                                       *)
EXTENDS Runtime

CONSTANTS
  Series, Markets, SeriesOf,
  Dated,                \* the markets whose occurrence lies between the horizons
  Watchlist,            \* the series pinned by kalshi.markets_watchlist
  ScanBatch,            \* _CATALOG_SCAN_BATCH_SIZE
  ScanInterval,         \* _CATALOG_SCAN_MIN_INTERVAL_SEC
  PinStale,             \* staleness_sec of pinned_series_needing_scan
  SeriesTTL, FullResync,\* _SERIES_CACHE_TTL_SEC, _SERIES_CACHE_FULL_RESYNC_SEC
  DiscoveryRefresh,     \* _DISCOVERY_REFRESH_SEC
  TopSeries,            \* kalshi.top_series_per_category
  AnswerTime            \* the longest a round of requests is awaited

ASSUME CatalogAssumption ==
  /\ SeriesOf \in [Markets -> Series]
  /\ {ScanInterval, PinStale, SeriesTTL, FullResync, DiscoveryRefresh} \subseteq Nat /\ AnswerTime \in Nat \ {0}
  /\ \A s \in Scenarios :
       /\ {"faults", "allowed", "omits", "omissions", "restarts", "reboots", "parts"} \subseteq DOMAIN s
       /\ {s.faults, s.omits, s.restarts} \subseteq Nat /\ s.closes \in [Markets -> Int]
       /\ s.allowed = s.faults /\ s.omissions = s.omits /\ s.reboots = s.restarts

VARIABLES
  exchange,       \* per market: its status at the exchange, when it closes, since when it is settled
  messages,       \* lifecycle messages on their way
  catalog,        \* markets table: per market its row, or NoRow
  scanned_at,     \* series_scan_state: per series
  series_cache,   \* per series when its volume was read, or Absent; when refreshed, when fully
  scan,           \* the background scan
  discovery       \* discovery_cache and its refresh

catalogVars == << exchange, messages, catalog, scanned_at, series_cache, scan, discovery >>

Never == -100
Absent == -200
NoRow == [status |-> "none", closes |-> 0, updated |-> Never]
Terminal == {"closed", "determined", "finalized"}
IdleScan == [phase |-> "idle", started |-> Never, full |-> FALSE, list |-> << >>, batch |-> {}, answers |-> << >>]
IdleDiscovery == [phase |-> "idle", started |-> Never, since |-> Never, asked |-> {}, markets |-> {}, fetched |-> Never, unconfirmed |-> {}]

CatalogInit ==
  /\ exchange = [k \in Markets |-> [status |-> IF k \in budget.listed THEN "active" ELSE "unlisted", closes |-> budget.closes[k], settled |-> 0]]
  /\ messages = {}
  /\ catalog = [k \in Markets |-> IF k \in budget.known THEN [status |-> "active", closes |-> budget.closes[k], updated |-> Never] ELSE NoRow]
  /\ scanned_at = [s \in Series |-> Never]
  /\ series_cache = [read |-> [s \in Series |-> IF s \in budget.cached THEN 0 ELSE Absent], fetched |-> 0, full |-> 0]
  /\ scan = IdleScan
  /\ discovery = IdleDiscovery

(* What the exchange says of a market when it is asked.                       *)
StatusOf(k) == IF exchange[k].status = "active" /\ now >= exchange[k].closes THEN "closed" ELSE exchange[k].status
OpenIn(s) == { k \in Markets : SeriesOf[k] = s /\ StatusOf(k) = "active" }

(* The exchange. The stream tells of a settlement, and of an earlier close.   *)
list_market(k) ==
  /\ exchange[k].status = "unlisted"
  /\ Spends("lists")
  /\ exchange' = [exchange EXCEPT ![k].status = "active"]
  /\ UNCHANGED << messages, catalog, scanned_at, series_cache, scan, discovery >>

settle(k) ==
  /\ exchange[k].status = "active"
  /\ Spends("settles")
  /\ exchange' = [exchange EXCEPT ![k] = [@ EXCEPT !.status = "finalized", !.settled = now]]
  /\ messages' = messages \cup {[market |-> k, status |-> "finalized", closes |-> 0]}
  /\ UNCHANGED << catalog, scanned_at, series_cache, scan, discovery >>

revise_close(k, c) ==
  /\ StatusOf(k) = "active" /\ c \in now .. exchange[k].closes - 1
  /\ Spends("revisions")
  /\ exchange' = [exchange EXCEPT ![k].closes = c]
  /\ messages' = messages \cup {[market |-> k, status |-> "", closes |-> c]}
  /\ UNCHANGED << catalog, scanned_at, series_cache, scan, discovery >>

(* A lifecycle message updates the row it finds, and adds none.               *)
apply_lifecycle_update(row, msg) ==
  IF row = NoRow THEN NoRow
  ELSE [status |-> IF msg.status = "" THEN row.status ELSE msg.status,
        closes |-> IF msg.closes = 0 THEN row.closes ELSE msg.closes, updated |-> now]

process_stream_lifecycle(msg) ==
  /\ messages' = messages \ {msg}
  /\ catalog' = [catalog EXCEPT ![msg.market] = apply_lifecycle_update(@, msg)]
  /\ UNCHANGED << exchange, scanned_at, series_cache, scan, discovery, budget >>

lose_message(msg) ==
  /\ Spends("faults")
  /\ messages' = messages \ {msg}
  /\ UNCHANGED << exchange, catalog, scanned_at, series_cache, scan, discovery >>

(* Queries of the catalog. *)
RowsOf(s) == { k \in Markets : SeriesOf[k] = s /\ catalog[k] # NoRow }
series_with_expired_data == { s \in Series : RowsOf(s) # {} /\ \A k \in RowsOf(s) : catalog[k].closes < now }
open_candidates == { k \in Markets : catalog[k].status = "active" /\ catalog[k].closes > now }

cached_series == { s \in Series : series_cache.read[s] # Absent }

(* The batch: series whose every known market has closed first, the longest   *)
(* unscanned first within a tier. Ties are broken either way.                 *)
scan_rank(s) == << IF s \in series_with_expired_data THEN 0 ELSE 1, scanned_at[s] >>
ranks_before(s, t) ==
  \/ scan_rank(s)[1] < scan_rank(t)[1]
  \/ scan_rank(s)[1] = scan_rank(t)[1] /\ scan_rank(s)[2] < scan_rank(t)[2]
next_series_to_scan(all) ==
  { batch \in SUBSET all :
      /\ Cardinality(batch) = IF Cardinality(all) < ScanBatch THEN Cardinality(all) ELSE ScanBatch
      /\ \A s \in batch, t \in all \ batch : ~ranks_before(t, s) }
(* Faulty variant: the pinned series wait like the others. *)
pinned_series_seldom_scanned(all) == { s \in Watchlist \cap all : now - scanned_at[s] > PinStale + FullResync }
pinned_series_needing_scan(all) == { s \in Watchlist \cap all : now - scanned_at[s] > PinStale }

(* The list of series: a full list, or the series whose metadata changed.     *)
(* series_needed says whether the cached list is refreshed first.             *)
series_stale == now - series_cache.fetched > SeriesTTL \/ cached_series = {}
(* Faulty variant: a delta counts as a full synchronisation. *)
full_due_when_stale == now - series_cache.fetched > FullResync
full_due == now - series_cache.full > FullResync

scan_idle == scan.phase = "idle"
scan_due == now - scan.started > ScanInterval
Batches(all) == { batch \cup pinned_series_needing_scan(all) : batch \in next_series_to_scan(all) }
NoAnswers(batch) == [s \in batch |-> [done |-> FALSE, failed |-> FALSE, rows |-> {}]]

(* _maybe_scan_catalog_batch, up to its first request.                        *)
maybe_scan_catalog_batch ==
  /\ scan_idle /\ scan_due
  /\ IF series_stale
     THEN scan' = [IdleScan EXCEPT !.phase = "series", !.started = now, !.full = cached_series = {} \/ full_due]
     ELSE \E batch \in Batches(cached_series) :
            scan' = [IdleScan EXCEPT !.phase = "markets", !.started = now, !.batch = batch, !.answers = NoAnswers(batch)]
  /\ UNCHANGED << exchange, messages, catalog, scanned_at, series_cache, discovery, budget >>

(* The list arrives. A full one notes the time of the full synchronisation at *)
(* once; what it says is merged only when the fee changes have arrived too.   *)
get_series_list ==
  /\ scan.phase = "series"
  /\ series_cache' = IF scan.full THEN [series_cache EXCEPT !.full = now] ELSE series_cache
  /\ scan' = [scan EXCEPT !.phase = "fees", !.list = [s \in Series |-> IF scan.full \/ s \in budget.changing THEN now ELSE Absent]]
  /\ UNCHANGED << exchange, messages, catalog, scanned_at, discovery, budget >>

merged(list) == [s \in Series |-> IF list[s] = Absent THEN series_cache.read[s] ELSE list[s]]

get_series_fee_changes ==
  /\ scan.phase = "fees"
  /\ LET read == merged(scan.list)
         all == { s \in Series : read[s] # Absent }
     IN  /\ series_cache' = [series_cache EXCEPT !.read = read, !.fetched = now]
         /\ \E batch \in Batches(all) :
              scan' = [scan EXCEPT !.phase = "markets", !.batch = batch, !.answers = NoAnswers(batch)]
  /\ UNCHANGED << exchange, messages, catalog, scanned_at, discovery, budget >>

(* A request for the list or the fees fails: the whole batch is given up.     *)
series_request_fails ==
  /\ scan.phase \in {"series", "fees"}
  /\ Spends("faults")
  /\ scan' = [IdleScan EXCEPT !.started = scan.started]
  /\ UNCHANGED << exchange, messages, catalog, scanned_at, series_cache, discovery >>

(* The markets of one series arrive, or do not.                               *)
get_markets(s, failed) ==
  /\ scan.phase = "markets" /\ s \in scan.batch /\ ~scan.answers[s].done
  /\ scan' = [scan EXCEPT !.answers[s] =
       [done |-> TRUE, failed |-> failed, rows |-> IF failed THEN {} ELSE { [market |-> k, closes |-> exchange[k].closes] : k \in OpenIn(s) }]]
  /\ IF failed THEN Spends("faults") ELSE UNCHANGED budget
  /\ UNCHANGED << exchange, messages, catalog, scanned_at, series_cache, discovery >>

(* Every answer is in: the rows are written as they were read, and only the   *)
(* series that answered count as scanned.                                     *)
upserted(rows) ==
  [k \in Markets |-> IF k \in Dated /\ \E r \in rows : r.market = k
                     THEN [status |-> "active", closes |-> (CHOOSE r \in rows : r.market = k).closes, updated |-> now]
                     ELSE catalog[k]]
finish_scan ==
  /\ scan.phase = "markets" /\ \A s \in scan.batch : scan.answers[s].done
  /\ catalog' = upserted(UNION { scan.answers[s].rows : s \in scan.batch })
  /\ scanned_at' = [s \in Series |-> IF s \in scan.batch /\ ~scan.answers[s].failed THEN now ELSE scanned_at[s]]
  /\ scan' = [IdleScan EXCEPT !.started = scan.started]
  /\ UNCHANGED << exchange, messages, series_cache, discovery, budget >>

(* The discovery refresh: which markets the catalog offers, of the first      *)
(* series only, and whether the exchange still trades them.                   *)
offered == { series \in SUBSET { SeriesOf[k] : k \in open_candidates } :
               Cardinality(series) <= TopSeries /\ (Cardinality(series) < TopSeries => \A k \in open_candidates : SeriesOf[k] \in series) }

maybe_refresh_discovery_cache ==
  /\ discovery.phase = "idle" /\ now - discovery.fetched > DiscoveryRefresh
  /\ \E series \in offered :
       LET selected == { k \in open_candidates : SeriesOf[k] \in series }
       IN  discovery' = IF selected = {}
                        THEN [discovery EXCEPT !.markets = {}, !.fetched = now, !.since = now, !.unconfirmed = {}]
                        ELSE [discovery EXCEPT !.phase = "confirm", !.started = now, !.asked = selected]
  /\ UNCHANGED << exchange, messages, catalog, scanned_at, series_cache, scan, budget >>

(* The confirmation. A market the answer leaves out is kept as the catalog    *)
(* has it; one the exchange no longer trades is dropped.                      *)
(* Faulty variant: only a settled market is dropped. *)
confirmed_unless_settled(k) == StatusOf(k) # "finalized"
confirmed(k) == StatusOf(k) \notin Terminal
confirm_discovery ==
  /\ discovery.phase = "confirm"
  /\ \E out \in SUBSET discovery.asked :
       /\ IF out = {} THEN UNCHANGED budget ELSE Spends("omits")
       /\ discovery' = [discovery EXCEPT !.phase = "idle", !.asked = {}, !.fetched = now, !.since = discovery.started, !.unconfirmed = out,
                          !.markets = out \cup { k \in discovery.asked : confirmed(k) }]
  /\ UNCHANGED << exchange, messages, catalog, scanned_at, series_cache, scan >>

confirmation_fails ==
  /\ discovery.phase = "confirm"
  /\ Spends("faults")
  /\ discovery' = [discovery EXCEPT !.phase = "idle", !.asked = {}]
  /\ UNCHANGED << exchange, messages, catalog, scanned_at, series_cache, scan >>

(* The scheduler triggers every second, and requests are answered in time.    *)
CatalogPrompt ==
  /\ "scan" \in budget.parts => IF scan_idle THEN ~scan_due ELSE now < scan.started + AnswerTime
  /\ "discovery" \in budget.parts =>
       IF discovery.phase = "idle" THEN now - discovery.fetched <= DiscoveryRefresh ELSE now < discovery.started + AnswerTime

(* A restart keeps the tables, and the list of series without the time of its *)
(* last full synchronisation.                                                 *)
restart_catalog ==
  /\ scan' = IdleScan
  /\ discovery' = IdleDiscovery
  /\ series_cache' = [series_cache EXCEPT !.full = Never]
  /\ messages' = {}
  /\ UNCHANGED << exchange, catalog, scanned_at >>

-------------------------------------------------------------------------------
NoFailureYet == budget.faults = budget.allowed /\ budget.omits = budget.omissions

(* A market that has settled leaves what discovery shows within one refresh,  *)
(* and one refresh never brings in a market that had settled or closed before *)
(* it began, whatever the scans and the stream wrote into the catalog and in  *)
(* whichever order: the rows may be stale or brought back to life by a late   *)
(* answer, the confirmation decides.                                          *)
DiscoveryIsCurrent ==
  \A k \in discovery.markets \ discovery.unconfirmed :
    /\ exchange[k].closes >= discovery.since
    /\ exchange[k].status = "finalized" =>
         /\ exchange[k].settled >= discovery.since
         /\ NoFailureYet => now - exchange[k].settled <= DiscoveryRefresh + 2 * AnswerTime

(* A finished batch in which nothing failed leaves every pinned series of the *)
(* list scanned recently, however many other series wait before it: those     *)
(* whose data has expired always come first, and may fill the batch for ever. *)
PinsAreScanned ==
  [][scan.phase = "markets" /\ scan'.phase = "idle" /\ budget' = budget /\ NoFailureYet =>
       \A s \in Watchlist \cap cached_series : now - scanned_at'[s] <= PinStale + 2 * AnswerTime]_catalogVars

(* Every cached volume was read within the window of a full synchronisation,  *)
(* also that of a series whose metadata never changes, which no delta         *)
(* mentions (the comment of _SERIES_CACHE_FULL_RESYNC_SEC). A restart during  *)
(* a full list costs the time it was awaited. The pass run checks it while    *)
(* the scan runs and no request has failed.                                   *)
Restarted(n) == n * AnswerTime
VolumesWithinWindow ==
  \A s \in cached_series :
    now - series_cache.read[s] <= FullResync + SeriesTTL + ScanInterval + 1 + 3 * AnswerTime + Restarted(budget.reboots - budget.restarts)
VolumesAreResynced == NoFailureYet /\ "scan" \in budget.parts => VolumesWithinWindow

(* What the catalog gives discovery and the scan is no older than its         *)
(* refreshes, in markets and in volumes.                                      *)
CatalogIsCurrent == DiscoveryIsCurrent /\ VolumesAreResynced
=============================================================================
