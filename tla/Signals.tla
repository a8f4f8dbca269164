-------------------------------- MODULE Signals -------------------------------
(* Whale signals as evidence: a print is scored on a worker thread against    *)
(* what the logs hold at that moment, the loop logs it and the edge gate      *)
(* prices it; the logged rows, less those of quarantined windows, calibrate   *)
(* the gate and fill the statistics. Factors are in parts of Full, prices in  *)
(* parts of Unit.                                                             *)
EXTENDS MarketHistory, SequencesExt

CONSTANTS
  SignalTickers,
  SeriesOf,           \* series_of
  Watched,            \* the markets of the watch list, whose volumes a print is ranked among
  Volume,             \* 24h volume of each market, 0 unreported
  CloseTime,          \* when each market closes, 0 unknown
  Weights,            \* DEFAULT_WEIGHTS
  MinContracts,
  AgreementLookback, ClusterLookback, TrendLookback, ProximityWindow, LeanFreshness,
  PrintOffset,        \* edge_gate_pre_print_offset_sec
  PrePrintMaxAge,     \* edge_gate_p_pre_max_age_sec
  StatsWindow,        \* the days of the statistics and of the calibration
  ClusterWindow,      \* the hours find_clusters looks back
  FeedSize,
  SampleWeight,       \* 1 / _MIN_CONTRACTS_SAMPLE_RATE
  MinSamples, CostBands,
  CategoryOf,         \* the category of each market, None if it has none
  PriceBands, MinBucket, FlatFeeSeries, FeeBuffer, MinEdgeOfGate,
  UsualMove, StaleAfter, GainReference, LossReference, MinResolved

VARIABLES
  scoring,            \* per worker, the signals it returned that are not handled yet
  logged,             \* the signals table
  feed,               \* state["signal_feed"], the newest first
  turned_down,        \* for the properties: the prints the watcher turned down, as they were recorded
  candidate_rows,     \* candidate_log: per table, which of them are buffered, in the writer's hands, stored
  ranges,             \* quarantine_ranges
  lean,               \* the analyst's newest estimate per market, with its time
  deltas              \* _delta_cache: the rows it was computed from and their q_pre

candidateVars == << turned_down, candidate_rows >>
signalVars == << scoring, logged, feed, candidateVars, ranges, lean, deltas >>

Full == 60
Unit == 6
None == -1
NoSide == "none"
Ungraded == "none"
CandidateTables == {"rejected_candidates", "rejection_events"}
Workers == {"stream", "retry"}   \* the pools of the stream and of the retries
SignalsInit ==
  /\ scoring = [w \in Workers |-> << >>] /\ logged = << >> /\ feed = << >>
  /\ turned_down = << >> /\ candidate_rows = [st \in CandidateTables |-> {}]
  /\ ranges = << >> /\ lean = [k \in SignalTickers |-> [value |-> None, at |-> 0]] /\ deltas = {}

Other(side) == IF side = "yes" THEN "no" ELSE "yes"
cost_of(side, price) == IF side = "yes" THEN price ELSE Unit - price
Clamp(x, lo, hi) == IF x < lo THEN lo ELSE IF x > hi THEN hi ELSE x
Abs(x) == IF x < 0 THEN -x ELSE x

(* What a score is computed from: the rows logged, the trend, the estimate.   *)
oldest_of(ids) == CHOOSE s \in ids : \A r \in ids : seen_prices[s].at < seen_prices[r].at \/ (seen_prices[s].at = seen_prices[r].at /\ s <= r)
momentum(k) ==
  LET in_window == { s \in SnapshotsOf(k) : now - TrendLookback <= seen_prices[s].at /\ seen_prices[s].at <= now }
      from == seen_prices[oldest_of(in_window)]
      to == seen_prices[newest_of(in_window)]
  IN  IF Cardinality(in_window) < 2 \/ 2 * (to.at - from.at) < TrendLookback THEN << >> ELSE << to.price - from.price >>
(* volatility, as a ratio to what is usual, in quarters: the spread of the    *)
(* moves between the prices of the window. One that did not move, or has too  *)
(* few, is no reading.                                                        *)
ByTime(r, s) == seen_prices[r].at < seen_prices[s].at \/ (seen_prices[r].at = seen_prices[s].at /\ r < s)
vol_ratio(k) ==
  LET window == SetToSortSeq({ s \in SnapshotsOf(k) : now - TrendLookback <= seen_prices[s].at /\ seen_prices[s].at <= now }, ByTime)
      moves == [i \in 1..Len(window) - 1 |-> seen_prices[window[i + 1]].price - seen_prices[window[i]].price]
      n == Len(window) - 1
      total == FoldLeft(LAMBDA sum, d : sum + d, 0, moves)
      spread == n * FoldLeft(LAMBDA sum, d : sum + d * d, 0, moves) - total * total   \* n * n times the variance
      quarters == { q \in 1..16 : q * q * UsualMove * UsualMove * n * n <= 16 * spread }
  IN  IF n < 2 \/ spread = 0 THEN 4 ELSE IF quarters = {} THEN 1 ELSE Max(quarters)
analyst_lean(k) == IF now - lean[k].at > LeanFreshness THEN None ELSE lean[k].value
View(k) == [rows |-> SelectSeq(logged, LAMBDA r : r.ticker = k), momentum |-> momentum(k), lean |-> analyst_lean(k)]

(* The nine factors of a print; an absent one is None.                        *)
_size_ratio_ok(a, b) == a > 0 /\ b > 0 /\ a <= 4 * b /\ b <= 4 * a
(* What is left of Full * 10^-x at every quarter of x, size over volume.      *)
Undepth == << 60, 34, 19, 11, 6, 3, 2, 1, 1 >>
depth_factor(p) ==
  IF Volume[p.ticker] = 0 THEN None
  ELSE LET quarters == (4 * p.size) \div Volume[p.ticker] IN Full - Undepth[1 + Clamp(quarters, 0, 8)]
unusualness_factor(p) == Full - (Full * Abs(2 * cost_of(p.side, p.price) - Unit)) \div Unit
proximity_factor(p) ==
  LET left == CloseTime[p.ticker] - now
  IN  IF CloseTime[p.ticker] # 0 /\ 0 < left /\ left <= ProximityWindow THEN Full - (Full * left) \div ProximityWindow ELSE 0
context_factor(p) ==
  IF Watched = {} THEN Full \div 2
  ELSE (Full * Cardinality({ k \in Watched : Volume[k] <= Volume[p.ticker] })) \div Cardinality(Watched)
agreement_factor(p, view) ==
  LET recent == SelectSeq(view.rows, LAMBDA r : r.at >= now - AgreementLookback)
  IN  IF recent = << >> THEN None ELSE (Full * Len(SelectSeq(recent, LAMBDA r : r.side = p.side))) \div Len(recent)
cluster_factor(p, view) ==
  LET matches == SelectSeq(view.rows, LAMBDA r : r.at >= now - ClusterLookback /\ r.side = p.side /\ _size_ratio_ok(r.size, p.size))
  IN  Clamp((Full * Len(matches)) \div 3, 0, Full)
(* The least move of a price here is beyond _TREND_FULL_SCALE.                *)
trend_factor(p, view) ==
  IF view.momentum = << >> THEN None
  ELSE (Full \div 2) * (1 + Clamp(IF p.side = "yes" THEN view.momentum[1] ELSE -view.momentum[1], -1, 1))
(* Faulty variant: the estimate as it is, whichever side was taken.           *)
lean_of_yes(p, view) == IF view.lean = None THEN Full \div 2 ELSE (Full \div Unit) * view.lean
analyst_factor(p, view) == IF view.lean = None THEN Full \div 2 ELSE (Full \div Unit) * cost_of(p.side, view.lean)

Factors(p, view) ==
  [depth |-> depth_factor(p), unusualness |-> unusualness_factor(p), proximity |-> proximity_factor(p), context |-> context_factor(p),
   agreement |-> agreement_factor(p, view), cluster |-> cluster_factor(p, view), trend |-> trend_factor(p, view),
   analyst |-> analyst_factor(p, view), block |-> IF p.block THEN Full ELSE 0]

(* The weighted mean of the factors there are; a partial configuration of     *)
(* weights changes only what it names.                                        *)
(* Faulty variant: every weight counts, as if an absent factor were nought.   *)
Present_all(factors) == DOMAIN factors
Present(factors) == { f \in DOMAIN factors : factors[f] # None }
SumOver(S, value(_)) == FoldSet(LAMBDA f, sum : sum + value(f), 0, S)
Score(factors, overrides) ==
  LET w(f) == IF f \in DOMAIN overrides THEN overrides[f] ELSE Weights[f]
      total == SumOver(Present(factors), w)
  IN  IF total > 0 THEN Clamp(SumOver(Present(factors), LAMBDA f : w(f) * factors[f]) \div total, 0, Full) ELSE Full \div 2

(* candidate_log.record_rejection: a print that is turned down is a row of    *)
(* both tables, the newest of its key in the one, one of many in the other,   *)
(* where those of one gate are only sampled.                                  *)
WhaleSized(p) == p.size # None /\ p.size >= MinContracts
CostIfKnown(p) == IF p.price = None THEN None ELSE cost_of(p.side, p.price)
Row(p, gate, cost) == [ticker |-> p.ticker, side |-> p.side, gate |-> gate, cost |-> cost, drawn |-> TRUE]
Rejection(p) ==
  CASE ~p.known -> Row(p, "market_unresolved", CostIfKnown(p))
    [] p.known /\ p.size = None -> Row(p, "unparseable_count", None)
    [] p.known /\ p.size # None /\ p.price = None -> Row(p, "unparseable_price", None)
    [] OTHER -> Row(p, IF WhaleSized(p) THEN "tradeable_price_range" ELSE "min_contracts", CostIfKnown(p))
Sampled == {"min_contracts"}
Deduped(table) == table = "rejected_candidates"
Key(row) == << row.ticker, row.gate >>
Submitted(table, log, ids) ==
  LET fresh == { i \in ids : Deduped(table) \/ log[i].drawn }
      superseded(i) == Deduped(table) /\ \E j \in fresh : j > i /\ Key(log[j]) = Key(log[i])
  IN  { r \in candidate_rows[table] : r.place = "buffered" => ~superseded(r.id) }
        \cup { [id |-> i, place |-> "buffered", result |-> Ungraded] : i \in { j \in fresh : ~superseded(j) } }
record_rejections(rows) ==
  \E drawn \in [DOMAIN rows -> BOOLEAN] :
    LET log == turned_down \o [i \in DOMAIN rows |-> [rows[i] EXCEPT !.drawn = drawn[i]]]
    IN  /\ \A i \in DOMAIN rows : rows[i].gate \in Sampled \/ drawn[i]
        /\ turned_down' = log
        /\ candidate_rows' = [table \in CandidateTables |-> Submitted(table, log, Len(turned_down) + 1..Len(log))]

(* A batch is written at once; a row of a key gives way to a newer one unless *)
(* it is graded already. Whoever reads the tables flushes them first, and may *)
(* overtake what the writer's thread has taken.                               *)
Written(table, place) ==
  LET rows == candidate_rows[table]
      arriving == { r \in rows : r.place = place }
      stored == { r \in rows : r.place = "stored" }
      SameKey(r, s) == Deduped(table) /\ Key(turned_down[r.id]) = Key(turned_down[s.id])
  IN  (rows \ (arriving \cup stored))
        \cup { s \in stored : s.result # Ungraded \/ \A r \in arriving : ~SameKey(r, s) }
        \cup { [r EXCEPT !.place = "stored"] : r \in { a \in arriving : \A s \in stored : SameKey(a, s) => s.result = Ungraded } }
(* Faulty variant: a report reads what is stored.                             *)
read_unflushed(table) == candidate_rows[table]
flushed(table) == Written(table, "buffered")

candidatesAlone == UNCHANGED << turned_down, scoring, logged, feed, ranges, lean, deltas, now, historyVars >>
daemon_takes_rows(table) ==
  /\ \E r \in candidate_rows[table] : r.place = "buffered"
  /\ \A r \in candidate_rows[table] : r.place # "taken"
  /\ candidate_rows' = [candidate_rows EXCEPT ![table] = { IF r.place = "buffered" THEN [r EXCEPT !.place = "taken"] ELSE r : r \in @ }]
  /\ candidatesAlone /\ UNCHANGED budget
daemon_writes_rows(table) ==
  /\ \E r \in candidate_rows[table] : r.place = "taken"
  /\ candidate_rows' = [candidate_rows EXCEPT ![table] = Written(table, "taken")]
  /\ candidatesAlone /\ UNCHANGED budget
rejections_read(table) ==
  /\ candidate_rows' = [candidate_rows EXCEPT ![table] = flushed(table)]
  /\ candidatesAlone /\ UNCHANGED budget
rejections_graded(k, result) ==
  /\ Spends("settlements")
  /\ candidate_rows' = [table \in CandidateTables |->
       { IF r.place = "stored" /\ r.result = Ungraded /\ turned_down[r.id].ticker = k THEN [r EXCEPT !.result = result] ELSE r : r \in flushed(table) }]
  /\ candidatesAlone

(* The reader's gate, when it filters: what is too small or cannot be counted *)
(* is recorded there and goes no further.                                     *)
ReaderRejection(p) == IF p.size = None THEN Row(p, "unparseable_count", None) ELSE Row(p, "min_contracts", CostIfKnown(p))
_gate_check_and_maybe_filter(p) ==
  /\ Spends("prints") /\ ~WhaleSized(p) /\ p.side # NoSide
  /\ record_rejections(<< ReaderRejection(p) >>)
  /\ UNCHANGED << scoring, logged, feed, ranges, lean, deltas, now, historyVars >>

(* _process_trades_sync: a batch is judged against the logs of one moment. A  *)
(* print without a side, or too small on a market nobody looked up, leaves no *)
(* trace; one that cannot be read, is too small, or is at a price that cannot *)
(* be traded is recorded as rejected. The prints are those the seen ring lets *)
(* through (CandidatePath).                                                   *)
Judged(p) == p.side # NoSide /\ (p.known \/ WhaleSized(p))
Qualifies(p) == Judged(p) /\ p.known /\ WhaleSized(p) /\ p.price # None /\ cost_of(p.side, p.price) \in 1..Unit - 1
Scored(p, overrides) ==
  LET factors == Factors(p, View(p.ticker))
  IN  [print |-> p, factors |-> factors, overrides |-> overrides, score |-> Score(factors, overrides)]
_process_trades_sync(w, batch, overrides) ==
  LET signals == SelectSeq(batch, Qualifies)
  IN  /\ Takes("signals") /\ scoring[w] = << >> /\ Spends("prints")
      /\ scoring' = [scoring EXCEPT ![w] = [i \in DOMAIN signals |-> Scored(signals[i], overrides)]]
      /\ record_rejections(LET refused == SelectSeq(batch, LAMBDA p : Judged(p) /\ ~Qualifies(p)) IN [i \in DOMAIN refused |-> Rejection(refused[i])])
      /\ UNCHANGED << logged, feed, ranges, lean, deltas, now, historyVars >>

(* The loop: the row carries the time of the trade, and the edge gate takes   *)
(* the price a while before it. No tick ever sets experiment_active. A trade  *)
(* that was claimed before, by the other path, is dropped whole.              *)
closed_ranges == { q \in 1..Len(ranges) : ranges[q].to # None }
(* Faulty variant: the price a while before the decision.                     *)
p_pre_at_decision(p) == PriceAmong(SnapshotsOf(p.ticker), now - PrintOffset, PrePrintMaxAge)
p_pre(p) == PriceAmong(SnapshotsOf(p.ticker), p.at - PrintOffset, PrePrintMaxAge)
q_pre(p) == IF p_pre(p) = NoPrice THEN NoPrice ELSE cost_of(p.side, p_pre(p))
_handle_signal(w, claimed) ==
  /\ scoring[w] # << >>
  /\ scoring' = [scoring EXCEPT ![w] = Tail(@)]
  /\ IF ~claimed THEN Spends("faults") /\ UNCHANGED << logged, feed >>
     ELSE LET s == Head(scoring[w])
              p == s.print
          IN  /\ logged' = Append(logged, [ticker |-> p.ticker, side |-> p.side, size |-> p.size, price |-> p.price, at |-> p.at, factors |-> s.factors,
                                            overrides |-> s.overrides, score |-> s.score, excluded |-> FALSE, resolved |-> FALSE, correct |-> FALSE,
                                            served |-> q_pre(p), known |-> snapshots, came_after |-> closed_ranges, freed |-> FALSE, orphan |-> FALSE])
              /\ feed' = SubSeq(<< [ticker |-> p.ticker, side |-> p.side, size |-> p.size, score |-> s.score, at |-> p.at] >> \o feed, 1, Clamp(Len(feed) + 1, 1, FeedSize))
              /\ UNCHANGED budget
  /\ UNCHANGED << candidateVars, ranges, lean, deltas, now, historyVars >>

LoggedRows == 1..Len(logged)
Changed(ids, new(_)) == [i \in LoggedRows |-> IF i \in ids THEN new(logged[i]) ELSE logged[i]]
resolve_from_market_results(k, result) ==
  /\ Takes("signals") /\ Spends("settlements")
  /\ logged' = Changed({ i \in LoggedRows : logged[i].ticker = k /\ ~logged[i].resolved }, LAMBDA r : [r EXCEPT !.resolved = TRUE, !.correct = r.side = result])
  /\ UNCHANGED << scoring, candidateVars, feed, ranges, lean, deltas, now, historyVars >>

analyze_market(k, value) ==
  /\ Takes("signals") /\ Spends("moves")
  /\ lean' = [lean EXCEPT ![k] = [value |-> value, at |-> now]]
  /\ UNCHANGED << scoring, logged, candidateVars, feed, ranges, deltas, now, historyVars >>
(* data_quarantine: a window marks its rows when it is stopped, or afterwards;*)
(* the mark and the record are two databases, and the process may end between.*)
Covered(q) == { i \in LoggedRows : ranges[q].from < logged[i].at /\ logged[i].at <= ranges[q].to }
InWindow(from, to) == { i \in LoggedRows : from < logged[i].at /\ logged[i].at <= to }
Marked(ids, recorded) == Changed(ids, LAMBDA r : [r EXCEPT !.excluded = TRUE, !.freed = FALSE, !.orphan = ~recorded])
open_ranges == { q \in 1..Len(ranges) : ranges[q].to = None }
start_window ==
  /\ Takes("signals") /\ open_ranges = {} /\ Spends("edits")
  /\ ranges' = Append(ranges, [from |-> now, to |-> None, released |-> FALSE])
  /\ UNCHANGED << scoring, logged, candidateVars, feed, lean, deltas, now, historyVars >>
stop_window(q, recorded) ==
  /\ q \in open_ranges
  /\ logged' = Marked(InWindow(ranges[q].from, now), recorded)
  /\ IF recorded THEN ranges' = [ranges EXCEPT ![q].to = now] /\ UNCHANGED budget ELSE UNCHANGED ranges /\ Spends("faults")
  /\ UNCHANGED << scoring, candidateVars, feed, lean, deltas, now, historyVars >>
quarantine(after, before, recorded) ==
  /\ Takes("signals") /\ IF recorded THEN Spends("edits") ELSE Spends("faults")
  /\ logged' = Marked(InWindow(after, before), recorded)
  /\ ranges' = IF recorded THEN Append(ranges, [from |-> after, to |-> before, released |-> FALSE]) ELSE ranges
  /\ UNCHANGED << scoring, candidateVars, feed, lean, deltas, now, historyVars >>
(* Every row of the range counts again, those of an overlapping one as well.  *)
(* Faulty variant: everything up to its end.                                  *)
restored_up_to(q) == { i \in LoggedRows : logged[i].at <= ranges[q].to }
restored(q) == Covered(q)
release(q, recorded) ==
  /\ q \in closed_ranges /\ ~ranges[q].released
  /\ logged' = Changed(restored(q), LAMBDA r : [r EXCEPT !.excluded = FALSE, !.orphan = FALSE, !.freed = r.at > ranges[q].from])
  /\ IF recorded THEN ranges' = [ranges EXCEPT ![q].released = TRUE] /\ UNCHANGED budget ELSE UNCHANGED ranges /\ Spends("faults")
  /\ UNCHANGED << scoring, candidateVars, feed, lean, deltas, now, historyVars >>

(* What the statistics read of their window: every reader has a query of its  *)
(* own.                                                                       *)
Since(window) == { i \in LoggedRows : logged[i].at >= now - window }
(* Faulty variant: the report by series counts what is quarantined.           *)
all_series_rows_any == { i \in Since(StatsWindow) : logged[i].resolved }
all_series_rows == { i \in Since(StatsWindow) : logged[i].resolved /\ ~logged[i].excluded }
AllSeries == { SeriesOf[k] : k \in SignalTickers }
OfSeries(ids, series) == { i \in ids : SeriesOf[logged[i].ticker] = series }
Tally(ids) == << Cardinality(ids), Cardinality({ i \in ids : logged[i].correct }) >>
stats == Tally({ i \in Since(StatsWindow) : logged[i].resolved /\ ~logged[i].excluded })
all_series_stats == [series \in AllSeries |-> Tally(OfSeries(all_series_rows, series))]
series_stats_bulk ==
  [k \in SignalTickers |-> Tally({ i \in OfSeries(Since(StatsWindow), SeriesOf[k]) : logged[i].resolved /\ ~logged[i].excluded })]
resolved_signals_with_factors(since) == SelectSeq(logged, LAMBDA r : r.resolved /\ ~r.excluded /\ r.at >= since)

(* find_clusters: runs of prints of one market and side, each close to the    *)
(* one before it in time and size.                                            *)
Before(i, j) == logged[i].at < logged[j].at \/ (logged[i].at = logged[j].at /\ i < j)
Follows(i, j) == logged[j].at - logged[i].at <= ClusterLookback /\ _size_ratio_ok(logged[j].size, logged[i].size)
(* Faulty variant: each print is compared with the first of its run.          *)
joins_first(run, j) == run # << >> /\ Follows(Head(run), j)
joins(run, j) == run # << >> /\ Follows(Last(run), j)
RunsOf(ids) ==
  LET step(acc, j) == IF joins(acc.run, j) THEN [acc EXCEPT !.run = Append(@, j)]
                      ELSE [runs |-> acc.runs \cup {acc.run}, run |-> << j >>]
      scan == FoldLeft(step, [runs |-> {}, run |-> << >>], SetToSortSeq(ids, Before))
  IN  { run \in scan.runs \cup {scan.run} : Len(run) > 1 }
find_clusters ==
  UNION { RunsOf({ i \in Since(ClusterWindow) : logged[i].ticker = k /\ logged[i].side = s }) : k \in SignalTickers, s \in {"yes", "no"} }

(* recompute_deltas: what happened against the price before each print, which *)
(* is looked up again; a row without one is left out. The category of a       *)
(* market is the one recorded when the account traded it. With no row at all  *)
(* the cache stays as it is. Its buckets are a function of these rows.        *)
resolved_signals_for_edge_calibration(since) == { i \in LoggedRows : logged[i].resolved /\ ~logged[i].excluded /\ logged[i].at >= since }
recorded_category(k) == IF \E t \in 1..Len(history_trades) : history_trades[t].ticker = k THEN CategoryOf[k] ELSE None
EdgeRow(i) ==
  LET r == logged[i]
  IN  [row |-> i, at |-> r.at, served |-> r.served, late |-> SnapshotsOf(r.ticker) \ r.known, category |-> recorded_category(r.ticker), q |-> q_pre(r), correct |-> r.correct]
recompute_deltas ==
  LET rows == resolved_signals_for_edge_calibration(now - StatsWindow)
  IN  /\ Takes("signals") /\ Spends("reads")
      /\ deltas' = IF rows = {} THEN deltas ELSE { d \in { EdgeRow(i) : i \in rows } : d.q # NoPrice }
      /\ UNCHANGED << scoring, logged, candidateVars, feed, ranges, lean, now, historyVars >>

(* _edge_gate_check: what the side is worth by its price before the print,    *)
(* moved by what markets of its category at such a price turned out to be     *)
(* worth, against what it costs. Worths are in parts of n * Unit, n the rows  *)
(* of the bucket; a bucket of too few says nothing.                           *)
PriceBand(q) == Cardinality({ b \in PriceBands : b <= q })
Bucket_of(k, q) == { d \in deltas : d.category # None /\ d.category = CategoryOf[k] /\ PriceBand(d.q) = PriceBand(q) }
delta_calibrated_for(k, q) ==
  LET rows == Bucket_of(k, q)
  IN  IF Cardinality(rows) < MinBucket THEN [n |-> 1, sum |-> 0]
      ELSE [n |-> Cardinality(rows), sum |-> SumOver(rows, LAMBDA d : (IF d.correct THEN Unit ELSE 0) - d.q)]
Estimate(k, q) == LET delta == delta_calibrated_for(k, q) IN [n |-> delta.n, p_est |-> Clamp(delta.n * q + delta.sum, 1, delta.n * Unit - 1)]
taker_fee_per_contract(price) == 7 * price * (Unit - price)   \* in parts of 100 * Unit * Unit, like the buffer
Edge(side, price, est) == 100 * Unit * (est.p_est - est.n * cost_of(side, price)) - est.n * (taker_fee_per_contract(price) + FeeBuffer)
_edge_gate_check(k, side, price, as_of) ==
  LET before == PriceAmong(SnapshotsOf(k), as_of - PrintOffset, PrePrintMaxAge)
      est == Estimate(k, cost_of(side, before))
  IN  IF SeriesOf[k] \in FlatFeeSeries \/ before = NoPrice THEN "not evaluated"
      ELSE IF Edge(side, price, est) < est.n * MinEdgeOfGate THEN "refused" ELSE "admitted"

(* What the rejected candidates are said to have come to: per gate of the one *)
(* table and of the other, and by what they would have cost.                  *)
Stored(table) == { r \in flushed(table) : r.place = "stored" }
OfGate(table, gate) == { r \in Stored(table) : turned_down[r.id].gate = gate }
GatesSeen == { turned_down[i].gate : i \in DOMAIN turned_down }
Graded(rows) == { r \in rows : r.result # Ungraded }
WonAmong(rows) == { r \in rows : r.result = turned_down[r.id].side }
Costed(rows) == { r \in rows : turned_down[r.id].cost # None }
CostTotal(rows) == SumOver(Costed(rows), LAMBDA r : turned_down[r.id].cost)
gate_summary(gate) ==
  LET rows == OfGate("rejected_candidates", gate)
  IN  [rejected |-> Cardinality(rows), resolved |-> Cardinality(Graded(rows)), wins |-> Cardinality(WonAmong(rows)), costed |-> Cardinality(Costed(rows))]
population_gate_summary(gate) ==
  LET rows == OfGate("rejection_events", gate)
      weight == IF gate \in Sampled THEN SampleWeight ELSE 1
      sided == Graded(rows)
  IN  [rejected |-> weight * Cardinality(rows), resolved |-> weight * Cardinality(sided), sided |-> Cardinality(sided), wins |-> Cardinality(WonAmong(sided)),
       ready |-> sided # {} /\ Cardinality(sided) >= MinSamples]
(* Faulty variant: a band does not hold its lower bound.                      *)
band_above(cost) == { b \in 1..Len(CostBands) : CostBands[b].low < cost /\ cost <= CostBands[b].high }
band_of(cost) == { b \in 1..Len(CostBands) : CostBands[b].low <= cost /\ cost < CostBands[b].high }
OutOfRange == 0
band_label(cost) == IF band_of(cost) = {} THEN OutOfRange ELSE CHOOSE b \in band_of(cost) : \A c \in band_of(cost) : b <= c
population_gate_summary_banded(gate, band) ==
  LET rows == { r \in Costed(Graded(OfGate("rejection_events", gate))) : band_label(turned_down[r.id].cost) = band }
  IN  [n |-> Cardinality(rows), wins |-> Cardinality(WonAmong(rows)), gain |-> Unit * Cardinality(WonAmong(rows)) - CostTotal(rows), ready |-> Cardinality(rows) >= MinSamples]

(* exit_engine: how strongly a moment argues for leaving a position, from its *)
(* gain or loss in the measure of the market's own unrest, the prints of the  *)
(* feed, the estimate and the record of its series.                           *)
ExitView(k) == [prints |-> SelectSeq(feed, LAMBDA r : r.ticker = k), lean |-> analyst_lean(k), record |-> series_stats_bulk[k], unrest |-> vol_ratio(k)]
LeanWeight(seen, side) == FoldLeft(LAMBDA sum, r : IF r.side = side THEN sum + r.size * r.score ELSE sum, 0, seen)
_whale_lean(seen, side) ==
  LET against == LeanWeight(seen, Other(side))
      total == against + LeanWeight(seen, side)
  IN  IF seen = << >> THEN None ELSE IF total = 0 THEN 0 ELSE Clamp((Full * (2 * against - total)) \div total, 0, Full)
staleness(seen) == IF seen = << >> THEN None ELSE Clamp((Full * (now - Max({ seen[i].at : i \in DOMAIN seen }))) \div StaleAfter, 0, Full)
pnl_factor(pnl, unrest) ==
  LET reference == IF pnl >= 0 THEN GainReference ELSE LossReference
  IN  Clamp((4 * Full * Abs(pnl)) \div (reference * unrest), 0, Full)
ExitFactors(side, pnl, view, weights) ==
  [pnl |-> pnl_factor(pnl, view.unrest),
   sentiment |-> _whale_lean(view.prints, side),
   staleness |-> staleness(view.prints),
   analyst_divergence |-> IF view.lean = None THEN None ELSE Clamp((Full * (Unit - 2 * cost_of(side, view.lean))) \div Unit, 0, Full),
   series_track_record |-> IF weights.series_track_record = 0 \/ view.record[1] < MinResolved THEN None
                           ELSE Clamp((Full * (view.record[1] - 2 * view.record[2])) \div view.record[1], 0, Full)]
_exit_confidence(side, pnl, view, weights) ==
  LET factors == ExitFactors(side, pnl, view, weights)
      total == SumOver(Present(factors), LAMBDA f : weights[f])
  IN  IF total > 0 THEN SumOver(Present(factors), LAMBDA f : weights[f] * factors[f]) \div total ELSE 0

clear_range(after, before) ==
  /\ Takes("signals") /\ Spends("resets")
  /\ logged' = SelectSeq(logged, LAMBDA r : ~(after < r.at /\ r.at <= before))
  /\ UNCHANGED << scoring, candidateVars, feed, ranges, lean, deltas, now, historyVars >>

(* A retry scores one print, the stream what came together.                   *)
Batches(w) == UNION { [1..n -> budget.pool] : n \in 1..IF w = "retry" THEN 1 ELSE budget.batch }
Late(batch, late) == [i \in DOMAIN batch |-> [batch[i] EXCEPT !.at = now - late]]

SignalsNext ==
  \/ \E w \in Workers \cap budget.scorers :
       \/ \E claimed \in BOOLEAN : _handle_signal(w, claimed)
       \/ \E batch \in Batches(w), late \in 0..budget.lag, o \in budget.overrides : late <= now /\ _process_trades_sync(w, Late(batch, late), o)
  \/ \E k \in SignalTickers : \/ \E r \in {"yes", "no"} : resolve_from_market_results(k, r)
                               \/ \E v \in 1..Unit - 1 : analyze_market(k, v)
  \/ start_window
  \/ \E recorded \in BOOLEAN :
       \/ \E q \in 1..Len(ranges) : stop_window(q, recorded) \/ release(q, recorded)
       \/ \E after, before \in -1..now : after < before /\ quarantine(after, before, recorded)
  \/ recompute_deltas
  \/ /\ Takes("candidates")
     /\ \/ \E table \in CandidateTables : daemon_takes_rows(table) \/ daemon_writes_rows(table) \/ rejections_read(table)
        \/ \E k \in SignalTickers, r \in {"yes", "no"} : rejections_graded(k, r)
        \/ \E p \in budget.pool : _gate_check_and_maybe_filter(p)
  \/ \E after, before \in -1..now : after < before /\ clear_range(after, before)

(* A score is a mean of what is known (confidence_scoring.py:325-351): under  *)
(* any configuration of weights it lies between the least and the greatest of *)
(* the factors that count, an absent one neither raising nor lowering it.     *)
ScoreLiesAmongFactors ==
  \A i \in LoggedRows :
    LET r == logged[i]
        counted == { f \in DOMAIN r.factors : r.factors[f] # None /\ (f \in DOMAIN r.overrides => r.overrides[f] > 0) }
    IN  IF counted = {} THEN r.score = Full \div 2
        ELSE \E f, g \in counted : r.factors[f] <= r.score /\ r.score <= r.factors[g]

(* Neither side is favoured (kalshi_trade_tape.py:127-221): a print and its   *)
(* mirror image, the other side at the complementary price with the history,  *)
(* the trend and the estimate mirrored too, have the same factors.            *)
SidesAreSymmetric ==
  \A p \in budget.pool :
    LET view == View(p.ticker)
        mirrored == [rows |-> [i \in DOMAIN view.rows |-> [view.rows[i] EXCEPT !.side = Other(@)]],
                     momentum |-> IF view.momentum = << >> THEN << >> ELSE << -view.momentum[1] >>,
                     lean |-> IF view.lean = None THEN None ELSE Unit - view.lean]
    IN  Qualifies(p) => Factors(p, view) = Factors([p EXCEPT !.side = Other(@), !.price = Unit - @], mirrored)

(* The gate is calibrated on the prices it judged by (strategy_engine.py:275, *)
(* confidence_calibration.py:482-535): the price looked up for a logged row,  *)
(* however late, is the one its signal was served, unless an earlier stamp    *)
(* was written since.                                                         *)
CalibratedAsServed ==
  \A d \in deltas : \/ d.q = d.served
                    \/ \E s \in d.late : seen_prices[s].at <= d.at - PrintOffset

(* A quarantine is attributed and can be undone (data_quarantine.py:97-168):  *)
(* what is excluded is in a range on record that was not released, or a crash *)
(* fell between; what such a range covers is excluded, unless it was logged   *)
(* after the range was closed or an overlapping release restored it.          *)
QuarantineIsReversible ==
  LET standing == { q \in closed_ranges : ~ranges[q].released }
  IN  \A i \in LoggedRows :
        /\ logged[i].excluded => logged[i].orphan \/ \E q \in standing : i \in Covered(q)
        /\ ~logged[i].excluded => \A q \in standing : i \in Covered(q) => logged[i].freed \/ q \in logged[i].came_after

(* The statistics agree (signal_log.py:469-588, 734-823, 998-1015): what is   *)
(* reported for the series adds up to what is reported over all, a market     *)
(* reads the report of its series, and the evidence of the window is what is  *)
(* counted, whichever query it is.                                            *)
StatisticsAgree ==
  /\ \A k \in SignalTickers : series_stats_bulk[k] = all_series_stats[SeriesOf[k]]
  /\ \A n \in {1, 2} : FoldSet(LAMBDA series, sum : sum + all_series_stats[series][n], 0, AllSeries) = stats[n]
  /\ Len(resolved_signals_with_factors(now - StatsWindow)) = stats[1]

(* find_clusters (signal_log.py:952-995) splits each side of a market exactly *)
(* where a print does not follow the one before it: two neighbours are in one *)
(* cluster just when they follow each other, and none is in two.              *)
ClustersAreRuns ==
  LET recent == Since(ClusterWindow)
      SameRun(i, j) == logged[j].ticker = logged[i].ticker /\ logged[j].side = logged[i].side
      neighbours == { ij \in recent \X recent :
        /\ Before(ij[1], ij[2]) /\ SameRun(ij[1], ij[2])
        /\ \A j \in recent : SameRun(ij[1], j) => ~(Before(ij[1], j) /\ Before(j, ij[2])) }
  IN  \A ij \in neighbours : Follows(ij[1], ij[2]) <=> \E run \in find_clusters : \E n \in 1..Len(run) - 1 : << run[n], run[n + 1] >> = ij

(* The gate's verdict is about the price (strategy_engine.py:233-308): what   *)
(* is admitted at one price is admitted at any that costs less, and whether   *)
(* it can be judged at all does not depend on the price; what it estimates    *)
(* stays between worthless and certain whatever the bucket says.              *)
EdgeIsAboutThePrice ==
  \A k \in SignalTickers, held \in budget.exits :
    LET verdict == [price \in 1..Unit - 1 |-> _edge_gate_check(k, held.side, price, now)]
    IN  \A dear, cheap \in DOMAIN verdict :
          cost_of(held.side, cheap) <= cost_of(held.side, dear) =>
            /\ verdict[dear] = "admitted" => verdict[cheap] = "admitted"
            /\ verdict[dear] = "not evaluated" <=> verdict[cheap] = "not evaluated"

(* An exit is argued for by evidence (exit_engine.py:480-659): the pressure   *)
(* lies among the factors there are, it is the same for the mirror image of   *)
(* the position, and a print of the held side never adds to the sentiment     *)
(* against it, nor takes one of the other side away from it.                  *)
ExitsAreArgued ==
  \A k \in SignalTickers, held \in budget.exits :
    LET view == ExitView(k)
        factors == ExitFactors(held.side, held.pnl, view, held.weights)
        counted == { f \in Present(factors) : held.weights[f] > 0 }
        pressure == _exit_confidence(held.side, held.pnl, view, held.weights)
        mirrored == [view EXCEPT !.prints = [i \in DOMAIN @ |-> [@[i] EXCEPT !.side = Other(@)]], !.lean = IF @ = None THEN None ELSE Unit - @]
    IN  /\ IF counted = {} THEN pressure = 0 ELSE \E f, g \in counted : factors[f] <= pressure /\ pressure <= factors[g]
        /\ pressure = _exit_confidence(Other(held.side), held.pnl, mirrored, held.weights)
        /\ Len(view.prints) > 1 => \A i \in DOMAIN view.prints :
             LET less == _whale_lean(RemoveAt(view.prints, i), held.side)
             IN  IF view.prints[i].side = held.side THEN factors.sentiment <= less ELSE less <= factors.sentiment

(* Every rejection is accounted for (candidate_log.py:605-782, 828-1058): the *)
(* reports have each event that was drawn and each candidate once, but for    *)
(* what the writer's thread has in its hands; the rows of a market have one   *)
(* result; the bands of a gate add up to it in number, wins and gain, without *)
(* a row out of range, and no band is told of a gate that is not ready.       *)
RejectionsAreAccounted ==
  LET Taken(table) == { r \in candidate_rows[table] : r.place = "taken" }
      bands == 0..Len(CostBands)
      Over(gate, value(_)) == SumOver(bands, LAMBDA b : value(population_gate_summary_banded(gate, b)))
  IN  /\ { r.id : r \in Stored("rejection_events") \cup Taken("rejection_events") } = { i \in DOMAIN turned_down : turned_down[i].drawn }
      /\ \A i \in DOMAIN turned_down :
           LET same(r) == Key(turned_down[r.id]) = Key(turned_down[i])
               kept == { r \in Stored("rejected_candidates") : same(r) }
           IN  Cardinality(kept) = 1 \/ (kept = {} /\ \E r \in Taken("rejected_candidates") : same(r))
      /\ \A gate \in GatesSeen :
           LET all == population_gate_summary(gate)
               known == Costed(Graded(OfGate("rejection_events", gate)))
           IN  /\ Over(gate, LAMBDA g : g.n) = Cardinality(known) /\ Over(gate, LAMBDA g : g.wins) = Cardinality(WonAmong(known))
               /\ Over(gate, LAMBDA g : g.gain) = Unit * Cardinality(WonAmong(known)) - CostTotal(known)
               /\ population_gate_summary_banded(gate, OutOfRange).n = 0
               /\ \A b \in bands : population_gate_summary_banded(gate, b).ready => all.ready
               /\ gate \notin Sampled /\ Taken("rejection_events") = {} => gate_summary(gate).rejected <= all.rejected

(* The reader's gate loses nothing (websocket.py:1089-1169): what it filters  *)
(* would not have been scored, and what scoring would have put on record of   *)
(* it is on record from there, under the same gate and cost when both could   *)
(* be read.                                                                   *)
FilteredIsOnRecord ==
  \A p \in budget.pool :
    ~WhaleSized(p) => /\ ~Qualifies(p)
                      /\ Judged(p) => /\ p.side # NoSide
                                      /\ p.price # None => ReaderRejection(p) = Rejection(p)

(* What is said of the logged signals, in the scenarios that log any.         *)
SignalsAreEvidence ==
  Takes("signals") => /\ ScoreLiesAmongFactors /\ SidesAreSymmetric /\ CalibratedAsServed
                      /\ QuarantineIsReversible /\ StatisticsAgree /\ ClustersAreRuns
                      /\ EdgeIsAboutThePrice /\ ExitsAreArgued
                      /\ RejectionsAreAccounted /\ FilteredIsOnRecord
=============================================================================
