------------------------------ MODULE MarketHistory ---------------------------
(* What is recorded of the markets as they move. First, the trade tape of a   *)
(* tick without the stream: the prints of every watched market since the last *)
(* tick are fetched, captured and shown to the whale watcher, one step of the *)
(* tick after the other; a step that raises ends it.                          *)
EXTENDS Runtime, Functions

CONSTANTS
  TapeTickers,        \* the watched markets
  Overlap,            \* how far before the watermark is fetched (ten seconds)
  PageLimit,          \* _TRADE_TAPE_FETCH_LIMIT
  MaxPages,           \* _TRADE_TAPE_MAX_PAGES_PER_TICKER
  MaxSeen             \* _MAX_SEEN_TRADE_IDS

(* The overlap is there for what the exchange serves late: it is no smaller   *)
(* than the delay, but for the watermark's own second.                        *)
ASSUME TapeAssumption ==
  /\ Overlap \in Nat /\ MaxSeen \in Nat \ {0}
  /\ \A s \in Scenarios : "lag" \in DOMAIN s /\ s.lag \in 0..Overlap + 1

VARIABLES
  prints,             \* the trades of the exchange: their market and second
  tick,               \* the tick under way: its step, tick_now, what it fetched
  watermark,          \* trade_tape_last_fetch_ts (-1: none)
  captured,           \* series_watcher: raw_trades, one row a trade_id
  _seen_order,        \* the watcher's ring of what it has seen, oldest first
  judged,             \* for the property alone: what was judged, in order, and the restarts
  excused             \* for the property alone: prints a fault or a full tape cost

tapeVars == << prints, tick, watermark, captured, _seen_order, judged, excused >>

Resting == [pc |-> "sleep", since |-> -1, now |-> 0, left |-> {}, tape |-> {}]
TapeInit ==
  /\ prints = << >> /\ tick = Resting /\ watermark = -1
  /\ captured = {} /\ _seen_order = << >> /\ judged = << >> /\ excused = {}

Ids == DOMAIN prints
Of(k, ids) == { p \in ids : prints[p].ticker = k }
Restarted == 0      \* what `judged` has for a restart: no print has this number

print_made(k) ==
  /\ Takes("tape") /\ Spends("prints")
  /\ prints' = Append(prints, [ticker |-> k, at |-> now])
  /\ UNCHANGED << tick, watermark, captured, _seen_order, judged, excused, now >>

(* The time of the tick is taken once its settlements are recorded, before    *)
(* anything of the tape is asked for.                                         *)
trading_loop ==
  /\ Takes("tape") /\ tick.pc = "sleep" /\ Spends("ticks")
  /\ tick' = [pc |-> "fetching", since |-> watermark, now |-> now, left |-> TapeTickers, tape |-> {}]
  /\ UNCHANGED << prints, watermark, captured, _seen_order, judged, excused, now >>

(* Every market at once; a page holds so many of the newest, and without a    *)
(* watermark there is only one. The newest prints may not be served yet.      *)
(* Faulty variant: from the watermark on.                                     *)
min_ts_exact == tick.since
min_ts == tick.since - Overlap
Served == { p \in Ids : prints[p].at + budget.lag <= now }
Newest(ids, n) == { p \in ids : Cardinality({ q \in ids : q > p }) < n }
Wanted(k) == IF tick.since = -1 THEN Of(k, Ids) ELSE { p \in Of(k, Ids) : prints[p].at >= min_ts }
_fetch_trades_for_ticker(k) ==
  Newest(Wanted(k) \cap Served, IF tick.since = -1 THEN PageLimit ELSE PageLimit * MaxPages)

_fetch_trade_tape(k, answers) ==
  /\ tick.pc = "fetching" /\ k \in tick.left
  /\ IF answers THEN UNCHANGED budget ELSE Spends("faults")
  /\ LET got == IF answers THEN _fetch_trades_for_ticker(k) ELSE {}
     IN  /\ tick' = [tick EXCEPT !.left = @ \ {k}, !.tape = @ \cup got]
         /\ excused' = excused \cup IF answers THEN (Wanted(k) \cap Served) \ got ELSE Of(k, Ids)
  /\ UNCHANGED << prints, watermark, captured, _seen_order, judged, now >>

(* A market that did not answer is left out without a word, and the watermark *)
(* advances all the same.                                                     *)
tape_fetched ==
  /\ tick.pc = "fetching" /\ tick.left = {}
  /\ watermark' = tick.now
  /\ tick' = [tick EXCEPT !.pc = "capturing"]
  /\ UNCHANGED << prints, captured, _seen_order, judged, excused, budget, now >>

_flush_trade_capture ==
  /\ tick.pc = "capturing"
  /\ captured' = captured \cup tick.tape
  /\ tick' = [tick EXCEPT !.pc = "detecting"]
  /\ UNCHANGED << prints, watermark, _seen_order, judged, excused, budget, now >>

(* The watcher goes through the tape from the newest print on, and takes its  *)
(* lock for one at a time: what is in the ring is skipped, what is not is     *)
(* marked and judged. The ring lets go of its oldest beyond its bound.        *)
(* Faulty variants: what is in the ring is judged again; a full ring lets go  *)
(* of what it has just been given.                                            *)
already_seen_never(p) == FALSE
already_seen(p) == p \in Range(_seen_order)
_mark_seen_newest_out(p) == IF Len(_seen_order) < MaxSeen THEN Append(_seen_order, p) ELSE _seen_order
_mark_seen_locked(p) == IF Len(_seen_order) < MaxSeen THEN Append(_seen_order, p) ELSE Append(Tail(_seen_order), p)
print_judged(p) ==
  /\ tick.pc = "detecting" /\ p \in tick.tape /\ \A q \in tick.tape : q <= p
  /\ tick' = [tick EXCEPT !.tape = @ \ {p}]
  /\ IF already_seen(p) THEN UNCHANGED << _seen_order, judged >>
     ELSE _seen_order' = _mark_seen_locked(p) /\ judged' = Append(judged, p)
  /\ UNCHANGED << prints, watermark, captured, excused, budget, now >>

fetch_signals ==
  /\ tick.pc = "detecting" /\ tick.tape = {}
  /\ tick' = Resting
  /\ UNCHANGED << prints, watermark, captured, _seen_order, judged, excused, budget, now >>

(* The watcher raises and the simulator takes its place, or a step before it  *)
(* raises and the tick is over. What the watcher had marked stays marked.     *)
tick_cut ==
  /\ tick.pc \in {"fetching", "capturing", "detecting"} /\ Spends("faults")
  /\ tick' = Resting
  /\ excused' = IF tick.pc = "fetching" THEN excused ELSE excused \cup tick.tape
  /\ UNCHANGED << prints, watermark, captured, _seen_order, judged, now >>

(* The ring and the watermark are the process's: the first tick afterwards    *)
(* fetches the newest page once more and judges what is on it.                *)
stopped_and_started ==
  /\ Takes("tape") /\ Spends("restarts")
  /\ tick' = Resting /\ watermark' = -1
  /\ _seen_order' = << >> /\ judged' = Append(judged, Restarted)
  /\ UNCHANGED << prints, captured, excused, now >>

TapeNext ==
  \/ \E k \in TapeTickers : print_made(k) \/ \E a \in BOOLEAN : _fetch_trade_tape(k, a)
  \/ trading_loop \/ tape_fetched \/ _flush_trade_capture
  \/ \E p \in Ids : print_judged(p)
  \/ fetch_signals \/ tick_cut \/ stopped_and_started

TapePrompt == Takes("tape") => tick.pc = "sleep" \/ now - tick.now < budget.slow

(* The fetches of successive ticks leave no gap between them, however long a  *)
(* tick took, however late the exchange serves a print and wherever the       *)
(* process restarts (whale_stream_handlers.py:775-784): whatever a watermark  *)
(* has passed was judged, but for what a failed request, a cut tick or a full *)
(* tape cost. And their overlap does not make one print count twice           *)
(* (kalshi_trade_tape.py:57-73), unless the process was restarted in between  *)
(* or the ring has taken more than it holds since.                            *)
NoPrintIsMissed ==
  tick.pc = "sleep" => \A p \in Ids : prints[p].at + budget.lag < watermark => p \in Range(judged) \cup excused
OnceWithinTheRing ==
  \A i, j \in 1..Len(judged) : i < j /\ judged[i] = judged[j] /\ judged[i] # Restarted =>
    j - i > MaxSeen \/ \E r \in i..j : judged[r] = Restarted
TapeIsJudged == NoPrintIsMissed /\ OnceWithinTheRing

-----------------------------------------------------------------------------
(* The price history: snapshots of ticks and of the stream, their outcomes,   *)
(* and the markouts, what a market cost a while after one of the account's    *)
(* trades, collected at an interval of their own.                             *)

CONSTANTS
  HistoryTickers,
  MinInterval,        \* _TICKER_SNAPSHOT_MIN_INTERVAL_SEC
  CaptureInterval,    \* _MARKOUT_CAPTURE_INTERVAL_SEC
  Offsets,            \* edge_gate_markout_offsets_sec, with Close for the market's close
  Close,
  HistoryRetention,
  PruneBatch          \* batch_size of a prune

ASSUME HistoryAssumption == HistoryRetention \in Nat

VARIABLES
  seen_prices,        \* every price shown: its market, the moment, by the stream or a tick, the stamp of its row
  in_flight,          \* handed to the executor and not written yet: indices into seen_prices
  unrecorded,         \* for the property alone: what was throttled, failed or was lost with the process
  snapshots,          \* the table: indices into seen_prices
  last_snapshot,      \* _last_ticker_snapshot, -MinInterval before the first
  skipped,            \* _skipped_no_price_count
  history_trades,     \* trades: market and time of each
  closes_at,          \* market_catalog: when each market closes, 0 unknown
  markouts,           \* markouts
  last_capture        \* _last_markout_capture_at

pricesVars == << seen_prices, in_flight, unrecorded, snapshots >>
historyVars == << pricesVars, last_snapshot, skipped, history_trades, closes_at, markouts, last_capture >>

NoPrice == -1
HistoryInit ==
  /\ seen_prices = << >> /\ in_flight = {} /\ unrecorded = {} /\ snapshots = {} /\ skipped = 0
  /\ last_snapshot = [k \in HistoryTickers |-> -MinInterval]
  /\ history_trades = << >>
  /\ closes_at = [k \in HistoryTickers |-> 0]
  /\ markouts = {} /\ last_capture = -CaptureInterval

(* A price is shown, to a tick or by the stream: its moment is noted and the  *)
(* write handed to the executor, which may be behind and whose workers        *)
(* overtake one another. A tick counts what it has no price for.              *)
quoted(k, price, streamed) ==
  /\ Takes("history") /\ Spends("quotes")
  /\ IF price = NoPrice THEN ~streamed /\ skipped' = skipped + 1 /\ UNCHANGED << seen_prices, in_flight >>
     ELSE /\ seen_prices' = Append(seen_prices, [ticker |-> k, price |-> price, shown |-> now, streamed |-> streamed, at |-> now])
          /\ in_flight' = in_flight \cup {Len(seen_prices) + 1}
          /\ UNCHANGED skipped
  /\ UNCHANGED << unrecorded, snapshots, last_snapshot, history_trades, closes_at, markouts, last_capture, now >>

(* The row has the moment its price was shown.                                *)
(* Faulty variant: the moment it is written.                                  *)
timestamp_at_write(i) == now
timestamp(i) == seen_prices[i].shown
written(i) ==
  /\ in_flight' = in_flight \ {i} /\ snapshots' = snapshots \cup {i}
  /\ seen_prices' = [seen_prices EXCEPT ![i].at = timestamp(i)]
  /\ UNCHANGED << unrecorded, budget >>
dropped(i) ==
  /\ in_flight' = in_flight \ {i} /\ unrecorded' = unrecorded \cup {i}
  /\ UNCHANGED << seen_prices, snapshots >>

record_snapshots(i) ==
  /\ Takes("history") /\ i \in in_flight /\ ~seen_prices[i].streamed
  /\ written(i) \/ (dropped(i) /\ Spends("faults"))
  /\ UNCHANGED << last_snapshot, skipped, history_trades, closes_at, markouts, last_capture, now >>

(* The stream is throttled per market, by the moments the prices were shown:  *)
(* what is written out of turn falls to the throttle. The throttle is set     *)
(* before the write, so a failed write costs its interval.                    *)
record_snapshot_from_ticker(i) ==
  LET k == seen_prices[i].ticker
      shown == seen_prices[i].shown
  IN  /\ Takes("history") /\ i \in in_flight /\ seen_prices[i].streamed
      /\ IF shown - last_snapshot[k] < MinInterval THEN dropped(i) /\ UNCHANGED << last_snapshot, budget >>
         ELSE last_snapshot' = [last_snapshot EXCEPT ![k] = shown] /\ (written(i) \/ (dropped(i) /\ Spends("faults")))
      /\ UNCHANGED << skipped, history_trades, closes_at, markouts, last_capture, now >>

(* What was not written yet is lost with the process, and so are the throttle *)
(* and the time of the last capture.                                          *)
history_restarted ==
  /\ Takes("history") /\ Spends("restarts")
  /\ in_flight' = {} /\ unrecorded' = unrecorded \cup in_flight
  /\ last_snapshot' = [k \in HistoryTickers |-> -MinInterval] /\ skipped' = 0
  /\ last_capture' = -CaptureInterval
  /\ UNCHANGED << seen_prices, snapshots, history_trades, closes_at, markouts, now >>

traded(k) ==
  /\ Takes("history") /\ Spends("entries")
  /\ history_trades' = Append(history_trades, [ticker |-> k, at |-> now])
  /\ UNCHANGED << pricesVars, last_snapshot, skipped, closes_at, markouts, last_capture, now >>

close_known(k) ==
  /\ Takes("history") /\ Spends("moves")
  /\ \E t \in now..budget.time : closes_at' = [closes_at EXCEPT ![k] = t]
  /\ UNCHANGED << pricesVars, last_snapshot, skipped, history_trades, markouts, last_capture, now >>

(* recent_price: the newest snapshot up to a moment, unless it is too old; of  *)
(* several of one moment, the last shown.                                     *)
newest_of(ids) == CHOOSE s \in ids : \A r \in ids : seen_prices[r].at < seen_prices[s].at \/ (seen_prices[r].at = seen_prices[s].at /\ r <= s)
PriceAmong(ids, as_of, max_age) ==
  LET seen == { s \in ids : seen_prices[s].at <= as_of }
  IN  IF seen = {} THEN NoPrice
      ELSE IF as_of - seen_prices[newest_of(seen)].at > max_age THEN NoPrice ELSE seen_prices[newest_of(seen)].price
SnapshotsOf(k) == { s \in snapshots : seen_prices[s].ticker = k }
(* Faulty variant: the price of the capture.                                  *)
recent_price_now(k, target) == PriceAmong(SnapshotsOf(k), now, 2 * CaptureInterval)
recent_price(k, target) == PriceAmong(SnapshotsOf(k), target, 2 * CaptureInterval)

(* pending_markout_targets: a trade and an offset whose moment has come, not  *)
(* captured before; the close only when it is known.                          *)
TargetOf(t, o) == IF o = Close THEN closes_at[history_trades[t].ticker] ELSE history_trades[t].at + o
pending_markout_targets ==
  { to \in (1..Len(history_trades)) \X Offsets :
      /\ to[2] = Close => closes_at[history_trades[to[1]].ticker] # 0
      /\ TargetOf(to[1], to[2]) <= now
      /\ \A m \in markouts : m.trade # to[1] \/ m.offset # to[2] }
markout(to) ==
  LET k == history_trades[to[1]].ticker
  IN  [trade |-> to[1], offset |-> to[2], target |-> TargetOf(to[1], to[2]), at |-> now, upto |-> Len(seen_prices),
       excused |-> in_flight \cup unrecorded, price |-> recent_price(k, TargetOf(to[1], to[2]))]

(* _maybe_capture_markouts: the interval is taken note of first; one by one,  *)
(* until one raises.                                                          *)
_maybe_capture_markouts ==
  /\ Takes("history") /\ now - last_capture >= CaptureInterval
  /\ last_capture' = now
  /\ \/ markouts' = markouts \cup { markout(to) : to \in pending_markout_targets } /\ UNCHANGED budget
     \/ /\ Spends("faults")
        /\ \E done \in SUBSET pending_markout_targets : done # pending_markout_targets /\ markouts' = markouts \cup { markout(to) : to \in done }
  /\ UNCHANGED << pricesVars, last_snapshot, skipped, history_trades, closes_at, now >>

(* So many of the rows too old to be kept at a time, in no order.              *)
prune_history ==
  /\ Takes("history") /\ Spends("edits")
  /\ LET expired == { s \in snapshots : seen_prices[s].at < now - HistoryRetention }
     IN  \E gone \in SUBSET expired :
           /\ Cardinality(gone) = PruneBatch \/ (Cardinality(gone) < PruneBatch /\ gone = expired)
           /\ snapshots' = snapshots \ gone
  /\ UNCHANGED << seen_prices, in_flight, unrecorded, last_snapshot, skipped, history_trades, closes_at, markouts, last_capture, now >>

HistoryNext ==
  \/ \E k \in HistoryTickers : (\E p \in budget.quoted, streamed \in budget.streams : quoted(k, p, streamed)) \/ traded(k) \/ close_known(k)
  \/ \E i \in 1..Len(seen_prices) : record_snapshots(i) \/ record_snapshot_from_ticker(i)
  \/ _maybe_capture_markouts \/ prune_history \/ history_restarted

(* A markout is the price of its own moment, not of the hour it happened to   *)
(* be collected in (market_history.py:416-437): a newest of the prices shown  *)
(* up to its target, of those that were recorded when the capture came,       *)
(* however late, out of turn and after however many failed ones they were     *)
(* written; and it is missing only when none was shown in the time looked     *)
(* back on, or when the newest was too old to be kept.                        *)
MarkoutsAreOfTheirMoment ==
  \A m \in markouts :
    LET known == { q \in 1..m.upto \ m.excused : seen_prices[q].ticker = history_trades[m.trade].ticker /\ seen_prices[q].shown <= m.target }
        newest == { q \in known : \A r \in known : seen_prices[r].shown <= seen_prices[q].shown }
    IN  \/ IF \A q \in newest : m.target - seen_prices[q].shown > 2 * CaptureInterval THEN m.price = NoPrice
           ELSE m.price \in { seen_prices[q].price : q \in newest }
        \/ \E q \in newest : seen_prices[q].shown < m.at - HistoryRetention
=============================================================================
