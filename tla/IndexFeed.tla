-------------------------------- MODULE IndexFeed -----------------------------
(* The index values that decide a settlement: the live feed and its table,    *)
(* the backfill of the seconds a lost connection cost, and the observations   *)
(* made in the last seconds before a market closes. An index has one value a  *)
(* second; a value is received half a second after the second it is of, so    *)
(* times of receipt are odd and times of values even.                         *)
EXTENDS Runtime

CONSTANTS
  WindowTicks,        \* SETTLEMENT_WINDOW_TICKS: the seconds a settlement averages
  QuarterHour,        \* the seconds between two closes
  CloseTolerance,     \* how far a market's close may be from a window's end
  Bucket,             \* the seconds one request of the history answers for
  MaxBuckets,         \* _MAX_HOUR_BUCKETS_PER_GAP
  Retention,          \* how long a tick outside the windows is kept
  CloseOf,            \* per market, when it closes
  RuleOf              \* per market, its strike, comparison, and whether its rules say how it settles

(* A window is shorter than the time between two, and markets close where one *)
(* ends; the tolerance tells the ends of two windows apart.                   *)
ASSUME IndexAssumption ==
  /\ WindowTicks \in Nat /\ QuarterHour \in Nat /\ WindowTicks < QuarterHour
  /\ CloseTolerance \in 0..QuarterHour - 1
  /\ Bucket \in Nat \ {0} /\ MaxBuckets \in Nat
  /\ "idle" \notin DOMAIN CloseOf /\ "looking" \notin DOMAIN CloseOf
  /\ \A m \in DOMAIN CloseOf : CloseOf[m] \in Nat \ {0} /\ CloseOf[m] % QuarterHour = 0 /\ RuleOf[m].strike \in Int
  /\ \A b \in Scenarios : "index_values" \in DOMAIN b /\ b.index_values \subseteq Int

VARIABLES
  values,             \* the value of each second, as the exchange computes it
  link,               \* the connection: up, its counts and times of loss and return, and what it holds unprocessed
  latest,             \* _latest
  handler,            \* _process_stream_index at work on a frame
  specs,              \* _settlement_spec_cache
  ticks,              \* _tick_buffer, the batches being written, the table, what a failed write cost
  filler,             \* check_and_backfill: where it is, and the gap it works on
  last_seen,          \* _last_seen_reconnects
  observations,       \* window_observations
  promised            \* for the property alone: the seconds a successful backfill was asked for

indexVars == << values, link, latest, handler, specs, ticks, filler, last_seen, observations, promised >>

NoFrame == [sec |-> 0, window |-> 0, known |-> 0, sum |-> 0]
AtEase == [pc |-> "idle", left |-> {}, entry |-> NoFrame]
NoGap == [pc |-> "idle", from |-> 0, to |-> 0, gap_sec |-> 0, whole |-> FALSE]
Rows == ticks.buffer \cup (UNION ticks.batches) \cup ticks.table

IndexInit ==
  /\ values = << 1 >>
  /\ link = [up |-> TRUE, newest |-> 1, reconnects |-> 0, lost_at |-> 0, last_gap |-> -1, frames |-> << >>]
  /\ latest = NoFrame /\ handler = AtEase /\ specs = {}
  /\ ticks = [buffer |-> {}, batches |-> {}, table |-> {[sec |-> 1, at |-> 3, windowed |-> FALSE]}, lost |-> {}]
  /\ filler = NoGap /\ last_seen = 0 /\ observations = {} /\ promised = {}

(* The exchange: second s has a value, and the final seconds before every     *)
(* quarter hour accumulate.                                                   *)
Total(first, last) == SumOfAll(SubSeq(values, first, last))
EndOf(sec) == ((sec \div QuarterHour) + 1) * QuarterHour
FrameOf(sec) ==
  IF EndOf(sec) - sec > WindowTicks THEN [NoFrame EXCEPT !.sec = sec]
  ELSE [sec |-> sec, window |-> EndOf(sec), known |-> WindowTicks - (EndOf(sec) - sec) + 1, sum |-> Total(EndOf(sec) - WindowTicks, sec)]

value_published ==
  /\ Takes("index") /\ Len(values) < now
  /\ \E v \in budget.index_values : values' = Append(values, v)
  /\ UNCHANGED << link, latest, handler, specs, ticks, filler, last_seen, observations, promised, budget, now >>

frame_received ==
  /\ link.up /\ Len(values) = now /\ now > 1 /\ now \notin budget.unsent
  /\ link.newest < now
  /\ link' = [link EXCEPT !.newest = now, !.frames = Append(@, now)]
  /\ UNCHANGED << values, latest, handler, specs, ticks, filler, last_seen, observations, promised, budget, now >>

(* A loss counts at once, and so does an attempt to connect that fails; the   *)
(* length of the gap is known only when the next connection begins. What the  *)
(* old one held unprocessed is discarded.                                     *)
_record_disconnect ==
  /\ Takes("index") /\ Spends("cuts")
  /\ link' = [link EXCEPT !.up = FALSE, !.reconnects = @ + 1, !.lost_at = 2 * now + 1]
  /\ handler' = AtEase
  /\ UNCHANGED << values, latest, specs, ticks, filler, last_seen, observations, promised, now >>

_begin_connection ==
  /\ ~link.up
  /\ link' = [link EXCEPT !.up = TRUE, !.last_gap = 2 * now + 1 - link.lost_at, !.frames = << >>]
  /\ UNCHANGED << values, latest, handler, specs, ticks, filler, last_seen, observations, promised, budget, now >>

(* record_cfbenchmarks: the frame is the newest one now, whenever it was sent,*)
(* and is written at the time of its processing. In a window, every watched   *)
(* market is looked at.                                                       *)
record_cfbenchmarks ==
  /\ link.up /\ handler.pc = "idle" /\ link.frames # << >>
  /\ LET f == FrameOf(Head(link.frames))
     IN  /\ latest' = f
         /\ ticks' = [ticks EXCEPT !.buffer = @ \cup {[sec |-> f.sec, at |-> 2 * now + 1, windowed |-> f.known > 0]}]
         /\ handler' = IF f.known = 0 \/ budget.watched = {} THEN AtEase ELSE [pc |-> "looking", left |-> budget.watched, entry |-> f]
  /\ link' = [link EXCEPT !.frames = Tail(@)]
  /\ UNCHANGED << values, specs, filler, last_seen, observations, promised, budget, now >>

record_cfbenchmarks_fails ==
  /\ link.up /\ handler.pc = "idle" /\ link.frames # << >> /\ Spends("faults")
  /\ link' = [link EXCEPT !.frames = Tail(@)]
  /\ UNCHANGED << values, latest, handler, specs, ticks, filler, last_seen, observations, promised, now >>

(* Faulty variant: one index has one window.                                  *)
window_matches_any(entry, market) == entry.window # 0
window_matches_close(entry, market) ==
  entry.window # 0 /\ entry.window - CloseOf[market] \in -CloseTolerance..CloseTolerance

(* settlement_projection, of the newest frame: what the rest of the window    *)
(* must add up to; once the window is complete there is nothing to observe.   *)
Accumulating == latest.known \in 1..WindowTicks - 1
required_remaining(strike) == WindowTicks * strike - latest.sum
record_observation(market) ==
  IF Accumulating
  THEN observations \cup {[market |-> market, known |-> latest.known, required |-> required_remaining(RuleOf[market].strike)]}
  ELSE observations

Observed(market) ==
  /\ observations' = IF RuleOf[market].supported /\ window_matches_close(handler.entry, market) THEN record_observation(market) ELSE observations
  /\ handler' = IF handler.left = {market} THEN AtEase ELSE [handler EXCEPT !.pc = "looking", !.left = @ \ {market}]

(* _spec_for: known, or fetched; a failed fetch is not kept.                  *)
_record_settlement_observations(market) ==
  /\ handler.pc = "looking" /\ market \in handler.left
  /\ IF market \in specs THEN Observed(market) ELSE handler' = [handler EXCEPT !.pc = market] /\ UNCHANGED observations
  /\ UNCHANGED << values, link, latest, specs, ticks, filler, last_seen, promised, budget, now >>

_spec_for(market) ==
  /\ handler.pc = market
  /\ specs' = IF Cardinality(specs) = budget.spec_cache THEN {} ELSE specs \cup {market}
  /\ Observed(market)
  /\ UNCHANGED << values, link, latest, ticks, filler, last_seen, promised, budget, now >>

_spec_for_fails(market) ==
  /\ handler.pc = market /\ Spends("faults")
  /\ handler' = IF handler.left = {market} THEN AtEase ELSE [handler EXCEPT !.pc = "looking", !.left = @ \ {market}]
  /\ UNCHANGED << values, link, latest, specs, ticks, filler, last_seen, observations, promised, now >>

(* The two executor threads flush: the buffer is swapped out, the batch is    *)
(* written later, or lost whole.                                              *)
flush_starts ==
  /\ ticks.buffer # {} /\ Spends("flushes") /\ Cardinality(ticks.batches) < 2
  /\ ticks' = [ticks EXCEPT !.buffer = {}, !.batches = @ \cup {ticks.buffer}]
  /\ UNCHANGED << values, link, latest, handler, specs, filler, last_seen, observations, promised, now >>

flush_writes(batch) ==
  /\ ticks' = [ticks EXCEPT !.batches = @ \ {batch}, !.table = @ \cup batch]
  /\ UNCHANGED << values, link, latest, handler, specs, filler, last_seen, observations, promised, budget, now >>

flush_fails(batch) ==
  /\ Spends("faults")
  /\ ticks' = [ticks EXCEPT !.batches = @ \ {batch}, !.lost = @ \cup batch]
  /\ UNCHANGED << values, link, latest, handler, specs, filler, last_seen, observations, promised, now >>

prune ==
  /\ Takes("index") /\ Spends("edits")
  /\ LET gone == { r \in ticks.table : r.at < 2 * (now - Retention) /\ ~r.windowed }
     IN  ticks' = [ticks EXCEPT !.table = @ \ gone, !.lost = @ \cup gone]
  /\ UNCHANGED << values, link, latest, handler, specs, filler, last_seen, observations, promised, now >>

(* detect_gap: a count that grew is taken note of before anything else; the   *)
(* gap is the last loss and the last known length, whether or not the two     *)
(* belong together.                                                           *)
detect_gap ==
  /\ filler.pc = "idle" /\ link.reconnects > last_seen
  /\ last_seen' = link.reconnects
  /\ filler' = IF link.last_gap < 0 THEN NoGap
               ELSE [pc |-> "reading", from |-> 0, to |-> link.lost_at + link.last_gap, gap_sec |-> link.last_gap, whole |-> link.up]
  /\ UNCHANGED << values, link, latest, handler, specs, ticks, observations, promised, budget, now >>

(* Where the missing seconds begin: after the last tick stored before the     *)
(* connection was back, or where the last loss was noted when there is none   *)
(* or it cannot be read. What is buffered is written first.                   *)
(* Faulty variant: where the last loss was noted.                             *)
gap_started(stored) == filler.to - filler.gap_sec
last_tick_before(stored) ==
  LET known == { r.at : r \in { x \in stored : x.at < filler.to } }
  IN  IF known = {} THEN filler.to - filler.gap_sec ELSE CHOOSE a \in known : \A b \in known : b <= a

_last_tick_before_sync(written, read) ==
  /\ filler.pc = "reading"
  /\ IF written /\ read THEN UNCHANGED budget ELSE (written \/ ticks.buffer # {}) /\ Spends("faults")
  /\ LET stored == IF written THEN ticks.table \cup ticks.buffer ELSE ticks.table
         start == last_tick_before(IF read THEN stored ELSE {})
     IN  /\ ticks' = [ticks EXCEPT !.buffer = {}, !.table = stored, !.lost = IF written THEN @ ELSE @ \cup ticks.buffer]
         /\ filler' = IF start >= filler.to THEN NoGap
                      ELSE [filler EXCEPT !.pc = "fetching", !.from = start, !.whole = @ /\ read /\ \E r \in stored : r.at < filler.to]
  /\ UNCHANGED << values, link, latest, handler, specs, last_seen, observations, promised, now >>

(* The history is read bucket by bucket, from the start of the gap, up to a   *)
(* number of buckets, and cut to the gap.                                     *)
_hour_bucket_starts == { b \in 0..now : Bucket * b + Bucket > filler.from \div 2 /\ Bucket * b < (filler.to + 1) \div 2 }
first_bucket == CHOOSE b \in _hour_bucket_starts : \A c \in _hour_bucket_starts : b <= c
Missing == { s \in 1..now : filler.from <= 2 * s /\ 2 * s < filler.to }
Answered(available) ==
  { s \in Missing \cap available : s \div Bucket \in { b \in _hour_bucket_starts : b < first_bucket + MaxBuckets } }

(* Nothing but the table is touched: the newest frame stays what it was. A    *)
(* live loss is made good when the gap was looked at after the connection was *)
(* back; a longer one, in its first buckets.                                  *)
record_cfbenchmarks_backfill(available) ==
  /\ filler.pc = "fetching"
  /\ ticks' = [ticks EXCEPT !.buffer = @ \cup { [sec |-> s, at |-> 2 * s, windowed |-> FALSE] : s \in Answered(available) }]
  /\ promised' = IF ~filler.whole THEN promised
                 ELSE promised \cup { s \in available : 2 * s < filler.to /\ s < Bucket * MaxBuckets
                                      /\ \A r \in Rows \cup ticks.lost : r.at < filler.to => r.at < 2 * s }
  /\ filler' = NoGap
  /\ UNCHANGED << values, link, latest, handler, specs, last_seen, observations, budget, now >>

backfill_index_fails ==
  /\ filler.pc = "fetching" /\ Spends("faults")
  /\ filler' = NoGap
  /\ UNCHANGED << values, link, latest, handler, specs, ticks, last_seen, observations, promised, now >>

IndexNext ==
  \/ value_published \/ frame_received \/ _record_disconnect \/ _begin_connection
  \/ record_cfbenchmarks \/ record_cfbenchmarks_fails
  \/ \E m \in DOMAIN CloseOf : _record_settlement_observations(m) \/ _spec_for(m) \/ _spec_for_fails(m)
  \/ flush_starts \/ \E b \in ticks.batches : flush_writes(b) \/ flush_fails(b)
  \/ prune
  \/ detect_gap \/ \E written, read \in BOOLEAN : _last_tick_before_sync(written, read)
  \/ \E lag \in 0..budget.lag : record_cfbenchmarks_backfill({ s \in 1..Len(values) : s + lag <= now })
  \/ backfill_index_fails

IndexPrompt == Takes("index") => Len(values) >= now

(* What the backfill is for (backfill.py:1-14): once the gap a connection     *)
(* left was looked at after its return and the history answered, every second *)
(* it had between the last tick received and the return has a row, unless a   *)
(* failed write or the retention lost it, however often connecting failed     *)
(* and whatever the dead connection still held.                               *)
GapsAreFilled == \A s \in promised : \E r \in Rows \cup ticks.lost : r.sec = s

(* An observation says what the rest of the window must bring for YES         *)
(* (settlement_algebra.py:58-91): of the market's own window, whatever window *)
(* its index accumulates at the time, so that it comes true exactly when the  *)
(* market settles YES.                                                        *)
Settles(market) ==
  LET total == Total(CloseOf[market] - WindowTicks, CloseOf[market] - 1)
      bar == WindowTicks * RuleOf[market].strike
  IN  IF RuleOf[market].orEqual THEN total >= bar ELSE total > bar
ObservedOwnWindow ==
  \A o \in observations : Len(values) >= CloseOf[o.market] =>
    LET rest == Total(CloseOf[o.market] - WindowTicks + o.known, CloseOf[o.market] - 1)
    IN  Settles(o.market) = IF RuleOf[o.market].orEqual THEN rest >= o.required ELSE rest > o.required

(* The ticks on record and the windows observed are those of the index.       *)
IndexIsOnRecord == GapsAreFilled /\ ObservedOwnWindow
=============================================================================
