------------------------------- MODULE DeskProofs -----------------------------
(******************************************************************************)
(* Theorems about Desk, for any readers, markets, domains, events, rows and   *)
(* intervals, and any scenario: the connections and batches beside the loop,  *)
(* the tape, the markouts, the resets and the index. Each part of the program *)
(* is proved alone; what the others do leaves its state as it is.             *)
(******************************************************************************)
EXTENDS Desk, FiniteSetTheorems, SequenceTheorems, WellFoundedInduction, TLAPS

-------------------------------------------------------------------------------
(* What the parts share. Every step spends one bound or none, never the delay *)
(* or the number of cuts it began with, and none but the clock's takes time.  *)

Draws ==
  /\ \A b \in {"lag", "uncut", "index_values", "book_quotes", "entry"} : b \in DOMAIN budget => b \in DOMAIN budget' /\ budget'[b] = budget[b]
  /\ "cuts" \in DOMAIN budget /\ budget.cuts \in Nat => "cuts" \in DOMAIN budget' /\ budget'.cuts \in Nat /\ budget'.cuts <= budget.cuts

(* Spending any other bound leaves these two as they are. *)
LEMMA SpendingDraws == ASSUME NEW b, b \notin {"lag", "uncut", "index_values", "book_quotes", "entry"}, Spends(b) PROVE Draws
<1> DEFINE v == budget[b] - 1
<1>1. budget' = [budget EXCEPT ![b] = v] /\ (budget[b] \in Nat => v \in Nat /\ v <= budget[b])
  BY DEF Spends, Left
<1> HIDE DEF v
<1>2. ASSUME NEW c \in {"lag", "uncut", "index_values", "book_quotes", "entry"}, c \in DOMAIN budget PROVE c \in DOMAIN budget' /\ budget'[c] = budget[c]
  <2>1. b # c
    BY <1>2
  <2> QED BY <1>1, <1>2, <2>1
<1>3. ASSUME "cuts" \in DOMAIN budget, budget.cuts \in Nat PROVE "cuts" \in DOMAIN budget' /\ budget'.cuts \in Nat /\ budget'.cuts <= budget.cuts
  <2>1. CASE b = "cuts"
    BY <1>1, <1>3, <2>1
  <2>2. CASE b # "cuts"
    BY <1>1, <1>3, <2>2
  <2> QED BY <2>1, <2>2
<1> QED BY <1>2, <1>3 DEF Draws

(* A step that spends nothing leaves the bounds as they are.                  *)
LEMMA NothingDrawn == ASSUME budget' = budget PROVE Draws
BY DEF Draws

(* Netting: one bound or none, and no time.                                   *)
LEMMA NettingDraws == NettingNext => Draws /\ now' = now
<1>1. review => Draws /\ now' = now
  <2>1. review => (budget' = budget \/ Spends("faults")) /\ now' = now
    BY Zenon DEF review
  <2> QED BY <2>1, SpendingDraws, NothingDrawn
<1>2. ASSUME NEW t PROVE open_held(t) \/ quote_moves(t) \/ settle_event(t) => Draws /\ now' = now
  BY SpendingDraws DEF open_held, quote_moves, settle_event
<1> QED BY <1>1, <1>2 DEF NettingNext

(* The reports: reads and faults.                                             *)
LEMMA ReportsDraw == AioNext => Draws /\ now' = now
BY SpendingDraws, NothingDrawn DEF AioNext, AioSteps, connection_for, probe_answers, probe_fails, enter, schema_made, read_done,
  schema_fails, loop_ends_in_a_query, connection_breaks, close_for_current_loop, _close_all_at_process_exit

(* The series evidence: signals, entries, edits.                              *)
LEMMA SeriesDraws == SeriesNext => Draws /\ now' = now
BY SpendingDraws, NothingDrawn DEF SeriesNext, signal_seen, entered, closes, market_ends, signals_resolved, close_corrected,
  signals_quarantined, trades_purged

(* The resets: cuts are the one bound they share with the index.              *)
LEMMA ResetsDraw == ResetNext => Draws /\ now' = now
<1>1. ASSUME NEW d PROVE exits(d) \/ row_recorded(d) \/ clear_domain(d) \/ reset_broker(d) \/ reset_cut(d) => Draws /\ now' = now
  BY SpendingDraws, NothingDrawn, Zenon DEF exits, row_recorded, clear_domain, reset_broker, reset_cut
<1>2. enters \/ daemon_takes \/ daemon_writes \/ close_all_positions \/ archive_epoch \/ clear_paper => Draws /\ now' = now
  BY SpendingDraws, NothingDrawn, Zenon DEF enters, daemon_takes, daemon_writes, close_all_positions, archive_epoch, clear_paper
<1>3. log_reset \/ reset_done => Draws /\ now' = now
  BY NothingDrawn, Zenon DEF log_reset, reset_done
<1> QED BY <1>1, <1>2, <1>3 DEF ResetNext

(* The index feed.                                                            *)
LEMMA IndexDraws == IndexNext => Draws /\ now' = now
<1>1. value_published \/ frame_received \/ _record_disconnect \/ _begin_connection \/ record_cfbenchmarks \/ record_cfbenchmarks_fails => Draws /\ now' = now
  BY SpendingDraws, NothingDrawn DEF value_published, frame_received, _record_disconnect, _begin_connection, record_cfbenchmarks, record_cfbenchmarks_fails
<1>2. ASSUME NEW m PROVE _record_settlement_observations(m) \/ _spec_for(m) \/ _spec_for_fails(m) => Draws /\ now' = now
  BY SpendingDraws, NothingDrawn DEF _record_settlement_observations, _spec_for, _spec_for_fails
<1>3. ASSUME NEW b PROVE flush_starts \/ flush_writes(b) \/ flush_fails(b) \/ prune => Draws /\ now' = now
  BY SpendingDraws, NothingDrawn DEF flush_starts, flush_writes, flush_fails, prune
<1>4. ASSUME NEW w, NEW read, NEW heard
      PROVE  detect_gap \/ _last_tick_before_sync(w, read) \/ record_cfbenchmarks_backfill(heard) \/ backfill_index_fails => Draws /\ now' = now
  BY SpendingDraws, NothingDrawn DEF detect_gap, _last_tick_before_sync, record_cfbenchmarks_backfill, backfill_index_fails
<1> QED BY <1>1, <1>2, <1>3, <1>4 DEF IndexNext

(* The polled tape.                                                           *)
LEMMA TapeDraws == TapeNext => Draws /\ now' = now
BY SpendingDraws, NothingDrawn DEF TapeNext, print_made, _fetch_trade_tape, trading_loop, tape_fetched, _flush_trade_capture,
  print_judged, fetch_signals, tick_cut, stopped_and_started

(* The price history.                                                         *)
LEMMA HistoryDraws == HistoryNext => Draws /\ now' = now
BY SpendingDraws, NothingDrawn DEF HistoryNext, quoted, record_snapshots, record_snapshot_from_ticker, written, dropped,
  traded, close_known, _maybe_capture_markouts, prune_history, history_restarted

(* The signals, scored and graded.                                            *)
LEMMA SignalsDraw == SignalsNext => Draws /\ now' = now
<1>1. ASSUME NEW w, NEW claimed, NEW chunk, NEW o PROVE _handle_signal(w, claimed) \/ _process_trades_sync(w, chunk, o) => Draws /\ now' = now
  BY SpendingDraws, NothingDrawn DEF _handle_signal, _process_trades_sync
<1>2. ASSUME NEW k, NEW r, NEW v PROVE resolve_from_market_results(k, r) \/ analyze_market(k, v) \/ start_window => Draws /\ now' = now
  BY SpendingDraws, NothingDrawn DEF resolve_from_market_results, analyze_market, start_window
<1>3. ASSUME NEW q, NEW recorded PROVE stop_window(q, recorded) \/ release(q, recorded) => Draws /\ now' = now
  BY SpendingDraws, NothingDrawn DEF stop_window, release
<1>4. ASSUME NEW after, NEW before, NEW recorded PROVE quarantine(after, before, recorded) \/ clear_range(after, before) => Draws /\ now' = now
  BY SpendingDraws, NothingDrawn DEF quarantine, clear_range
<1>5. ASSUME NEW table PROVE daemon_takes_rows(table) \/ daemon_writes_rows(table) \/ rejections_read(table) => Draws /\ now' = now
  BY SpendingDraws, NothingDrawn DEF daemon_takes_rows, daemon_writes_rows, rejections_read, candidatesAlone
<1>6. ASSUME NEW k, NEW r, NEW p PROVE rejections_graded(k, r) \/ _gate_check_and_maybe_filter(p) \/ recompute_deltas => Draws /\ now' = now
  BY SpendingDraws, NothingDrawn DEF rejections_graded, _gate_check_and_maybe_filter, recompute_deltas, candidatesAlone
<1> QED BY <1>1, <1>2, <1>3, <1>4, <1>5, <1>6 DEF SignalsNext

(* The dates of events.                                                       *)
LEMMA DatesDraw == ScheduleNext => Draws /\ now' = now
BY SpendingDraws, NothingDrawn DEF ScheduleNext, _maybe_resolve_event_schedules, schedule_restarted, save, batch_over, source_fails

(* So every step leaves the delay and the number of cuts there can be. *)
Bounded ==
  /\ {"lag", "uncut", "cuts", "index_values"} \subseteq DOMAIN budget /\ now \in Nat /\ budget.index_values \subseteq Int
  /\ {"book_quotes", "entry"} \subseteq DOMAIN budget /\ budget.entry \subseteq HeldPosition
  /\ \A q \in DOMAIN budget.book_quotes : budget.book_quotes[q] \in BookQuotes
  /\ budget.lag \in 0..Overlap + 1
  /\ budget.cuts \in Nat /\ budget.uncut \in Nat /\ budget.cuts <= budget.uncut

(* So for every step of the desk.                                             *)
LEMMA DeskDraws == [Next]_deskVars => Draws /\ (now' = now \/ now' = now + 1)
<1>1. CASE UNCHANGED deskVars
  BY <1>1, NothingDrawn DEF deskVars
<1>2. CASE netting \/ reports \/ series \/ resets
  BY <1>2, NettingDraws, ReportsDraw, SeriesDraws, ResetsDraw DEF netting, reports, series, resets
<1>3. CASE index \/ tape \/ history_of_prices \/ signals \/ event_dates
  BY <1>3, IndexDraws, TapeDraws, HistoryDraws, SignalsDraw, DatesDraw DEF index, tape, history_of_prices, signals, event_dates
<1>4. CASE tick_clock
  BY <1>4, NothingDrawn DEF tick_clock
<1> QED BY <1>1, <1>2, <1>3, <1>4 DEF Next

(* The scenarios have these bounds (the assumptions of the three modules).    *)
LEMMA BoundsStart == Init => Bounded
BY TapeAssumption, ResetAssumption, IndexAssumption, NettingAssumption DEF Init, Bounded

(* No step moves the delay or the number of cuts begun with, or turns the     *)
(* clock back.                                                                *)
LEMMA BoundsStep ==
  ASSUME Bounded, [Next]_deskVars
  PROVE  Bounded' /\ budget'.lag = budget.lag /\ budget'.uncut = budget.uncut /\ budget'.cuts <= budget.cuts /\ now' >= now
BY DeskDraws DEF Bounded, Draws

-------------------------------------------------------------------------------
(* The tape. A print is due at a watermark when it was made before it and     *)
(* served by then. While nothing is under way, or is only fetched, what is    *)
(* due at the watermark was judged or excused; a fetch under way has it for   *)
(* its own moment from every market that has answered; a tape that was        *)
(* fetched holds what the advanced watermark made due.                        *)

Due(made, lag, w) == made < w /\ made + lag <= w
TapePrint == [ticker : TapeTickers, at : Nat]
WasJudged(p) == \E i \in 1..Len(judged) : judged[i] = p
Accounted(p) == WasJudged(p) \/ p \in excused
PrintsOK == prints \in Seq(TapePrint) /\ \A p \in Ids : prints[p].at <= now

(* The ring is the end of what was judged: it is full, or it goes back to the *)
(* last restart, or to the beginning.                                         *)
LogEnd(log, ring) ==
  /\ log \in Seq(Nat) /\ ring \in Seq(Nat)
  /\ Len(ring) <= MaxSeen /\ Len(ring) <= Len(log)
  /\ \A i \in 1..Len(ring) : ring[i] = log[Len(log) - Len(ring) + i]
  /\ Len(ring) = MaxSeen \/ Len(ring) = Len(log) \/ log[Len(log) - Len(ring)] = Restarted
OnceUpTo(log, n) ==
  \A i, j \in 1..n : i < j /\ log[i] = log[j] /\ log[i] # Restarted => j - i > MaxSeen \/ \E r \in i..j : log[r] = Restarted
RingOK == LogEnd(judged, _seen_order) /\ OnceUpTo(judged, Len(judged))
TickOK ==
  /\ DOMAIN tick = DOMAIN Resting
  /\ tick.pc \in {"sleep", "fetching", "capturing", "detecting"}
  /\ tick.tape \subseteq Ids
  /\ watermark \in Int /\ -1 <= watermark /\ watermark <= now
  /\ tick.pc = "fetching" => tick.since = watermark /\ tick.now \in Nat /\ tick.now <= now
TapeCovers ==
  /\ tick.pc \in {"sleep", "fetching"} => \A p \in Ids : Due(prints[p].at, budget.lag, watermark) => Accounted(p)
  /\ tick.pc = "fetching" => \A p \in Ids :
       prints[p].ticker \notin tick.left /\ Due(prints[p].at, budget.lag, tick.now) => p \in tick.tape \/ Accounted(p)
  /\ tick.pc \in {"capturing", "detecting"} => \A p \in Ids :
       Due(prints[p].at, budget.lag, watermark) => p \in tick.tape \/ Accounted(p)
TapeInv == Bounded /\ PrintsOK /\ TickOK /\ TapeCovers /\ RingOK

(* What the list of prints gives for one of them.                             *)
LEMMA PrintTypes ==
  ASSUME PrintsOK
  PROVE  /\ Len(prints) \in Nat /\ Ids = 1..Len(prints)
         /\ \A p \in Ids : prints[p].at \in Nat /\ prints[p].ticker \in TapeTickers
<1>1. Len(prints) \in Nat /\ Ids = 1..Len(prints)
  BY DEF PrintsOK, Ids
<1>2. \A p \in 1..Len(prints) : prints[p] \in TapePrint
  BY DEF PrintsOK
<1> QED BY <1>1, <1>2 DEF TapePrint

(* Nothing has been printed, and the watermark is before every moment.        *)
LEMMA TapeStarts == Init => TapeInv
<1> SUFFICES ASSUME Init PROVE TapeInv
  OBVIOUS
<1>1. Bounded
  BY BoundsStart
<1>2. PrintsOK /\ Ids = {}
  BY DEF Init, TapeInit, PrintsOK, Ids
<1>3. TickOK
  BY <1>1 DEF Init, TapeInit, TickOK, Resting, Bounded
<1>4. TapeCovers
  BY <1>2 DEF TapeCovers, Init, TapeInit, Resting
<1>5. RingOK
  <2>1. judged = << >> /\ _seen_order = << >>
    BY DEF Init, TapeInit
  <2> QED BY <2>1, TapeAssumption DEF RingOK, LogEnd, OnceUpTo
<1> QED BY <1>1, <1>2, <1>3, <1>4, <1>5 DEF TapeInv

(* A step that judges nothing leaves the ring and the log as they are.        *)
LEMMA RingStays ==
  ASSUME RingOK, UNCHANGED << _seen_order, judged >>
  PROVE  RingOK' /\ \A p : WasJudged(p)' <=> WasJudged(p)
BY DEF RingOK, WasJudged

(* What is judged and is not in the ring was judged before the last restart,  *)
(* or the ring has taken more than it holds since.                            *)
LEMMA OnceMore ==
  ASSUME NEW n \in Nat, NEW m \in 0..n, NEW log, NEW longer, NEW p, OnceUpTo(log, n),
         m = MaxSeen \/ m = n \/ log[n - m] = Restarted,
         p # Restarted => \A i \in 1..m : log[n - m + i] # p,
         \A i \in 1..n : longer[i] = log[i], longer[n + 1] = p
  PROVE  OnceUpTo(longer, n + 1)
<1> SUFFICES ASSUME NEW i \in 1..n + 1, NEW j \in 1..n + 1, i < j, longer[i] = longer[j], longer[i] # Restarted
             PROVE  j - i > MaxSeen \/ \E r \in i..j : longer[r] = Restarted
  BY DEF OnceUpTo
<1>1. i \in 1..n /\ longer[i] = log[i]
  OBVIOUS
<1>2. CASE j \in 1..n
  <2>1. log[i] = log[j] /\ log[i] # Restarted
    BY <1>1, <1>2
  <2>2. j - i > MaxSeen \/ \E r \in i..j : log[r] = Restarted
    BY <1>1, <1>2, <2>1 DEF OnceUpTo
  <2>3. \A r \in i..j : longer[r] = log[r]
    BY <1>1, <1>2
  <2> QED BY <2>2, <2>3
<1>3. CASE j = n + 1
  <2>1. log[i] = p /\ p # Restarted
    BY <1>1, <1>3
  <2>2. i <= n - m
    <3> SUFFICES ASSUME i > n - m PROVE FALSE
      BY <1>1
    <3>1. i - (n - m) \in 1..m /\ n - m + (i - (n - m)) = i
      BY <1>1
    <3>2. log[i] # p
      BY <2>1, <3>1
    <3> QED BY <2>1, <3>2
  <2>3. CASE m = MaxSeen
    BY <1>1, <1>3, <2>2, <2>3
  <2>4. CASE m # MaxSeen
    <3>1. n - m \in i..j /\ n - m \in 1..n /\ m # n
      BY <1>1, <1>3, <2>2
    <3>2. log[n - m] = Restarted
      BY <2>4, <3>1
    <3> QED BY <3>1, <3>2
  <2> QED BY <2>3, <2>4
<1> QED BY <1>2, <1>3

(* The ring that takes a print, and lets go of its oldest when it is full, is *)
(* again the end of the log.                                                  *)
LEMMA RingTakes ==
  ASSUME NEW log, NEW ring, LogEnd(log, ring), NEW p \in Nat
  PROVE  LogEnd(Append(log, p), IF Len(ring) < MaxSeen THEN Append(ring, p) ELSE Append(Tail(ring), p))
<1> DEFINE longer == Append(log, p)
<1>1. PICK n \in Nat, m \in Nat : m \in 0..n /\ n = Len(log) /\ m = Len(ring) /\ m <= MaxSeen
  BY DEF LogEnd
<1>2. MaxSeen \in Nat /\ MaxSeen > 0 /\ log \in Seq(Nat) /\ ring \in Seq(Nat) /\ p \in Nat
  BY TapeAssumption DEF LogEnd
<1>3. longer \in Seq(Nat) /\ Len(longer) = n + 1
  BY <1>1, <1>2
<1>0. longer[n + 1] = p /\ \A i \in 1..n : longer[i] = log[i]
  BY <1>1, <1>2
<1>4. (\A i \in 1..m : ring[i] = log[n - m + i]) /\ (m = MaxSeen \/ m = n \/ log[n - m] = Restarted)
  BY <1>1 DEF LogEnd
<1> HIDE DEF longer
<1>5. CASE m < MaxSeen
  <2> DEFINE taken == Append(ring, p)
  <2>0. taken \in Seq(Nat) /\ Len(taken) = m + 1
    BY <1>1, <1>2
  <2>1. taken[m + 1] = p /\ \A i \in 1..m : taken[i] = ring[i]
    BY <1>1, <1>2
  <2> HIDE DEF taken
  <2>2. ASSUME NEW i \in 1..m + 1 PROVE taken[i] = longer[n + 1 - (m + 1) + i]
    <3>1. CASE i = m + 1
      BY <1>0, <2>1, <3>1
    <3>2. CASE i \in 1..m
      <4>1. n - m + i \in 1..n /\ n + 1 - (m + 1) + i = n - m + i
        BY <1>1, <3>2
      <4> QED BY <1>0, <1>4, <2>1, <3>2, <4>1
    <3> QED BY <3>1, <3>2
  <2>3. m + 1 = n + 1 \/ longer[n + 1 - (m + 1)] = Restarted
    <3>1. CASE m # n
      <4>1. n - m \in 1..n /\ n + 1 - (m + 1) = n - m
        BY <1>1, <3>1
      <4> QED BY <1>0, <1>4, <1>5, <3>1, <4>1
    <3> QED BY <3>1
  <2>4. m + 1 <= MaxSeen /\ m + 1 <= n + 1
    BY <1>1, <1>2, <1>5
  <2>5. LogEnd(longer, taken)
    BY <1>3, <2>0, <2>2, <2>3, <2>4 DEF LogEnd
  <2> QED BY <1>1, <1>5, <2>5 DEF longer, taken
<1>6. CASE m = MaxSeen
  <2> DEFINE rest == Tail(ring)
             taken == Append(rest, p)
  <2>0. rest \in Seq(Nat) /\ Len(rest) = m - 1
    <3>1. ring # << >>
      <4>1. Len(ring) # 0
        BY <1>1, <1>2, <1>6
      <4> QED BY <1>2, <4>1, EmptySeq
    <3> QED BY <1>1, <1>2, <3>1
  <2>1. \A i \in 1..m - 1 : rest[i] = ring[i + 1]
    <3>1. ring # << >>
      <4>1. Len(ring) # 0
        BY <1>1, <1>2, <1>6
      <4> QED BY <1>2, <4>1, EmptySeq
    <3> QED BY <1>1, <1>2, <3>1
  <2> HIDE DEF rest
  <2>4. taken \in Seq(Nat) /\ Len(taken) = m
    BY <2>0
  <2>2. taken[m] = p /\ \A i \in 1..m - 1 : taken[i] = rest[i]
    BY <2>0
  <2> HIDE DEF taken
  <2>3. ASSUME NEW i \in 1..m PROVE taken[i] = longer[n + 1 - m + i]
    <3>1. CASE i = m
      BY <1>0, <2>2, <3>1
    <3>2. CASE i \in 1..m - 1
      <4>1. i + 1 \in 1..m /\ n - m + (i + 1) \in 1..n /\ n + 1 - m + i = n - m + (i + 1)
        BY <1>1, <3>2
      <4> QED BY <1>0, <1>4, <2>1, <2>2, <3>2, <4>1
    <3> QED BY <3>1, <3>2
  <2>5. LogEnd(longer, taken)
    BY <1>1, <1>3, <1>6, <2>3, <2>4 DEF LogEnd
  <2> QED BY <1>1, <1>2, <1>6, <2>5 DEF longer, taken, rest
<1> QED BY <1>1, <1>2, <1>5, <1>6

(* A print that was not in the ring is judged.                                *)
LEMMA JudgingKeepsRing ==
  ASSUME RingOK, NEW p \in Nat \ {Restarted}, ~already_seen(p), _seen_order' = _mark_seen_locked(p), judged' = Append(judged, p)
  PROVE  RingOK' /\ WasJudged(p)' /\ \A q : WasJudged(q) => WasJudged(q)'
<1>1. LogEnd(judged', _seen_order')
  BY RingTakes DEF RingOK, _mark_seen_locked
<1>2. PICK n \in Nat, m \in Nat : m \in 0..n /\ n = Len(judged) /\ m = Len(_seen_order)
  BY DEF RingOK, LogEnd
<1>3. judged \in Seq(Nat) /\ _seen_order \in Seq(Nat)
  BY DEF RingOK, LogEnd
<1>4. Len(judged') = n + 1 /\ judged'[n + 1] = p /\ \A i \in 1..n : judged'[i] = judged[i]
  BY <1>2, <1>3
<1>5. \A i \in 1..m : judged[n - m + i] # p
  <2>1. \A i \in 1..m : _seen_order[i] # p
    <3>1. DOMAIN _seen_order = 1..m
      BY <1>2, <1>3
    <3> QED BY <3>1 DEF already_seen, Range
  <2> QED BY <1>2, <2>1 DEF RingOK, LogEnd
<1>6. OnceUpTo(judged', n + 1)
  <2>1. OnceUpTo(judged, n) /\ (m = MaxSeen \/ m = n \/ judged[n - m] = Restarted)
    BY <1>2 DEF RingOK, LogEnd
  <2>2. PICK log, longer : log = judged /\ longer = judged'
    OBVIOUS
  <2>3. OnceUpTo(log, n) /\ (m = MaxSeen \/ m = n \/ log[n - m] = Restarted) /\ (p # Restarted => \A i \in 1..m : log[n - m + i] # p)
    BY <1>5, <2>1, <2>2
  <2>4. longer[n + 1] = p /\ \A i \in 1..n : longer[i] = log[i]
    BY <1>4, <2>2
  <2>5. m \in 0..n
    BY <1>2
  <2>6. OnceUpTo(longer, n + 1)
    BY <2>3, <2>4, <2>5, OnceMore
  <2> QED BY <2>2, <2>6
<1>7. WasJudged(p)'
  BY <1>4 DEF WasJudged
<1>8. ASSUME NEW q, WasJudged(q) PROVE WasJudged(q)'
  <2>1. PICK i \in 1..n : judged[i] = q
    BY <1>2, <1>8 DEF WasJudged
  <2>2. i \in 1..n + 1 /\ judged'[i] = q
    BY <1>4, <2>1
  <2> QED BY <1>4, <2>2 DEF WasJudged
<1> QED BY <1>1, <1>4, <1>6, <1>7, <1>8 DEF RingOK

(* A restart empties the ring, and is after all that was judged.              *)
LEMMA RestartKeepsRing == ASSUME RingOK, _seen_order' = << >>, judged' = Append(judged, Restarted) PROVE RingOK'
<1>1. PICK n \in Nat : n = Len(judged)
  BY DEF RingOK, LogEnd
<1>2. judged \in Seq(Nat) /\ Restarted \in Nat /\ MaxSeen \in Nat
  BY TapeAssumption DEF RingOK, LogEnd, Restarted
<1>3. judged' \in Seq(Nat) /\ Len(judged') = n + 1 /\ judged'[n + 1] = Restarted /\ \A i \in 1..n : judged'[i] = judged[i]
  BY <1>1, <1>2
<1>4. LogEnd(judged', _seen_order')
  <2>1. << >> \in Seq(Nat) /\ Len(<< >>) = 0
    OBVIOUS
  <2>2. n + 1 - 0 = n + 1 /\ 0 <= n + 1 /\ 0 <= MaxSeen
    BY <1>2
  <2> QED BY <1>3, <2>1, <2>2 DEF LogEnd
<1>5. OnceUpTo(judged', n + 1)
  <2> SUFFICES ASSUME NEW i \in 1..n + 1, NEW j \in 1..n + 1, i < j, judged'[i] = judged'[j], judged'[i] # Restarted
               PROVE  j - i > MaxSeen \/ \E r \in i..j : judged'[r] = Restarted
    BY DEF OnceUpTo
  <2>1. i # n + 1 /\ j # n + 1
    BY <1>3
  <2>2. i \in 1..n /\ j \in 1..n
    BY <2>1
  <2>3. judged[i] = judged[j] /\ judged[i] # Restarted /\ \A r \in i..j : judged'[r] = judged[r]
    BY <1>3, <2>2
  <2>4. j - i > MaxSeen \/ \E r \in i..j : judged[r] = Restarted
    BY <1>1, <2>2, <2>3 DEF RingOK, OnceUpTo
  <2> QED BY <2>3, <2>4
<1> QED BY <1>3, <1>4, <1>5 DEF RingOK

(* A print that is made is at the end of the list, and due at no watermark yet.*)
LEMMA PrintKeepsTape == ASSUME TapeInv, Bounded', budget'.lag = budget.lag, NEW k \in TapeTickers, print_made(k) PROVE TapeInv'
<1> DEFINE n == Len(prints)
<1>1. n \in Nat /\ Ids = 1..n /\ Ids' = 1..n + 1 /\ now \in Nat /\ now' = now /\ budget'.lag \in Nat
  BY DEF TapeInv, PrintsOK, Bounded, print_made, Ids
<1>2. prints' = Append(prints, [ticker |-> k, at |-> now]) /\ UNCHANGED << tick, watermark, _seen_order, judged, excused >>
  BY DEF print_made
<1>3. [ticker |-> k, at |-> now] \in TapePrint
  BY <1>1 DEF TapePrint
<1>4. prints' \in Seq(TapePrint) /\ RingOK'
  BY <1>2, <1>3, RingStays DEF TapeInv, PrintsOK
<1>5. prints'[n + 1].at = now /\ \A p \in 1..n : prints'[p] = prints[p]
  BY <1>2, <1>3 DEF TapeInv, PrintsOK
<1> HIDE DEF n
<1>6. PrintsOK'
  <2>1. \A p \in 1..n : prints[p].at <= now
    BY <1>1 DEF TapeInv, PrintsOK
  <2>2. \A p \in 1..n + 1 : prints'[p].at <= now
    BY <1>1, <1>5, <2>1
  <2> QED BY <1>1, <1>4, <2>2 DEF PrintsOK
<1>7. TickOK'
  BY <1>1, <1>2 DEF TapeInv, TickOK
<1>8. ~Due(now, budget.lag, watermark) /\ (tick.pc = "fetching" => ~Due(now, budget.lag, tick.now))
  BY <1>1 DEF TapeInv, TickOK, Due
<1>9. TapeCovers'
  <2>1. ASSUME NEW p \in Ids PROVE Accounted(p) => Accounted(p)'
    BY <1>2, RingStays DEF TapeInv, Accounted
  <2>2. ASSUME NEW w, NEW p \in Ids', ~Due(now, budget.lag, w), Due(prints'[p].at, budget'.lag, w)
        PROVE  p \in Ids /\ prints'[p] = prints[p] /\ Due(prints[p].at, budget.lag, w)
    BY <1>1, <1>5, <2>2
  <2>3. ASSUME tick.pc \in {"sleep", "fetching"}, NEW p \in Ids', Due(prints'[p].at, budget'.lag, watermark) PROVE Accounted(p)'
    BY <1>8, <2>1, <2>2, <2>3 DEF TapeInv, TapeCovers
  <2>4. ASSUME tick.pc = "fetching", NEW p \in Ids', prints'[p].ticker \notin tick.left, Due(prints'[p].at, budget'.lag, tick.now)
        PROVE  p \in tick.tape \/ Accounted(p)'
    BY <1>8, <2>1, <2>2, <2>4 DEF TapeInv, TapeCovers
  <2>5. ASSUME tick.pc \in {"capturing", "detecting"}, NEW p \in Ids', Due(prints'[p].at, budget'.lag, watermark)
        PROVE  p \in tick.tape \/ Accounted(p)'
    BY <1>8, <2>1, <2>2, <2>5 DEF TapeInv, TapeCovers
  <2> QED BY <1>2, <2>3, <2>4, <2>5 DEF TapeCovers
<1> QED BY <1>4, <1>6, <1>7, <1>9 DEF TapeInv

(* What a market that answers is asked for holds all that came due since.     *)
LEMMA FetchKeepsTape ==
  ASSUME TapeInv, Bounded', budget'.lag = budget.lag, NEW k \in TapeTickers, NEW answers, _fetch_trade_tape(k, answers)
  PROVE  TapeInv'
<1> DEFINE got == IF answers THEN _fetch_trades_for_ticker(k) ELSE {}
           lost == IF answers THEN (Wanted(k) \cap Served) \ got ELSE Of(k, Ids)
<1>1. /\ tick.pc = "fetching" /\ k \in tick.left /\ tick' = [tick EXCEPT !.left = @ \ {k}, !.tape = @ \cup got]
      /\ excused' = excused \cup lost /\ UNCHANGED << prints, watermark, _seen_order, judged, now >>
  BY DEF _fetch_trade_tape
<1>2. got \subseteq Ids
  BY DEF _fetch_trades_for_ticker, Newest, Served
<1>3. ASSUME NEW p \in Ids, prints[p].ticker = k, Due(prints[p].at, budget.lag, tick.now) PROVE p \in got \/ p \in lost \/ Accounted(p)
  <2>1. prints[p].at \in Nat /\ budget.lag \in 0..Overlap + 1 /\ watermark \in Int /\ now \in Nat /\ tick.now \in Nat /\ tick.now <= now /\ tick.since = watermark
    BY <1>1, PrintTypes DEF TapeInv, TickOK, Bounded
  <2>2. p \in Served /\ p \in Of(k, Ids)
    BY <1>3, <2>1 DEF Served, Due, Of
  <2>3. CASE Due(prints[p].at, budget.lag, watermark)
    BY <2>3, <1>1 DEF TapeInv, TapeCovers
  <2>4. CASE ~Due(prints[p].at, budget.lag, watermark)
    <3>1. tick.since # -1 => prints[p].at >= min_ts
      BY <2>1, <2>4, TapeAssumption DEF Due, min_ts
    <3>2. p \in Wanted(k)
      BY <2>2, <3>1 DEF Wanted
    <3> QED BY <2>2, <3>2
  <2> QED BY <2>3, <2>4
<1> HIDE DEF got, lost
<1>4. /\ tick'.pc = "fetching" /\ tick'.left = tick.left \ {k} /\ tick'.tape = tick.tape \cup got
      /\ tick'.since = tick.since /\ tick'.now = tick.now /\ DOMAIN tick' = DOMAIN tick
  BY <1>1 DEF TapeInv, TickOK, Resting
<1>5. Ids' = Ids
  BY <1>1 DEF Ids
<1>6. PrintsOK' /\ TickOK'
  BY <1>1, <1>2, <1>4, <1>5 DEF TapeInv, PrintsOK, TickOK
<1>7. RingOK' /\ \A p \in Ids : Accounted(p) => Accounted(p)'
  BY <1>1, RingStays DEF TapeInv, Accounted
<1>8. \A p \in Ids : p \in lost => Accounted(p)'
  BY <1>1 DEF Accounted
<1>9. \A p \in Ids : prints[p].ticker \notin tick.left \ {k} /\ Due(prints[p].at, budget.lag, tick.now) => p \in tick.tape \cup got \/ Accounted(p)'
  BY <1>1, <1>3, <1>7, <1>8 DEF TapeInv, TapeCovers
<1>10. TapeCovers'
  BY <1>1, <1>4, <1>5, <1>7, <1>9 DEF TapeInv, TapeCovers
<1> QED BY <1>6, <1>7, <1>10 DEF TapeInv

(* A print the watcher takes from the tape was judged or is now.              *)
LEMMA WatcherKeepsTape == ASSUME TapeInv, Bounded', budget'.lag = budget.lag, NEW p \in Ids, print_judged(p) PROVE TapeInv'
<1>1. /\ tick.pc = "detecting" /\ tick' = [tick EXCEPT !.tape = @ \ {p}] /\ UNCHANGED << prints, watermark, excused, now >>
      /\ IF already_seen(p) THEN UNCHANGED << _seen_order, judged >>
         ELSE _seen_order' = _mark_seen_locked(p) /\ judged' = Append(judged, p)
  BY DEF print_judged
<1>2. Ids' = Ids /\ p \in Nat \ {Restarted}
  BY <1>1, PrintTypes DEF Ids, TapeInv, Restarted
<1>3. tick'.pc = "detecting" /\ tick'.tape = tick.tape \ {p} /\ DOMAIN tick' = DOMAIN tick
  BY <1>1 DEF TapeInv, TickOK, Resting
<1>4. RingOK' /\ WasJudged(p)' /\ \A q : WasJudged(q) => WasJudged(q)'
  <2>1. CASE already_seen(p)
    <3>1. PICK i \in DOMAIN _seen_order : _seen_order[i] = p
      BY <2>1 DEF already_seen, Range
    <3> DEFINE n == Len(judged)
               m == Len(_seen_order)
    <3>2. i \in 1..m /\ m \in Nat /\ n \in Nat /\ m <= n /\ judged[n - m + i] = p
      <4>1. _seen_order \in Seq(Nat) /\ judged \in Seq(Nat) /\ m <= n
        BY DEF TapeInv, RingOK, LogEnd
      <4>2. i \in 1..m /\ m \in Nat /\ n \in Nat
        BY <3>1, <4>1
      <4>3. _seen_order[i] = judged[n - m + i]
        BY <4>2 DEF TapeInv, RingOK, LogEnd
      <4> QED BY <3>1, <4>1, <4>2, <4>3
    <3>3. WasJudged(p)
      <4> HIDE DEF n, m
      <4>1. n - m + i \in 1..n
        BY <3>2
      <4>2. judged[n - m + i] = p
        BY <3>2
      <4> QED BY <4>1, <4>2 DEF WasJudged, n
    <3> QED BY <1>1, <2>1, <3>3, RingStays DEF TapeInv
  <2>2. CASE ~already_seen(p)
    BY <1>1, <1>2, <2>2, JudgingKeepsRing DEF TapeInv
  <2> QED BY <2>1, <2>2
<1>5. PrintsOK' /\ TickOK'
  BY <1>1, <1>2, <1>3 DEF TapeInv, PrintsOK, TickOK
<1>6. \A q \in Ids : (q = p \/ Accounted(q)) => Accounted(q)'
  BY <1>1, <1>4 DEF Accounted
<1>7. TapeCovers'
  BY <1>1, <1>2, <1>3, <1>6 DEF TapeInv, TapeCovers
<1> QED BY <1>4, <1>5, <1>7 DEF TapeInv

(* Every step keeps the tape covered.                                         *)
LEMMA TapeStep == TapeInv /\ [Next]_deskVars => TapeInv'
<1> SUFFICES ASSUME TapeInv, [Next]_deskVars PROVE TapeInv'
  OBVIOUS
<1>1. Bounded' /\ budget'.lag = budget.lag /\ now' >= now /\ now \in Nat /\ now' \in Nat
  BY BoundsStep DEF TapeInv, Bounded
<1>2. CASE UNCHANGED tapeVars
  <2>1. UNCHANGED << prints, tick, watermark, _seen_order, judged, excused >> /\ Ids' = Ids
    BY <1>2 DEF tapeVars, Ids
  <2>2. PrintsOK' /\ TickOK'
    <3>1. PrintsOK'
      BY <1>1, <2>1, PrintTypes DEF TapeInv, PrintsOK
    <3> QED BY <1>1, <2>1, <3>1 DEF TapeInv, TickOK
  <2>3. RingOK' /\ \A p : Accounted(p)' <=> Accounted(p)
    BY <2>1, RingStays DEF TapeInv, Accounted
  <2>4. TapeCovers'
    BY <1>1, <2>1, <2>3 DEF TapeInv, TapeCovers
  <2> QED BY <1>1, <2>2, <2>3, <2>4 DEF TapeInv
<1>3. CASE TapeNext
  <2>1. CASE \E k \in TapeTickers : print_made(k)
    BY <1>1, <2>1, PrintKeepsTape
  <2>2. CASE \E k \in TapeTickers : \E a \in BOOLEAN : _fetch_trade_tape(k, a)
    BY <1>1, <2>2, FetchKeepsTape
  <2>3. CASE \E p \in Ids : print_judged(p)
    BY <1>1, <2>3, WatcherKeepsTape
  <2>4. CASE trading_loop
    <3>1. /\ tick.pc = "sleep" /\ UNCHANGED << prints, watermark, _seen_order, judged, excused, now >> /\ Ids' = Ids
          /\ tick' = [pc |-> "fetching", since |-> watermark, now |-> now, left |-> TapeTickers, tape |-> {}]
      BY <2>4 DEF trading_loop, Ids
    <3>2. PrintsOK' /\ TickOK'
      BY <1>1, <3>1 DEF TapeInv, PrintsOK, TickOK, Resting
    <3>3. \A p \in Ids : prints[p].ticker \in TapeTickers
      BY PrintTypes DEF TapeInv
    <3>4. RingOK' /\ \A p : Accounted(p)' <=> Accounted(p)
      BY <3>1, RingStays DEF TapeInv, Accounted
    <3>5. TapeCovers'
      BY <1>1, <3>1, <3>3, <3>4 DEF TapeInv, TapeCovers
    <3> QED BY <1>1, <3>2, <3>4, <3>5 DEF TapeInv
  <2>5. CASE tape_fetched \/ _flush_trade_capture
    <3>1. /\ tick.pc \in {"fetching", "capturing"} /\ UNCHANGED << prints, _seen_order, judged, excused, now >> /\ Ids' = Ids
          /\ \E pc \in {"capturing", "detecting"} : tick' = [tick EXCEPT !.pc = pc]
          /\ tick.pc = "fetching" => tick.left = {} /\ watermark' = tick.now
          /\ tick.pc = "capturing" => watermark' = watermark
      BY <2>5 DEF tape_fetched, _flush_trade_capture, Ids
    <3>2. DOMAIN tick' = DOMAIN tick /\ tick'.pc \in {"capturing", "detecting"} /\ tick'.tape = tick.tape
      BY <3>1 DEF TapeInv, TickOK, Resting
    <3>3. PrintsOK' /\ TickOK'
      BY <1>1, <3>1, <3>2 DEF TapeInv, PrintsOK, TickOK
    <3>4. RingOK' /\ \A p : Accounted(p)' <=> Accounted(p)
      BY <3>1, RingStays DEF TapeInv, Accounted
    <3>5. TapeCovers'
      BY <1>1, <3>1, <3>2, <3>4 DEF TapeInv, TapeCovers
    <3> QED BY <1>1, <3>3, <3>4, <3>5 DEF TapeInv
  <2>6. CASE tick_cut \/ fetch_signals
    <3>1. /\ UNCHANGED << prints, watermark, _seen_order, judged, now >> /\ tick' = Resting /\ Ids' = Ids
          /\ excused \subseteq excused' /\ (tick.pc \in {"capturing", "detecting"} => tick.tape \subseteq excused')
      BY <2>6 DEF tick_cut, fetch_signals, Ids
    <3>2. PrintsOK' /\ TickOK'
      BY <1>1, <3>1 DEF TapeInv, PrintsOK, TickOK, Resting
    <3>3. RingOK' /\ \A p : Accounted(p) \/ p \in excused' => Accounted(p)'
      BY <3>1, RingStays DEF TapeInv, Accounted
    <3>4. \A p \in Ids : Due(prints[p].at, budget.lag, watermark) => Accounted(p)'
      BY <3>1, <3>3 DEF TapeInv, TickOK, TapeCovers
    <3>5. TapeCovers'
      BY <1>1, <3>1, <3>4 DEF TapeCovers, Resting
    <3> QED BY <1>1, <3>2, <3>3, <3>5 DEF TapeInv
  <2>7. CASE stopped_and_started
    <3>1. /\ UNCHANGED << prints, excused, now >> /\ tick' = Resting /\ watermark' = -1 /\ Ids' = Ids
          /\ _seen_order' = << >> /\ judged' = Append(judged, Restarted)
      BY <2>7 DEF stopped_and_started, Ids
    <3>2. PrintsOK' /\ TickOK'
      BY <1>1, <3>1 DEF TapeInv, PrintsOK, TickOK, Resting
    <3>3. RingOK'
      BY <3>1, RestartKeepsRing DEF TapeInv
    <3>4. \A p \in Ids : prints[p].at \in Nat
      BY PrintTypes DEF TapeInv
    <3>5. \A p \in Ids : ~Due(prints[p].at, budget.lag, -1)
      BY <3>4 DEF Due
    <3>6. TapeCovers'
      BY <1>1, <3>1, <3>5 DEF TapeCovers, Resting
    <3> QED BY <1>1, <3>2, <3>3, <3>6 DEF TapeInv
  <2> QED BY <1>3, <2>1, <2>2, <2>3, <2>4, <2>5, <2>6, <2>7 DEF TapeNext
<1> QED BY <1>2, <1>3 DEF Next, netting, reports, series, resets, index, tape, history_of_prices, signals, event_dates, tick_clock, deskVars, marketVars

(* No print is missed but for what a fault or a full tape cost, and none is   *)
(* judged twice while the ring of one process holds it                        *)
(* (whale_stream_handlers.py:775-784, kalshi_trade_tape.py:57-73), for any    *)
(* markets, overlap, pages, ring and delays that the overlap is there for.    *)
THEOREM TapeTheorem == Spec => []TapeIsJudged
<1>1. TapeInv => TapeIsJudged
  <2> SUFFICES ASSUME TapeInv PROVE NoPrintIsMissed
    BY DEF TapeIsJudged, TapeInv, RingOK, OnceUpTo, OnceWithinTheRing
  <2> SUFFICES ASSUME tick.pc = "sleep", NEW p \in Ids, prints[p].at + budget.lag < watermark PROVE p \in Range(judged) \cup excused
    BY DEF NoPrintIsMissed
  <2>1. prints[p].at \in Nat
    BY PrintTypes DEF TapeInv, PrintsOK
  <2>2. Due(prints[p].at, budget.lag, watermark)
    BY <2>1 DEF TapeInv, Bounded, TickOK, Due
  <2>3. Accounted(p)
    BY <2>2 DEF TapeInv, TapeCovers
  <2>4. WasJudged(p) => p \in Range(judged)
    <3>1. DOMAIN judged = 1..Len(judged)
      BY DEF TapeInv, RingOK, LogEnd
    <3> QED BY <3>1 DEF WasJudged, Range
  <2> QED BY <2>3, <2>4 DEF Accounted
<1> QED BY <1>1, TapeStarts, TapeStep, PTL DEF Spec

-------------------------------------------------------------------------------
(* The price history. Of some snapshots one is the newest, and what is of none *)
(* of the table, the executor and what was lost has been too old to be kept:   *)
(* a price looked up is that of a newest price known, or this one was too old. *)

IsNewest(prices, ids, s) ==
  s \in ids /\ \A r \in ids : prices[r].at < prices[s].at \/ (prices[r].at = prices[s].at /\ r <= s)

(* A set of numbers has a least one. *)
LEMMA Least ==
  ASSUME NEW T, T \subseteq Nat, T # {}
  PROVE  \E x \in T : \A y \in T : x <= y
<1>1. PICK x \in T : \A y \in T : ~(<<y, x>> \in OpToRel(<, Nat))
  BY NatLessThanWellFounded, WFMin
<1>2. \A y \in T : ~(y < x)
  BY <1>1 DEF OpToRel
<1> QED BY <1>2

(* A set of numbers below a bound has a greatest one. *)
LEMMA Greatest ==
  ASSUME NEW n \in Nat, NEW T, T \subseteq 0..n, T # {}
  PROVE  \E x \in T : \A y \in T : y <= x
<1> DEFINE U == { n - x : x \in T }
<1>1. U \subseteq Nat /\ U # {}
  <2>1. \A x \in T : n - x \in Nat
    OBVIOUS
  <2>2. PICK x \in T : TRUE
    OBVIOUS
  <2>3. n - x \in U
    OBVIOUS
  <2> QED BY <2>1, <2>3
<1>2. PICK u \in U : \A v \in U : u <= v
  <2> HIDE DEF U
  <2> QED BY <1>1, Least
<1>3. PICK x \in T : u = n - x
  BY <1>2
<1>4. \A y \in T : n - y \in U
  OBVIOUS
<1>5. \A y \in T : y <= x
  BY <1>2, <1>3, <1>4
<1> QED BY <1>5

(* Of some timed snapshots one is the newest.                                 *)
LEMMA NewestExists ==
  ASSUME NEW n \in Nat, NEW m \in Nat, NEW prices, NEW ids, ids \subseteq 1..n, ids # {}, \A i \in ids : prices[i].at \in 0..m
  PROVE  \E s : IsNewest(prices, ids, s)
<1> DEFINE T == { prices[i].at : i \in ids }
<1>1. T \subseteq 0..m /\ T # {}
  OBVIOUS
<1>2. PICK t \in T : \A u \in T : u <= t
  <2> HIDE DEF T
  <2> QED BY <1>1, Greatest
<1>3. \A i \in ids : prices[i].at \in T
  OBVIOUS
<1> DEFINE L == { i \in ids : prices[i].at = t }
<1>4. L \subseteq 0..n /\ L # {}
  <2>1. PICK i \in ids : prices[i].at = t
    BY <1>2
  <2>2. i \in L
    BY <2>1
  <2>3. L \subseteq ids
    OBVIOUS
  <2> HIDE DEF L, T
  <2>4. \A j \in 1..n : j \in 0..n
    OBVIOUS
  <2>5. \A j \in L : j \in 1..n
    BY <2>3
  <2>6. L \subseteq 0..n
    BY <2>4, <2>5
  <2> QED BY <2>2, <2>6
<1>5. PICK s \in L : \A r \in L : r <= s
  <2> HIDE DEF L
  <2> QED BY <1>4, Greatest
<1>6. s \in ids /\ prices[s].at = t
  BY <1>5
<1>7. ASSUME NEW r \in ids PROVE prices[r].at < prices[s].at \/ (prices[r].at = prices[s].at /\ r <= s)
  <2>1. prices[r].at <= t /\ prices[r].at \in 0..m /\ t \in 0..m
    BY <1>1, <1>2, <1>3
  <2>2. prices[r].at = t => r <= s
    BY <1>5
  <2> QED BY <1>6, <2>1, <2>2
<1> QED BY <1>6, <1>7 DEF IsNewest

PriceRow(k, p, t, s) == [ticker |-> k, price |-> p, shown |-> t, streamed |-> s, at |-> t]
PriceRowOK(row, latest_) == row = PriceRow(row.ticker, row.price, row.shown, row.streamed) /\ row.shown \in 0..latest_
PricesOK ==
  /\ \E S : seen_prices \in Seq(S)
  /\ \A i \in 1..Len(seen_prices) : PriceRowOK(seen_prices[i], now)
Told == in_flight \cup unrecorded
TableOK ==
  /\ snapshots \subseteq 1..Len(seen_prices) /\ Told \subseteq 1..Len(seen_prices)
  /\ snapshots \cap Told = {} /\ in_flight \cap unrecorded = {}
  /\ \A q \in 1..Len(seen_prices) \ (snapshots \cup Told) : seen_prices[q].shown < now - HistoryRetention
KnownTo(m, trades_, prices) ==
  { q \in 1..m.upto \ m.excused : prices[q].ticker = trades_[m.trade].ticker /\ prices[q].shown <= m.target }
NewestOf(prices, known) == { q \in known : \A r \in known : prices[r].shown <= prices[q].shown }
PricedBy(m, prices, newest) ==
  \/ IF \A q \in newest : m.target - prices[q].shown > 2 * CaptureInterval THEN m.price = NoPrice
     ELSE m.price \in { prices[q].price : q \in newest }
  \/ \E q \in newest : prices[q].shown < m.at - HistoryRetention
MarkoutOf(m, trades_, prices) == PricedBy(m, prices, NewestOf(prices, KnownTo(m, trades_, prices)))
MarkoutsOK ==
  /\ \E S : history_trades \in Seq(S)
  /\ \A m \in markouts :
       /\ m.trade \in 1..Len(history_trades) /\ m.upto \in 0..Len(seen_prices)
       /\ MarkoutOf(m, history_trades, seen_prices)
HistoryInv == Bounded /\ PricesOK /\ TableOK /\ MarkoutsOK

(* No price, no trade and no markout yet.                                     *)
LEMMA HistoryStarts == Init => HistoryInv
<1> SUFFICES ASSUME Init PROVE HistoryInv
  OBVIOUS
<1>1. Bounded
  BY BoundsStart
<1>2. seen_prices = << >> /\ snapshots = {} /\ in_flight = {} /\ unrecorded = {} /\ history_trades = << >> /\ markouts = {}
  BY DEF Init, HistoryInit
<1>3. << >> \in Seq({}) /\ Len(<< >>) = 0
  OBVIOUS
<1>4. PricesOK /\ TableOK
  BY <1>2, <1>3 DEF PricesOK, TableOK, Told
<1>5. MarkoutsOK
  BY <1>2, <1>3 DEF MarkoutsOK
<1> QED BY <1>1, <1>4, <1>5 DEF HistoryInv

(* A list whose every element is of some set is still one with another. *)
LEMMA Grown ==
  ASSUME NEW list, NEW S, list \in Seq(S), NEW x
  PROVE  /\ Append(list, x) \in Seq(S \cup {x}) /\ Len(list) \in Nat /\ Len(Append(list, x)) = Len(list) + 1
         /\ Append(list, x)[Len(list) + 1] = x /\ \A i \in 1..Len(list) : Append(list, x)[i] = list[i]
<1>1. list \in Seq(S \cup {x})
  OBVIOUS
<1> QED BY <1>1

(* A markout is about prices and trades that stay when more are added. *)
LEMMA MarkoutStays ==
  ASSUME NEW n \in Nat, NEW t \in Nat, NEW m, NEW before, NEW after, NEW trades_, NEW longer,
         \A i \in 1..n : after[i] = before[i], \A i \in 1..t : longer[i] = trades_[i],
         m.trade \in 1..t, m.upto \in 0..n, MarkoutOf(m, trades_, before)
  PROVE  MarkoutOf(m, longer, after)
<1> DEFINE known == KnownTo(m, trades_, before)
           newest == NewestOf(before, known)
<1>1. \A i \in 1..m.upto : after[i] = before[i]
  OBVIOUS
<1>2. KnownTo(m, longer, after) = known
  BY <1>1 DEF KnownTo
<1>3. \A i \in known : after[i] = before[i]
  BY <1>1 DEF KnownTo
<1>4. NewestOf(after, known) = newest
  <2> HIDE DEF known
  <2> QED BY <1>3 DEF NewestOf
<1>5. \A i \in newest : after[i] = before[i]
  BY <1>3 DEF NewestOf
<1>6. PricedBy(m, before, newest)
  BY DEF MarkoutOf
<1>7. PricedBy(m, after, newest)
  <2> HIDE DEF newest, known
  <2>1. { after[q].price : q \in newest } = { before[q].price : q \in newest }
    BY <1>5
  <2> QED BY <1>5, <1>6, <2>1 DEF PricedBy
<1> QED BY <1>2, <1>4, <1>7 DEF MarkoutOf

(* A price is shown: its row is in the executor's hands, in none of the rest. *)
LEMMA QuoteKeepsHistory ==
  ASSUME HistoryInv, Bounded', NEW k, NEW p, NEW streamed, p # NoPrice, quoted(k, p, streamed)
  PROVE  HistoryInv'
<1> DEFINE n == Len(seen_prices)
           x == PriceRow(k, p, now, streamed)
<1>1. /\ seen_prices' = Append(seen_prices, x) /\ in_flight' = in_flight \cup {n + 1}
      /\ UNCHANGED << unrecorded, snapshots, history_trades, markouts, now >>
  BY DEF quoted, PriceRow
<1>2. PICK S : seen_prices \in Seq(S)
  BY DEF HistoryInv, PricesOK
<1>3. /\ seen_prices' \in Seq(S \cup {x}) /\ n \in Nat /\ Len(seen_prices') = n + 1
      /\ seen_prices'[n + 1] = x /\ \A i \in 1..n : seen_prices'[i] = seen_prices[i]
  <2> HIDE DEF x
  <2> QED BY <1>1, <1>2, Grown
<1>4. now \in Nat
  BY DEF HistoryInv, Bounded
<1>5. PriceRowOK(x, now)
  BY <1>4 DEF PriceRowOK, PriceRow
<1> HIDE DEF x
<1>6. PricesOK'
  <2>1. ASSUME NEW i \in 1..n + 1 PROVE PriceRowOK(seen_prices'[i], now)
    <3>1. CASE i = n + 1
      BY <1>3, <1>5, <3>1
    <3>2. CASE i \in 1..n
      BY <1>3, <3>2 DEF HistoryInv, PricesOK
    <3> QED BY <1>3, <3>1, <3>2
  <2> QED BY <1>1, <1>3, <2>1 DEF PricesOK
<1>7. TableOK'
  <2>1. /\ snapshots \subseteq 1..n /\ Told \subseteq 1..n /\ snapshots \cap Told = {} /\ in_flight \cap unrecorded = {}
        /\ \A q \in 1..n \ (snapshots \cup Told) : seen_prices[q].shown < now - HistoryRetention
    BY DEF HistoryInv, TableOK
  <2>2. Told' = Told \cup {n + 1}
    BY <1>1 DEF Told
  <2>3. n + 1 \notin 1..n /\ 1..n + 1 = 1..n \cup {n + 1}
    BY <1>3
  <2> HIDE DEF n
  <2>4. snapshots \cap (Told \cup {n + 1}) = {} /\ in_flight' \cap unrecorded = {}
    BY <1>1, <2>1, <2>3 DEF Told
  <2>5. ASSUME NEW q \in 1..n + 1, q \notin snapshots \cup Told \cup {n + 1} PROVE seen_prices'[q].shown < now - HistoryRetention
    BY <1>3, <2>1, <2>3, <2>5
  <2> QED BY <1>1, <1>3, <2>1, <2>2, <2>3, <2>4, <2>5 DEF TableOK
<1>8. MarkoutsOK'
  <2>1. ASSUME NEW m \in markouts
        PROVE  m.trade \in 1..Len(history_trades) /\ m.upto \in 0..n /\ MarkoutOf(m, history_trades, seen_prices')
    <3>1. m.trade \in 1..Len(history_trades) /\ m.upto \in 0..n /\ MarkoutOf(m, history_trades, seen_prices) /\ Len(history_trades) \in Nat
      BY DEF HistoryInv, MarkoutsOK
    <3> QED BY <1>3, <3>1, MarkoutStays
  <2>2. \A m \in markouts : m.upto \in 0..n + 1
    BY <1>3, <2>1
  <2> QED BY <1>1, <1>3, <2>1, <2>2 DEF HistoryInv, MarkoutsOK
<1> QED BY <1>6, <1>7, <1>8 DEF HistoryInv

(* A row has the moment its price was shown.                                  *)
LEMMA RowIs ==
  ASSUME NEW row, NEW latest_, PriceRowOK(row, latest_)
  PROVE  row.at = row.shown /\ row.shown \in 0..latest_ /\ [row EXCEPT !.at = row.shown] = row
<1> DEFINE k == row.ticker
           p == row.price
           t == row.shown
           s == row.streamed
<1>1. row = PriceRow(k, p, t, s)
  BY DEF PriceRowOK
<1> HIDE DEF k, p, t, s
<1>2. row.at = row.shown /\ [row EXCEPT !.at = row.shown] = row
  BY <1>1 DEF PriceRow
<1> QED BY <1>2 DEF PriceRowOK

(* So all of them have.                                                       *)
LEMMA RowsAre == ASSUME PricesOK PROVE \A i \in 1..Len(seen_prices) : seen_prices[i].at = seen_prices[i].shown /\ seen_prices[i].shown \in 0..now
BY RowIs DEF PricesOK

(* A row is written with the moment its price was shown, which is what it has. *)
LEMMA StampStays == ASSUME PricesOK, NEW i \in 1..Len(seen_prices), written(i) PROVE UNCHANGED seen_prices
<1> DEFINE v == [seen_prices[i] EXCEPT !.at = seen_prices[i].shown]
<1>1. seen_prices' = [seen_prices EXCEPT ![i] = v]
  BY DEF written, timestamp
<1>2. v = seen_prices[i]
  BY RowIs DEF PricesOK
<1>3. PICK S : seen_prices \in Seq(S)
  BY DEF PricesOK
<1> HIDE DEF v
<1> QED BY <1>1, <1>2, <1>3

(* What the table, the executor and the lost rows are among them may change,  *)
(* as long as none is in two and what leaves them all is too old.             *)
LEMMA MovingKeepsHistory ==
  ASSUME HistoryInv, Bounded', UNCHANGED << seen_prices, history_trades, markouts, now >>, TableOK'
  PROVE  HistoryInv'
BY DEF HistoryInv, PricesOK, MarkoutsOK

(* A write comes to its end: the row is in the table, or lost.                *)
LEMMA WriteKeepsHistory ==
  ASSUME HistoryInv, Bounded', NEW i \in 1..Len(seen_prices), i \in in_flight, written(i) \/ dropped(i), UNCHANGED << history_trades, markouts, now >>
  PROVE  HistoryInv'
<1>1. UNCHANGED seen_prices
  BY StampStays DEF HistoryInv, dropped
<1>2. CASE written(i)
  <2>1. in_flight' = in_flight \ {i} /\ snapshots' = snapshots \cup {i} /\ unrecorded' = unrecorded
    BY <1>2 DEF written
  <2>2. TableOK'
    BY <1>1, <2>1 DEF HistoryInv, TableOK, Told
  <2> QED BY <1>1, <2>2, MovingKeepsHistory
<1>3. CASE dropped(i)
  <2>1. in_flight' = in_flight \ {i} /\ unrecorded' = unrecorded \cup {i} /\ snapshots' = snapshots
    BY <1>3 DEF dropped
  <2>2. TableOK'
    BY <1>1, <2>1 DEF HistoryInv, TableOK, Told
  <2> QED BY <1>1, <2>2, MovingKeepsHistory
<1> QED BY <1>2, <1>3

(* The process stops: what was in flight is lost. *)
LEMMA StopKeepsHistory == ASSUME HistoryInv, Bounded', history_restarted PROVE HistoryInv'
<1>1. in_flight' = {} /\ unrecorded' = unrecorded \cup in_flight /\ UNCHANGED << seen_prices, snapshots, history_trades, markouts, now >>
  BY DEF history_restarted
<1>2. TableOK'
  BY <1>1 DEF HistoryInv, TableOK, Told
<1> QED BY <1>1, <1>2, MovingKeepsHistory

(* A trade is added at the end; the markouts there are stay.                  *)
LEMMA TradeKeepsHistory == ASSUME HistoryInv, Bounded', NEW k, traded(k) PROVE HistoryInv'
<1> DEFINE t == Len(history_trades)
           n == Len(seen_prices)
           x == [ticker |-> k, at |-> now]
<1>1. history_trades' = Append(history_trades, x) /\ UNCHANGED << seen_prices, in_flight, unrecorded, snapshots, markouts, now >>
  BY DEF traded, pricesVars
<1>2. PICK S : history_trades \in Seq(S)
  BY DEF HistoryInv, MarkoutsOK
<1>3. /\ history_trades' \in Seq(S \cup {x}) /\ t \in Nat /\ Len(history_trades') = t + 1
      /\ \A i \in 1..t : history_trades'[i] = history_trades[i]
  <2> HIDE DEF x
  <2> QED BY <1>1, <1>2, Grown
<1>4. PricesOK' /\ TableOK' /\ n \in Nat
  BY <1>1 DEF HistoryInv, PricesOK, TableOK, Told
<1>5. ASSUME NEW m \in markouts
      PROVE  m.trade \in 1..t /\ m.upto \in 0..n /\ MarkoutOf(m, history_trades', seen_prices)
  <2>1. m.trade \in 1..t /\ m.upto \in 0..n /\ MarkoutOf(m, history_trades, seen_prices)
    BY DEF HistoryInv, MarkoutsOK
  <2> HIDE DEF t, n
  <2> QED BY <1>3, <1>4, <2>1, MarkoutStays
<1> HIDE DEF x
<1>6. MarkoutsOK'
  <2>1. \A m \in markouts : m.trade \in 1..t + 1
    BY <1>3, <1>5
  <2> QED BY <1>1, <1>3, <1>5, <2>1 DEF MarkoutsOK
<1> QED BY <1>4, <1>6 DEF HistoryInv

(* A markout is collected: its price is that of a newest of what is known, or  *)
(* one of these has been too old to be kept.                                  *)
LEMMA MarkoutIsOfItsMoment ==
  ASSUME HistoryInv, NEW to \in pending_markout_targets
  PROVE  LET m == markout(to)
         IN  m.trade \in 1..Len(history_trades) /\ m.upto \in 0..Len(seen_prices) /\ MarkoutOf(m, history_trades, seen_prices)
<1> DEFINE m == markout(to)
           n == Len(seen_prices)
           k == history_trades[to[1]].ticker
           target == TargetOf(to[1], to[2])
           known == KnownTo(m, history_trades, seen_prices)
           newest == NewestOf(seen_prices, known)
           kept == { s \in SnapshotsOf(k) : seen_prices[s].at <= target }
<1>1. /\ m.trade = to[1] /\ m.target = target /\ m.at = now /\ m.upto = n /\ m.excused = Told
      /\ m.price = PriceAmong(SnapshotsOf(k), target, 2 * CaptureInterval)
  BY DEF markout, recent_price, Told
<1>2. to[1] \in 1..Len(history_trades)
  BY DEF pending_markout_targets
<1>3. n \in Nat /\ now \in Nat
  BY DEF HistoryInv, PricesOK, Bounded
<1>4. \A i \in 1..n : seen_prices[i].at = seen_prices[i].shown /\ seen_prices[i].shown \in 0..now
  BY RowsAre DEF HistoryInv
<1>5. /\ snapshots \subseteq 1..n /\ snapshots \cap Told = {}
      /\ \A q \in 1..n \ (snapshots \cup Told) : seen_prices[q].shown < now - HistoryRetention
  BY DEF HistoryInv, TableOK
<1>6. known = { q \in 1..n \ Told : seen_prices[q].ticker = k /\ seen_prices[q].shown <= target }
  BY <1>1 DEF KnownTo
<1>7. kept \subseteq known /\ \A q \in known \ kept : seen_prices[q].shown < now - HistoryRetention
  <2> HIDE DEF known, m, n, k, target
  <2> QED BY <1>4, <1>5, <1>6 DEF SnapshotsOf
<1>8. known \subseteq 1..n
  BY <1>6
<1>9. m.price = IF kept = {} THEN NoPrice
                ELSE IF target - seen_prices[newest_of(kept)].at > 2 * CaptureInterval THEN NoPrice ELSE seen_prices[newest_of(kept)].price
  BY <1>1 DEF PriceAmong
<1>10. PricedBy(m, seen_prices, newest)
  <2> HIDE DEF m, n, k, target, known, kept
  <2>1. CASE known = {}
    <3>1. newest = {} /\ kept = {}
      BY <1>7, <2>1 DEF NewestOf
    <3> QED BY <1>9, <3>1 DEF PricedBy
  <2>2. CASE known # {} /\ \E q \in newest : seen_prices[q].shown < now - HistoryRetention
    BY <1>1, <2>2 DEF PricedBy
  <2>3. CASE known # {} /\ \A q \in newest : ~(seen_prices[q].shown < now - HistoryRetention)
    <3>1. \A i \in known : seen_prices[i].at \in 0..now /\ seen_prices[i].shown = seen_prices[i].at
      BY <1>4, <1>8
    <3>2. PICK s : IsNewest(seen_prices, known, s)
      BY <1>3, <1>8, <2>3, <3>1, NewestExists
    <3>3. s \in newest
      BY <3>1, <3>2 DEF IsNewest, NewestOf
    <3>4. s \in kept
      BY <1>7, <2>3, <3>3 DEF NewestOf
    <3>5. PICK c : IsNewest(seen_prices, kept, c)
      <4>1. kept \subseteq 1..n /\ \A i \in kept : seen_prices[i].at \in 0..now
        BY <1>7, <1>8, <3>1
      <4> QED BY <1>3, <3>4, <4>1, NewestExists
    <3>6. IsNewest(seen_prices, kept, newest_of(kept))
      BY <3>5 DEF IsNewest, newest_of
    <3> DEFINE v == newest_of(kept)
    <3>7. v \in kept /\ v \in known /\ seen_prices[s].at <= seen_prices[v].at
      <4>1. seen_prices[s].at < seen_prices[v].at \/ seen_prices[s].at = seen_prices[v].at
        BY <3>4, <3>6 DEF IsNewest
      <4>2. v \in kept /\ v \in known
        BY <1>7, <3>6 DEF IsNewest
      <4> HIDE DEF v
      <4> QED BY <3>1, <3>2, <4>1, <4>2 DEF IsNewest
    <3> HIDE DEF v
    <3>8. v \in newest /\ \A q \in newest : seen_prices[q].shown = seen_prices[v].at
      <4>1. \A r \in known : seen_prices[r].shown <= seen_prices[v].shown
        BY <3>1, <3>2, <3>7 DEF IsNewest
      <4> QED BY <3>1, <3>7, <4>1 DEF NewestOf
    <3>9. m.price = IF target - seen_prices[v].at > 2 * CaptureInterval THEN NoPrice ELSE seen_prices[v].price
      BY <1>9, <3>4 DEF v
    <3>10. (\A q \in newest : m.target - seen_prices[q].shown > 2 * CaptureInterval) <=> target - seen_prices[v].at > 2 * CaptureInterval
      BY <1>1, <3>8
    <3>11. seen_prices[v].price \in { seen_prices[q].price : q \in newest }
      BY <3>8
    <3> QED BY <3>9, <3>10, <3>11 DEF PricedBy
  <2> QED BY <2>1, <2>2, <2>3
<1>11. MarkoutOf(m, history_trades, seen_prices)
  BY <1>10 DEF MarkoutOf
<1>12. n \in 0..n
  BY <1>3
<1> HIDE DEF m, n
<1>13. m.trade \in 1..Len(history_trades) /\ m.upto \in 0..n /\ MarkoutOf(m, history_trades, seen_prices)
  BY <1>1, <1>2, <1>11, <1>12
<1> QED BY <1>13 DEF m, n

(* The signals read the history and do not write it.                          *)
LEMMA SignalsKeepHistory == SignalsNext => UNCHANGED historyVars
<1>1. ASSUME NEW w, NEW c PROVE _handle_signal(w, c) => UNCHANGED historyVars
  BY DEF _handle_signal
<1>2. ASSUME NEW w, NEW b, NEW o PROVE _process_trades_sync(w, b, o) => UNCHANGED historyVars
  BY Zenon DEF _process_trades_sync
<1>3. ASSUME NEW k, NEW r PROVE resolve_from_market_results(k, r) \/ analyze_market(k, r) \/ rejections_graded(k, r) => UNCHANGED historyVars
  BY Zenon DEF resolve_from_market_results, analyze_market, rejections_graded, candidatesAlone
<1>4. ASSUME NEW q, NEW r PROVE stop_window(q, r) \/ release(q, r) => UNCHANGED historyVars
  BY Zenon DEF stop_window, release
<1>5. ASSUME NEW a, NEW b, NEW r PROVE quarantine(a, b, r) \/ clear_range(a, b) => UNCHANGED historyVars
  BY Zenon DEF quarantine, clear_range
<1>6. start_window \/ recompute_deltas => UNCHANGED historyVars
  BY Zenon DEF start_window, recompute_deltas
<1>7. ASSUME NEW s PROVE daemon_takes_rows(s) \/ daemon_writes_rows(s) \/ rejections_read(s) \/ _gate_check_and_maybe_filter(s) => UNCHANGED historyVars
  BY Zenon DEF daemon_takes_rows, daemon_writes_rows, rejections_read, _gate_check_and_maybe_filter, candidatesAlone
<1> QED BY <1>1, <1>2, <1>3, <1>4, <1>5, <1>6, <1>7 DEF SignalsNext

(* A batch of what is too old goes.                                            *)
LEMMA PruneKeepsHistory == ASSUME HistoryInv, Bounded', prune_history PROVE HistoryInv'
<1> DEFINE expired == { s \in snapshots : seen_prices[s].at < now - HistoryRetention }
<1>1. PICK gone \in SUBSET expired : snapshots' = snapshots \ gone
  BY DEF prune_history
<1>2. UNCHANGED << seen_prices, in_flight, unrecorded, history_trades, markouts, now >>
  BY DEF prune_history
<1>3. \A i \in 1..Len(seen_prices) : seen_prices[i].at = seen_prices[i].shown
  BY RowsAre DEF HistoryInv
<1>4. \A s \in gone : s \in snapshots /\ seen_prices[s].shown < now - HistoryRetention
  BY <1>3 DEF HistoryInv, TableOK
<1> HIDE DEF expired
<1>5. TableOK'
  BY <1>1, <1>2, <1>4 DEF HistoryInv, TableOK, Told
<1> QED BY <1>2, <1>5, MovingKeepsHistory

(* Every step keeps each markout of its moment.                               *)
LEMMA HistoryStep == HistoryInv /\ [Next]_deskVars => HistoryInv'
<1> SUFFICES ASSUME HistoryInv, [Next]_deskVars PROVE HistoryInv'
  OBVIOUS
<1>1. Bounded' /\ now' >= now /\ now \in Nat /\ now' \in Nat
  BY BoundsStep DEF HistoryInv, Bounded
<1>2. CASE UNCHANGED << pricesVars, history_trades, markouts >>
  <2>1. UNCHANGED << seen_prices, in_flight, unrecorded, snapshots, history_trades, markouts >>
    BY <1>2 DEF pricesVars
  <2>2. PricesOK'
    <3>1. ASSUME NEW i \in 1..Len(seen_prices) PROVE PriceRowOK(seen_prices[i], now')
      <4>1. PriceRowOK(seen_prices[i], now)
        BY DEF HistoryInv, PricesOK
      <4> QED BY <1>1, <4>1 DEF PriceRowOK
    <3> QED BY <2>1, <3>1 DEF HistoryInv, PricesOK
  <2>3. TableOK'
    <3>1. \A q \in 1..Len(seen_prices) : seen_prices[q].shown \in Nat
      BY <1>1, RowsAre DEF HistoryInv
    <3>2. \A q \in 1..Len(seen_prices) : seen_prices[q].shown < now - HistoryRetention => seen_prices[q].shown < now' - HistoryRetention
      BY <1>1, <3>1, HistoryAssumption
    <3> QED BY <2>1, <3>2 DEF HistoryInv, TableOK, Told
  <2>4. MarkoutsOK'
    BY <2>1 DEF HistoryInv, MarkoutsOK
  <2> QED BY <1>1, <2>2, <2>3, <2>4 DEF HistoryInv
<1>3. CASE HistoryNext
  <2>1. ASSUME NEW k, NEW p, NEW streamed, quoted(k, p, streamed) PROVE HistoryInv'
    <3>1. CASE p = NoPrice
      BY <1>2, <2>1, <3>1 DEF quoted, pricesVars
    <3> QED BY <1>1, <2>1, <3>1, QuoteKeepsHistory
  <2>2. ASSUME NEW i \in 1..Len(seen_prices), record_snapshots(i) \/ record_snapshot_from_ticker(i) PROVE HistoryInv'
    <3>1. i \in in_flight /\ (written(i) \/ dropped(i)) /\ UNCHANGED << history_trades, markouts, now >>
      BY <2>2, Zenon DEF record_snapshots, record_snapshot_from_ticker
    <3> QED BY <1>1, <3>1, WriteKeepsHistory
  <2>3. ASSUME NEW k, traded(k) PROVE HistoryInv'
    BY <1>1, <2>3, TradeKeepsHistory
  <2>4. ASSUME NEW k, close_known(k) PROVE HistoryInv'
    BY <1>2, <2>4 DEF close_known
  <2>5. CASE _maybe_capture_markouts
    <3>1. /\ UNCHANGED << pricesVars, history_trades, now >>
          /\ \E done \in SUBSET pending_markout_targets : markouts' = markouts \cup { markout(to) : to \in done }
      BY <2>5 DEF _maybe_capture_markouts
    <3>2. UNCHANGED << seen_prices, in_flight, unrecorded, snapshots, history_trades, now >>
      BY <3>1 DEF pricesVars
    <3>3. PricesOK' /\ TableOK'
      BY <3>2 DEF HistoryInv, PricesOK, TableOK, Told
    <3>4. ASSUME NEW m \in markouts'
          PROVE  m.trade \in 1..Len(history_trades) /\ m.upto \in 0..Len(seen_prices) /\ MarkoutOf(m, history_trades, seen_prices)
      <4>1. CASE m \in markouts
        BY <4>1 DEF HistoryInv, MarkoutsOK
      <4>2. CASE \E to \in pending_markout_targets : m = markout(to)
        BY <4>2, MarkoutIsOfItsMoment
      <4> QED BY <3>1, <4>1, <4>2
    <3>5. MarkoutsOK'
      BY <3>2, <3>4 DEF HistoryInv, MarkoutsOK
    <3> QED BY <1>1, <3>3, <3>5 DEF HistoryInv
  <2>6. CASE prune_history \/ history_restarted
    BY <1>1, <2>6, PruneKeepsHistory, StopKeepsHistory
  <2> QED BY <1>3, <2>1, <2>2, <2>3, <2>4, <2>5, <2>6 DEF HistoryNext
<1>4. CASE SignalsNext
  BY <1>2, <1>4, SignalsKeepHistory DEF historyVars
<1> QED BY <1>2, <1>3, <1>4 DEF Next, netting, reports, series, resets, index, tape, history_of_prices, signals, event_dates, tick_clock, deskVars, marketVars, historyVars

(* A markout is the price of its own moment (market_history.py:416-437), for  *)
(* any intervals, offsets and retention, however late, out of turn or lost a   *)
(* write is and whenever the capture comes.                                   *)
THEOREM MarkoutsTheorem == Spec => []MarkoutsAreOfTheirMoment
<1>1. HistoryInv => MarkoutsAreOfTheirMoment
  BY DEF HistoryInv, MarkoutsOK, MarkoutOf, PricedBy, NewestOf, KnownTo, MarkoutsAreOfTheirMoment
<1> QED BY <1>1, HistoryStarts, HistoryStep, PTL DEF Spec

-------------------------------------------------------------------------------
(* Resets. The rows of the account are numbered as they come: none that is    *)
(* there has the number of one that is gone.                                  *)

(* As many values as arguments, if no two share one. *)
LEMMA AsManyValues ==
  ASSUME NEW S, IsFiniteSet(S), NEW f, DOMAIN f = S, \A x, y \in S : f[x] = f[y] => x = y
  PROVE  IsFiniteSet({ f[x] : x \in S }) /\ Cardinality({ f[x] : x \in S }) = Cardinality(S)
<1> DEFINE T == { f[x] : x \in S }
           g == [x \in S |-> f[x]]
<1>1. g \in Bijection(S, T)
  <2>1. g \in [S -> T]
    OBVIOUS
  <2>2. \A x, y \in S : g[x] = g[y] => x = y
    OBVIOUS
  <2>3. \A t \in T : \E x \in S : g[x] = t
    OBVIOUS
  <2> HIDE DEF g, T
  <2> QED BY <2>1, <2>2, <2>3 DEF Bijection, Injection, Surjection, IsInjective
<1>2. ExistsBijection(S, T)
  BY <1>1 DEF ExistsBijection
<1> HIDE DEF T
<1>3. IsFiniteSet(T) /\ Cardinality(T) = Cardinality(S)
  BY <1>2, FS_Bijection
<1> QED BY <1>3 DEF T

NextOf(rows, gone) == 1 + Cardinality(rows) + Cardinality(gone)
Numbered(rows, gone) ==
  /\ IsFiniteSet(rows) /\ IsFiniteSet(gone)
  /\ \A t \in rows : t.id \in Nat /\ t.id < NextOf(rows, gone)
  /\ \A t, u \in rows : t.id = u.id => t = u
  /\ \A d \in gone : d.row.id \in Nat /\ d.row.id < NextOf(rows, gone)
  /\ \A t \in rows, d \in gone : t.id # d.row.id

(* The next row number is one, and the counts it is made of are numbers.      *)
LEMMA NumberOfNext ==
  ASSUME NEW rows, NEW gone, Numbered(rows, gone)
  PROVE  Cardinality(rows) \in Nat /\ Cardinality(gone) \in Nat /\ NextOf(rows, gone) \in Nat \ {0}
BY FS_CardinalityType DEF Numbered, NextOf

(* Rows with the numbers that follow are added. *)
LEMMA RowsAdded ==
  ASSUME NEW rows, NEW gone, Numbered(rows, gone), NEW new, IsFiniteSet(new),
         \A t \in new : t.id \in NextOf(rows, gone)..NextOf(rows, gone) + Cardinality(new) - 1,
         \A t, u \in new : t.id = u.id => t = u
  PROVE  Numbered(rows \cup new, gone) /\ Cardinality(rows \cup new) = Cardinality(rows) + Cardinality(new)
<1> DEFINE n == NextOf(rows, gone)
<1>1. n \in Nat \ {0} /\ Cardinality(rows) \in Nat /\ Cardinality(gone) \in Nat /\ Cardinality(new) \in Nat
  BY NumberOfNext, FS_CardinalityType
<1>2. \A t \in rows : t.id \in Nat /\ t.id < n
  BY DEF Numbered
<1>3. \A t \in new : t.id \in Nat /\ t.id >= n /\ t.id < n + Cardinality(new)
  BY <1>1
<1> HIDE DEF n
<1>4. rows \cap new = {}
  BY <1>1, <1>2, <1>3
<1>5. IsFiniteSet(rows \cup new) /\ Cardinality(rows \cup new) = Cardinality(rows) + Cardinality(new)
  <2>1. IsFiniteSet(rows)
    BY DEF Numbered
  <2>2. IsFiniteSet(rows \cup new) /\ Cardinality(rows \cup new) = Cardinality(rows) + Cardinality(new) - Cardinality(rows \cap new)
    BY <2>1, FS_Union
  <2>3. Cardinality(rows \cap new) = 0
    BY <1>4, FS_EmptySet
  <2> QED BY <1>1, <2>2, <2>3
<1>6. NextOf(rows \cup new, gone) = n + Cardinality(new)
  BY <1>1, <1>5 DEF NextOf, n
<1>7. \A t \in rows \cup new : t.id \in Nat /\ t.id < n + Cardinality(new)
  BY <1>1, <1>2, <1>3
<1>8. \A t, u \in rows \cup new : t.id = u.id => t = u
  BY <1>1, <1>2, <1>3 DEF Numbered
<1>9. \A d \in gone : d.row.id \in Nat /\ d.row.id < n /\ d.row.id < n + Cardinality(new)
  BY <1>1 DEF Numbered, n
<1>10. \A t \in rows \cup new, d \in gone : t.id # d.row.id
  BY <1>1, <1>3, <1>9 DEF Numbered
<1> QED BY <1>5, <1>6, <1>7, <1>8, <1>9, <1>10 DEF Numbered

(* One row is added. *)
LEMMA RowAdded ==
  ASSUME NEW rows, NEW gone, Numbered(rows, gone), NEW t, t.id = NextOf(rows, gone)
  PROVE  Numbered(rows \cup {t}, gone) /\ Cardinality(rows \cup {t}) = Cardinality(rows) + 1
<1>1. IsFiniteSet({t}) /\ Cardinality({t}) = 1
  BY FS_Singleton
<1>2. NextOf(rows, gone) \in Nat
  BY NumberOfNext
<1>3. t.id \in NextOf(rows, gone)..NextOf(rows, gone) + Cardinality({t}) - 1
  BY <1>1, <1>2
<1> DEFINE new == {t}
<1>4. \A u \in new : u.id \in NextOf(rows, gone)..NextOf(rows, gone) + Cardinality(new) - 1
  BY <1>3
<1>5. \A u, v \in new : u.id = v.id => u = v
  OBVIOUS
<1>6. IsFiniteSet(new) /\ Cardinality(new) = 1
  BY <1>1
<1> HIDE DEF new
<1>7. Numbered(rows \cup new, gone) /\ Cardinality(rows \cup new) = Cardinality(rows) + 1
  BY <1>4, <1>5, <1>6, RowsAdded
<1> QED BY <1>7 DEF new

(* What becomes of rows that go, with whether the archive could read them.    *)
LostOf(D, flag) == { [row |-> t, unreadable |-> flag] : t \in D }

(* Rows that go are told apart from all that went before.                     *)
LEMMA RowsGone ==
  ASSUME NEW rows, NEW gone, Numbered(rows, gone), NEW D, D \subseteq rows, NEW flag
  PROVE  /\ Numbered(rows \ D, gone \cup LostOf(D, flag))
         /\ Cardinality(gone \cup LostOf(D, flag)) = Cardinality(gone) + Cardinality(D)
<1> DEFINE lost == LostOf(D, flag)
<1> DEFINE f == [t \in D |-> [row |-> t, unreadable |-> flag]]
<1>1. lost = { f[t] : t \in D }
  BY DEF LostOf
<1>2. IsFiniteSet(D) /\ Cardinality(D) \in Nat /\ Cardinality(rows) \in Nat /\ Cardinality(gone) \in Nat
  BY FS_Subset, FS_CardinalityType DEF Numbered
<1>3. IsFiniteSet(lost) /\ Cardinality(lost) = Cardinality(D)
  <2>1. DOMAIN f = D
    OBVIOUS
  <2>2. \A x, y \in D : f[x] = f[y] => x = y
    <3>1. \A x \in D : f[x].row = x
      OBVIOUS
    <3> QED BY <3>1
  <2> HIDE DEF f
  <2> QED BY <1>1, <1>2, <2>1, <2>2, AsManyValues
<1>4. \A l \in lost : l.row \in D
  BY DEF LostOf
<1> HIDE DEF lost
<1>5. gone \cap lost = {}
  BY <1>4 DEF Numbered
<1>6. IsFiniteSet(gone \cup lost) /\ Cardinality(gone \cup lost) = Cardinality(gone) + Cardinality(D)
  <2>1. IsFiniteSet(gone)
    BY DEF Numbered
  <2>2. IsFiniteSet(gone \cup lost) /\ Cardinality(gone \cup lost) = Cardinality(gone) + Cardinality(lost) - Cardinality(gone \cap lost)
    BY <1>3, <2>1, FS_Union
  <2>3. Cardinality(gone \cap lost) = 0
    BY <1>5, FS_EmptySet
  <2> QED BY <1>2, <1>3, <2>2, <2>3
<1>7. IsFiniteSet(rows \ D) /\ Cardinality(rows \ D) = Cardinality(rows) - Cardinality(D)
  <2>1. rows \cap D = D
    OBVIOUS
  <2> QED BY <2>1, FS_Difference DEF Numbered
<1>8. NextOf(rows \ D, gone \cup lost) = NextOf(rows, gone)
  BY <1>2, <1>6, <1>7 DEF NextOf
<1>9. \A d \in gone \cup lost : d.row.id \in Nat /\ d.row.id < NextOf(rows, gone)
  BY <1>4 DEF Numbered
<1>10. \A t \in rows \ D, d \in gone \cup lost : t.id # d.row.id
  BY <1>4 DEF Numbered
<1>11. Numbered(rows \ D, gone \cup lost)
  BY <1>6, <1>7, <1>8, <1>9, <1>10 DEF Numbered
<1> QED BY <1>6, <1>11 DEF lost

-------------------------------------------------------------------------------
(* What the log of the resets adds up to: the partial sums of a sequence are  *)
(* a table that exists, is the only one, and grows by one entry with it.      *)

Sums(numbers, n, f) == f = [i \in 0..n |-> IF i = 0 THEN 0 ELSE f[i - 1] + numbers[i]]

(* A table of partial sums extends to one more number.                        *)
LEMMA SumsGrow ==
  ASSUME NEW numbers, NEW n \in Nat, NEW f, Sums(numbers, n, f)
  PROVE  f[0] = 0 /\ \A k \in 1..n : f[k] = f[k - 1] + numbers[k]
<1>1. f[0] = 0
  BY DEF Sums
<1>2. ASSUME NEW k \in 1..n PROVE f[k] = f[k - 1] + numbers[k]
  <2>1. k \in 0..n /\ k # 0
    OBVIOUS
  <2> QED BY <2>1 DEF Sums
<1> QED BY <1>1, <1>2

(* There is a table of the partial sums of any numbers: a least length        *)
(* without one has a shorter one.                                             *)
LEMMA SumsExist == ASSUME NEW numbers, NEW m \in Nat PROVE \E f : Sums(numbers, m, f)
<1> DEFINE Lacking == {n \in Nat : ~ \E f : Sums(numbers, n, f)}
<1> SUFFICES ASSUME Lacking # {} PROVE FALSE
  OBVIOUS
<1>1. PICK n \in Lacking : \A y \in Lacking : n <= y
  BY Least
<1>2. Sums(numbers, 0, [i \in 0..0 |-> 0])
  BY DEF Sums
<1>3. PICK f : Sums(numbers, n - 1, f)
  BY <1>1, <1>2
<1> DEFINE g == [i \in 0..n |-> IF i = n THEN f[n - 1] + numbers[n] ELSE f[i]]
<1>4. n \in Nat /\ n # 0 /\ n - 1 \in Nat
  BY <1>1, <1>2
<1>5. f[0] = 0 /\ \A k \in 1..n - 1 : f[k] = f[k - 1] + numbers[k]
  BY <1>3, <1>4, SumsGrow
<1>6. ASSUME NEW i \in 0..n PROVE g[i] = IF i = 0 THEN 0 ELSE g[i - 1] + numbers[i]
  <2>1. CASE i = 0
    BY <1>4, <1>5, <2>1
  <2>2. CASE i = n
    BY <1>4, <2>2
  <2>3. CASE i # 0 /\ i # n
    <3>1. i \in 1..n - 1 /\ i - 1 \in 0..n /\ i - 1 # n
      BY <1>4, <2>3
    <3> QED BY <1>5, <2>3, <3>1
  <2> QED BY <2>1, <2>2, <2>3
<1>7. g = [i \in 0..n |-> g[i]]
  OBVIOUS
<1> HIDE DEF g
<1>8. Sums(numbers, n, g)
  BY <1>6, <1>7 DEF Sums
<1> QED BY <1>1, <1>8

(* Two tables of the same numbers agree as far as both go.                    *)
LEMMA SumsAgree ==
  ASSUME NEW a, NEW b, NEW n \in Nat, NEW m \in Nat, n <= m, \A i \in 1..n : a[i] = b[i],
         NEW f, Sums(a, n, f), NEW g, Sums(b, m, g), NEW k \in 0..n
  PROVE  f[k] = g[k]
<1> DEFINE Different == {i \in 0..n : f[i] # g[i]}
<1> SUFFICES ASSUME Different # {} PROVE FALSE
  OBVIOUS
<1>1. PICK i \in Different : \A y \in Different : i <= y
  <2>1. Different \subseteq Nat
    OBVIOUS
  <2> HIDE DEF Different
  <2> QED BY <2>1, Least
<1>2. i # 0
  BY <1>1 DEF Sums
<1>3. i - 1 \in 0..n /\ i \in 1..n /\ i \in 1..m
  BY <1>1, <1>2
<1>4. f[i - 1] = g[i - 1]
  BY <1>1, <1>3
<1>5. f[i] = f[i - 1] + a[i] /\ g[i] = g[i - 1] + b[i]
  BY <1>2, <1>3 DEF Sums
<1> QED BY <1>1, <1>3, <1>4, <1>5

(* Integers have integer partial sums.                                        *)
LEMMA SumsAreInts ==
  ASSUME NEW a, NEW n \in Nat, \A i \in 1..n : a[i] \in Int, NEW f, Sums(a, n, f), NEW k \in 0..n
  PROVE  f[k] \in Int
<1> DEFINE Odd == {i \in 0..n : f[i] \notin Int}
<1> SUFFICES ASSUME Odd # {} PROVE FALSE
  OBVIOUS
<1>1. PICK i \in Odd : \A y \in Odd : i <= y
  <2>1. Odd \subseteq Nat
    OBVIOUS
  <2> HIDE DEF Odd
  <2> QED BY <2>1, Least
<1>2. i # 0
  BY <1>1 DEF Sums
<1>3. i - 1 \in 0..n /\ i \in 1..n
  BY <1>1, <1>2
<1>4. f[i - 1] \in Int
  BY <1>1, <1>3
<1>5. f[i] = f[i - 1] + a[i]
  BY <1>2, <1>3 DEF Sums
<1> QED BY <1>1, <1>3, <1>4, <1>5

(* The total of a sequence is its last partial sum.                           *)
LEMMA TotalIsLastSum ==
  ASSUME NEW numbers, Len(numbers) \in Nat
  PROVE  \E f : Sums(numbers, Len(numbers), f) /\ SumOfAll(numbers) = f[Len(numbers)]
<1> DEFINE f == CHOOSE g : Sums(numbers, Len(numbers), g)
<1>1. Sums(numbers, Len(numbers), f)
  BY SumsExist
<1>2. SumOfAll(numbers) = f[Len(numbers)]
  BY DEF SumOfAll, Sums
<1> QED BY <1>1, <1>2

(* A number that is appended is added.                                        *)
LEMMA TotalAppends ==
  ASSUME NEW numbers \in Seq(Int), NEW x \in Int
  PROVE  SumOfAll(numbers) \in Int /\ SumOfAll(Append(numbers, x)) = SumOfAll(numbers) + x
<1> DEFINE n == Len(numbers)
           more == Append(numbers, x)
<1>1. n \in Nat /\ Len(more) = n + 1 /\ more[n + 1] = x /\ (\A i \in 1..n : numbers[i] \in Int /\ more[i] = numbers[i])
  BY LenProperties, AppendProperties, ElementOfSeq
<1> HIDE DEF more, n
<1>2. PICK f : Sums(numbers, n, f) /\ SumOfAll(numbers) = f[n]
  BY <1>1, TotalIsLastSum DEF n
<1>3. PICK g : Sums(more, n + 1, g) /\ SumOfAll(more) = g[n + 1]
  BY <1>1, TotalIsLastSum
<1>4. f[n] = g[n]
  BY <1>1, <1>2, <1>3, SumsAgree
<1>5. f[n] \in Int
  BY <1>1, <1>2, SumsAreInts
<1>6. g[n + 1] = g[n] + more[n + 1]
  <2>1. n + 1 \in 1..n + 1 /\ n + 1 - 1 = n
    BY <1>1
  <2> QED BY <1>1, <1>3, <2>1, SumsGrow
<1> QED BY <1>1, <1>2, <1>3, <1>4, <1>5, <1>6 DEF more

(* Nothing adds up to nothing.                                                *)
LEMMA TotalOfNone == SumOfAll(<< >>) = 0
<1>1. Len(<< >>) = 0
  OBVIOUS
<1>2. PICK f : Sums(<< >>, 0, f) /\ SumOfAll(<< >>) = f[0]
  BY <1>1, TotalIsLastSum
<1> QED BY <1>2 DEF Sums

Logged(entry) == IF entry.domain = "paper" THEN entry.deleted + entry.closed ELSE 0
PaperRows(log) == SumOfAll([i \in DOMAIN log |-> IF log[i].domain = "paper" THEN log[i].deleted + log[i].closed ELSE 0])

(* An entry of the log adds what it says of the account. *)
LEMMA LogAdds ==
  ASSUME NEW S, NEW log \in Seq(S), \A i \in DOMAIN log : Logged(log[i]) \in Int, NEW entry, Logged(entry) \in Int
  PROVE  PaperRows(log) \in Int /\ PaperRows(Append(log, entry)) = PaperRows(log) + Logged(entry)
<1> DEFINE n == Len(log)
           more == Append(log, entry)
           counted == [i \in DOMAIN log |-> Logged(log[i])]
<1>1. n \in Nat /\ DOMAIN log = 1..n
  OBVIOUS
<1>2. more \in Seq(S \cup {entry}) /\ Len(more) = n + 1 /\ more[n + 1] = entry /\ \A i \in 1..n : more[i] = log[i]
  <2> HIDE DEF n
  <2> QED BY Grown DEF n
<1>3. DOMAIN more = 1..n + 1
  BY <1>1, <1>2
<1>4. counted \in Seq(Int) /\ Len(counted) = n
  <2>1. counted \in [1..n -> Int]
    BY <1>1
  <2> HIDE DEF counted
  <2> QED BY <1>1, <2>1
<1>5. PaperRows(log) = SumOfAll(counted)
  BY DEF PaperRows, Logged
<1>6. [i \in DOMAIN more |-> Logged(more[i])] = Append(counted, Logged(entry))
  <2> DEFINE left == [i \in 1..n + 1 |-> Logged(more[i])]
             right == Append(counted, Logged(entry))
  <2>1. DOMAIN right = 1..n + 1 /\ right[n + 1] = Logged(entry) /\ \A i \in 1..n : right[i] = counted[i]
    <3> HIDE DEF counted
    <3> QED BY <1>1, <1>4
  <2>2. right = [i \in 1..n + 1 |-> right[i]]
    <3>1. right \in Seq(Int)
      <4> HIDE DEF counted
      <4> QED BY <1>4
    <3> HIDE DEF right
    <3> QED BY <2>1, <3>1
  <2>3. \A i \in 1..n : right[i] = Logged(more[i])
    BY <1>1, <1>2, <2>1
  <2>4. \A i \in 1..n + 1 : right[i] = Logged(more[i])
    BY <1>1, <1>2, <2>1, <2>3
  <2> HIDE DEF right, more, counted
  <2>5. left = right
    BY <2>2, <2>4
  <2> QED BY <1>3, <2>5 DEF right
<1>7. PaperRows(more) = SumOfAll(Append(counted, Logged(entry)))
  <2> HIDE DEF more, counted
  <2>1. PaperRows(more) = SumOfAll([i \in DOMAIN more |-> Logged(more[i])])
    BY DEF PaperRows, Logged
  <2> QED BY <1>6, <2>1
<1>8. SumOfAll(counted) \in Int /\ SumOfAll(Append(counted, Logged(entry))) = SumOfAll(counted) + Logged(entry)
  <2> HIDE DEF counted
  <2> QED BY <1>4, TotalAppends
<1> HIDE DEF counted, more
<1> QED BY <1>5, <1>7, <1>8 DEF more

(* An empty log counts no row.                                                *)
LEMMA NothingLogged == PaperRows(<< >>) = 0
<1>1. [i \in DOMAIN << >> |-> Logged(<< >>[i])] = << >>
  OBVIOUS
<1> QED BY <1>1, TotalOfNone DEF PaperRows, Logged

(* What a reset under way still has to add to the account of what is gone:    *)
(* before it clears, that it will clear what it counted and what it closed    *)
(* itself; before it logs, what it has cleared. Once one was cut short the    *)
(* log is behind for good.                                                    *)

RequestFields == {"pc", "body", "counts", "left", "domain", "closed", "unreadable", "deleted"}
Uncut == budget.cuts = budget.uncut
RequestOK ==
  /\ request.pc = "idle" => request = NoRequest
  /\ request.pc # "idle" => DOMAIN request = RequestFields /\ request.pc \in {"archive", "clear", "domains", "log"}
Clearing ==
  request.pc \in {"archive", "clear"} =>
    /\ request.closed \in Nat /\ request.counts["paper"] \in Nat /\ request.domain = "paper"
    /\ IF Ranged(request.body) THEN request.closed = 0 ELSE request.counts["paper"] + request.closed = Cardinality(trades)
    /\ request.pc = "archive" /\ positions # {} => request.closed = 0
Archived(row) == \E i \in DOMAIN epochs : row \in epochs[i].trades
ArchiveOK ==
  /\ \E S : epochs \in Seq(S)
  /\ \A d \in destroyed : d.unreadable \/ Archived(d.row)
  /\ request.pc = "clear" => request.unreadable \/ \A t \in trades : Archived(t)
Logging == [domain |-> request.domain, deleted |-> request.deleted, closed |-> request.closed]
CountOK ==
  /\ \E S : reset_log \in Seq(S)
  /\ \A i \in DOMAIN reset_log : Logged(reset_log[i]) \in Int
  /\ request.pc = "log" => Logged(Logging) \in Int
  /\ Uncut => Cardinality(destroyed) = PaperRows(reset_log) + IF request.pc = "log" THEN Logged(Logging) ELSE 0
ResetInv ==
  /\ Bounded
  /\ Numbered(trades, destroyed) /\ IsFiniteSet(positions)
  /\ RequestOK /\ Clearing /\ ArchiveOK /\ CountOK

(* What the log counts is a number.                                           *)
LEMMA LogIsNumber == ASSUME CountOK PROVE PaperRows(reset_log) \in Int
<1>1. PICK S : reset_log \in Seq(S)
  BY DEF CountOK
<1>2. \A i \in DOMAIN reset_log : Logged(reset_log[i]) \in Int
  BY DEF CountOK
<1>3. Logged([domain |-> "none"]) = 0
  BY DEF Logged
<1> QED BY <1>1, <1>2, <1>3, LogAdds

(* No row, no request and no log yet.                                         *)
LEMMA ResetsStart == Init => ResetInv
<1> SUFFICES ASSUME Init PROVE ResetInv
  OBVIOUS
<1>1. Bounded
  BY BoundsStart
<1>2. trades = {} /\ positions = {} /\ epochs = << >> /\ reset_log = << >> /\ request = NoRequest /\ destroyed = {}
  BY DEF Init, ResetInit
<1>3. IsFiniteSet({}) /\ Cardinality({}) = 0
  BY FS_EmptySet
<1>4. << >> \in Seq({}) /\ DOMAIN << >> = {}
  OBVIOUS
<1>5. Numbered(trades, destroyed) /\ IsFiniteSet(positions)
  BY <1>2, <1>3 DEF Numbered
<1>6. request.pc = "idle"
  BY <1>2 DEF NoRequest
<1>7. ArchiveOK /\ RequestOK /\ Clearing
  BY <1>2, <1>4, <1>6 DEF ArchiveOK, RequestOK, Clearing
<1>8. CountOK
  BY <1>2, <1>3, <1>4, <1>6, NothingLogged DEF CountOK
<1> QED BY <1>1, <1>5, <1>7, <1>8 DEF ResetInv

(* The account trades. *)
LEMMA EntersKeepsResets == ASSUME ResetInv, Bounded', budget'.uncut = budget.uncut, budget'.cuts <= budget.cuts, enters PROVE ResetInv'
<1>1. /\ request.pc = "idle" /\ UNCHANGED << epochs, reset_log, request, destroyed >>
      /\ \E t : t.id = NextOf(trades, destroyed) /\ trades' = trades \cup {t}
      /\ positions' = positions \cup {NextId}
  <2>1. [id |-> NextId, kind |-> "entry", at |-> now].id = NextOf(trades, destroyed)
    BY DEF NextId, NextOf
  <2> QED BY <2>1 DEF enters
<1>2. Numbered(trades', destroyed') /\ IsFiniteSet(positions')
  <2>1. PICK t : t.id = NextOf(trades, destroyed) /\ trades' = trades \cup {t}
    BY <1>1
  <2>2. Numbered(trades \cup {t}, destroyed)
    BY <2>1, RowAdded DEF ResetInv
  <2>3. IsFiniteSet(positions')
    BY <1>1, FS_AddElement DEF ResetInv
  <2> QED BY <1>1, <2>1, <2>2, <2>3
<1>3. Uncut' => Uncut
  BY DEF ResetInv, Bounded, Uncut
<1>4. RequestOK' /\ Clearing' /\ ArchiveOK'
  BY <1>1 DEF ResetInv, RequestOK, Clearing, ArchiveOK, Archived
<1>5. CountOK'
  BY <1>1, <1>3 DEF ResetInv, CountOK, Logging
<1> QED BY <1>2, <1>4, <1>5 DEF ResetInv

(* A position that is closed leaves a row with a number of its own.           *)
LEMMA ExitsKeepsResets == ASSUME ResetInv, Bounded', budget' = budget, NEW p, exits(p) PROVE ResetInv'
<1>1. /\ request.pc = "idle" /\ UNCHANGED << epochs, reset_log, request, destroyed >>
      /\ \E t : t.id = NextOf(trades, destroyed) /\ trades' = trades \cup {t}
      /\ positions' = positions \ {p}
  <2>1. [id |-> NextId, kind |-> "close", at |-> now].id = NextOf(trades, destroyed)
    BY DEF NextId, NextOf
  <2> QED BY <2>1 DEF exits
<1>2. Numbered(trades', destroyed') /\ IsFiniteSet(positions')
  <2>1. PICK t : t.id = NextOf(trades, destroyed) /\ trades' = trades \cup {t}
    BY <1>1
  <2>2. Numbered(trades \cup {t}, destroyed)
    BY <2>1, RowAdded DEF ResetInv
  <2>3. IsFiniteSet(positions')
    BY <1>1, FS_RemoveElement DEF ResetInv
  <2> QED BY <1>1, <2>1, <2>2, <2>3
<1>4. RequestOK' /\ Clearing' /\ ArchiveOK'
  BY <1>1 DEF ResetInv, RequestOK, Clearing, ArchiveOK, Archived
<1>5. CountOK'
  BY <1>1 DEF ResetInv, CountOK, Logging, Uncut
<1> QED BY <1>2, <1>4, <1>5 DEF ResetInv

(* A reset begins with what it counts. *)
LEMMA BeginKeepsResets ==
  ASSUME ResetInv, Bounded', budget'.uncut = budget.uncut, budget'.cuts <= budget.cuts, NEW body, reset_broker(body)
  PROVE  ResetInv'
<1>1. /\ request.pc = "idle" /\ UNCHANGED << trades, positions, epochs, reset_log, destroyed >>
      /\ request' = [pc |-> first_step(body), body |-> body, counts |-> _reset_domain_counts(body), left |-> body.domains,
                     domain |-> "paper", closed |-> 0, unreadable |-> FALSE, deleted |-> 0]
  BY DEF reset_broker
<1> DEFINE counts == _reset_domain_counts(body)
<1> HIDE DEF counts
<1>2. /\ request'.pc \in {"archive", "domains"} /\ (request'.pc = "archive" => body.paper) /\ request'.body = body /\ request'.counts = counts
      /\ request'.domain = "paper" /\ request'.closed = 0 /\ DOMAIN request' = RequestFields
  BY <1>1 DEF first_step, RequestFields, counts
<1>3. body.paper => counts["paper"] = Cardinality(InRange(body))
  BY DEF _reset_domain_counts, counts
<1>4. IsFiniteSet(InRange(body)) /\ Cardinality(InRange(body)) \in Nat
  <2>1. InRange(body) \in SUBSET trades
    BY DEF InRange
  <2> QED BY <2>1, FS_Subset, FS_CardinalityType DEF ResetInv, Numbered
<1>5. ~Ranged(body) => InRange(body) = trades
  BY DEF InRange
<1>6. Uncut' => Uncut
  BY DEF ResetInv, Bounded, Uncut
<1>7. Clearing'
  BY <1>1, <1>2, <1>3, <1>4, <1>5 DEF Clearing
<1>8. RequestOK' /\ ArchiveOK'
  BY <1>1, <1>2 DEF ResetInv, RequestOK, ArchiveOK, Archived
<1>9. CountOK'
  BY <1>1, <1>2, <1>6 DEF ResetInv, CountOK
<1> QED BY <1>1, <1>7, <1>8, <1>9 DEF ResetInv

(* The positions are closed: a row for each of them. *)
LEMMA CloseKeepsResets == ASSUME ResetInv, Bounded', budget' = budget, close_all_positions PROVE ResetInv'
<1> DEFINE n == NextId
           k == Cardinality(positions)
           f == [i \in 1..k |-> [id |-> n - 1 + i, kind |-> "close", at |-> now]]
           new == { f[i] : i \in 1..k }
<1>1. /\ request.pc = "archive" /\ positions # {} /\ ~Ranged(request.body) /\ positions' = {}
      /\ trades' = trades \cup new /\ request' = [request EXCEPT !.closed = k] /\ UNCHANGED << epochs, reset_log, destroyed >>
  BY DEF close_all_positions
<1>2. k \in Nat /\ n \in Nat \ {0} /\ n = NextOf(trades, destroyed) /\ Cardinality(trades) \in Nat
  BY FS_CardinalityType, NumberOfNext DEF ResetInv, NextId, NextOf
<1> HIDE DEF n, k
<1>3. IsFiniteSet(1..k) /\ Cardinality(1..k) = k
  <2>1. 1 \in Int /\ k \in Int
    BY <1>2
  <2>2. IsFiniteSet(1..k) /\ Cardinality(1..k) = IF 1 > k THEN 0 ELSE k - 1 + 1
    BY <2>1, FS_Interval
  <2> QED BY <1>2, <2>2
<1>4. \A i \in 1..k : f[i].id = n - 1 + i
  OBVIOUS
<1>5. DOMAIN f = 1..k
  OBVIOUS
<1> HIDE DEF f
<1>6. IsFiniteSet(new) /\ Cardinality(new) = k
  <2>1. \A i, j \in 1..k : f[i] = f[j] => i = j
    <3>1. \A i, j \in 1..k : n - 1 + i = n - 1 + j => i = j
      BY <1>2
    <3> QED BY <1>4, <3>1
  <2> DEFINE S == 1..k
  <2>2. IsFiniteSet(S) /\ Cardinality(S) = k /\ DOMAIN f = S /\ \A i, j \in S : f[i] = f[j] => i = j
    BY <1>3, <1>5, <2>1
  <2>3. new = { f[i] : i \in S }
    OBVIOUS
  <2> HIDE DEF S, new
  <2>4. IsFiniteSet({ f[i] : i \in S }) /\ Cardinality({ f[i] : i \in S }) = Cardinality(S)
    BY <2>2, AsManyValues
  <2> QED BY <2>2, <2>3, <2>4
<1>7. \A t \in new : t.id \in NextOf(trades, destroyed)..NextOf(trades, destroyed) + Cardinality(new) - 1
  <2>1. \A i \in 1..k : n - 1 + i \in n..n + k - 1
    BY <1>2
  <2> QED BY <1>2, <1>4, <1>6, <2>1
<1>8. \A t, u \in new : t.id = u.id => t = u
  <2>1. \A i, j \in 1..k : n - 1 + i = n - 1 + j => i = j
    BY <1>2
  <2> QED BY <1>4, <2>1
<1> HIDE DEF new
<1>9. Numbered(trades', destroyed') /\ Cardinality(trades') = Cardinality(trades) + k
  BY <1>1, <1>6, <1>7, <1>8, RowsAdded DEF ResetInv
<1>10. /\ DOMAIN request' = RequestFields /\ request'.pc = "archive" /\ request'.closed = k
       /\ request'.body = request.body /\ request'.counts = request.counts /\ request'.domain = request.domain
  BY <1>1 DEF ResetInv, RequestOK, RequestFields
<1>11. request.closed = 0 /\ request.counts["paper"] \in Nat /\ request.counts["paper"] + request.closed = Cardinality(trades) /\ request.domain = "paper"
  BY <1>1 DEF ResetInv, Clearing
<1>12. Clearing'
  BY <1>1, <1>2, <1>9, <1>10, <1>11 DEF Clearing
<1>13. IsFiniteSet(positions')
  BY <1>1, FS_EmptySet
<1>14. RequestOK' /\ ArchiveOK'
  BY <1>1, <1>10 DEF ResetInv, RequestOK, ArchiveOK, Archived
<1>15. CountOK'
  BY <1>1, <1>10 DEF ResetInv, CountOK, Uncut
<1> QED BY <1>9, <1>12, <1>13, <1>14, <1>15 DEF ResetInv

(* The account is archived, or cannot be read. *)
LEMMA ArchiveKeepsResets ==
  ASSUME ResetInv, Bounded', budget'.uncut = budget.uncut, budget'.cuts <= budget.cuts, archive_epoch
  PROVE  ResetInv'
<1>1. /\ request.pc = "archive" /\ UNCHANGED << trades, positions, reset_log, destroyed >>
      /\ \/ epochs' = Append(epochs, [trades |-> trades, positions |-> positions]) /\ request' = [request EXCEPT !.pc = "clear"]
         \/ epochs' = epochs /\ request' = [request EXCEPT !.pc = "clear", !.unreadable = TRUE]
  BY DEF archive_epoch
<1>2. /\ DOMAIN request' = RequestFields /\ request'.pc = "clear" /\ request'.closed = request.closed
      /\ request'.body = request.body /\ request'.counts = request.counts /\ request'.domain = request.domain
      /\ epochs' = epochs => request'.unreadable
  <2>1. DOMAIN request = RequestFields
    BY <1>1 DEF ResetInv, RequestOK
  <2>2. Append(epochs, [trades |-> trades, positions |-> positions]) # epochs
    <3> DEFINE x == [trades |-> trades, positions |-> positions]
    <3>1. PICK S : epochs \in Seq(S)
      BY DEF ResetInv, ArchiveOK
    <3> HIDE DEF x
    <3>2. Len(epochs) \in Nat /\ Len(Append(epochs, x)) = Len(epochs) + 1
      BY <3>1, Grown
    <3> QED BY <3>2 DEF x
  <2> QED BY <1>1, <2>1, <2>2 DEF RequestFields
<1>3. Uncut' => Uncut
  BY DEF ResetInv, Bounded, Uncut
<1>4. (\E S : epochs' \in Seq(S)) /\ (\A row : Archived(row) => Archived(row)') /\ (request'.unreadable \/ \A t \in trades : Archived(t)')
  <2>1. CASE epochs' = epochs
    BY <1>2, <2>1 DEF ResetInv, ArchiveOK, Archived
  <2>2. CASE epochs' = Append(epochs, [trades |-> trades, positions |-> positions])
    <3> DEFINE x == [trades |-> trades, positions |-> positions]
               n == Len(epochs)
    <3>1. PICK S : epochs \in Seq(S)
      BY DEF ResetInv, ArchiveOK
    <3>2. x.trades = trades /\ epochs' = Append(epochs, x)
      BY <2>2
    <3> HIDE DEF x
    <3>3. epochs' \in Seq(S \cup {x}) /\ n \in Nat /\ Len(epochs') = n + 1 /\ epochs'[n + 1] = x /\ \A i \in 1..n : epochs'[i] = epochs[i]
      BY <3>1, <3>2, Grown
    <3>4. DOMAIN epochs = 1..n /\ DOMAIN epochs' = 1..Len(epochs')
      BY <3>1, <3>3
    <3> HIDE DEF n
    <3>5. \A row : Archived(row) => Archived(row)'
      BY <3>3, <3>4 DEF Archived
    <3>6. \A t \in trades : Archived(t)'
      BY <3>2, <3>3, <3>4 DEF Archived
    <3> QED BY <3>3, <3>5, <3>6
  <2> QED BY <1>1, <2>1, <2>2
<1>5. Clearing' /\ RequestOK'
  BY <1>1, <1>2 DEF ResetInv, Clearing, RequestOK
<1>6. ArchiveOK'
  BY <1>1, <1>4 DEF ResetInv, ArchiveOK
<1>7. CountOK'
  BY <1>1, <1>2, <1>3 DEF ResetInv, CountOK
<1> QED BY <1>1, <1>5, <1>6, <1>7 DEF ResetInv

(* What is cleared is the whole account, of which the counted and the closed  *)
(* rows are all, or what the range counts now.                                *)
LEMMA ClearKeepsResets == ASSUME ResetInv, Bounded', budget' = budget, clear_paper PROVE ResetInv'
<1> DEFINE D == InRange(request.body)
           lost == { [row |-> t, unreadable |-> request.unreadable] : t \in D }
           deleted == IF Ranged(request.body) THEN Cardinality(InRange(request.body)) ELSE request.counts["paper"]
<1>1. /\ request.pc = "clear" /\ trades' = trades \ D /\ destroyed' = destroyed \cup lost
      /\ positions' = IF Ranged(request.body) THEN positions ELSE {}
      /\ request' = [request EXCEPT !.pc = "log", !.domain = "paper", !.deleted = deleted] /\ UNCHANGED << epochs, reset_log >>
  BY DEF clear_paper, deleted_with, lost_rows
<1>2. D \subseteq trades /\ (~Ranged(request.body) => D = trades)
  BY DEF InRange
<1>3. IsFiniteSet(D) /\ Cardinality(D) \in Nat /\ Cardinality(destroyed) \in Nat
  BY <1>2, FS_Subset, FS_CardinalityType DEF ResetInv, Numbered
<1>4. deleted + request.closed = Cardinality(D) /\ deleted \in Nat /\ request.closed \in Nat
  BY <1>1, <1>2, <1>3 DEF ResetInv, Clearing
<1>5. \A l \in lost : l.row \in D /\ l.unreadable = request.unreadable
  OBVIOUS
<1>6. Numbered(trades', destroyed') /\ Cardinality(destroyed') = Cardinality(destroyed) + Cardinality(D)
  <2> DEFINE flag == request.unreadable
  <2>1. lost = LostOf(D, flag)
    BY DEF LostOf
  <2>2. Numbered(trades, destroyed)
    BY DEF ResetInv
  <2> HIDE DEF D, flag, lost
  <2>3. /\ Numbered(trades \ D, destroyed \cup LostOf(D, flag))
        /\ Cardinality(destroyed \cup LostOf(D, flag)) = Cardinality(destroyed) + Cardinality(D)
    BY <1>2, <2>2, RowsGone
  <2> QED BY <1>1, <2>1, <2>3
<1> HIDE DEF D, lost, deleted
<1>7. /\ DOMAIN request' = RequestFields /\ request'.pc = "log" /\ request'.domain = "paper"
      /\ request'.deleted = deleted /\ request'.closed = request.closed
  BY <1>1 DEF ResetInv, RequestOK, RequestFields
<1>8. IsFiniteSet(positions')
  BY <1>1, FS_EmptySet DEF ResetInv
<1>9. Clearing' /\ RequestOK'
  BY <1>7 DEF Clearing, RequestOK
<1>10. ArchiveOK'
  <2>1. \A d \in destroyed' : d.unreadable \/ Archived(d.row)
    BY <1>1, <1>2, <1>5 DEF ResetInv, ArchiveOK
  <2> QED BY <1>1, <1>7, <2>1 DEF ResetInv, ArchiveOK, Archived
<1>11. Logged(Logging') = Cardinality(D)
  BY <1>4, <1>7 DEF Logged, Logging
<1>12. CountOK'
  <2>1. PaperRows(reset_log) \in Int
    BY LogIsNumber DEF ResetInv
  <2>2. Uncut => Cardinality(destroyed) = PaperRows(reset_log) + 0
    BY <1>1 DEF ResetInv, CountOK
  <2> QED BY <1>1, <1>3, <1>6, <1>7, <1>11, <2>1, <2>2 DEF ResetInv, CountOK, Uncut
<1> QED BY <1>6, <1>8, <1>9, <1>10, <1>12 DEF ResetInv

(* The log gets its entry. *)
LEMMA LogKeepsResets == ASSUME ResetInv, Bounded', budget' = budget, log_reset PROVE ResetInv'
<1> DEFINE entry == [domain |-> request.domain, before |-> request.counts[request.domain], deleted |-> request.deleted, closed |-> request.closed]
<1>1. /\ request.pc = "log" /\ request' = [request EXCEPT !.pc = "domains"] /\ reset_log' = Append(reset_log, entry)
      /\ UNCHANGED << trades, positions, epochs, destroyed >>
  BY DEF log_reset
<1>2. entry.domain = Logging.domain /\ entry.deleted = Logging.deleted /\ entry.closed = Logging.closed
  BY DEF Logging
<1>3. Logged(entry) = Logged(Logging)
  BY <1>2 DEF Logged
<1>4. Logged(entry) \in Int
  BY <1>1, <1>3 DEF ResetInv, CountOK
<1>5. PICK S : reset_log \in Seq(S)
  BY DEF ResetInv, CountOK
<1>6. DOMAIN request' = RequestFields /\ request'.pc = "domains"
  BY <1>1 DEF ResetInv, RequestOK, RequestFields
<1> HIDE DEF entry
<1> DEFINE n == Len(reset_log)
<1>7. /\ reset_log' \in Seq(S \cup {entry}) /\ n \in Nat /\ Len(reset_log') = n + 1 /\ reset_log'[n + 1] = entry
      /\ \A i \in 1..n : reset_log'[i] = reset_log[i]
  BY <1>1, <1>5, Grown
<1>8. DOMAIN reset_log = 1..n /\ DOMAIN reset_log' = 1..Len(reset_log')
  BY <1>5, <1>7
<1>9. PaperRows(reset_log) \in Int /\ PaperRows(reset_log') = PaperRows(reset_log) + Logged(entry)
  BY <1>1, <1>4, <1>5, LogAdds DEF ResetInv, CountOK
<1> HIDE DEF n
<1>10. \A i \in DOMAIN reset_log' : Logged(reset_log'[i]) \in Int
  <2>1. \A i \in 1..n : Logged(reset_log[i]) \in Int
    BY <1>8 DEF ResetInv, CountOK
  <2> QED BY <1>4, <1>7, <1>8, <2>1
<1>11. CountOK'
  <2>1. Uncut' => Cardinality(destroyed) = PaperRows(reset_log) + Logged(entry)
    BY <1>1, <1>3 DEF ResetInv, CountOK, Uncut
  <2>2. Uncut' => Cardinality(destroyed') = PaperRows(reset_log') + 0
    BY <1>1, <1>4, <1>9, <2>1
  <2> QED BY <1>6, <1>7, <1>10, <2>2 DEF CountOK
<1>12. RequestOK' /\ Clearing' /\ ArchiveOK'
  BY <1>1, <1>6 DEF ResetInv, RequestOK, Clearing, ArchiveOK, Archived
<1> QED BY <1>1, <1>11, <1>12 DEF ResetInv

(* Another domain is cleared: the account has nothing to do with it. *)
LEMMA DomainKeepsResets == ASSUME ResetInv, Bounded', budget' = budget, NEW d \in StoreDomains, clear_domain(d) PROVE ResetInv'
<1>1. /\ request.pc = "domains" /\ UNCHANGED << trades, positions, epochs, reset_log, destroyed >>
      /\ \E n : request' = [request EXCEPT !.pc = "log", !.left = @ \ {d}, !.domain = d, !.deleted = n]
  BY Zenon DEF clear_domain
<1>2. DOMAIN request' = RequestFields /\ request'.pc = "log" /\ request'.domain = d
  BY <1>1 DEF ResetInv, RequestOK, RequestFields
<1>3. Logged(Logging') = 0
  BY <1>2, ResetAssumption DEF Logged, Logging
<1>4. CountOK'
  BY <1>1, <1>2, <1>3 DEF ResetInv, CountOK, Uncut
<1>5. RequestOK' /\ Clearing' /\ ArchiveOK'
  BY <1>1, <1>2 DEF ResetInv, RequestOK, Clearing, ArchiveOK, Archived
<1> QED BY <1>1, <1>4, <1>5 DEF ResetInv

(* A reset ends, or is cut short. *)
LEMMA EndKeepsResets ==
  ASSUME ResetInv, Bounded', budget'.uncut = budget.uncut, budget'.cuts <= budget.cuts,
         reset_done \/ \E r \in BOOLEAN : reset_cut(r)
  PROVE  ResetInv'
<1>1. /\ UNCHANGED << trades, positions, epochs, reset_log, destroyed >> /\ request' = NoRequest
      /\ (request.pc = "domains" \/ Spends("cuts"))
  BY DEF reset_done, reset_cut
<1>2. request'.pc = "idle"
  BY <1>1 DEF NoRequest
<1>3. Uncut' => Uncut /\ request.pc = "domains"
  <2>1. ASSUME Spends("cuts") PROVE ~Uncut'
    <3>1. budget'.cuts = budget.cuts - 1 /\ budget'.uncut = budget.uncut
      BY <2>1 DEF Spends, ResetInv, Bounded
    <3> QED BY <3>1 DEF ResetInv, Bounded, Uncut
  <2> QED BY <1>1, <2>1 DEF ResetInv, Bounded, Uncut
<1>4. CountOK'
  BY <1>1, <1>2, <1>3 DEF ResetInv, CountOK
<1>5. RequestOK' /\ Clearing' /\ ArchiveOK'
  BY <1>1, <1>2 DEF ResetInv, RequestOK, Clearing, ArchiveOK, Archived
<1> QED BY <1>1, <1>4, <1>5 DEF ResetInv

(* Every step keeps the rows accounted for.                                   *)
LEMMA ResetStep == ResetInv /\ [Next]_deskVars => ResetInv'
<1> SUFFICES ASSUME ResetInv, [Next]_deskVars PROVE ResetInv'
  OBVIOUS
<1>1. Bounded' /\ budget'.uncut = budget.uncut /\ budget'.cuts <= budget.cuts
  BY BoundsStep DEF ResetInv
<1>2. CASE UNCHANGED << trades, positions, epochs, reset_log, request, destroyed >>
  <2>1. Uncut' => Uncut
    BY <1>1 DEF ResetInv, Bounded, Uncut
  <2>2. CountOK'
    BY <1>2, <2>1 DEF ResetInv, CountOK, Logging
  <2>3. RequestOK' /\ Clearing' /\ ArchiveOK'
    BY <1>2 DEF ResetInv, RequestOK, Clearing, ArchiveOK, Archived
  <2> QED BY <1>1, <1>2, <2>2, <2>3 DEF ResetInv
<1>3. CASE ResetNext
  <2>1. CASE enters
    BY <1>1, <2>1, EntersKeepsResets
  <2>2. CASE \E p \in positions : exits(p)
    BY <1>1, <2>2, ExitsKeepsResets DEF exits
  <2>3. CASE \E d \in StoreDomains : row_recorded(d)
    BY <1>2, <2>3 DEF row_recorded
  <2>4. CASE \E d \in StoreDomains : clear_domain(d)
    <3>1. PICK d \in StoreDomains : clear_domain(d)
      BY <2>4
    <3>2. budget' = budget
      BY <3>1, Zenon DEF clear_domain
    <3> QED BY <1>1, <3>1, <3>2, DomainKeepsResets
  <2>5. CASE \E b \in budget.bodies : reset_broker(b)
    BY <1>1, <2>5, BeginKeepsResets
  <2>6. CASE daemon_takes \/ daemon_writes
    BY <1>2, <2>6 DEF daemon_takes, daemon_writes
  <2>7. CASE close_all_positions
    <3>1. budget' = budget
      BY <2>7, Zenon DEF close_all_positions
    <3> QED BY <1>1, <2>7, <3>1, CloseKeepsResets
  <2>8. CASE archive_epoch
    BY <1>1, <2>8, ArchiveKeepsResets
  <2>9. CASE clear_paper
    <3>1. budget' = budget
      BY <2>9, Zenon DEF clear_paper
    <3> QED BY <1>1, <2>9, <3>1, ClearKeepsResets
  <2>10. CASE log_reset
    <3>1. budget' = budget
      BY <2>10, Zenon DEF log_reset
    <3> QED BY <1>1, <2>10, <3>1, LogKeepsResets
  <2>11. CASE reset_done \/ \E r \in BOOLEAN : reset_cut(r)
    BY <1>1, <2>11, EndKeepsResets
  <2> QED BY <1>3, <2>1, <2>2, <2>3, <2>4, <2>5, <2>6, <2>7, <2>8, <2>9, <2>10, <2>11 DEF ResetNext
<1> QED BY <1>2, <1>3 DEF Next, netting, reports, series, resets, index, tape, history_of_prices, signals, event_dates, tick_clock, deskVars, resetVars

(* What a reset has deleted was archived before, and the log tells how much   *)
(* went (ResetArchive), for any domains, requests, times of trades, faults    *)
(* and cuts.                                                                  *)
THEOREM ResetsTheorem == Spec => []ResetsAreAccounted
<1>1. ResetInv => ResetsAreAccounted
  <2> SUFFICES ASSUME ResetInv PROVE ResetsAreAccounted
    OBVIOUS
  <2>1. \A d \in destroyed : d.unreadable \/ \E i \in DOMAIN epochs : d.row \in epochs[i].trades
    BY DEF ResetInv, ArchiveOK, Archived
  <2>2. Cardinality(destroyed) \in Nat
    BY NumberOfNext DEF ResetInv
  <2>3. PaperRows(reset_log) \in Int
    BY LogIsNumber DEF ResetInv
  <2>4. request.pc = "idle" /\ budget.cuts = budget.uncut => Cardinality(destroyed) = PaperRows(reset_log)
    <3>1. ASSUME request.pc = "idle", Uncut PROVE Cardinality(destroyed) = PaperRows(reset_log) + 0
      BY <3>1 DEF ResetInv, CountOK
    <3> QED BY <2>2, <2>3, <3>1 DEF Uncut
  <2> QED BY <2>1, <2>4 DEF ResetsAreAccounted, PaperRows
<1> QED BY <1>1, ResetsStart, ResetStep, PTL DEF Spec

-------------------------------------------------------------------------------
(* The connections of the reports. A worker that runs is cached under its own *)
(* key, or its opener holds the lock of the loop and nothing is cached under  *)
(* the key: so two that run have two keys, and the exit hook finds them all.  *)

WorkerRecord == [key : Keys, state : {"running", "closed", "dead"}]
WorkersOK == workers \in Seq(WorkerRecord)
CachedOK == \A k \in DOMAIN cached :
  /\ cached[k] \in DOMAIN workers
  /\ (k \in Keys /\ workers[cached[k]].key = k) \/ (k[1] = "gone" /\ ~Running(cached[k]))
Holds(r) == readers[r].pc \in {"probing", "using", "opening"}
ReadersOK ==
  /\ DOMAIN readers = Readers /\ DOMAIN locks = {"main", "job"}
  /\ \A r \in Readers : Holds(r) => readers[r].conn \in DOMAIN workers /\ workers[readers[r].conn].key = key(r)
  /\ \A r \in Readers : readers[r].pc = "opening" => locks[LoopOf[r]] = r /\ ~Known(key(r))
Opened(c) == \E r \in Readers : readers[r].pc = "opening" /\ readers[r].conn = c
AtItsKey(c) == Known(workers[c].key) /\ cached[workers[c].key] = c
Reachable == \A c \in DOMAIN workers : Running(c) => (AtItsKey(c) \/ Opened(c)) /\ ~exited
WorkersInv == WorkersOK /\ CachedOK /\ ReadersOK /\ Reachable

(* A key names the loop it belongs to, and none is that of a loop that is gone.*)
LEMMA KeysAre ==
  /\ \A r \in Readers : key(r) \in Keys /\ key(r)[1] = LoopOf[r] /\ LoopOf[r] \in {"main", "job"}
  /\ \A k \in Keys : k[1] # "gone"
  /\ \A q, r \in Readers : key(q) = key(r) => LoopOf[q] = LoopOf[r]
<1>1. \A r \in Readers : key(r) \in Keys /\ key(r)[1] = LoopOf[r] /\ LoopOf[r] \in {"main", "job"}
  BY ReadersAssumption DEF Keys, key
<1>2. \A k \in Keys : k[1] # "gone"
  BY <1>1 DEF Keys, key
<1> QED BY <1>1, <1>2

(* What the list of workers gives for one of them.                            *)
LEMMA WorkerTypes ==
  ASSUME WorkersOK
  PROVE  /\ Len(workers) \in Nat /\ DOMAIN workers = 1..Len(workers)
         /\ \A c \in DOMAIN workers : workers[c] \in WorkerRecord /\ workers[c].key \in Keys
<1>1. Len(workers) \in Nat /\ DOMAIN workers = 1..Len(workers) /\ \A c \in 1..Len(workers) : workers[c] \in WorkerRecord
  BY DEF WorkersOK
<1>2. \A w \in WorkerRecord : w.key \in Keys
  BY DEF WorkerRecord
<1> QED BY <1>1, <1>2

(* One reader at a time opens a connection under a key.                       *)
LEMMA OneOpens ==
  ASSUME WorkersInv, NEW q \in Readers, NEW r \in Readers, readers[q].pc = "opening", readers[r].pc = "opening", key(q) = key(r)
  PROVE  q = r
BY KeysAre DEF WorkersInv, ReadersOK

(* Two workers that run have two keys.                                        *)
LEMMA RunningDiffer ==
  ASSUME WorkersInv, NEW c \in DOMAIN workers, NEW d \in DOMAIN workers, Running(c), Running(d), workers[c].key = workers[d].key
  PROVE  c = d
<1>1. (AtItsKey(c) \/ Opened(c)) /\ (AtItsKey(d) \/ Opened(d))
  BY DEF WorkersInv, Reachable
<1>2. ASSUME NEW b \in DOMAIN workers, Opened(b) PROVE ~Known(workers[b].key)
  BY <1>2 DEF WorkersInv, ReadersOK, Opened, Holds
<1>3. CASE AtItsKey(c) /\ AtItsKey(d)
  BY <1>3 DEF AtItsKey
<1>4. CASE Opened(c) /\ Opened(d)
  <2>1. PICK q \in Readers, r \in Readers : /\ readers[q].pc = "opening" /\ readers[q].conn = c
                                            /\ readers[r].pc = "opening" /\ readers[r].conn = d
    BY <1>4 DEF Opened
  <2>2. key(q) = key(r)
    BY <2>1 DEF WorkersInv, ReadersOK, Holds
  <2> QED BY <2>1, <2>2, OneOpens
<1> QED BY <1>1, <1>2, <1>3, <1>4 DEF AtItsKey

(* Closing workers leaves the others, and the keys of all, as they are.       *)
LEMMA StoppedAre ==
  ASSUME WorkersOK, NEW cs
  PROVE  /\ Stopped(cs) \in Seq(WorkerRecord) /\ DOMAIN Stopped(cs) = DOMAIN workers
         /\ \A c \in DOMAIN workers : Stopped(cs)[c].key = workers[c].key
         /\ \A c \in DOMAIN workers : Stopped(cs)[c].state = "running" <=> Running(c) /\ c \notin cs
<1>1. DOMAIN workers = 1..Len(workers) /\ Len(workers) \in Nat /\ \A c \in DOMAIN workers : workers[c] \in WorkerRecord
  BY WorkerTypes
<1>2. ASSUME NEW c \in DOMAIN workers
      PROVE  /\ [workers[c] EXCEPT !.state = "closed"] \in WorkerRecord
             /\ [workers[c] EXCEPT !.state = "closed"].key = workers[c].key /\ [workers[c] EXCEPT !.state = "closed"].state = "closed"
  BY <1>1 DEF WorkerRecord
<1>3. \A c \in DOMAIN workers : Stopped(cs)[c] \in WorkerRecord
  BY <1>1, <1>2 DEF Stopped
<1>4. Stopped(cs) \in [1..Len(workers) -> WorkerRecord]
  BY <1>1, <1>3 DEF Stopped
<1>5. Stopped(cs) \in Seq(WorkerRecord)
  BY <1>1, <1>4
<1> QED BY <1>1, <1>2, <1>5 DEF Stopped, Running

(* No reader has opened anything.                                             *)
LEMMA WorkersStart == Init => WorkersInv
<1> SUFFICES ASSUME Init PROVE WorkersInv
  OBVIOUS
<1>1. workers = << >> /\ cached = << >> /\ locks = [l \in {"main", "job"} |-> Nobody] /\ readers = [r \in Readers |-> AtRest]
  BY DEF Init, AioInit
<1>2. << >> \in Seq(WorkerRecord) /\ DOMAIN << >> = {}
  OBVIOUS
<1>3. \A r \in Readers : readers[r].pc = "idle"
  BY <1>1 DEF AtRest
<1>4. WorkersOK /\ CachedOK /\ Reachable
  BY <1>1, <1>2 DEF WorkersOK, CachedOK, Reachable
<1>5. ReadersOK
  BY <1>1, <1>3 DEF ReadersOK, Holds
<1> QED BY <1>4, <1>5 DEF WorkersInv

(* A reader that moves, and holds what is of its key, changes nothing else.   *)
LEMMA MovingKeeps ==
  ASSUME WorkersInv, NEW r \in Readers, NEW pc, NEW conn, goes(r, pc, conn), UNCHANGED << workers, cached, locks, exited >>,
         pc \in {"idle", "waiting", "probing", "using"}, readers[r].pc # "opening",
         pc \in {"probing", "using"} => conn \in DOMAIN workers /\ workers[conn].key = key(r)
  PROVE  WorkersInv'
<1>1. DOMAIN readers' = Readers /\ readers'[r].pc = pc /\ readers'[r].conn = conn /\ \A q \in Readers \ {r} : readers'[q] = readers[q]
  BY DEF goes, WorkersInv, ReadersOK
<1>2. ReadersOK'
  BY <1>1 DEF WorkersInv, ReadersOK, Holds, Known
<1>3. \A c : Opened(c) => Opened(c)'
  BY <1>1 DEF Opened
<1> QED BY <1>2, <1>3 DEF WorkersInv, WorkersOK, CachedOK, Reachable, AtItsKey, Known, Running

(* What is cached under a reader's key is a connection of that key.           *)
LEMMA CachedIsOfKey ==
  ASSUME WorkersInv, NEW r \in Readers, Known(key(r))
  PROVE  cached[key(r)] \in DOMAIN workers /\ workers[cached[key(r)]].key = key(r)
BY KeysAre DEF WorkersInv, CachedOK, Known

(* Who asks probes what is cached under its key, or waits for the lock.       *)
LEMMA AsksKeepsWorkers == ASSUME WorkersInv, NEW r \in Readers, connection_for(r) PROVE WorkersInv'
<1>1. readers[r].pc = "idle" /\ UNCHANGED << workers, cached, locks, exited >>
  BY DEF connection_for, stands
<1>2. CASE Known(key(r))
  BY <1>1, <1>2, CachedIsOfKey, MovingKeeps DEF connection_for
<1>3. CASE ~Known(key(r))
  BY <1>1, <1>3, MovingKeeps DEF connection_for
<1> QED BY <1>2, <1>3

(* Who is answered goes on with what it holds, and who has read lets go.      *)
LEMMA HoldsKeepsWorkers == ASSUME WorkersInv, NEW r \in Readers, probe_answers(r) \/ read_done(r) PROVE WorkersInv'
<1>1. Holds(r) => readers[r].conn \in DOMAIN workers /\ workers[readers[r].conn].key = key(r)
  BY DEF WorkersInv, ReadersOK
<1>2. CASE probe_answers(r)
  <2>1. Holds(r) /\ readers[r].pc # "opening" /\ UNCHANGED << workers, cached, locks, exited >> /\ goes(r, "using", readers[r].conn)
    BY <1>2 DEF probe_answers, stands, Holds
  <2> QED BY <1>1, <2>1, MovingKeeps
<1>3. CASE read_done(r)
  <2>1. readers[r].pc # "opening" /\ UNCHANGED << workers, cached, locks, exited >> /\ goes(r, "idle", 0)
    BY <1>3 DEF read_done, stands
  <2> QED BY <2>1, MovingKeeps
<1> QED BY <1>2, <1>3

(* What is evicted runs no more.                                              *)
LEMMA EvictKeepsWorkers == ASSUME WorkersInv, NEW r \in Readers, probe_fails(r) PROVE WorkersInv'
<1>1. /\ readers[r].pc = "probing" /\ ~Running(readers[r].conn) /\ cached' = evict(r) /\ goes(r, "waiting", 0)
      /\ UNCHANGED << workers, locks, exited >>
  BY DEF probe_fails, stands
<1>2. /\ DOMAIN cached' \subseteq DOMAIN cached /\ \A k \in DOMAIN cached' : cached'[k] = cached[k]
      /\ \A k \in DOMAIN cached : Running(cached[k]) => k \in DOMAIN cached'
  BY <1>1 DEF evict, Without, Known
<1>3. DOMAIN readers' = Readers /\ readers'[r].pc = "waiting" /\ \A q \in Readers \ {r} : readers'[q] = readers[q]
  BY <1>1 DEF goes, WorkersInv, ReadersOK
<1>4. ReadersOK'
  BY <1>1, <1>2, <1>3 DEF WorkersInv, ReadersOK, Holds, Known
<1>5. CachedOK'
  BY <1>1, <1>2 DEF WorkersInv, CachedOK, Running
<1>6. \A c \in DOMAIN workers : Running(c) /\ AtItsKey(c) => AtItsKey(c)'
  BY <1>1, <1>2 DEF AtItsKey, Known
<1>7. \A c : Opened(c) => Opened(c)'
  BY <1>1, <1>3 DEF Opened
<1>8. Reachable'
  BY <1>1, <1>6, <1>7 DEF WorkersInv, Reachable, Running
<1> QED BY <1>1, <1>4, <1>5, <1>8 DEF WorkersInv, WorkersOK

(* Under the lock, with nothing cached, a connection is opened.               *)
LEMMA EnterKeepsWorkers == ASSUME WorkersInv, NEW r \in Readers, enter(r) PROVE WorkersInv'
<1>1. readers[r].pc = "waiting" /\ locks[LoopOf[r]] = Nobody /\ UNCHANGED << cached, exited >> /\ ~exited
  BY DEF enter, stands
<1>2. CASE Known(key(r))
  BY <1>1, <1>2, CachedIsOfKey, MovingKeeps DEF enter, opened_meanwhile
<1>3. CASE ~Known(key(r))
  <2> DEFINE n == Len(workers)
             made == [key |-> key(r), state |-> "running"]
  <2>1. /\ locks' = [locks EXCEPT ![LoopOf[r]] = r] /\ workers' = Append(workers, made)
        /\ goes(r, "opening", n + 1)
    BY <1>3 DEF enter, opened_meanwhile
  <2>2. made \in WorkerRecord /\ made.key = key(r)
    BY KeysAre DEF WorkerRecord
  <2>3. workers \in Seq(WorkerRecord) /\ n \in Nat /\ DOMAIN workers = 1..n
    BY WorkerTypes DEF WorkersInv, WorkersOK
  <2>4. /\ workers' \in Seq(WorkerRecord) /\ DOMAIN workers' = 1..n + 1
        /\ workers'[n + 1] = made /\ \A c \in 1..n : workers'[c] = workers[c]
    BY <2>1, <2>2, <2>3
  <2>5. /\ DOMAIN readers' = Readers /\ readers'[r].pc = "opening" /\ readers'[r].conn = n + 1
        /\ \A q \in Readers \ {r} : readers'[q] = readers[q]
    BY <2>1 DEF goes, WorkersInv, ReadersOK
  <2>6. /\ DOMAIN locks' = {"main", "job"} /\ locks'[LoopOf[r]] = r
        /\ \A q \in Readers : locks[LoopOf[q]] = q => locks'[LoopOf[q]] = q
    <3>1. \A q \in Readers : locks[LoopOf[q]] = q => LoopOf[q] # LoopOf[r]
      BY <1>1, ReadersAssumption DEF Nobody
    <3> QED BY <2>1, <3>1, KeysAre DEF WorkersInv, ReadersOK
  <2> HIDE DEF n, made
  <2>7. ReadersOK'
    BY <1>1, <1>3, <2>2, <2>3, <2>4, <2>5, <2>6 DEF WorkersInv, ReadersOK, Holds, Known
  <2>8. CachedOK'
    BY <1>1, <2>3, <2>4 DEF WorkersInv, CachedOK, Running
  <2>9. \A c \in DOMAIN workers : (Opened(c) => Opened(c)') /\ (AtItsKey(c) => AtItsKey(c)')
    BY <1>1, <2>3, <2>4, <2>5 DEF Opened, AtItsKey, Known
  <2>10. \E q \in Readers : readers'[q].pc = "opening" /\ readers'[q].conn = n + 1
    BY <2>5
  <2>11. Reachable'
    <3>1. ASSUME NEW c \in 1..n, Running(c)' PROVE (AtItsKey(c)' \/ Opened(c)') /\ ~exited'
      BY <1>1, <2>3, <2>4, <2>9, <3>1 DEF WorkersInv, Reachable, Running
    <3>2. ASSUME NEW c, c = n + 1 PROVE Opened(c)' /\ ~exited'
      BY <1>1, <2>10, <3>2 DEF Opened
    <3> QED BY <2>3, <2>4, <3>1, <3>2 DEF Reachable
  <2> QED BY <2>4, <2>7, <2>8, <2>11 DEF WorkersInv, WorkersOK
<1> QED BY <1>2, <1>3

(* What an opener does to the lock, none but itself notices.                  *)
LEMMA LeavingKeeps ==
  ASSUME WorkersInv, NEW r \in Readers, readers[r].pc = "opening", leave(r)
  PROVE  DOMAIN locks' = {"main", "job"} /\ \A q \in Readers \ {r} : readers[q].pc = "opening" => locks'[LoopOf[q]] = q
<1>1. \A q \in Readers \ {r} : readers[q].pc = "opening" => LoopOf[q] # LoopOf[r]
  BY DEF WorkersInv, ReadersOK
<1> QED BY <1>1, KeysAre DEF WorkersInv, ReadersOK, leave

(* An opened connection is cached under the key nobody else opened.           *)
LEMMA MadeKeepsWorkers == ASSUME WorkersInv, NEW r \in Readers, schema_made(r) PROVE WorkersInv'
<1> DEFINE conn == readers[r].conn
           mine == key(r)
<1>1. /\ readers[r].pc = "opening" /\ leave(r) /\ goes(r, "using", conn) /\ UNCHANGED << workers, exited >>
      /\ cached' = [k \in DOMAIN cached \cup {mine} |-> IF k = mine THEN conn ELSE cached[k]]
  BY DEF schema_made, stands
<1>2. conn \in DOMAIN workers /\ workers[conn].key = mine /\ mine \in Keys /\ mine \notin DOMAIN cached
  BY <1>1, KeysAre DEF WorkersInv, ReadersOK, Holds, Known
<1>3. /\ DOMAIN readers' = Readers /\ readers'[r].pc = "using" /\ readers'[r].conn = conn
      /\ \A q \in Readers \ {r} : readers'[q] = readers[q]
  BY <1>1 DEF goes, WorkersInv, ReadersOK
<1>4. \A q \in Readers \ {r} : readers[q].pc = "opening" => key(q) # mine
  BY <1>1, OneOpens
<1> HIDE DEF conn, mine
<1>5. DOMAIN cached' = DOMAIN cached \cup {mine} /\ cached'[mine] = conn /\ \A k \in DOMAIN cached : cached'[k] = cached[k]
  BY <1>1, <1>2
<1>6. CachedOK'
  BY <1>1, <1>2, <1>5 DEF WorkersInv, CachedOK, Running
<1>7. ReadersOK'
  <2>1. DOMAIN locks' = {"main", "job"} /\ \A q \in Readers \ {r} : readers[q].pc = "opening" => locks'[LoopOf[q]] = q
    BY <1>1, LeavingKeeps
  <2>2. \A q \in Readers : Holds(q)' => readers'[q].conn \in DOMAIN workers' /\ workers'[readers'[q].conn].key = key(q)
    BY <1>1, <1>2, <1>3 DEF WorkersInv, ReadersOK, Holds, mine
  <2>3. \A q \in Readers : readers'[q].pc = "opening" => locks'[LoopOf[q]] = q /\ key(q) \notin DOMAIN cached'
    BY <1>3, <1>4, <1>5, <2>1 DEF WorkersInv, ReadersOK, Known
  <2> QED BY <1>3, <2>1, <2>2, <2>3 DEF ReadersOK, Known
<1>8. ASSUME NEW c \in DOMAIN workers, AtItsKey(c) \/ Opened(c) PROVE AtItsKey(c)' \/ Opened(c)'
  <2>1. CASE c = conn
    BY <1>1, <1>2, <1>5, <2>1 DEF AtItsKey, Known
  <2>2. CASE c # conn
    BY <1>1, <1>3, <1>5, <1>8, <2>2 DEF AtItsKey, Opened, Known, conn
  <2> QED BY <2>1, <2>2
<1>9. Reachable'
  BY <1>1, <1>8 DEF WorkersInv, Reachable, Running
<1> QED BY <1>1, <1>6, <1>7, <1>9 DEF WorkersInv, WorkersOK

(* Workers that are closed are taken out of what runs, and of nothing else.   *)
LEMMA ClosingKeeps ==
  ASSUME WorkersInv, NEW cs, workers' = Stopped(cs),
         DOMAIN cached' \subseteq DOMAIN cached, \A k \in DOMAIN cached' : cached'[k] = cached[k],
         \A k \in DOMAIN cached : k \in DOMAIN cached' \/ cached[k] \in cs,
         ReadersOK', \A c : Opened(c) => Opened(c)' \/ c \in cs, exited' = exited
  PROVE  WorkersInv'
<1>1. /\ workers' \in Seq(WorkerRecord) /\ DOMAIN workers' = DOMAIN workers
      /\ \A c \in DOMAIN workers : workers'[c].key = workers[c].key
      /\ \A c \in DOMAIN workers : Running(c)' <=> Running(c) /\ c \notin cs
  BY StoppedAre DEF WorkersInv, Running
<1>2. CachedOK'
  BY <1>1 DEF WorkersInv, CachedOK
<1>3. ASSUME NEW c \in DOMAIN workers, Running(c), c \notin cs PROVE (AtItsKey(c)' \/ Opened(c)') /\ ~exited'
  <2>1. (AtItsKey(c) \/ Opened(c)) /\ ~exited
    BY <1>3 DEF WorkersInv, Reachable
  <2> QED BY <1>1, <1>3, <2>1 DEF AtItsKey, Known
<1>4. Reachable'
  BY <1>1, <1>3 DEF Reachable
<1> QED BY <1>1, <1>2, <1>4 DEF WorkersInv, WorkersOK

(* The keys of the workers stay when some are closed.                         *)
LEMMA ReadersStay ==
  ASSUME WorkersInv, NEW cs, workers' = Stopped(cs), UNCHANGED << locks, readers >>, DOMAIN cached' \subseteq DOMAIN cached
  PROVE  ReadersOK' /\ \A c : Opened(c) => Opened(c)'
<1>1. DOMAIN workers' = DOMAIN workers /\ \A c \in DOMAIN workers : workers'[c].key = workers[c].key
  BY StoppedAre DEF WorkersInv
<1>2. ReadersOK'
  BY <1>1 DEF WorkersInv, ReadersOK, Holds, Known
<1> QED BY <1>2 DEF Opened

(* A connection that could not be made is closed by who opened it.            *)
LEMMA FailKeepsWorkers == ASSUME WorkersInv, NEW r \in Readers, schema_fails(r) PROVE WorkersInv'
<1> DEFINE conn == readers[r].conn
<1>1. readers[r].pc = "opening" /\ leave(r) /\ goes(r, "idle", 0) /\ workers' = Stopped({conn}) /\ UNCHANGED << cached, exited >>
  BY DEF schema_fails, stands, abandoned
<1>2. DOMAIN readers' = Readers /\ readers'[r].pc = "idle" /\ \A q \in Readers \ {r} : readers'[q] = readers[q]
  BY <1>1 DEF goes, WorkersInv, ReadersOK
<1>3. DOMAIN workers' = DOMAIN workers /\ \A c \in DOMAIN workers : workers'[c].key = workers[c].key
  BY <1>1, StoppedAre DEF WorkersInv
<1>4. ReadersOK'
  <2>1. DOMAIN locks' = {"main", "job"} /\ \A q \in Readers \ {r} : readers[q].pc = "opening" => locks'[LoopOf[q]] = q
    BY <1>1, LeavingKeeps
  <2>2. \A q \in Readers : Holds(q)' => readers'[q].conn \in DOMAIN workers' /\ workers'[readers'[q].conn].key = key(q)
    BY <1>2, <1>3 DEF WorkersInv, ReadersOK, Holds
  <2>3. \A q \in Readers : readers'[q].pc = "opening" => locks'[LoopOf[q]] = q /\ ~Known(key(q))'
    BY <1>1, <1>2, <2>1 DEF WorkersInv, ReadersOK, Known
  <2> QED BY <1>2, <2>1, <2>2, <2>3 DEF ReadersOK
<1>5. \A c : Opened(c) => Opened(c)' \/ c \in {conn}
  BY <1>2 DEF Opened
<1> HIDE DEF conn
<1> QED BY <1>1, <1>4, <1>5, ClosingKeeps

(* A connection that breaks stays cached until it is probed.                  *)
LEMMA BreakKeepsWorkers == ASSUME WorkersInv, NEW c, connection_breaks(c) PROVE WorkersInv'
<1>1. workers' = Stopped({c}) /\ UNCHANGED << cached, locks, readers, exited >>
  BY DEF connection_breaks
<1> QED BY <1>1, ReadersStay, ClosingKeeps

(* The report on its own loop closes all that its loop has cached.            *)
LEMMA CloseKeepsWorkers == ASSUME WorkersInv, close_for_current_loop PROVE WorkersInv'
<1> DEFINE cs == { cached[k] : k \in Mine }
<1>1. /\ workers' = Stopped(cs) /\ cached' = [k \in DOMAIN cached \ Mine |-> cached[k]]
      /\ UNCHANGED << locks, readers, exited >>
  BY DEF close_for_current_loop
<1>2. /\ DOMAIN cached' \subseteq DOMAIN cached /\ \A k \in DOMAIN cached' : cached'[k] = cached[k]
      /\ \A k \in DOMAIN cached : k \in DOMAIN cached' \/ cached[k] \in cs
  BY <1>1
<1> HIDE DEF cs
<1> QED BY <1>1, <1>2, ReadersStay, ClosingKeeps

(* A loop that goes with a query kills its worker.                            *)
LEMMA LoopEndKeepsWorkers == ASSUME WorkersInv, NEW r \in Readers, loop_ends_in_a_query(r) PROVE WorkersInv'
<1> DEFINE conn == readers[r].conn
           mine == key(r)
           gone == << "gone", FileOf[r] >>
<1>1. /\ readers[r].pc = "using" /\ Running(conn) /\ goes(r, "idle", 0) /\ UNCHANGED << locks, exited >>
      /\ workers' = [workers EXCEPT ![conn].state = "dead"]
      /\ cached' = [k \in (DOMAIN cached \ {mine}) \cup {gone} |-> IF k[1] = "gone" /\ k \notin DOMAIN cached THEN conn ELSE cached[k]]
  BY DEF loop_ends_in_a_query, stands
<1>2. conn \in DOMAIN workers /\ workers[conn].key = mine /\ mine \in Keys /\ mine # gone /\ gone[1] = "gone" /\ gone \notin Keys
  BY <1>1, KeysAre DEF WorkersInv, ReadersOK, Holds
<1>3. /\ DOMAIN workers' = DOMAIN workers /\ \A c \in DOMAIN workers : workers'[c].key = workers[c].key
      /\ workers' \in Seq(WorkerRecord) /\ \A c \in DOMAIN workers : Running(c)' <=> Running(c) /\ c # conn
  <2>1. DOMAIN workers = 1..Len(workers) /\ Len(workers) \in Nat /\ \A c \in DOMAIN workers : workers[c] \in WorkerRecord
    BY WorkerTypes DEF WorkersInv
  <2>2. /\ [workers[conn] EXCEPT !.state = "dead"] \in WorkerRecord
        /\ [workers[conn] EXCEPT !.state = "dead"].key = workers[conn].key /\ [workers[conn] EXCEPT !.state = "dead"].state = "dead"
    BY <1>2, <2>1 DEF WorkerRecord
  <2>3. DOMAIN workers' = DOMAIN workers /\ \A c \in DOMAIN workers : workers'[c] = IF c = conn THEN [workers[conn] EXCEPT !.state = "dead"] ELSE workers[c]
    BY <1>1, <1>2
  <2>4. workers' \in [1..Len(workers) -> WorkerRecord]
    <3>1. \A c \in DOMAIN workers : workers'[c] \in WorkerRecord
      BY <2>1, <2>2, <2>3
    <3>2. workers' = [c \in DOMAIN workers' |-> workers'[c]]
      BY <1>1
    <3> QED BY <2>1, <2>3, <3>1, <3>2
  <2>5. workers' \in Seq(WorkerRecord)
    BY <2>1, <2>4
  <2> QED BY <2>2, <2>3, <2>5 DEF Running
<1>4. /\ DOMAIN readers' = Readers /\ readers'[r].pc = "idle" /\ \A q \in Readers \ {r} : readers'[q] = readers[q]
  BY <1>1 DEF goes, WorkersInv, ReadersOK
<1> HIDE DEF conn, mine, gone
<1>5. /\ DOMAIN cached' = (DOMAIN cached \ {mine}) \cup {gone}
      /\ \A k \in DOMAIN cached \ {mine} : cached'[k] = cached[k]
      /\ gone \notin DOMAIN cached => cached'[gone] = conn
  BY <1>1, <1>2
<1>6. ReadersOK'
  <2>1. \A q \in Readers : key(q) # gone
    BY <1>2, KeysAre
  <2>2. DOMAIN readers' = Readers /\ DOMAIN locks' = {"main", "job"}
    BY <1>1, <1>4 DEF WorkersInv, ReadersOK
  <2>3. ASSUME NEW q \in Readers, Holds(q)' PROVE q # r /\ readers'[q] = readers[q] /\ Holds(q)
    BY <1>4, <2>3 DEF Holds
  <2>4. ASSUME NEW q \in Readers, Holds(q)' PROVE readers'[q].conn \in DOMAIN workers' /\ workers'[readers'[q].conn].key = key(q)
    BY <1>3, <2>3, <2>4 DEF WorkersInv, ReadersOK
  <2>5. ASSUME NEW q \in Readers, readers'[q].pc = "opening" PROVE locks'[LoopOf[q]] = q /\ ~Known(key(q))'
    <3>1. readers[q].pc = "opening"
      BY <1>4, <2>5
    <3>2. locks[LoopOf[q]] = q /\ key(q) \notin DOMAIN cached
      BY <3>1 DEF WorkersInv, ReadersOK, Known
    <3> QED BY <1>1, <1>5, <2>1, <3>2 DEF Known
  <2> QED BY <2>2, <2>4, <2>5 DEF ReadersOK
<1>7. CachedOK'
  <2>1. ASSUME NEW k \in DOMAIN cached'
        PROVE  cached'[k] \in DOMAIN workers' /\ ((k \in Keys /\ workers'[cached'[k]].key = k) \/ (k[1] = "gone" /\ workers'[cached'[k]].state # "running"))
    <3>1. CASE k \in DOMAIN cached
      <4>1. cached'[k] = cached[k] /\ cached[k] \in DOMAIN workers
        BY <1>2, <1>5, <2>1, <3>1 DEF WorkersInv, CachedOK
      <4>2. (k \in Keys /\ workers[cached[k]].key = k) \/ (k[1] = "gone" /\ ~Running(cached[k]))
        BY <3>1 DEF WorkersInv, CachedOK
      <4> QED BY <1>3, <4>1, <4>2 DEF Running
    <3>2. CASE k \notin DOMAIN cached
      BY <1>2, <1>3, <1>5, <2>1, <3>2 DEF Running
    <3> QED BY <3>1, <3>2
  <2> QED BY <2>1 DEF CachedOK, Running
<1>8. ASSUME NEW c \in DOMAIN workers, Running(c), c # conn PROVE (AtItsKey(c)' \/ Opened(c)') /\ ~exited'
  <2>1. (AtItsKey(c) \/ Opened(c)) /\ ~exited
    BY <1>8 DEF WorkersInv, Reachable
  <2>2. workers[c].key # mine
    BY <1>1, <1>2, <1>8, RunningDiffer
  <2>3. Opened(c) => Opened(c)'
    BY <1>1, <1>4 DEF Opened
  <2> QED BY <1>1, <1>3, <1>5, <2>1, <2>2, <2>3 DEF AtItsKey, Known
<1>9. Reachable'
  BY <1>3, <1>8 DEF Reachable
<1> QED BY <1>3, <1>6, <1>7, <1>9 DEF WorkersInv, WorkersOK

(* The exit hook finds every worker that still runs.                          *)
LEMMA ExitKeepsWorkers == ASSUME WorkersInv, _close_all_at_process_exit PROVE WorkersInv'
<1> DEFINE cs == { cached[k] : k \in DOMAIN cached } \cup { readers[r].conn : r \in { q \in Readers : readers[q].pc = "opening" } }
<1>1. /\ workers' = Stopped(cs) /\ cached' = << >> /\ locks' = [l \in DOMAIN locks |-> Nobody]
      /\ readers' = [r \in Readers |-> AtRest] /\ exited' = TRUE
  BY DEF _close_all_at_process_exit
<1>2. /\ workers' \in Seq(WorkerRecord) /\ DOMAIN workers' = DOMAIN workers
      /\ \A c \in DOMAIN workers : Running(c)' <=> Running(c) /\ c \notin cs
  <2> HIDE DEF cs
  <2>1. /\ Stopped(cs) \in Seq(WorkerRecord) /\ DOMAIN Stopped(cs) = DOMAIN workers
        /\ \A c \in DOMAIN workers : Stopped(cs)[c].state = "running" <=> Running(c) /\ c \notin cs
    BY StoppedAre DEF WorkersInv
  <2> QED BY <1>1, <2>1 DEF Running
<1>3. \A c \in DOMAIN workers : Running(c) => c \in cs
  BY DEF WorkersInv, Reachable, AtItsKey, Known, Opened
<1>4. DOMAIN << >> = {}
  OBVIOUS
<1>5. CachedOK' /\ Reachable'
  BY <1>1, <1>2, <1>3, <1>4 DEF CachedOK, Reachable
<1>6. \A r \in Readers : readers'[r].pc = "idle"
  BY <1>1 DEF AtRest
<1>7. ReadersOK'
  BY <1>1, <1>6 DEF WorkersInv, ReadersOK, Holds
<1> QED BY <1>2, <1>5, <1>7 DEF WorkersInv, WorkersOK

(* Every step keeps the workers reachable.                                    *)
LEMMA WorkersStep == WorkersInv /\ [Next]_deskVars => WorkersInv'
<1> SUFFICES ASSUME WorkersInv, [Next]_deskVars PROVE WorkersInv'
  OBVIOUS
<1>1. CASE UNCHANGED aioVars
  BY <1>1 DEF aioVars, WorkersInv, WorkersOK, CachedOK, ReadersOK, Reachable, AtItsKey, Opened, Holds, Known, Running
<1>2. CASE AioNext
  <2>1. ASSUME NEW r \in Readers, connection_for(r) \/ AioSteps(r) \/ schema_fails(r) \/ loop_ends_in_a_query(r) PROVE WorkersInv'
    BY <2>1, AsksKeepsWorkers, HoldsKeepsWorkers, EvictKeepsWorkers, EnterKeepsWorkers, MadeKeepsWorkers, FailKeepsWorkers,
       LoopEndKeepsWorkers DEF AioSteps
  <2>2. ASSUME NEW c \in DOMAIN workers, connection_breaks(c) PROVE WorkersInv'
    BY <2>2, BreakKeepsWorkers
  <2> QED BY <1>2, <2>1, <2>2, CloseKeepsWorkers, ExitKeepsWorkers DEF AioNext
<1> QED BY <1>1, <1>2 DEF Next, netting, reports, series, resets, index, tape, history_of_prices, signals, event_dates, tick_clock, deskVars

-------------------------------------------------------------------------------
(* The batches that resolve the dates of events: none and the flag is down,   *)
(* or one and it is up.                                                       *)

BatchOK == DOMAIN scan = {"running", "started"} /\ ((jobs = {} /\ scan.running = FALSE) \/ (scan.running = TRUE /\ \E job : jobs = {job}))

(* No batch is at work.                                                       *)
LEMMA BatchStart == Init => BatchOK
BY DEF Init, ScheduleInit, BatchOK

(* A batch begins with the flag down and ends with it down, whatever          *)
(* happens within.                                                            *)
LEMMA BatchStep == BatchOK /\ [Next]_deskVars => BatchOK'
<1> SUFFICES ASSUME BatchOK, [Next]_deskVars PROVE BatchOK'
  OBVIOUS
<1>1. CASE UNCHANGED scheduleVars
  BY <1>1 DEF scheduleVars, BatchOK
<1>2. CASE _maybe_resolve_event_schedules
  BY <1>2 DEF _maybe_resolve_event_schedules, may_start, BatchOK
<1>3. CASE schedule_restarted
  BY <1>3 DEF schedule_restarted, BatchOK
<1>4. ASSUME NEW job \in jobs PROVE jobs = {job} /\ scan.running = TRUE /\ jobs \ {job} = {}
  BY <1>4 DEF BatchOK
<1>5. ASSUME NEW job \in jobs, save(job) PROVE BatchOK'
  <2>1. UNCHANGED scan /\ \E after : jobs' = (jobs \ {job}) \cup {after}
    BY <1>5, Zenon DEF save
  <2> QED BY <1>4, <2>1 DEF BatchOK
<1>6. ASSUME NEW job \in jobs, NEW s, source_fails(job, s) PROVE BatchOK'
  <2>1. UNCHANGED scan /\ \E after : jobs' = (jobs \ {job}) \cup {after}
    BY <1>6, Zenon DEF source_fails
  <2> QED BY <1>4, <2>1 DEF BatchOK
<1>7. ASSUME NEW job \in jobs, batch_over(job) PROVE BatchOK'
  <2>1. jobs' = jobs \ {job} /\ scan' = [scan EXCEPT !.running = FALSE]
    BY <1>7 DEF batch_over
  <2> QED BY <1>4, <2>1 DEF BatchOK
<1>8. ScheduleNext => BatchOK'
  BY <1>2, <1>3, <1>5, <1>6, <1>7 DEF ScheduleNext
<1> QED BY <1>1, <1>8 DEF Next, netting, reports, series, resets, index, tape, history_of_prices, signals, event_dates, tick_clock, deskVars, marketVars

(* What runs beside the loop can be used again: every worker that runs is     *)
(* found by the next caller or by the exit hook, one at a time has a key, and *)
(* a batch runs exactly while the flag says so (Background).                  *)
THEOREM BackgroundTheorem == Spec => []BackgroundCanGoOn
<1>1. WorkersInv => WorkersAreReachable
  <2> SUFFICES ASSUME WorkersInv PROVE WorkersAreReachable
    OBVIOUS
  <2>1. \A c \in DOMAIN workers : Running(c) => c \in Opening \/ \E k \in DOMAIN cached : cached[k] = c
    BY DEF WorkersInv, Reachable, AtItsKey, Known, Opened, Opening
  <2>2. \A c, d \in DOMAIN workers : c # d /\ Running(c) /\ Running(d) => workers[c].key # workers[d].key
    BY RunningDiffer
  <2>3. exited => \A c \in DOMAIN workers : ~Running(c)
    BY DEF WorkersInv, Reachable
  <2> QED BY <2>1, <2>2, <2>3 DEF WorkersAreReachable
<1>2. BatchOK => OneBatchRuns
  <2>1. ASSUME NEW job, jobs = {job} PROVE Cardinality(jobs) = 1 /\ jobs # {}
    BY <2>1, FS_Singleton
  <2>2. Cardinality({}) = 0
    BY FS_EmptySet
  <2> QED BY <2>1, <2>2 DEF BatchOK, OneBatchRuns
<1>3. WorkersInv /\ BatchOK => BackgroundCanGoOn
  BY <1>1, <1>2 DEF BackgroundCanGoOn
<1> QED BY <1>3, WorkersStart, WorkersStep, BatchStart, BatchStep, PTL DEF Spec

-------------------------------------------------------------------------------
(* The index. A part of a sequence adds up to what its parts do, and more     *)
(* values change no sum of those there were.                                  *)

SumOf(list, first, last) == SumOfAll(SubSeq(list, first, last))

(* The last value of a part is the last to be added.                          *)
LEMMA PartEnds ==
  ASSUME NEW list \in Seq(Int), NEW a \in Nat \ {0}, NEW b \in Nat, a <= b, b <= Len(list)
  PROVE  SumOf(list, a, b - 1) \in Int /\ SumOf(list, a, b) = SumOf(list, a, b - 1) + list[b]
<1> DEFINE part == SubSeq(list, a, b - 1)
<1>1. a \in 1..Len(list) /\ b \in a..Len(list) /\ Len(list) \in Nat
  OBVIOUS
<1>2. \A i \in 1..Len(list) : list[i] \in Int
  BY ElementOfSeq
<1>3. part \in Seq(Int) /\ list[b] \in Int
  <2>1. \A i \in a..b - 1 : list[i] \in Int
    BY <1>1, <1>2
  <2>2. a \in Int /\ b - 1 \in Int
    OBVIOUS
  <2>3. part \in Seq(Int)
    BY <2>1, <2>2, SubSeqProperties
  <2>4. list[b] \in Int
    BY <1>1, <1>2
  <2> QED BY <2>3, <2>4
<1>4. SubSeq(list, a, b) = part \o << list[b] >>
  BY <1>1, SubSeqRecursiveSecond
<1> HIDE DEF part
<1>5. SubSeq(list, a, b) = Append(part, list[b])
  BY <1>3, <1>4, AppendIsConcat
<1>6. SumOfAll(part) \in Int /\ SumOfAll(Append(part, list[b])) = SumOfAll(part) + list[b]
  BY <1>3, TotalAppends
<1> QED BY <1>5, <1>6 DEF SumOf, part

(* A part with nothing in it adds up to nothing.                              *)
LEMMA PartOfNone == ASSUME NEW list, NEW a \in Int, NEW b \in Int, b < a PROVE SumOf(list, a, b) = 0
<1>1. SubSeq(list, a, b) = << >>
  BY SubSeqEmpty
<1> QED BY <1>1, TotalOfNone DEF SumOf

(* Integers add up to an integer.                                             *)
LEMMA PartIsInt ==
  ASSUME NEW list \in Seq(Int), NEW a \in Nat \ {0}, NEW b \in Nat, b <= Len(list)
  PROVE  SumOf(list, a, b) \in Int
<1>1. CASE b < a
  BY <1>1, PartOfNone
<1>2. CASE a <= b
  <2>1. list[b] \in Int
    <3>1. b \in 1..Len(list)
      BY <1>2
    <3> QED BY <3>1, ElementOfSeq
  <2>2. SumOf(list, a, b - 1) \in Int /\ SumOf(list, a, b) = SumOf(list, a, b - 1) + list[b]
    BY <1>2, PartEnds
  <2> QED BY <2>1, <2>2
<1> QED BY <1>1, <1>2

(* Two parts that meet add up to the whole: a least end at which they do not  *)
(* has one before it.                                                         *)
LEMMA PartsAdd ==
  ASSUME NEW list \in Seq(Int), NEW a \in Nat \ {0}, NEW b \in Nat, NEW c \in Nat, a - 1 <= b, b <= c, c <= Len(list)
  PROVE  SumOf(list, a, c) = SumOf(list, a, b) + SumOf(list, b + 1, c)
<1> DEFINE Adds(e) == SumOf(list, a, e) = SumOf(list, a, b) + SumOf(list, b + 1, e)
           Broken == { e \in b..c : ~Adds(e) }
<1> SUFFICES ASSUME Broken # {} PROVE FALSE
  <2>1. c \in b..c
    OBVIOUS
  <2> QED BY <2>1
<1>1. PICK e \in Broken : \A y \in Broken : e <= y
  <2>1. Broken \subseteq Nat
    OBVIOUS
  <2> HIDE DEF Broken
  <2> QED BY <2>1, Least
<1>2. e \in b..c /\ ~Adds(e) /\ e \in Nat /\ e <= Len(list)
  BY <1>1
<1>3. SumOf(list, a, b) \in Int
  <2>1. b <= Len(list)
    <3>1. Len(list) \in Nat
      OBVIOUS
    <3> QED BY <3>1
  <2> QED BY <2>1, PartIsInt
<1>4. e # b
  <2>1. SumOf(list, b + 1, b) = 0
    BY PartOfNone
  <2> QED BY <1>2, <1>3, <2>1
<1>5. e - 1 \in b..c /\ e - 1 < e /\ a <= e /\ b + 1 <= e /\ b + 1 \in Nat \ {0}
  BY <1>2, <1>4
<1>6. Adds(e - 1)
  BY <1>1, <1>5
<1>7. SumOf(list, a, e - 1) \in Int /\ SumOf(list, a, e) = SumOf(list, a, e - 1) + list[e]
  BY <1>2, <1>5, PartEnds
<1>8. SumOf(list, b + 1, e - 1) \in Int /\ SumOf(list, b + 1, e) = SumOf(list, b + 1, e - 1) + list[e]
  BY <1>2, <1>5, PartEnds
<1>9. list[e] \in Int
  <2>1. e \in 1..Len(list)
    BY <1>2, <1>5
  <2> QED BY <2>1, ElementOfSeq
<1> QED BY <1>2, <1>3, <1>6, <1>7, <1>8, <1>9

(* A value that is appended is in no part there was.                          *)
LEMMA PartStays ==
  ASSUME NEW list \in Seq(Int), NEW x \in Int, NEW a \in Nat \ {0}, NEW b \in Nat, b <= Len(list)
  PROVE  SumOf(Append(list, x), a, b) = SumOf(list, a, b)
<1> DEFINE n == Len(list)
           more == Append(list, x)
<1>1. n \in Nat /\ \A i \in 1..n : list[i] \in Int /\ more[i] = list[i]
  BY LenProperties, AppendProperties, ElementOfSeq
<1> HIDE DEF more
<1>2. \A i \in a..b : list[i] \in Int /\ more[i] \in Int
  BY <1>1
<1> DEFINE before == SubSeq(list, a, b)
           after == SubSeq(more, a, b)
<1>3. before \in Seq(Int) /\ Len(before) = (IF a <= b THEN b - a + 1 ELSE 0) /\ \A i \in 1..b - a + 1 : before[i] = list[a + i - 1]
  BY <1>2, SubSeqProperties
<1>4. after \in Seq(Int) /\ Len(after) = (IF a <= b THEN b - a + 1 ELSE 0) /\ \A i \in 1..b - a + 1 : after[i] = more[a + i - 1]
  BY <1>2, SubSeqProperties
<1>5. \A i \in 1..b - a + 1 : a + i - 1 \in 1..n
  BY <1>1
<1> HIDE DEF before, after
<1>6. \A i \in 1..Len(before) : before[i] = after[i]
  <2>1. \A i \in 1..b - a + 1 : before[i] = after[i]
    BY <1>1, <1>3, <1>4, <1>5
  <2> QED BY <1>3, <2>1
<1>7. before = after
  BY <1>3, <1>4, <1>6, SeqEqual
<1> QED BY <1>7 DEF SumOf, before, after, more

(* A window ends at the next quarter hour, later than it is long.             *)
LEMMA WindowEnds ==
  ASSUME NEW sec \in Nat
  PROVE  /\ EndOf(sec) \in Nat /\ sec < EndOf(sec) /\ EndOf(sec) <= sec + QuarterHour
         /\ EndOf(sec) > WindowTicks /\ EndOf(sec) % QuarterHour = 0
<1> DEFINE k == sec \div QuarterHour
<1>1. QuarterHour \in Nat /\ QuarterHour > WindowTicks /\ WindowTicks \in Nat
  BY IndexAssumption
<1>2. k \in Nat /\ QuarterHour * k <= sec /\ sec < QuarterHour * k + QuarterHour
  BY <1>1
<1>3. EndOf(sec) = (k + 1) * QuarterHour
  BY DEF EndOf
<1> HIDE DEF k
<1>4. (k + 1) * QuarterHour = QuarterHour * k + QuarterHour /\ QuarterHour * k \in Nat
  BY <1>1, <1>2
<1>5. ((k + 1) * QuarterHour) % QuarterHour = 0
  BY <1>1, <1>2
<1> QED BY <1>1, <1>2, <1>3, <1>4, <1>5

(* A market that closes within the tolerance of such an end closes at it.     *)
LEMMA ClosesAtEnd ==
  ASSUME NEW m \in DOMAIN CloseOf, NEW sec \in Nat, EndOf(sec) - CloseOf[m] \in -CloseTolerance..CloseTolerance
  PROVE  EndOf(sec) = CloseOf[m]
<1>1. QuarterHour \in Nat \ {0} /\ CloseTolerance \in Nat /\ CloseTolerance < QuarterHour /\ CloseOf[m] \in Nat /\ CloseOf[m] % QuarterHour = 0
  BY IndexAssumption
<1>2. EndOf(sec) \in Nat /\ EndOf(sec) % QuarterHour = 0
  BY WindowEnds
<1> DEFINE i == EndOf(sec) \div QuarterHour
           j == CloseOf[m] \div QuarterHour
<1>3. i \in Nat /\ j \in Nat /\ EndOf(sec) = QuarterHour * i /\ CloseOf[m] = QuarterHour * j
  BY <1>1, <1>2
<1> HIDE DEF i, j
<1>4. EndOf(sec) - CloseOf[m] < QuarterHour /\ CloseOf[m] - EndOf(sec) < QuarterHour
  BY <1>1, <1>2
<1>5. ASSUME i < j PROVE FALSE
  <2>1. QuarterHour * i + QuarterHour <= QuarterHour * j
    <3>1. QuarterHour * i + QuarterHour = QuarterHour * (i + 1) /\ i + 1 <= j
      BY <1>1, <1>3, <1>5
    <3> QED BY <1>1, <1>3, <3>1
  <2> QED BY <1>1, <1>2, <1>3, <1>4, <2>1
<1>6. ASSUME j < i PROVE FALSE
  <2>1. QuarterHour * j + QuarterHour <= QuarterHour * i
    <3>1. QuarterHour * j + QuarterHour = QuarterHour * (j + 1) /\ j + 1 <= i
      BY <1>1, <1>3, <1>6
    <3> QED BY <1>1, <1>3, <3>1
  <2> QED BY <1>1, <1>2, <1>3, <1>4, <2>1
<1> QED BY <1>3, <1>5, <1>6

(* A frame in a window says how much is known of it, and what that adds up to.*)
(* An observation says the same of the window its market closes at.           *)
LinkFields == {"up", "newest", "reconnects", "lost_at", "last_gap", "frames"}
ValuesOK == values \in Seq(Int)
LinkOK ==
  /\ DOMAIN link = LinkFields /\ link.lost_at \in Int /\ link.last_gap \in Int
  /\ link.frames \in Seq(Nat) /\ \A i \in 1..Len(link.frames) : link.frames[i] \in 1..Len(values)
FrameSays(f, list) ==
  /\ f.sec \in 1..Len(list) /\ f.window = EndOf(f.sec)
  /\ f.known = WindowTicks - (f.window - f.sec) + 1 /\ f.known <= WindowTicks
  /\ f.sum = SumOf(list, f.window - WindowTicks, f.sec)
LatestOK == latest.known = 0 \/ FrameSays(latest, values)
HandlerOK == DOMAIN handler = {"pc", "left", "entry"} /\ (handler.pc # "idle" => handler.entry = latest)
ObservedSays(o, list) ==
  LET begins == CloseOf[o.market] - WindowTicks
  IN  /\ o.market \in DOMAIN CloseOf /\ o.known \in 1..WindowTicks - 1
      /\ begins + o.known - 1 \in 1..Len(list)
      /\ o.required = WindowTicks * RuleOf[o.market].strike - SumOf(list, begins, begins + o.known - 1)
ObservationsOK == \A o \in observations : ObservedSays(o, values)
WindowInv == Bounded /\ ValuesOK /\ LinkOK /\ LatestOK /\ HandlerOK /\ ObservationsOK

(* What is said of the values stays true when there is one more.              *)
LEMMA FrameStays ==
  ASSUME NEW list \in Seq(Int), NEW x \in Int, NEW f, FrameSays(f, list)
  PROVE  FrameSays(f, Append(list, x))
<1>1. Len(list) \in Nat /\ Len(Append(list, x)) = Len(list) + 1
  OBVIOUS
<1>2. f.sec \in Nat /\ f.sec <= Len(list) /\ f.window - WindowTicks \in Nat \ {0}
  <2>1. f.sec \in Nat /\ f.sec <= Len(list) /\ f.window = EndOf(f.sec)
    BY <1>1 DEF FrameSays
  <2>2. EndOf(f.sec) \in Nat /\ EndOf(f.sec) > WindowTicks
    BY <2>1, WindowEnds
  <2> QED BY <2>1, <2>2, IndexAssumption
<1>3. SumOf(Append(list, x), f.window - WindowTicks, f.sec) = SumOf(list, f.window - WindowTicks, f.sec)
  BY <1>2, PartStays
<1>4. f.sec \in 1..Len(Append(list, x))
  BY <1>1 DEF FrameSays
<1> QED BY <1>3, <1>4 DEF FrameSays

(* A market closes later than its window is long.                             *)
LEMMA ClosesLater ==
  ASSUME NEW m \in DOMAIN CloseOf
  PROVE  CloseOf[m] \in Nat /\ CloseOf[m] - WindowTicks \in Nat \ {0} /\ WindowTicks \in Nat /\ RuleOf[m].strike \in Int
<1>1. /\ QuarterHour \in Nat \ {0} /\ WindowTicks \in Nat /\ WindowTicks < QuarterHour /\ CloseOf[m] \in Nat \ {0}
      /\ CloseOf[m] % QuarterHour = 0 /\ RuleOf[m].strike \in Int
  BY IndexAssumption
<1>2. CloseOf[m] >= QuarterHour
  <2>1. CloseOf[m] < QuarterHour => CloseOf[m] % QuarterHour = CloseOf[m]
    BY <1>1
  <2> QED BY <1>1, <2>1
<1> QED BY <1>1, <1>2

(* So does what is observed.                                                  *)
LEMMA ObservedStays ==
  ASSUME NEW list \in Seq(Int), NEW x \in Int, NEW o, ObservedSays(o, list)
  PROVE  ObservedSays(o, Append(list, x))
<1> DEFINE begins == CloseOf[o.market] - WindowTicks
           ends == begins + o.known - 1
<1>1. Len(list) \in Nat /\ Len(Append(list, x)) = Len(list) + 1
  OBVIOUS
<1>2. /\ o.market \in DOMAIN CloseOf /\ o.known \in 1..WindowTicks - 1 /\ ends \in 1..Len(list)
      /\ o.required = WindowTicks * RuleOf[o.market].strike - SumOf(list, begins, ends)
  BY DEF ObservedSays
<1>3. begins \in Nat \ {0}
  BY <1>2, ClosesLater
<1> HIDE DEF begins, ends
<1>4. SumOf(Append(list, x), begins, ends) = SumOf(list, begins, ends)
  BY <1>1, <1>2, <1>3, PartStays
<1>5. ends \in 1..Len(Append(list, x))
  BY <1>1, <1>2
<1> QED BY <1>2, <1>4, <1>5 DEF ObservedSays, begins, ends

(* A frame of a second there is says what it should, or is in no window.      *)
LEMMA FrameIs ==
  ASSUME ValuesOK, NEW sec \in 1..Len(values)
  PROVE  FrameOf(sec).known = 0 \/ FrameSays(FrameOf(sec), values)
<1>1. sec \in Nat /\ EndOf(sec) \in Nat /\ sec < EndOf(sec) /\ WindowTicks \in Nat
  BY WindowEnds, IndexAssumption DEF ValuesOK
<1>2. CASE EndOf(sec) - sec > WindowTicks
  BY <1>2 DEF FrameOf, NoFrame
<1>3. CASE ~(EndOf(sec) - sec > WindowTicks)
  <2> DEFINE f == [sec |-> sec, window |-> EndOf(sec), known |-> WindowTicks - (EndOf(sec) - sec) + 1, sum |-> Total(EndOf(sec) - WindowTicks, sec)]
  <2>1. FrameOf(sec) = f
    BY <1>3 DEF FrameOf
  <2>2. FrameSays(f, values)
    <3>1. f.sec = sec /\ f.window = EndOf(sec) /\ f.known = WindowTicks - (EndOf(sec) - sec) + 1 /\ f.sum = Total(EndOf(sec) - WindowTicks, sec)
      OBVIOUS
    <3> HIDE DEF f
    <3> QED BY <1>1, <3>1 DEF FrameSays, Total, SumOf
  <2> HIDE DEF f
  <2> QED BY <2>1, <2>2
<1> QED BY <1>2, <1>3

(* At the start nothing is said of any window.                                *)
LEMMA WindowsStart == Init => WindowInv
<1> SUFFICES ASSUME Init PROVE WindowInv
  OBVIOUS
<1>1. Bounded
  BY BoundsStart
<1>2. /\ values = << 1 >> /\ latest = NoFrame /\ handler = AtEase /\ observations = {}
      /\ link = [up |-> TRUE, newest |-> 1, reconnects |-> 0, lost_at |-> 0, last_gap |-> -1, frames |-> << >>]
  BY DEF Init, IndexInit
<1>3. << >> \in Seq(Nat) /\ Len(<< >>) = 0 /\ << 1 >> \in Seq(Int)
  OBVIOUS
<1>4. LinkOK
  BY <1>2, <1>3 DEF LinkOK, LinkFields
<1>5. LatestOK /\ HandlerOK
  BY <1>2 DEF LatestOK, HandlerOK, NoFrame, AtEase
<1> QED BY <1>1, <1>2, <1>3, <1>4, <1>5 DEF WindowInv, ValuesOK, ObservationsOK

(* A value more. *)
LEMMA ValueKeepsWindows == ASSUME WindowInv, Bounded', value_published PROVE WindowInv'
<1>1. (\E v \in Int : values' = Append(values, v)) /\ UNCHANGED << link, latest, handler, observations >>
  BY DEF value_published, WindowInv, Bounded
<1>2. PICK v \in Int : values' = Append(values, v)
  BY <1>1
<1>3. values \in Seq(Int) /\ values' \in Seq(Int) /\ Len(values) \in Nat /\ Len(values') = Len(values) + 1
  BY <1>2 DEF WindowInv, ValuesOK
<1>4. LatestOK'
  BY <1>1, <1>2, <1>3, FrameStays DEF WindowInv, LatestOK
<1>5. ObservationsOK'
  BY <1>1, <1>2, <1>3, ObservedStays DEF WindowInv, ObservationsOK
<1>6. LinkOK'
  BY <1>1, <1>3, SMTT(20) DEF WindowInv, LinkOK
<1> QED BY <1>1, <1>3, <1>4, <1>5, <1>6 DEF WindowInv, ValuesOK, HandlerOK

(* The link, which only carries the seconds there are.                        *)
LEMMA LinkKeepsWindows ==
  ASSUME WindowInv, Bounded', frame_received \/ _record_disconnect \/ _begin_connection
  PROVE  WindowInv'
<1>1. UNCHANGED << values, latest, observations >> /\ now \in Nat
  BY DEF frame_received, _record_disconnect, _begin_connection, WindowInv, Bounded
<1>2. HandlerOK'
  BY <1>1 DEF frame_received, _record_disconnect, _begin_connection, WindowInv, HandlerOK, AtEase
<1>3. LinkOK'
  <2>1. CASE frame_received
    <3>1. link' = [link EXCEPT !.newest = now, !.frames = Append(@, now)] /\ now \in 1..Len(values) /\ now \in Nat
      BY <2>1, <1>1 DEF frame_received
    <3>2. DOMAIN link' = LinkFields /\ link'.lost_at = link.lost_at /\ link'.last_gap = link.last_gap /\ link'.frames = Append(link.frames, now)
      BY <3>1 DEF WindowInv, LinkOK, LinkFields
    <3> DEFINE frames == link.frames
    <3>3. frames \in Seq(Nat) /\ \A i \in 1..Len(frames) : frames[i] \in 1..Len(values)
      BY DEF WindowInv, LinkOK
    <3> HIDE DEF frames
    <3>4. Append(frames, now) \in Seq(Nat) /\ \A i \in 1..Len(Append(frames, now)) : Append(frames, now)[i] \in 1..Len(values)
      BY <3>1, <3>3
    <3> QED BY <1>1, <3>2, <3>4 DEF WindowInv, LinkOK, frames
  <2>2. CASE _record_disconnect
    <3>1. DOMAIN link' = LinkFields /\ link'.lost_at = 2 * now + 1 /\ link'.last_gap = link.last_gap /\ link'.frames = link.frames
      BY <2>2 DEF _record_disconnect, WindowInv, LinkOK, LinkFields
    <3> QED BY <1>1, <3>1 DEF WindowInv, LinkOK
  <2>3. CASE _begin_connection
    <3>1. DOMAIN link' = LinkFields /\ link'.lost_at = link.lost_at /\ link'.last_gap = 2 * now + 1 - link.lost_at /\ link'.frames = << >>
      BY <2>3 DEF _begin_connection, WindowInv, LinkOK, LinkFields
    <3>2. << >> \in Seq(Nat) /\ Len(<< >>) = 0
      OBVIOUS
    <3> QED BY <1>1, <3>1, <3>2 DEF WindowInv, LinkOK
  <2> QED BY <2>1, <2>2, <2>3
<1> QED BY <1>1, <1>2, <1>3 DEF WindowInv, ValuesOK, LatestOK, ObservationsOK

(* A frame that is taken leaves the rest.                                     *)
LEMMA TakenKeepsLink ==
  ASSUME LinkOK, ValuesOK, link.frames # << >>, link' = [link EXCEPT !.frames = Tail(@)], values' = values
  PROVE  LinkOK' /\ Head(link.frames) \in 1..Len(values)
<1> DEFINE frames == link.frames
<1>1. frames \in Seq(Nat) /\ frames # << >> /\ \A i \in 1..Len(frames) : frames[i] \in 1..Len(values)
  BY DEF LinkOK
<1>2. DOMAIN link' = LinkFields /\ link'.lost_at = link.lost_at /\ link'.last_gap = link.last_gap /\ link'.frames = Tail(frames)
  BY DEF LinkOK, LinkFields
<1> HIDE DEF frames
<1>3. Len(frames) \in Nat /\ Len(frames) >= 1
  BY <1>1, EmptySeq
<1>4. Tail(frames) \in Seq(Nat) /\ Len(Tail(frames)) = Len(frames) - 1 /\ \A i \in 1..Len(Tail(frames)) : Tail(frames)[i] = frames[i + 1]
  BY <1>1, HeadTailProperties
<1>5. \A i \in 1..Len(Tail(frames)) : Tail(frames)[i] \in 1..Len(values)
  <2>1. \A i \in 1..Len(Tail(frames)) : i + 1 \in 1..Len(frames)
    BY <1>3, <1>4
  <2> QED BY <1>1, <1>4, <2>1
<1>6. Head(frames) \in 1..Len(values)
  <2>1. Head(frames) = frames[1]
    BY <1>1, <1>3
  <2> QED BY <1>1, <1>3, <2>1
<1> QED BY <1>2, <1>4, <1>5, <1>6 DEF LinkOK, frames

(* The newest frame is taken by a handler at ease.                            *)
LEMMA FrameKeepsWindows ==
  ASSUME WindowInv, Bounded', record_cfbenchmarks \/ record_cfbenchmarks_fails
  PROVE  WindowInv'
<1>1. link.frames # << >> /\ link' = [link EXCEPT !.frames = Tail(@)] /\ UNCHANGED << values, observations >> /\ handler.pc = "idle"
  BY DEF record_cfbenchmarks, record_cfbenchmarks_fails
<1>2. LinkOK' /\ Head(link.frames) \in 1..Len(values)
  BY <1>1, TakenKeepsLink DEF WindowInv
<1>3. LatestOK' /\ HandlerOK'
  <2>1. CASE record_cfbenchmarks
    <3> DEFINE f == FrameOf(Head(link.frames))
    <3>1. latest' = f /\ handler' = IF f.known = 0 \/ budget.watched = {} THEN AtEase ELSE [pc |-> "looking", left |-> budget.watched, entry |-> f]
      BY <2>1 DEF record_cfbenchmarks
    <3>2. f.known = 0 \/ FrameSays(f, values)
      BY <1>2, FrameIs DEF WindowInv
    <3> HIDE DEF f
    <3> QED BY <1>1, <3>1, <3>2 DEF LatestOK, HandlerOK, AtEase
  <2>2. CASE record_cfbenchmarks_fails
    BY <1>1, <2>2 DEF record_cfbenchmarks_fails, WindowInv, LatestOK, HandlerOK
  <2> QED BY <2>1, <2>2
<1> QED BY <1>1, <1>2, <1>3 DEF WindowInv, ValuesOK, ObservationsOK

(* What a handler at work observes is of the window its market closes at.     *)
LEMMA LookKeepsWindows ==
  ASSUME WindowInv, Bounded', NEW m \in DOMAIN CloseOf,
         handler.pc # "idle", UNCHANGED << values, link, latest >>, Observed(m) \/
           (observations' = observations /\ \E pc : handler' = AtEase \/ handler' = [handler EXCEPT !.pc = pc] \/ handler' = [handler EXCEPT !.pc = "looking", !.left = @ \ {m}])
  PROVE  WindowInv'
<1>1. HandlerOK'
  <2>1. handler' = AtEase \/ (DOMAIN handler' = DOMAIN handler /\ handler'.entry = handler.entry)
    <3>1. DOMAIN handler = {"pc", "left", "entry"}
      BY DEF WindowInv, HandlerOK
    <3>2. ASSUME NEW pc, handler' = [handler EXCEPT !.pc = pc] PROVE DOMAIN handler' = DOMAIN handler /\ handler'.entry = handler.entry
      BY <3>1, <3>2
    <3>3. ASSUME handler' = [handler EXCEPT !.pc = "looking", !.left = @ \ {m}] PROVE DOMAIN handler' = DOMAIN handler /\ handler'.entry = handler.entry
      BY <3>1, <3>3
    <3>4. CASE Observed(m)
      <4>1. handler' = AtEase \/ handler' = [handler EXCEPT !.pc = "looking", !.left = @ \ {m}]
        BY <3>4 DEF Observed
      <4> QED BY <3>3, <4>1
    <3>5. CASE ~Observed(m)
      <4>1. \E pc : handler' = AtEase \/ handler' = [handler EXCEPT !.pc = pc] \/ handler' = [handler EXCEPT !.pc = "looking", !.left = @ \ {m}]
        BY <3>5
      <4>2. PICK pc : handler' = AtEase \/ handler' = [handler EXCEPT !.pc = pc] \/ handler' = [handler EXCEPT !.pc = "looking", !.left = @ \ {m}]
        BY <4>1
      <4> QED BY <3>2, <3>3, <4>2
    <3> QED BY <3>4, <3>5
  <2>2. AtEase.pc = "idle" /\ DOMAIN AtEase = {"pc", "left", "entry"}
    BY DEF AtEase
  <2> QED BY <2>1, <2>2 DEF WindowInv, HandlerOK
<1>2. ASSUME NEW o \in observations' PROVE ObservedSays(o, values)
  <2>1. CASE o \in observations
    BY <2>1 DEF WindowInv, ObservationsOK
  <2>2. CASE o \notin observations
    <3>1. /\ window_matches_close(handler.entry, m) /\ Accumulating
          /\ o = [market |-> m, known |-> latest.known, required |-> required_remaining(RuleOf[m].strike)]
      BY <1>2, <2>2 DEF Observed, record_observation
    <3>2. handler.entry = latest /\ FrameSays(latest, values)
      BY <3>1, IndexAssumption DEF WindowInv, HandlerOK, LatestOK, Accumulating
    <3>3. latest.window = EndOf(latest.sec) /\ latest.sec \in Nat /\ latest.sec \in 1..Len(values)
      <4>1. Len(values) \in Nat
        BY DEF WindowInv, ValuesOK
      <4> QED BY <3>2, <4>1 DEF FrameSays
    <3>4. latest.window = CloseOf[m]
      BY <3>1, <3>2, <3>3, ClosesAtEnd DEF window_matches_close
    <3>5. CloseOf[m] \in Nat /\ WindowTicks \in Nat /\ CloseOf[m] - WindowTicks + latest.known - 1 = latest.sec
      BY <3>2, <3>3, <3>4, ClosesLater DEF FrameSays
    <3>6. o.market = m /\ o.known = latest.known /\ o.required = WindowTicks * RuleOf[m].strike - latest.sum
      BY <3>1 DEF required_remaining
    <3> QED BY <3>1, <3>2, <3>3, <3>4, <3>5, <3>6 DEF ObservedSays, FrameSays, Accumulating
  <2> QED BY <2>1, <2>2
<1> QED BY <1>1, <1>2 DEF WindowInv, ValuesOK, LinkOK, LatestOK, ObservationsOK

(* So every step keeps what is said of the windows.                           *)
LEMMA WindowsStep == WindowInv /\ [Next]_deskVars => WindowInv'
<1> SUFFICES ASSUME WindowInv, [Next]_deskVars PROVE WindowInv'
  OBVIOUS
<1>1. Bounded'
  BY BoundsStep DEF WindowInv
<1>2. ASSUME UNCHANGED << values, link, latest, handler, observations >> PROVE WindowInv'
  BY <1>1, <1>2 DEF WindowInv, ValuesOK, LinkOK, LatestOK, HandlerOK, ObservationsOK
<1>3. CASE UNCHANGED indexVars
  BY <1>2, <1>3 DEF indexVars
<1>4. CASE IndexNext
  <2>1. CASE value_published
    BY <1>1, <2>1, ValueKeepsWindows
  <2>2. CASE frame_received \/ _record_disconnect \/ _begin_connection
    BY <1>1, <2>2, LinkKeepsWindows
  <2>3. CASE record_cfbenchmarks \/ record_cfbenchmarks_fails
    BY <1>1, <2>3, FrameKeepsWindows
  <2>4. ASSUME NEW m \in DOMAIN CloseOf, _record_settlement_observations(m) \/ _spec_for(m) \/ _spec_for_fails(m) PROVE WindowInv'
    <3>1. m # "idle" /\ handler.pc # "idle" /\ UNCHANGED << values, link, latest >>
      BY <2>4, IndexAssumption DEF _record_settlement_observations, _spec_for, _spec_for_fails
    <3>2. Observed(m) \/ (observations' = observations /\ \E pc : handler' = AtEase \/ handler' = [handler EXCEPT !.pc = pc] \/ handler' = [handler EXCEPT !.pc = "looking", !.left = @ \ {m}])
      BY <2>4 DEF _record_settlement_observations, _spec_for, _spec_for_fails
    <3> QED BY <1>1, <3>1, <3>2, LookKeepsWindows
  <2>5. CASE flush_starts \/ \E b \in ticks.batches : flush_writes(b) \/ flush_fails(b)
    BY <1>2, <2>5 DEF flush_starts, flush_writes, flush_fails
  <2>6. CASE prune \/ detect_gap \/ backfill_index_fails
    BY <1>2, <2>6 DEF prune, detect_gap, backfill_index_fails
  <2>7. ASSUME NEW w, NEW read, _last_tick_before_sync(w, read) PROVE WindowInv'
    BY <1>2, <2>7 DEF _last_tick_before_sync
  <2>8. ASSUME NEW available, record_cfbenchmarks_backfill(available) PROVE WindowInv'
    BY <1>2, <2>8 DEF record_cfbenchmarks_backfill
  <2> QED BY <1>4, <2>1, <2>2, <2>3, <2>4, <2>5, <2>6, <2>7, <2>8 DEF IndexNext
<1> QED BY <1>3, <1>4 DEF Next, netting, reports, series, resets, index, tape, history_of_prices, signals, event_dates, tick_clock, deskVars

(* So an observation comes true exactly when its market settles YES.          *)
LEMMA WindowsAreOwn == WindowInv => ObservedOwnWindow
<1> SUFFICES ASSUME WindowInv, NEW o \in observations, Len(values) >= CloseOf[o.market]
             PROVE  LET rest == Total(CloseOf[o.market] - WindowTicks + o.known, CloseOf[o.market] - 1)
                    IN  Settles(o.market) = IF RuleOf[o.market].orEqual THEN rest >= o.required ELSE rest > o.required
  BY DEF ObservedOwnWindow
<1> DEFINE close == CloseOf[o.market]
           begins == close - WindowTicks
           ends == begins + o.known - 1
           strike == WindowTicks * RuleOf[o.market].strike
           total == SumOf(values, begins, close - 1)
           first == SumOf(values, begins, ends)
           rest == SumOf(values, ends + 1, close - 1)
<1>1. o.market \in DOMAIN CloseOf /\ o.known \in 1..WindowTicks - 1 /\ ends \in 1..Len(values) /\ o.required = strike - first
  BY DEF WindowInv, ObservationsOK, ObservedSays
<1>2. close \in Nat /\ begins \in Nat \ {0} /\ WindowTicks \in Nat /\ RuleOf[o.market].strike \in Int
  BY <1>1, ClosesLater
<1>3. values \in Seq(Int) /\ Len(values) \in Nat
  BY DEF WindowInv, ValuesOK
<1>4. WindowTicks = close - begins /\ ends = begins + o.known - 1 /\ o.known \in Nat /\ o.known <= WindowTicks - 1 /\ o.known >= 1 /\ close <= Len(values)
  BY <1>1, <1>2
<1> HIDE DEF close, begins, ends
<1>5. ends \in Nat /\ begins - 1 <= ends /\ ends <= close - 1 /\ close - 1 \in Nat /\ close - 1 <= Len(values) /\ ends + 1 \in Nat \ {0} /\ ends <= Len(values)
  <2> DEFINE k == o.known
             n == Len(values)
  <2>1. k \in Nat /\ k >= 1 /\ k <= WindowTicks - 1 /\ WindowTicks = close - begins /\ ends = begins + k - 1 /\ close <= n /\ n \in Nat
    BY <1>3, <1>4
  <2>2. close \in Nat /\ begins \in Nat \ {0} /\ WindowTicks \in Nat
    BY <1>2
  <2> HIDE DEF k
  <2>3. ends \in Nat /\ begins - 1 <= ends /\ ends <= close - 1 /\ ends + 1 \in Nat \ {0}
    BY <2>1, <2>2
  <2> HIDE DEF n
  <2>4. close - 1 \in Nat /\ close - 1 <= n /\ ends <= n
    BY <2>1, <2>2, <2>3
  <2> QED BY <2>3, <2>4 DEF n
<1>6. strike \in Int
  BY <1>2
<1>7. total = first + rest
  BY <1>2, <1>3, <1>5, PartsAdd
<1>8. first \in Int /\ rest \in Int
  BY <1>2, <1>3, <1>5, PartIsInt
<1>9. CloseOf[o.market] - WindowTicks + o.known = ends + 1
  BY <1>1, <1>2, SMTT(20) DEF begins, ends, close
<1>10. Total(CloseOf[o.market] - WindowTicks + o.known, CloseOf[o.market] - 1) = rest
  BY <1>9 DEF Total, SumOf, close
<1>11. Settles(o.market) = IF RuleOf[o.market].orEqual THEN total >= strike ELSE total > strike
  BY DEF Settles, Total, SumOf, begins, close
<1> HIDE DEF total, first, rest, strike
<1>12. (total >= strike) = (rest >= o.required) /\ (total > strike) = (rest > o.required)
  BY <1>1, <1>6, <1>7, <1>8
<1> QED BY <1>10, <1>11, <1>12

(* What the backfill promised is on record: every row that ever was is in the *)
(* buffer, a batch, the table or among the lost, and a gap that was measured  *)
(* whole begins at a row there is.                                            *)
TickFields == {"buffer", "batches", "table", "lost"}
AllRows(t) == t.buffer \cup (UNION t.batches) \cup t.table \cup t.lost
TicksOK == DOMAIN ticks = TickFields /\ \A r \in AllRows(ticks) : r.at \in Nat /\ r.at <= 2 * now + 3
FillerOK ==
  /\ DOMAIN filler = {"pc", "from", "to", "gap_sec", "whole"} /\ filler.to \in Int
  /\ filler.pc = "fetching" /\ filler.whole => filler.from \in Nat /\ filler.from < filler.to /\ \E r \in AllRows(ticks) : r.at = filler.from
PromisesKept == \A s \in promised : \E r \in AllRows(ticks) : r.sec = s
FillInv == TicksOK /\ FillerOK /\ PromisesKept

(* These are the rows the property speaks of, and the lost ones.              *)
LEMMA RowsAreAll == AllRows(ticks) = Rows \cup ticks.lost
BY DEF AllRows, Rows

(* The first row is the one the program starts with. *)
LEMMA FillStarts == Init => FillInv
<1> SUFFICES ASSUME Init PROVE FillInv
  OBVIOUS
<1> DEFINE r == [sec |-> 1, at |-> 3, windowed |-> FALSE]
<1>1. /\ filler = NoGap /\ promised = {} /\ now \in Nat
      /\ ticks = [buffer |-> {}, batches |-> {}, table |-> {r}, lost |-> {}]
  BY BoundsStart DEF Init, IndexInit, Bounded
<1>2. now = 0
  BY DEF Init
<1>3. r.at = 3
  OBVIOUS
<1> HIDE DEF r
<1>4. DOMAIN ticks = TickFields /\ AllRows(ticks) = {r}
  BY <1>1 DEF TickFields, AllRows
<1>5. FillerOK
  BY <1>1 DEF FillerOK, NoGap
<1> QED BY <1>1, <1>2, <1>3, <1>4, <1>5 DEF FillInv, TicksOK, PromisesKept

(* While no row goes, and those that come are of the present, the promises    *)
(* that were kept stay so.                                                    *)
LEMMA RowsKeep ==
  ASSUME FillInv, Bounded, Bounded', now' >= now, DOMAIN ticks' = TickFields, AllRows(ticks) \subseteq AllRows(ticks'),
         \A r \in AllRows(ticks') : r \in AllRows(ticks) \/ (r.at \in Nat /\ r.at <= 2 * now + 3)
  PROVE  /\ TicksOK' /\ (promised' = promised => PromisesKept') /\ (filler' = filler => FillerOK')
<1>1. now \in Nat /\ now' \in Nat
  BY DEF Bounded
<1>2. ASSUME NEW r \in AllRows(ticks') PROVE r.at \in Nat /\ r.at <= 2 * now' + 3
  BY <1>1, <1>2 DEF FillInv, TicksOK
<1>3. TicksOK'
  BY <1>2 DEF TicksOK
<1>4. promised' = promised => PromisesKept'
  BY DEF FillInv, PromisesKept
<1>5. filler' = filler => FillerOK'
  BY DEF FillInv, FillerOK
<1> QED BY <1>3, <1>4, <1>5

(* The rows move between the buffer, the batches, the table and the lost.     *)
LEMMA RowsMove ==
  ASSUME FillInv, record_cfbenchmarks \/ flush_starts \/ prune \/ \E b \in ticks.batches : flush_writes(b) \/ flush_fails(b), now \in Nat
  PROVE  /\ DOMAIN ticks' = TickFields /\ AllRows(ticks) \subseteq AllRows(ticks') /\ filler' = filler /\ promised' = promised
         /\ \A r \in AllRows(ticks') : r \in AllRows(ticks) \/ (r.at \in Nat /\ r.at <= 2 * now + 3)
<1>1. DOMAIN ticks = TickFields
  BY DEF FillInv, TicksOK
<1>2. CASE record_cfbenchmarks
  <2>1. \E x : x.at = 2 * now + 1 /\ ticks' = [ticks EXCEPT !.buffer = @ \cup {x}] /\ filler' = filler /\ promised' = promised
    BY <1>2 DEF record_cfbenchmarks
  <2>2. PICK x : x.at = 2 * now + 1 /\ ticks' = [ticks EXCEPT !.buffer = @ \cup {x}]
    BY <2>1
  <2>3. /\ DOMAIN ticks' = TickFields /\ ticks'.buffer = ticks.buffer \cup {x} /\ ticks'.batches = ticks.batches
        /\ ticks'.table = ticks.table /\ ticks'.lost = ticks.lost
    BY <1>1, <2>2 DEF TickFields
  <2>4. AllRows(ticks') = AllRows(ticks) \cup {x}
    BY <2>3 DEF AllRows
  <2>5. x.at \in Nat /\ x.at <= 2 * now + 3
    BY <2>2
  <2>6. filler' = filler /\ promised' = promised
    BY <2>1
  <2> QED BY <2>3, <2>4, <2>5, <2>6
<1>3. CASE flush_starts
  <2>1. ticks' = [ticks EXCEPT !.buffer = {}, !.batches = @ \cup {ticks.buffer}] /\ filler' = filler /\ promised' = promised
    BY <1>3 DEF flush_starts
  <2>2. /\ DOMAIN ticks' = TickFields /\ ticks'.buffer = {} /\ ticks'.batches = ticks.batches \cup {ticks.buffer}
        /\ ticks'.table = ticks.table /\ ticks'.lost = ticks.lost
    BY <1>1, <2>1 DEF TickFields
  <2>3. AllRows(ticks') = AllRows(ticks)
    BY <2>2, Zenon DEF AllRows
  <2> QED BY <2>1, <2>2, <2>3
<1>4. CASE prune
  <2>1. \E gone \in SUBSET ticks.table : ticks' = [ticks EXCEPT !.table = @ \ gone, !.lost = @ \cup gone] /\ filler' = filler /\ promised' = promised
    BY <1>4 DEF prune
  <2>2. PICK gone \in SUBSET ticks.table : ticks' = [ticks EXCEPT !.table = @ \ gone, !.lost = @ \cup gone]
    BY <2>1
  <2>3. /\ DOMAIN ticks' = TickFields /\ ticks'.buffer = ticks.buffer /\ ticks'.batches = ticks.batches
        /\ ticks'.table = ticks.table \ gone /\ ticks'.lost = ticks.lost \cup gone
    BY <1>1, <2>2 DEF TickFields
  <2>4. AllRows(ticks') = AllRows(ticks)
    BY <2>2, <2>3 DEF AllRows
  <2> QED BY <2>1, <2>3, <2>4
<1>5. ASSUME NEW b \in ticks.batches, flush_writes(b) \/ flush_fails(b)
      PROVE  DOMAIN ticks' = TickFields /\ AllRows(ticks') = AllRows(ticks) /\ filler' = filler /\ promised' = promised
  <2>1. filler' = filler /\ promised' = promised
    BY <1>5 DEF flush_writes, flush_fails
  <2>2. /\ DOMAIN ticks' = TickFields /\ ticks'.buffer = ticks.buffer /\ ticks'.batches = ticks.batches \ {b}
        /\ ticks'.table \cup ticks'.lost = ticks.table \cup ticks.lost \cup b
    <3>1. CASE flush_writes(b)
      <4>1. ticks' = [ticks EXCEPT !.batches = @ \ {b}, !.table = @ \cup b]
        BY <3>1 DEF flush_writes
      <4>2. DOMAIN ticks' = TickFields /\ ticks'.buffer = ticks.buffer /\ ticks'.batches = ticks.batches \ {b} /\ ticks'.table = ticks.table \cup b /\ ticks'.lost = ticks.lost
        BY <1>1, <4>1 DEF TickFields
      <4> QED BY <4>2
    <3>2. CASE flush_fails(b)
      <4>1. ticks' = [ticks EXCEPT !.batches = @ \ {b}, !.lost = @ \cup b]
        BY <3>2 DEF flush_fails
      <4>2. DOMAIN ticks' = TickFields /\ ticks'.buffer = ticks.buffer /\ ticks'.batches = ticks.batches \ {b} /\ ticks'.table = ticks.table /\ ticks'.lost = ticks.lost \cup b
        BY <1>1, <4>1 DEF TickFields
      <4> QED BY <4>2
    <3> QED BY <1>5, <3>1, <3>2
  <2>3. UNION ticks.batches = (UNION (ticks.batches \ {b})) \cup b
    BY Zenon
  <2>4. AllRows(ticks') = ticks.buffer \cup (UNION (ticks.batches \ {b})) \cup (ticks.table \cup ticks.lost \cup b)
    BY <2>2 DEF AllRows
  <2>5. AllRows(ticks) = ticks.buffer \cup ((UNION (ticks.batches \ {b})) \cup b) \cup ticks.table \cup ticks.lost
    BY <2>3 DEF AllRows
  <2> QED BY <2>1, <2>2, <2>4, <2>5
<1> QED BY <1>2, <1>3, <1>4, <1>5

(* The last of the times before some moment.                                  *)
LEMMA LastBefore ==
  ASSUME NEW n \in Nat, NEW T \in SUBSET (0..n), T # {}
  PROVE  (CHOOSE a \in T : \A b \in T : b <= a) \in T
<1>1. \E a \in T : \A b \in T : b <= a
  BY Greatest
<1> QED BY <1>1

(* A gap that was measured whole begins at a row that is stored.              *)
LEMMA MeasureKeepsFill ==
  ASSUME FillInv, Bounded, Bounded', now' >= now, NEW w, NEW read \in BOOLEAN, _last_tick_before_sync(w, read)
  PROVE  FillInv'
<1> DEFINE stored == IF w THEN ticks.table \cup ticks.buffer ELSE ticks.table
           known == { r.at : r \in { x \in stored : x.at < filler.to } }
           start == last_tick_before(IF read THEN stored ELSE {})
<1>1. /\ promised' = promised
      /\ ticks' = [ticks EXCEPT !.buffer = {}, !.table = stored, !.lost = IF w THEN @ ELSE @ \cup ticks.buffer]
      /\ filler' = IF start >= filler.to THEN NoGap
                   ELSE [filler EXCEPT !.pc = "fetching", !.from = start, !.whole = @ /\ read /\ \E r \in stored : r.at < filler.to]
  BY DEF _last_tick_before_sync
<1>2. stored \subseteq AllRows(ticks)
  BY DEF AllRows
<1>3. read => start = IF known = {} THEN filler.to - filler.gap_sec ELSE CHOOSE a \in known : \A b \in known : b <= a
  BY DEF last_tick_before
<1>4. DOMAIN ticks = TickFields
  BY DEF FillInv, TicksOK
<1> HIDE DEF start
<1>5. /\ DOMAIN ticks' = TickFields /\ ticks'.buffer = {} /\ ticks'.batches = ticks.batches /\ ticks'.table = stored
      /\ ticks'.lost = IF w THEN ticks.lost ELSE ticks.lost \cup ticks.buffer
  BY <1>1, <1>4 DEF TickFields
<1>6. AllRows(ticks') = AllRows(ticks)
  BY <1>5 DEF AllRows
<1>7. TicksOK' /\ PromisesKept'
  BY <1>1, <1>5, <1>6, RowsKeep
<1>8. ASSUME read, NEW q \in stored, q.at < filler.to
      PROVE  start \in Nat /\ \E r \in AllRows(ticks') : r.at = start
  <2>1. 2 * now + 3 \in Nat
    BY DEF Bounded
  <2>2. known \in SUBSET (0..2 * now + 3)
    BY <1>2, <2>1 DEF FillInv, TicksOK
  <2>3. known # {}
    BY <1>8
  <2>4. \A a \in known : \E r \in stored : r.at = a
    OBVIOUS
  <2> HIDE DEF known, stored
  <2>5. (CHOOSE a \in known : \A b \in known : b <= a) \in known
    BY <2>1, <2>2, <2>3, LastBefore
  <2>6. start \in known
    BY <1>3, <1>8, <2>3, <2>5
  <2>7. start \in Nat
    BY <2>1, <2>2, <2>6
  <2>8. \E r \in stored : r.at = start
    BY <2>4, <2>6
  <2> QED BY <1>2, <1>6, <2>7, <2>8
<1> HIDE DEF stored, known
<1>9. FillerOK'
  <2>1. DOMAIN filler = {"pc", "from", "to", "gap_sec", "whole"} /\ filler.to \in Int
    BY DEF FillInv, FillerOK
  <2>2. CASE start >= filler.to
    BY <1>1, <2>2 DEF FillerOK, NoGap
  <2>3. CASE ~(start >= filler.to)
    <3>1. /\ DOMAIN filler' = {"pc", "from", "to", "gap_sec", "whole"} /\ filler'.to = filler.to /\ filler'.from = start
          /\ filler'.whole = (filler.whole /\ read /\ \E r \in stored : r.at < filler.to)
      BY <1>1, <2>1, <2>3
    <3>2. ASSUME filler'.whole PROVE start \in Nat /\ \E r \in AllRows(ticks') : r.at = start
      BY <1>8, <3>1, <3>2
    <3>3. start \in Nat => start < filler.to
      BY <2>1, <2>3
    <3> QED BY <2>1, <3>1, <3>2, <3>3 DEF FillerOK
  <2> QED BY <2>2, <2>3
<1> QED BY <1>7, <1>9 DEF FillInv

(* Every second that is promised is missing, in a bucket that is read.        *)
LEMMA BucketOf ==
  ASSUME NEW s \in Nat
  PROVE  LET b == s \div Bucket
         IN  b \in Nat /\ b <= s /\ Bucket * b <= s /\ s < Bucket * b + Bucket /\ (s < Bucket * MaxBuckets => b < MaxBuckets)
<1> DEFINE b == s \div Bucket
<1>1. Bucket \in Nat \ {0} /\ MaxBuckets \in Nat
  BY IndexAssumption
<1>2. b \in Nat /\ Bucket * b <= s /\ s < Bucket * b + Bucket
  BY <1>1
<1> HIDE DEF b
<1>3. b <= Bucket * b
  BY <1>1, <1>2
<1>4. b >= MaxBuckets => Bucket * b >= Bucket * MaxBuckets
  BY <1>1, <1>2
<1>5. b <= s
  <2>1. Bucket * b \in Nat
    BY <1>1, <1>2
  <2> QED BY <1>2, <1>3, <2>1
<1>6. s < Bucket * MaxBuckets => b < MaxBuckets
  <2>1. Bucket * b \in Nat /\ Bucket * MaxBuckets \in Nat
    BY <1>1, <1>2
  <2> QED BY <1>1, <1>2, <1>4, <2>1
<1> QED BY <1>2, <1>5, <1>6 DEF b

(* So such a second is among those the history answers for.                   *)
LEMMA PromisedIsAnswered ==
  ASSUME FillInv, Bounded, filler.pc = "fetching", filler.whole, NEW available \in SUBSET (1..now), NEW s \in available,
         2 * s < filler.to, s < Bucket * MaxBuckets, \A r \in AllRows(ticks) : r.at < filler.to => r.at < 2 * s
  PROVE  s \in Answered(available)
<1>1. s \in Nat /\ s >= 1 /\ s <= now /\ now \in Nat
  BY DEF Bounded
<1>2. filler.to \in Int /\ filler.from \in Nat /\ filler.from < 2 * s
  BY DEF FillInv, FillerOK
<1> DEFINE b == s \div Bucket
           buckets == _hour_bucket_starts
<1>3. Bucket \in Nat \ {0} /\ MaxBuckets \in Nat
  BY IndexAssumption
<1>4. b \in Nat /\ b <= s /\ Bucket * b <= s /\ s < Bucket * b + Bucket /\ b < MaxBuckets
  BY <1>1, BucketOf
<1>5. b \in buckets
  <2>1. filler.from \div 2 <= s
    BY <1>1, <1>2
  <2>2. (filler.to + 1) \div 2 > s
    BY <1>1, <1>2
  <2>3. b \in 0..now
    BY <1>1, <1>4
  <2> DEFINE c == Bucket * b
             half == filler.from \div 2
             end == (filler.to + 1) \div 2
  <2>4. c \in Nat /\ half \in Int /\ end \in Int
    BY <1>1, <1>2, <1>3, <1>4
  <2> HIDE DEF b, c, half, end
  <2>5. c <= s /\ s < c + Bucket
    BY <1>4 DEF c
  <2>6. c + Bucket > half /\ c < end
    BY <1>1, <1>3, <2>1, <2>2, <2>4, <2>5 DEF half, end
  <2> QED BY <2>3, <2>6 DEF _hour_bucket_starts, c, half, end
<1>6. buckets \subseteq Nat
  BY <1>1 DEF _hour_bucket_starts
<1> HIDE DEF buckets, b
<1>7. \E x \in buckets : \A y \in buckets : x <= y
  BY <1>5, <1>6, Least
<1>8. first_bucket \in buckets
  BY <1>7 DEF first_bucket, buckets
<1>9. b < first_bucket + MaxBuckets
  BY <1>3, <1>4, <1>6, <1>8
<1>10. s \in Missing
  BY <1>1, <1>2 DEF Missing
<1> QED BY <1>5, <1>9, <1>10 DEF Answered, buckets, b

(* So the answer keeps the promise.                                           *)
LEMMA AnswerKeepsFill ==
  ASSUME FillInv, Bounded, Bounded', now' >= now, NEW available \in SUBSET (1..now), record_cfbenchmarks_backfill(available)
  PROVE  FillInv'
<1> DEFINE rows == { [sec |-> s, at |-> 2 * s, windowed |-> FALSE] : s \in Answered(available) }
<1>1. ticks' = [ticks EXCEPT !.buffer = @ \cup rows] /\ filler' = NoGap /\ filler.pc = "fetching"
  BY DEF record_cfbenchmarks_backfill
<1>2. promised' = IF ~filler.whole THEN promised
                  ELSE promised \cup { s \in available : 2 * s < filler.to /\ s < Bucket * MaxBuckets
                                       /\ \A r \in Rows \cup ticks.lost : r.at < filler.to => r.at < 2 * s }
  BY DEF record_cfbenchmarks_backfill
<1>3. ASSUME NEW s \in Answered(available) PROVE \E r \in rows : r.sec = s
  <2> DEFINE r == [sec |-> s, at |-> 2 * s, windowed |-> FALSE]
  <2>1. r \in rows /\ r.sec = s
    OBVIOUS
  <2> QED BY <2>1
<1>4. \A r \in rows : r.at \in Nat /\ r.at <= 2 * now + 3
  <2>1. now \in Nat
    BY DEF Bounded
  <2>2. ASSUME NEW s \in Answered(available) PROVE s \in 1..now
    BY <2>2 DEF Answered
  <2>3. ASSUME NEW r \in rows PROVE \E s \in 1..now : r.at = 2 * s
    BY <2>2, <2>3
  <2> QED BY <2>1, <2>3
<1> HIDE DEF rows
<1>5. DOMAIN ticks = TickFields
  BY DEF FillInv, TicksOK
<1>6. /\ DOMAIN ticks' = TickFields /\ ticks'.buffer = ticks.buffer \cup rows /\ ticks'.batches = ticks.batches
      /\ ticks'.table = ticks.table /\ ticks'.lost = ticks.lost
  BY <1>1, <1>5 DEF TickFields
<1>7. AllRows(ticks') = AllRows(ticks) \cup rows
  BY <1>6 DEF AllRows
<1>8. TicksOK'
  BY <1>4, <1>6, <1>7, RowsKeep
<1>9. ASSUME NEW s \in promised' PROVE \E r \in AllRows(ticks') : r.sec = s
  <2>1. CASE s \in promised
    BY <1>7, <2>1 DEF FillInv, PromisesKept
  <2>2. CASE s \notin promised
    <3>1. /\ filler.whole /\ s \in available /\ 2 * s < filler.to /\ s < Bucket * MaxBuckets
          /\ \A r \in AllRows(ticks) : r.at < filler.to => r.at < 2 * s
      BY <1>2, <1>9, <2>2, RowsAreAll
    <3>2. s \in Answered(available)
      BY <1>1, <3>1, PromisedIsAnswered
    <3> QED BY <1>3, <1>7, <3>2
  <2> QED BY <2>1, <2>2
<1>10. FillerOK'
  BY <1>1 DEF FillerOK, NoGap
<1> QED BY <1>8, <1>9, <1>10 DEF FillInv, PromisesKept

(* So every step keeps what was promised.                                     *)
LEMMA FillStep == WindowInv /\ FillInv /\ [Next]_deskVars => FillInv'
<1> SUFFICES ASSUME WindowInv, FillInv, [Next]_deskVars PROVE FillInv'
  OBVIOUS
<1>1. Bounded /\ Bounded' /\ now' >= now /\ now \in Nat
  BY BoundsStep DEF WindowInv, Bounded
<1>2. ASSUME ticks' = ticks, promised' = promised, FillerOK' PROVE FillInv'
  <2>1. DOMAIN ticks' = TickFields /\ AllRows(ticks') = AllRows(ticks)
    BY <1>2 DEF FillInv, TicksOK
  <2> QED BY <1>1, <1>2, <2>1, RowsKeep DEF FillInv
<1>3. ASSUME UNCHANGED << ticks, filler, promised >> PROVE FillInv'
  <2>1. FillerOK'
    BY <1>3 DEF FillInv, FillerOK
  <2> QED BY <1>2, <1>3, <2>1
<1>4. CASE UNCHANGED indexVars
  BY <1>3, <1>4 DEF indexVars
<1>5. CASE IndexNext
  <2>1. CASE value_published \/ frame_received \/ _record_disconnect \/ _begin_connection \/ record_cfbenchmarks_fails
    BY <1>3, <2>1 DEF value_published, frame_received, _record_disconnect, _begin_connection, record_cfbenchmarks_fails
  <2>2. CASE \E m \in DOMAIN CloseOf : _record_settlement_observations(m) \/ _spec_for(m) \/ _spec_for_fails(m)
    BY <1>3, <2>2 DEF _record_settlement_observations, _spec_for, _spec_for_fails
  <2>3. CASE record_cfbenchmarks \/ flush_starts \/ prune \/ \E b \in ticks.batches : flush_writes(b) \/ flush_fails(b)
    BY <1>1, <2>3, RowsMove, RowsKeep DEF FillInv
  <2>4. CASE detect_gap
    <3>1. ticks' = ticks /\ promised' = promised
      BY <2>4 DEF detect_gap
    <3>2. filler' = NoGap \/ filler' = [pc |-> "reading", from |-> 0, to |-> link.lost_at + link.last_gap, gap_sec |-> link.last_gap, whole |-> link.up]
      BY <2>4 DEF detect_gap
    <3>3. link.lost_at + link.last_gap \in Int
      BY DEF WindowInv, LinkOK
    <3>4. FillerOK'
      BY <3>2, <3>3 DEF FillerOK, NoGap
    <3> QED BY <1>2, <3>1, <3>4
  <2>5. ASSUME NEW w \in BOOLEAN, NEW read \in BOOLEAN, _last_tick_before_sync(w, read) PROVE FillInv'
    BY <1>1, <2>5, MeasureKeepsFill
  <2>6. ASSUME NEW lag \in 0..budget.lag, record_cfbenchmarks_backfill({ s \in 1..Len(values) : s + lag <= now }) PROVE FillInv'
    <3>1. { s \in 1..Len(values) : s + lag <= now } \in SUBSET (1..now)
      BY <1>1
    <3> QED BY <1>1, <2>6, <3>1, AnswerKeepsFill
  <2>7. CASE backfill_index_fails
    <3>1. ticks' = ticks /\ promised' = promised /\ filler' = NoGap
      BY <2>7 DEF backfill_index_fails
    <3> QED BY <1>2, <3>1 DEF FillerOK, NoGap
  <2> QED BY <1>5, <2>1, <2>2, <2>3, <2>4, <2>5, <2>6, <2>7 DEF IndexNext
<1> QED BY <1>4, <1>5 DEF Next, netting, reports, series, resets, index, tape, history_of_prices, signals, event_dates, tick_clock, deskVars

(* The index (kalshi_websocket, index_stats_log, backfill.py,                 *)
(* settlement_algebra.py): a second that a gap cost is on record once the gap *)
(* was looked at whole and the history answered, and what is observed in a    *)
(* window comes true exactly when the market settles YES.                     *)
THEOREM IndexTheorem == Spec => []IndexIsOnRecord
<1> DEFINE IndexInv == WindowInv /\ FillInv
<1>1. Init => IndexInv
  BY WindowsStart, FillStarts
<1>2. IndexInv /\ [Next]_deskVars => IndexInv'
  BY WindowsStep, FillStep
<1>3. IndexInv => IndexIsOnRecord
  BY WindowsAreOwn, RowsAreAll DEF FillInv, PromisesKept, IndexIsOnRecord, GapsAreFilled
<1> QED BY <1>1, <1>2, <1>3, PTL DEF Spec

-------------------------------------------------------------------------------
(* Sums over a finite set: the table of partial sums exists and holds whole   *)
(* amounts, again by a smallest counterexample.                               *)

picked(s) == CHOOSE x \in s : TRUE
SetSums(v, S, f) == f = [s \in SUBSET S |-> IF s = {} THEN 0 ELSE v[picked(s)] + f[s \ {picked(s)}]]
SumOfSet(v, S) == (CHOOSE f : SetSums(v, S, f))[S]

(* Among the sets of a family, one has no smaller one in it.                  *)
LEMMA Smallest ==
  ASSUME NEW S, IsFiniteSet(S), NEW family \in SUBSET SUBSET S, family # {}
  PROVE  \E s \in family : \A t \in SUBSET s : t # s => t \notin family
<1> DEFINE R == StrictSubsetOrdering(S)
<1>1. IsWellFoundedOn(R, SUBSET S)
  BY FS_StrictSubsetOrderingWellFounded, FS_FiniteSubsetsOfFinite
<1>2. PICK s \in family : \A t \in family : ~(<<t, s>> \in R)
  <2> HIDE DEF R
  <2> QED BY <1>1, WFMin
<1>3. ASSUME NEW t \in family, t \subseteq s, t # s PROVE <<t, s>> \in R
  <2> DEFINE pair == <<t, s>>
  <2>1. pair \in (SUBSET S) \X (SUBSET S) /\ pair[1] = t /\ pair[2] = s
    OBVIOUS
  <2>2. pair[1] \subseteq pair[2] /\ pair[1] # pair[2]
    BY <1>3, <2>1
  <2> QED BY <2>1, <2>2 DEF StrictSubsetOrdering, pair
<1> HIDE DEF R
<1>4. ASSUME NEW t \in SUBSET s, t # s PROVE t \notin family
  BY <1>2, <1>3, <1>4
<1> QED BY <1>4

(* What a table says of each of its sets.                                     *)
LEMMA SetSumsEntries ==
  ASSUME NEW v, NEW S, NEW f, SetSums(v, S, f), NEW s \in SUBSET S
  PROVE  f[s] = IF s = {} THEN 0 ELSE v[picked(s)] + f[s \ {picked(s)}]
BY DEF SetSums

(* Two tables agree where both are defined.                                   *)
LEMMA SetSumsAgree ==
  ASSUME NEW v, NEW S, IsFiniteSet(S), NEW T \in SUBSET S, NEW f, SetSums(v, S, f), NEW g, SetSums(v, T, g), NEW s \in SUBSET T
  PROVE  f[s] = g[s]
<1> DEFINE Different == {u \in SUBSET T : f[u] # g[u]}
<1> SUFFICES ASSUME Different # {} PROVE FALSE
  OBVIOUS
<1>1. PICK u \in Different : \A t \in SUBSET u : t # u => t \notin Different
  <2>1. IsFiniteSet(T) /\ Different \in SUBSET SUBSET T
    BY FS_Subset
  <2> HIDE DEF Different
  <2> QED BY <2>1, Smallest
<1>2. u \in SUBSET T /\ u \in SUBSET S /\ f[u] # g[u]
  OBVIOUS
<1>3. CASE u = {}
  BY <1>2, <1>3, SetSumsEntries
<1>4. CASE u # {}
  <2>1. picked(u) \in u
    BY <1>4 DEF picked
  <2>2. f[u \ {picked(u)}] = g[u \ {picked(u)}]
    BY <1>1, <1>2, <2>1
  <2>3. f[u] = v[picked(u)] + f[u \ {picked(u)}] /\ g[u] = v[picked(u)] + g[u \ {picked(u)}]
    BY <1>2, <1>4, SetSumsEntries
  <2> QED BY <1>2, <2>2, <2>3
<1> QED BY <1>3, <1>4

(* Every finite set has a table.                                              *)
LEMMA SetSumsExist == ASSUME NEW v, NEW S, IsFiniteSet(S) PROVE \E f : SetSums(v, S, f)
<1> DEFINE Lacking == {u \in SUBSET S : ~ \E f : SetSums(v, u, f)}
<1> SUFFICES ASSUME Lacking # {} PROVE FALSE
  OBVIOUS
<1>1. PICK u \in Lacking : \A t \in SUBSET u : t # u => t \notin Lacking
  <2>1. Lacking \in SUBSET SUBSET S
    OBVIOUS
  <2> HIDE DEF Lacking
  <2> QED BY <2>1, Smallest
<1>2. ASSUME NEW t \in SUBSET u, t # u PROVE \E f : SetSums(v, t, f) /\ SumOfSet(v, t) = f[t]
  <2>1. \E f : SetSums(v, t, f)
    BY <1>1, <1>2
  <2> QED BY <2>1 DEF SumOfSet
<1>3. ASSUME NEW t \in SUBSET u, t # u, t # {} PROVE SumOfSet(v, t) = v[picked(t)] + SumOfSet(v, t \ {picked(t)})
  <2>1. picked(t) \in t /\ IsFiniteSet(t) /\ t \ {picked(t)} \in SUBSET t
    BY <1>3, FS_Subset DEF picked
  <2>2. PICK f : SetSums(v, t, f) /\ SumOfSet(v, t) = f[t]
    BY <1>2, <1>3
  <2>3. PICK g : SetSums(v, t \ {picked(t)}, g) /\ SumOfSet(v, t \ {picked(t)}) = g[t \ {picked(t)}]
    <3>1. t \ {picked(t)} \in SUBSET u /\ t \ {picked(t)} # u
      BY <1>3
    <3> QED BY <1>2, <3>1
  <2>4. f[t \ {picked(t)}] = g[t \ {picked(t)}]
    BY <2>1, <2>2, <2>3, SetSumsAgree
  <2>5. f[t] = v[picked(t)] + f[t \ {picked(t)}]
    BY <1>3, <2>2, SetSumsEntries
  <2> QED BY <2>2, <2>3, <2>4, <2>5
<1>4. u # {}
  <2>1. SetSums(v, {}, [s \in SUBSET {} |-> 0])
    BY DEF SetSums
  <2> QED BY <1>1, <2>1
<1>5. SumOfSet(v, {}) = 0
  <2>1. PICK f : SetSums(v, {}, f) /\ SumOfSet(v, {}) = f[{}]
    BY <1>2, <1>4
  <2> QED BY <2>1, SetSumsEntries
<1> DEFINE g == [s \in SUBSET u |-> IF s = u THEN v[picked(u)] + SumOfSet(v, u \ {picked(u)}) ELSE SumOfSet(v, s)]
<1>6. ASSUME NEW s \in SUBSET u PROVE g[s] = IF s = {} THEN 0 ELSE v[picked(s)] + g[s \ {picked(s)}]
  <2>1. CASE s = {}
    BY <1>4, <1>5, <2>1
  <2>2. CASE s # {}
    <3>1. picked(s) \in s
      BY <2>2 DEF picked
    <3>2. g[s \ {picked(s)}] = SumOfSet(v, s \ {picked(s)})
      BY <3>1
    <3>3. g[s] = v[picked(s)] + SumOfSet(v, s \ {picked(s)})
      BY <1>3, <2>2
    <3> QED BY <2>2, <3>2, <3>3
  <2> QED BY <2>1, <2>2
<1>7. g = [s \in SUBSET u |-> g[s]]
  OBVIOUS
<1> HIDE DEF g
<1>8. SetSums(v, u, g)
  BY <1>6, <1>7 DEF SetSums
<1> QED BY <1>1, <1>8

(* Whole amounts have whole sums.                                             *)
LEMMA SetSumsAreInts ==
  ASSUME NEW v, NEW S, IsFiniteSet(S), \A x \in S : v[x] \in Int, NEW f, SetSums(v, S, f), NEW s \in SUBSET S
  PROVE  f[s] \in Int
<1>0. ASSUME NEW r \in SUBSET S PROVE f[r] = IF r = {} THEN 0 ELSE v[picked(r)] + f[r \ {picked(r)}]
  BY DEF SetSums
<1> DEFINE Odd == {u \in SUBSET S : f[u] \notin Int}
<1> SUFFICES ASSUME Odd # {} PROVE FALSE
  OBVIOUS
<1>1. PICK u \in Odd : \A t \in SUBSET u : t # u => t \notin Odd
  <2>1. Odd \in SUBSET SUBSET S
    OBVIOUS
  <2> HIDE DEF Odd
  <2> QED BY <2>1, Smallest
<1>2. u \in SUBSET S /\ f[u] \notin Int
  OBVIOUS
<1> HIDE DEF Odd
<1>3. f[u] = IF u = {} THEN 0 ELSE v[picked(u)] + f[u \ {picked(u)}]
  BY <1>0, <1>2
<1>4. u # {}
  BY <1>2, <1>3
<1>5. picked(u) \in u
  BY <1>4 DEF picked
<1>6. f[u \ {picked(u)}] \in Int
  BY <1>1, <1>2, <1>5 DEF Odd
<1> QED BY <1>2, <1>3, <1>4, <1>5, <1>6

(* A table whose terms are the values of a function is the table of its sums. *)
LEMMA SetSumIsInt ==
  ASSUME NEW v, NEW S, IsFiniteSet(S), \A x \in S : v[x] \in Int
  PROVE  SumOfSet(v, S) \in Int
<1>1. \E f : SetSums(v, S, f)
  BY SetSumsExist
<1>2. SetSums(v, S, CHOOSE f : SetSums(v, S, f))
  BY <1>1
<1> HIDE DEF SetSums
<1> QED BY <1>2, SetSumsAreInts DEF SumOfSet

-------------------------------------------------------------------------------
(* Netting. The amounts of a book are whole, so legs equally worth trimming   *)
(* are told the same improvement, and the improvement of what is closed is    *)
(* what the money realized and the rest of the book differ by from holding.   *)

NetOK ==
  /\ DOMAIN held \subseteq NetMarkets /\ \A t \in DOMAIN held : held[t] \in HeldPosition
  /\ \A t \in NetMarkets : quotes[t] \in BookQuotes
  /\ quotes = [t \in NetMarkets |-> quotes[t]]
NettingInv == NetOK /\ ExecutedAsDecided

(* The positions come from the book, and no review has been made.             *)
LEMMA NettingStarts == Init => NettingInv
<1> SUFFICES ASSUME Init PROVE NettingInv
  OBVIOUS
<1>1. budget \in Scenarios /\ held \in budget.books /\ quotes = [t \in NetMarkets |-> budget.book_quotes[1]] /\ reviewed = << >>
  BY DEF Init, NettingInit, NothingReviewed
<1>2. DOMAIN held \subseteq NetMarkets /\ \A t \in DOMAIN held : held[t] \in HeldPosition
  BY <1>1, NettingAssumption DEF NetMarkets
<1>3. budget.book_quotes[1] \in BookQuotes
  BY <1>1, NettingAssumption
<1>4. NetOK
  BY <1>1, <1>2, <1>3 DEF NetOK
<1>5. DOMAIN reviewed = {}
  BY <1>1
<1> QED BY <1>4, <1>5 DEF NettingInv, ExecutedAsDecided

(* A fee is a whole number of ticks.                                          *)
LEMMA FeeIsInt == ASSUME NEW n \in Int, NEW price \in Int PROVE taker_fee(n, price) \in Int
<1>1. RateScale * Dollar \in Int /\ RateScale * Dollar > 0
  BY FeeAssumption
<1>2. TakerRate * n * price * (Dollar - price) \in Int
  BY FeeAssumption
<1> DEFINE d == RateScale * Dollar
           c == TakerRate * n * price * (Dollar - price)
<1>3. (c + d - 1) \div d \in Int
  <2> HIDE DEF c, d
  <2>1. c \in Int /\ d \in Int /\ d > 0
    BY <1>1, <1>2 DEF c, d
  <2> QED BY <2>1
<1>4. fee_at(TakerRate, n, price) \in Int
  BY <1>3 DEF fee_at, CeilDiv
<1> QED BY <1>4 DEF taker_fee

(* The amounts of one position.                                               *)
LEMMA AmountsAreInts ==
  ASSUME NetOK, NEW t \in DOMAIN held
  PROVE  /\ Cost(t) \in Int /\ held[t].fee \in Int /\ held[t].size * Dollar \in Int
         /\ Bid(t) \in Int /\ Realized(t, exit_quote(t)) \in Int
<1>1. /\ held[t].side \in Sides /\ held[t].size \in Nat /\ held[t].entry \in Int /\ held[t].fee \in Int
      /\ quotes[t].bid \in Int /\ quotes[t].ask \in Int /\ Dollar \in Int
  BY FeeAssumption DEF NetOK, HeldPosition, BookQuotes, Quote, NoQuote, Price
<1>2. ASSUME NEW price \in Int PROVE unit_cost(held[t].side, price) \in Int /\ held[t].size * unit_cost(held[t].side, price) \in Int
  <2>1. unit_cost(held[t].side, price) \in Int
    BY <1>1 DEF unit_cost
  <2> QED BY <1>1, <2>1
<1>3. Cost(t) \in Int /\ held[t].size * Dollar \in Int
  BY <1>1, <1>2 DEF Cost
<1>4. Bid(t) \in Int
  BY <1>1 DEF Bid
<1>5. exit_quote(t) \in Int
  <2> DEFINE b == Bid(t)
  <2>1. b \in Int
    BY <1>4
  <2> HIDE DEF b
  <2>2. forced_exit_quote(held[t].side, b, quotes[t].ask, held[t].entry) \in Int
    <3>1. CASE held[t].side = "no"
      BY <1>1, <2>1, <3>1 DEF forced_exit_quote
    <3>2. CASE held[t].side = "yes"
      BY <1>1, <2>1, <3>2 DEF forced_exit_quote
    <3> QED BY <1>1, <3>1, <3>2 DEF Sides
  <2> QED BY <2>2 DEF exit_quote, b
<1>6. Realized(t, exit_quote(t)) \in Int
  <2> DEFINE p == exit_quote(t)
  <2>1. p \in Int
    BY <1>5
  <2> HIDE DEF p
  <2>2. taker_fee(held[t].size, p) \in Int
    <3>1. held[t].size \in Int
      BY <1>1
    <3> QED BY <2>1, <3>1, FeeIsInt
  <2>3. held[t].size * unit_cost(held[t].side, p) \in Int
    BY <1>2, <2>1
  <2>4. Realized(t, p) \in Int
    BY <1>1, <1>3, <2>2, <2>3 DEF Realized
  <2> QED BY <2>4 DEF p
<1> QED BY <1>1, <1>3, <1>4, <1>6

(* The sum of the bids of some positions.                                     *)
BidTable(S, f) == f = [s \in SUBSET S |-> IF s = {} THEN 0 ELSE Bid(picked(s)) + f[s \ {picked(s)}]]
BidSum(S) == MapThenSumSet(Bid, S)
LEMMA BidsFromTable == ASSUME NEW S PROVE BidSum(S) = (CHOOSE f : BidTable(S, f))[S]
BY DEF BidSum, MapThenSumSet, MapThenFoldSet, BidTable, picked

(* It is whole.                                                               *)
LEMMA BidsAreInt == ASSUME NetOK, NEW S \in SUBSET DOMAIN held, IsFiniteSet(S) PROVE BidSum(S) \in Int
<1> DEFINE v == [t \in S |-> Bid(t)]
<1>1. \A t \in S : v[t] = Bid(t) /\ v[t] \in Int
  BY AmountsAreInts
<1> HIDE DEF v
<1>2. ASSUME NEW f PROVE SetSums(v, S, f) <=> BidTable(S, f)
  <2>1. ASSUME NEW s \in SUBSET S, s # {} PROVE v[picked(s)] = Bid(picked(s))
    BY <1>1, <2>1 DEF picked
  <2>2. [s \in SUBSET S |-> IF s = {} THEN 0 ELSE v[picked(s)] + f[s \ {picked(s)}]]
          = [s \in SUBSET S |-> IF s = {} THEN 0 ELSE Bid(picked(s)) + f[s \ {picked(s)}]]
    BY <2>1
  <2> QED BY <2>2 DEF SetSums, BidTable
<1>3. BidTable(S, CHOOSE f : BidTable(S, f))
  BY <1>2, SetSumsExist
<1>4. SetSums(v, S, CHOOSE f : BidTable(S, f))
  BY <1>2, <1>3
<1> QED BY <1>1, <1>4, BidsFromTable, SetSumsAreInts

(* What closing some positions now realizes, in the same way.                 *)
UnwindTable(S, f) == f = [s \in SUBSET S |-> IF s = {} THEN 0 ELSE Realized(picked(s), exit_quote(picked(s))) + f[s \ {picked(s)}]]
LEMMA UnwindFromTable == ASSUME NEW S PROVE _unwind_now_value(S) = (CHOOSE f : UnwindTable(S, f))[S]
BY DEF _unwind_now_value, MapThenSumSet, MapThenFoldSet, UnwindTable, picked

(* It is whole.                                                               *)
LEMMA UnwindIsInt == ASSUME NetOK, NEW S \in SUBSET DOMAIN held, IsFiniteSet(S) PROVE _unwind_now_value(S) \in Int
<1> DEFINE v == [t \in S |-> Realized(t, exit_quote(t))]
<1>1. \A t \in S : v[t] = Realized(t, exit_quote(t)) /\ v[t] \in Int
  BY AmountsAreInts
<1> HIDE DEF v
<1>2. ASSUME NEW f PROVE SetSums(v, S, f) <=> UnwindTable(S, f)
  <2>1. ASSUME NEW s \in SUBSET S, s # {} PROVE v[picked(s)] = Realized(picked(s), exit_quote(picked(s)))
    BY <1>1, <2>1 DEF picked
  <2>2. [s \in SUBSET S |-> IF s = {} THEN 0 ELSE v[picked(s)] + f[s \ {picked(s)}]]
          = [s \in SUBSET S |-> IF s = {} THEN 0 ELSE Realized(picked(s), exit_quote(picked(s))) + f[s \ {picked(s)}]]
    BY <2>1
  <2> QED BY <2>2 DEF SetSums, UnwindTable
<1>3. UnwindTable(S, CHOOSE f : UnwindTable(S, f))
  BY <1>2, SetSumsExist
<1>4. SetSums(v, S, CHOOSE f : UnwindTable(S, f))
  BY <1>2, <1>3
<1> QED BY <1>1, <1>4, UnwindFromTable, SetSumsAreInts

(* The profit of a group under one outcome.                                   *)
ProfitOf(t, w) == (IF Wins(t, w) THEN held[t].size * Dollar ELSE 0) - Cost(t) - held[t].fee
ProfitTable(S, w, f) == f = [s \in SUBSET S |-> IF s = {} THEN 0 ELSE ProfitOf(picked(s), w) + f[s \ {picked(s)}]]
LEMMA ProfitFromTable == ASSUME NEW S, NEW w PROVE PayoutIf(S, w) = (CHOOSE f : ProfitTable(S, w, f))[S]
BY DEF PayoutIf, MapThenSumSet, MapThenFoldSet, ProfitTable, ProfitOf, picked

(* It is whole.                                                               *)
LEMMA PayoutIsInt == ASSUME NetOK, NEW S \in SUBSET DOMAIN held, IsFiniteSet(S), NEW w PROVE PayoutIf(S, w) \in Int
<1> DEFINE v == [t \in S |-> ProfitOf(t, w)]
<1>1. \A t \in S : v[t] = ProfitOf(t, w) /\ v[t] \in Int
  BY AmountsAreInts DEF ProfitOf
<1> HIDE DEF v
<1>2. ASSUME NEW f PROVE SetSums(v, S, f) <=> ProfitTable(S, w, f)
  <2>1. ASSUME NEW s \in SUBSET S, s # {} PROVE v[picked(s)] = ProfitOf(picked(s), w)
    BY <1>1, <2>1 DEF picked
  <2>2. [s \in SUBSET S |-> IF s = {} THEN 0 ELSE v[picked(s)] + f[s \ {picked(s)}]]
          = [s \in SUBSET S |-> IF s = {} THEN 0 ELSE ProfitOf(picked(s), w) + f[s \ {picked(s)}]]
    BY <2>1
  <2> QED BY <2>2 DEF SetSums, ProfitTable
<1>3. ProfitTable(S, w, CHOOSE f : ProfitTable(S, w, f))
  BY <1>2, SetSumsExist
<1>4. SetSums(v, S, CHOOSE f : ProfitTable(S, w, f))
  BY <1>2, <1>3
<1> QED BY <1>1, <1>4, ProfitFromTable, SetSumsAreInts

(* The expected value of a group: its outcomes weighed by the live bids.      *)
WeighedOf(S, profile, w) == profile[w] * (IF w = Outside THEN Positive(Dollar - BidSum(S)) ELSE Bid(w))
WeighedTable(S, profile, f) ==
  f = [s \in SUBSET DOMAIN profile |-> IF s = {} THEN 0 ELSE WeighedOf(S, profile, picked(s)) + f[s \ {picked(s)}]]
LEMMA ExpectedFromTable ==
  ASSUME NEW S, NEW outside, S # {}
  PROVE  LET profile == payout_profile(S, outside)
         IN  expected_value(S, outside) = (CHOOSE f : WeighedTable(S, profile, f))[DOMAIN profile]
BY DEF expected_value, BidSum, MapThenSumSet, MapThenFoldSet, WeighedTable, WeighedOf, picked

(* It is whole.                                                               *)
LEMMA ExpectedIsInt ==
  ASSUME NetOK, NEW S \in SUBSET DOMAIN held, IsFiniteSet(S), NEW outside
  PROVE  expected_value(S, outside) \in Int
<1>1. CASE S = {}
  <2>1. expected_value(S, outside) = 0
    BY <1>1, Zenon DEF expected_value
  <2> QED BY <2>1
<1>2. CASE S # {}
  <2> DEFINE profile == payout_profile(S, outside)
             D == S \cup (IF outside THEN {Outside} ELSE {})
             v == [w \in D |-> WeighedOf(S, profile, w)]
  <2>1. DOMAIN profile = D /\ \A w \in D : profile[w] \in Int
    BY PayoutIsInt DEF payout_profile
  <2>2. IsFiniteSet(D)
    <3>1. IsFiniteSet({Outside}) /\ IsFiniteSet({})
      BY FS_Singleton, FS_EmptySet
    <3>2. IsFiniteSet(IF outside THEN {Outside} ELSE {})
      BY <3>1
    <3> QED BY <3>2, FS_Union
  <2>3. BidSum(S) \in Int
    BY BidsAreInt
  <2>4. \A w \in D : v[w] = WeighedOf(S, profile, w) /\ v[w] \in Int
    <3> SUFFICES ASSUME NEW w \in D PROVE WeighedOf(S, profile, w) \in Int
      OBVIOUS
    <3> DEFINE share == IF w = Outside THEN Positive(Dollar - BidSum(S)) ELSE Bid(w)
               gain == profile[w]
    <3>1. share \in Int
      <4>1. CASE w = Outside
        BY <2>3, <4>1, FeeAssumption DEF Positive
      <4>2. CASE w # Outside
        <5>1. w \in DOMAIN held
          BY <4>2
        <5> QED BY <4>2, <5>1, AmountsAreInts
      <4> QED BY <4>1, <4>2
    <3>2. gain \in Int
      BY <2>1
    <3>3. gain * share \in Int
      <4> HIDE DEF gain, share
      <4> QED BY <3>1, <3>2
    <3> HIDE DEF profile, D
    <3> QED BY <3>3 DEF WeighedOf
  <2> HIDE DEF v, D, profile
  <2>5. ASSUME NEW f PROVE SetSums(v, D, f) <=> WeighedTable(S, profile, f)
    <3>1. ASSUME NEW s \in SUBSET D, s # {} PROVE v[picked(s)] = WeighedOf(S, profile, picked(s))
      BY <2>4, <3>1 DEF picked
    <3>2. [s \in SUBSET D |-> IF s = {} THEN 0 ELSE v[picked(s)] + f[s \ {picked(s)}]]
            = [s \in SUBSET D |-> IF s = {} THEN 0 ELSE WeighedOf(S, profile, picked(s)) + f[s \ {picked(s)}]]
      BY <3>1
    <3> QED BY <2>1, <3>2 DEF SetSums, WeighedTable
  <2>6. WeighedTable(S, profile, CHOOSE f : WeighedTable(S, profile, f))
    BY <2>2, <2>5, SetSumsExist
  <2>7. SetSums(v, D, CHOOSE f : WeighedTable(S, profile, f))
    BY <2>5, <2>6
  <2>8. expected_value(S, outside) = (CHOOSE f : WeighedTable(S, profile, f))[D]
    BY <1>2, <2>1, ExpectedFromTable DEF profile
  <2> QED BY <2>2, <2>4, <2>7, <2>8, SetSumsAreInts
<1> QED BY <1>1, <1>2

(* What an action is told to improve is what it does: holding, and the        *)
(* improvement, are the money realized and the expectation of what is left.   *)
LEMMA ActionsTellTheirGain ==
  ASSUME NetOK, NEW members \in SUBSET DOMAIN held, IsFiniteSet(members), NEW outside, NEW b \in BestActions(members, outside)
  PROVE  /\ b.tickers \in SUBSET members
         /\ expected_value(members, outside) + b.improvement
              = Dollar * _unwind_now_value(b.tickers) + expected_value(members \ b.tickers, outside)
<1> DEFINE gain(c) == Improvement(members, outside, c)
           trims == Trims(members, outside)
           trim == CHOOSE i \in { gain({t}) : t \in trims } : TRUE
<1>1. ASSUME NEW c \in SUBSET members
      PROVE  /\ gain(c) \in Int
             /\ expected_value(members, outside) + gain(c) = Dollar * _unwind_now_value(c) + expected_value(members \ c, outside)
  <2>1. IsFiniteSet(c) /\ IsFiniteSet(members \ c)
    BY FS_Subset
  <2> DEFINE x == expected_value(members \ c, outside)
             y == expected_value(members, outside)
             u == Dollar * _unwind_now_value(c)
  <2>2. x \in Int /\ y \in Int
    BY <2>1, ExpectedIsInt
  <2>3. u \in Int
    BY <2>1, UnwindIsInt, FeeAssumption
  <2>4. gain(c) = x + u - y
    BY DEF Improvement
  <2> HIDE DEF x, y, u, gain
  <2>5. gain(c) \in Int /\ y + gain(c) = u + x
    BY <2>2, <2>3, <2>4
  <2> QED BY <2>5 DEF x, y, u, gain
<1>2. b \in { [tickers |-> {t}, improvement |-> trim] : t \in trims } \/ b = [tickers |-> members, improvement |-> gain(members)]
  BY DEF BestActions
<1> HIDE DEF gain
<1>3. CASE b = [tickers |-> members, improvement |-> gain(members)]
  BY <1>1, <1>3 DEF gain
<1>4. ASSUME NEW t \in trims, b = [tickers |-> {t}, improvement |-> trim] PROVE b.tickers \in SUBSET members /\ b.improvement = gain(b.tickers)
  <2>1. trims \subseteq members
    BY DEF Trims
  <2>2. trim \in { gain({u}) : u \in trims }
    OBVIOUS
  <2>3. PICK u \in trims : trim = gain({u})
    BY <2>2
  <2>4. gain({t}) <= gain({u}) /\ gain({u}) <= gain({t})
    BY <2>1 DEF Trims, gain
  <2>5. {t} \in SUBSET members /\ {u} \in SUBSET members
    BY <2>1
  <2>6. gain({t}) \in Int /\ gain({u}) \in Int
    BY <1>1, <2>5
  <2>7. gain({t}) = gain({u})
    BY <2>4, <2>6
  <2> HIDE DEF trim, trims
  <2> QED BY <1>4, <2>3, <2>5, <2>7
<1>5. ASSUME NEW t \in trims, b = [tickers |-> {t}, improvement |-> trim]
      PROVE  /\ b.tickers \in SUBSET members
             /\ expected_value(members, outside) + b.improvement
                  = Dollar * _unwind_now_value(b.tickers) + expected_value(members \ b.tickers, outside)
  BY <1>1, <1>4, <1>5
<1> HIDE DEF trim, trims
<1> QED BY <1>2, <1>3, <1>5

(* A group called variable that closes something was told so of its members.  *)
LEMMA ReviewsTellTheirGain ==
  ASSUME NetOK, NEW e, NEW ratio, NEW d \in Recommendations(e, ratio), d.status = "variable", d.tickers # {}
  PROVE  d.expected = Dollar * _unwind_now_value(d.tickers) + expected_value(members_of(e) \ d.tickers, include_outside(members_of(e)))
<1> DEFINE members == members_of(e)
           outside == include_outside(members)
           status == classify(payout_profile(members, outside))
           advice(tickers, expected) == [members |-> members, status |-> status, tickers |-> tickers, expected |-> expected]
<1>1. members \in SUBSET DOMAIN held /\ IsFiniteSet(members)
  <2>1. IsFiniteSet(DOMAIN held)
    BY NettingAssumption, FS_Subset DEF NetOK, NetMarkets
  <2> QED BY <2>1, FS_Subset DEF members_of
<1>2. Recommendations(e, ratio) =
        CASE status = "locked_profit" -> { advice({}, 0) }
          [] status = "locked_loss" -> { advice(members, 0) }
          [] OTHER -> { IF b.improvement > 0 /\ 16 * b.improvement >= Dollar * MinEdge * ratio
                        THEN advice(b.tickers, expected_value(members, outside) + b.improvement) ELSE advice({}, 0)
                        : b \in BestActions(members, outside) }
  BY DEF Recommendations
<1> HIDE DEF members, outside, status
<1>3. status = "variable"
  <2>1. CASE status = "locked_profit"
    BY <1>2, <2>1
  <2>2. CASE status = "locked_loss"
    BY <1>2, <2>2
  <2>3. CASE status # "locked_profit" /\ status # "locked_loss"
    BY <1>2, <2>3
  <2> QED BY <2>1, <2>2, <2>3
<1>4. PICK b \in BestActions(members, outside) :
        d = IF b.improvement > 0 /\ 16 * b.improvement >= Dollar * MinEdge * ratio
            THEN advice(b.tickers, expected_value(members, outside) + b.improvement) ELSE advice({}, 0)
  BY <1>2, <1>3
<1>5. d = advice(b.tickers, expected_value(members, outside) + b.improvement)
  BY <1>4
<1>6. d.tickers = b.tickers /\ d.expected = expected_value(members, outside) + b.improvement
  BY <1>5
<1>7. d.expected = Dollar * _unwind_now_value(b.tickers) + expected_value(members \ b.tickers, outside)
  BY <1>1, <1>6, ActionsTellTheirGain
<1> QED BY <1>6, <1>7 DEF members, outside

(* The review.                                                                *)
LEMMA ReviewKeepsNetting == ASSUME NettingInv, review PROVE NettingInv'
<1>1. PICK ratio \in budget.ratios : \E done \in [Groups -> UNION { Recommendations(e, ratio) : e \in Groups }] :
        /\ \A e \in Groups : done[e] \in Recommendations(e, ratio)
        /\ \E closed \in Executions(done) :
             /\ IF \A e \in Groups : closed[e] = done[e].tickers THEN UNCHANGED budget ELSE Spends("faults") /\ \E e \in Groups : closed[e] # {}
             /\ held' = [t \in DOMAIN held \ (UNION { closed[e] : e \in Groups }) |-> held[t]]
             /\ reviewed' = [e \in Groups |-> reviewed_as(e, done[e], closed[e])]
  BY Zenon DEF review
<1>2. PICK done \in [Groups -> UNION { Recommendations(e, ratio) : e \in Groups }] : \E closed \in Executions(done) :
        /\ \A e \in Groups : done[e] \in Recommendations(e, ratio)
        /\ held' = [t \in DOMAIN held \ (UNION { closed[e] : e \in Groups }) |-> held[t]]
        /\ reviewed' = [e \in Groups |-> reviewed_as(e, done[e], closed[e])]
  BY <1>1, Zenon
<1>3. PICK closed \in Executions(done) :
        /\ \A e \in Groups : done[e] \in Recommendations(e, ratio)
        /\ held' = [t \in DOMAIN held \ (UNION { closed[e] : e \in Groups }) |-> held[t]]
        /\ reviewed' = [e \in Groups |-> reviewed_as(e, done[e], closed[e])]
  BY <1>2, Zenon
<1>4. quotes' = quotes
  BY DEF review
<1>5. NetOK'
  <2>1. DOMAIN held' \subseteq DOMAIN held /\ \A t \in DOMAIN held' : held'[t] = held[t]
    BY <1>3
  <2> QED BY <1>4, <2>1 DEF NettingInv, NetOK, NetMarkets
<1>6. ASSUME NEW e \in DOMAIN reviewed', reviewed'[e].status = "variable", reviewed'[e].closed # {}, reviewed'[e].closed = reviewed'[e].decided
      PROVE  reviewed'[e].expected = Dollar * reviewed'[e].realized + reviewed'[e].left
  <2>1. e \in Groups
    BY <1>3, <1>6
  <2>2. /\ reviewed'[e].status = done[e].status /\ reviewed'[e].decided = done[e].tickers /\ reviewed'[e].closed = closed[e]
        /\ reviewed'[e].expected = done[e].expected /\ reviewed'[e].realized = proceeds(closed[e])
        /\ reviewed'[e].left = expected_value(members_of(e) \ closed[e], include_outside(members_of(e)))
    BY <1>3, <2>1 DEF reviewed_as
  <2>3. closed[e] = done[e].tickers
    BY <1>6, <2>2
  <2>4. done[e] \in Recommendations(e, ratio)
    BY <1>3, <2>1
  <2>5. proceeds(done[e].tickers) = _unwind_now_value(done[e].tickers)
    BY DEF proceeds, _unwind_now_value
  <2> QED BY <1>6, <2>2, <2>3, <2>4, <2>5, ReviewsTellTheirGain DEF NettingInv
<1> QED BY <1>5, <1>6 DEF NettingInv, ExecutedAsDecided

(* Every step keeps it.                                                       *)
LEMMA NettingStep == NettingInv /\ Bounded /\ Bounded' /\ [Next]_deskVars => NettingInv'
<1> SUFFICES ASSUME NettingInv, Bounded, Bounded', [Next]_deskVars PROVE NettingInv'
  OBVIOUS
<1>1. CASE UNCHANGED netVars
  BY <1>1 DEF netVars, NettingInv, NetOK, ExecutedAsDecided
<1>2. ASSUME NEW t \in NetMarkets, open_held(t) PROVE NettingInv'
  <2>1. PICK p \in budget.entry : held' = [u \in DOMAIN held \cup {t} |-> IF u = t THEN [p EXCEPT !.opened = now] ELSE held[u]]
    BY <1>2 DEF open_held
  <2>2. quotes' = quotes /\ reviewed' = reviewed
    BY <1>2 DEF open_held
  <2>3. [p EXCEPT !.opened = now] \in HeldPosition
    BY DEF Bounded, HeldPosition
  <2>4. NetOK'
    <3>1. DOMAIN held' = DOMAIN held \cup {t}
      BY <2>1
    <3>2. \A u \in DOMAIN held' : held'[u] \in HeldPosition
      BY <2>1, <2>3 DEF NettingInv, NetOK
    <3> QED BY <2>2, <3>1, <3>2 DEF NettingInv, NetOK, NetMarkets
  <2> QED BY <2>2, <2>4 DEF NettingInv, ExecutedAsDecided
<1>3. ASSUME NEW t \in NetMarkets, quote_moves(t) PROVE NettingInv'
  <2>1. PICK q \in DOMAIN budget.book_quotes : quotes' = [quotes EXCEPT ![t] = budget.book_quotes[q]]
    BY <1>3 DEF quote_moves
  <2>2. held' = held /\ reviewed' = reviewed
    BY <1>3 DEF quote_moves
  <2>3. budget.book_quotes[q] \in BookQuotes
    BY DEF Bounded
  <2>4. NetOK'
    <3>1. \A u \in NetMarkets : quotes'[u] = IF u = t THEN budget.book_quotes[q] ELSE quotes[u]
      BY <2>1 DEF NettingInv, NetOK
    <3>2. quotes' = [u \in NetMarkets |-> quotes'[u]]
      BY <2>1 DEF NettingInv, NetOK
    <3> QED BY <2>2, <2>3, <3>1, <3>2 DEF NettingInv, NetOK, NetMarkets
  <2> QED BY <2>2, <2>4 DEF NettingInv, ExecutedAsDecided
<1>4. ASSUME NEW e \in NetEvents, settle_event(e) PROVE NettingInv'
  <2>1. held' = [t \in { u \in DOMAIN held : EventOf[u] # e } |-> held[t]] /\ quotes' = quotes /\ reviewed' = reviewed
    BY <1>4 DEF settle_event
  <2>2. DOMAIN held' \subseteq DOMAIN held /\ \A t \in DOMAIN held' : held'[t] = held[t]
    BY <2>1
  <2> QED BY <2>1, <2>2 DEF NettingInv, NetOK, NetMarkets, ExecutedAsDecided
<1>5. CASE NettingNext
  BY <1>2, <1>3, <1>4, <1>5, ReviewKeepsNetting DEF NettingNext
<1> QED BY <1>1, <1>5 DEF Next, netting, reports, series, resets, index, tape, history_of_prices, signals, event_dates, tick_clock, deskVars

(* Netting (position_netting.py, trading_loop's review): what a review        *)
(* expected of a close is the money it realized and the expectation of the    *)
(* positions left, whichever legs it trimmed, once it closed every one.       *)
THEOREM NettingTheorem == Spec => []ExecutedAsDecided
<1>1. Init => NettingInv /\ Bounded
  BY NettingStarts, BoundsStart
<1>2. NettingInv /\ Bounded /\ [Next]_deskVars => NettingInv' /\ Bounded'
  BY NettingStep, BoundsStep
<1>3. NettingInv => ExecutedAsDecided
  BY DEF NettingInv
<1> QED BY <1>1, <1>2, <1>3, PTL DEF Spec

-------------------------------------------------------------------------------
(* The evidence of a series. A close names the last entry of its market       *)
(* before it, an entry the signal it came from; signals of one market and     *)
(* stamp are of one side, and a resolved one was graded by the outcome.       *)

TradeRow ==
  [ticker : SeriesTickers, side : {"yes", "no"}, kind : {"entry", "close"}, type : {"entry", "stop_loss", "take_profit", "settled"}, at : Nat,
   price : Int, fee : Int, seen : Nat, realized : Int, signal : Nat, opener : Nat, gone : BOOLEAN, excluded : BOOLEAN]
SignalRow == [ticker : SeriesTickers, side : {"yes", "no"}, seen : Nat, resolved : BOOLEAN, correct : BOOLEAN, excluded : BOOLEAN]
Trades == 1..Len(trade_rows)
Sightings == 1..Len(signal_rows)
EvidenceOK ==
  /\ trade_rows \in Seq(TradeRow) /\ signal_rows \in Seq(SignalRow)
  /\ outcome = [t \in SeriesTickers |-> outcome[t]] /\ holdings = [t \in SeriesTickers |-> holdings[t]]
SignalsOK ==
  \A s \in Sightings :
    /\ signal_rows[s].seen <= now
    /\ signal_rows[s].resolved => outcome[signal_rows[s].ticker] # "none" /\ signal_rows[s].correct = (signal_rows[s].side = outcome[signal_rows[s].ticker])
    /\ \A r \in Sightings : signal_rows[r].ticker = signal_rows[s].ticker /\ signal_rows[r].seen = signal_rows[s].seen => signal_rows[r].side = signal_rows[s].side
EntryOK(i) ==
  LET e == trade_rows[i]
      s == signal_rows[e.signal]
  IN  /\ ~e.excluded /\ e.signal \in Sightings
      /\ s.ticker = e.ticker /\ s.side = e.side /\ s.seen = e.seen /\ s.seen <= e.at
LastEntry(i, j) == \A k \in Trades : i < k /\ k < j => ~(trade_rows[k].kind = "entry" /\ trade_rows[k].ticker = trade_rows[i].ticker)
CloseOK(j) ==
  LET c == trade_rows[j]
      e == trade_rows[c.opener]
  IN  /\ c.opener \in 1..j - 1 /\ e.kind = "entry" /\ e.ticker = c.ticker /\ e.side = c.side /\ LastEntry(c.opener, j)
      /\ c.realized = CostOf(c.side, c.price) - CostOf(e.side, e.price) - e.fee - c.fee
TradesOK ==
  \A i \in Trades :
    /\ trade_rows[i].at <= now
    /\ trade_rows[i].kind = "entry" => EntryOK(i)
    /\ trade_rows[i].kind = "close" => CloseOK(i)
HoldingsOK ==
  \A t \in SeriesTickers : holdings[t] # 0 =>
    /\ holdings[t] \in Trades /\ trade_rows[holdings[t]].kind = "entry" /\ trade_rows[holdings[t]].ticker = t
    /\ LastEntry(holdings[t], Len(trade_rows) + 1)
SeriesInv == EvidenceOK /\ SignalsOK /\ TradesOK /\ HoldingsOK

(* Nothing is on record at first.                                             *)
LEMMA SeriesStarts == Init => SeriesInv
<1> SUFFICES ASSUME Init PROVE SeriesInv
  OBVIOUS
<1>1. trade_rows = << >> /\ signal_rows = << >> /\ holdings = [t \in SeriesTickers |-> 0] /\ outcome = [t \in SeriesTickers |-> "none"]
  BY DEF Init, EvidenceInit
<1>2. Trades = {} /\ Sightings = {}
  BY <1>1 DEF Trades, Sightings
<1> QED BY <1>1, <1>2 DEF SeriesInv, EvidenceOK, SignalsOK, TradesOK, HoldingsOK

(* What the lists of rows give for each of them.                              *)
LEMMA RowTypes ==
  ASSUME EvidenceOK
  PROVE  /\ Len(trade_rows) \in Nat /\ Len(signal_rows) \in Nat
         /\ \A i \in Trades : trade_rows[i] \in TradeRow
         /\ \A s \in Sightings : signal_rows[s] \in SignalRow
BY ElementOfSeq, LenProperties DEF EvidenceOK, Trades, Sightings

(* Rows that keep what they say keep what is known of them.                   *)
SameTrade(a, b) ==
  /\ a.ticker = b.ticker /\ a.side = b.side /\ a.kind = b.kind /\ a.at = b.at /\ a.price = b.price /\ a.fee = b.fee /\ a.seen = b.seen
  /\ a.realized = b.realized /\ a.signal = b.signal /\ a.opener = b.opener /\ (a.kind = "entry" => a.excluded = b.excluded)
SameSignal(a, b) == a.ticker = b.ticker /\ a.side = b.side /\ a.seen = b.seen
RowsStay ==
  /\ Trades \subseteq Trades' /\ \A i \in Trades : SameTrade(trade_rows[i], trade_rows'[i])
  /\ Sightings \subseteq Sightings' /\ \A s \in Sightings : SameSignal(signal_rows[s], signal_rows'[s])
LEMMA EntryStays == ASSUME RowsStay, NEW i \in Trades, trade_rows[i].kind = "entry", EntryOK(i) PROVE EntryOK(i)'
<1>1. SameTrade(trade_rows[i], trade_rows'[i]) /\ trade_rows[i].signal \in Sightings
  BY DEF RowsStay, EntryOK
<1>2. trade_rows'[i].signal = trade_rows[i].signal /\ SameSignal(signal_rows[trade_rows[i].signal], signal_rows'[trade_rows[i].signal])
  BY <1>1 DEF RowsStay, SameTrade
<1> QED BY <1>1, <1>2 DEF RowsStay, EntryOK, SameTrade, SameSignal

(* No row is put between two others.                                          *)
LEMMA LastStays ==
  ASSUME EvidenceOK, RowsStay, NEW i \in Trades, NEW j \in Int, j <= Len(trade_rows) + 1, LastEntry(i, j)
  PROVE  LastEntry(i, j)'
<1> SUFFICES ASSUME NEW k \in Trades', i < k, k < j PROVE ~(trade_rows'[k].kind = "entry" /\ trade_rows'[k].ticker = trade_rows'[i].ticker)
  BY DEF LastEntry
<1>1. k \in Trades
  BY RowTypes DEF Trades
<1>2. SameTrade(trade_rows[k], trade_rows'[k]) /\ SameTrade(trade_rows[i], trade_rows'[i])
  BY <1>1 DEF RowsStay
<1> QED BY <1>1, <1>2 DEF LastEntry, SameTrade

(* So it is with a close.                                                     *)
LEMMA CloseStays == ASSUME EvidenceOK, RowsStay, NEW j \in Trades, trade_rows[j].kind = "close", CloseOK(j) PROVE CloseOK(j)'
<1>0. PICK o : o = trade_rows[j].opener
  OBVIOUS
<1>1. o \in 1..j - 1 /\ o \in Trades /\ j \in Int /\ j <= Len(trade_rows) + 1
  BY <1>0, RowTypes DEF CloseOK, Trades
<1>2. SameTrade(trade_rows[j], trade_rows'[j]) /\ SameTrade(trade_rows[o], trade_rows'[o])
  BY <1>1 DEF RowsStay
<1>3. trade_rows'[j].opener = o
  BY <1>0, <1>2 DEF SameTrade
<1>4. LastEntry(o, j)
  BY <1>0 DEF CloseOK
<1>5. LastEntry(o, j)'
  BY <1>1, <1>4, LastStays
<1>6. trade_rows'[o].kind = "entry" /\ trade_rows'[o].ticker = trade_rows'[j].ticker /\ trade_rows'[o].side = trade_rows'[j].side
  BY <1>0, <1>2 DEF CloseOK, SameTrade
<1>7. trade_rows'[j].realized = CostOf(trade_rows'[j].side, trade_rows'[j].price) - CostOf(trade_rows'[o].side, trade_rows'[o].price) - trade_rows'[o].fee - trade_rows'[j].fee
  BY <1>0, <1>2 DEF CloseOK, SameTrade
<1> QED BY <1>1, <1>3, <1>5, <1>6, <1>7 DEF CloseOK

(* And so with the rows there were.                                           *)
LEMMA OldTradesStay ==
  ASSUME EvidenceOK, TradesOK, RowsStay, now \in Nat, now' \in Nat, now' >= now, NEW i \in Trades
  PROVE  /\ trade_rows'[i].at <= now'
         /\ trade_rows'[i].kind = "entry" => EntryOK(i)'
         /\ trade_rows'[i].kind = "close" => CloseOK(i)'
<1>1. SameTrade(trade_rows[i], trade_rows'[i]) /\ trade_rows[i].at \in Nat
  BY RowTypes DEF RowsStay, TradeRow
<1>2. trade_rows'[i].at <= now'
  BY <1>1 DEF TradesOK, SameTrade
<1>3. ASSUME trade_rows'[i].kind = "entry" PROVE EntryOK(i)'
  BY <1>1, <1>3, EntryStays DEF TradesOK, SameTrade
<1>4. ASSUME trade_rows'[i].kind = "close" PROVE CloseOK(i)'
  BY <1>1, <1>4, CloseStays DEF TradesOK, SameTrade
<1> QED BY <1>2, <1>3, <1>4

(* While no row is added, all of them.                                        *)
LEMMA TradesStay ==
  ASSUME SeriesInv, RowsStay, Len(trade_rows') = Len(trade_rows), holdings' = holdings, now \in Nat, now' \in Nat, now' >= now
  PROVE  TradesOK' /\ HoldingsOK'
<1>1. Trades' = Trades
  BY DEF Trades
<1>2. TradesOK'
  BY <1>1, OldTradesStay DEF SeriesInv, TradesOK
<1>3. ASSUME NEW t \in SeriesTickers, holdings[t] # 0
      PROVE  /\ holdings'[t] \in Trades' /\ trade_rows'[holdings'[t]].kind = "entry" /\ trade_rows'[holdings'[t]].ticker = t
             /\ LastEntry(holdings[t], Len(trade_rows) + 1)'
  <2> DEFINE h == holdings[t]
  <2>1. h \in Trades /\ trade_rows[h].kind = "entry" /\ trade_rows[h].ticker = t /\ LastEntry(h, Len(trade_rows) + 1)
    BY <1>3 DEF SeriesInv, HoldingsOK
  <2>2. SameTrade(trade_rows[h], trade_rows'[h])
    BY <2>1 DEF RowsStay
  <2>3. h' = h
    OBVIOUS
  <2> DEFINE n == Len(trade_rows) + 1
  <2>4. n \in Int /\ n <= Len(trade_rows) + 1 /\ n' = n
    BY RowTypes DEF SeriesInv
  <2> HIDE DEF h, n
  <2>5. \A k \in Trades : h < k /\ k < n => ~(trade_rows[k].kind = "entry" /\ trade_rows[k].ticker = trade_rows[h].ticker)
    BY <2>1 DEF LastEntry, n
  <2>6. \A k \in Trades' : h < k /\ k < n => ~(trade_rows'[k].kind = "entry" /\ trade_rows'[k].ticker = trade_rows'[h].ticker)
    BY <1>1, <2>1, <2>2, <2>5 DEF RowsStay, SameTrade
  <2>7. LastEntry(h, n)'
    BY <2>3, <2>4, <2>6 DEF LastEntry
  <2> QED BY <1>1, <2>1, <2>2, <2>3, <2>7 DEF SameTrade, h, n
<1>4. HoldingsOK'
  BY <1>3 DEF HoldingsOK
<1> QED BY <1>2, <1>4

(* A signal is seen while nothing is decided, on the one side of its stamp.   *)
LEMMA SeenKeepsSeries ==
  ASSUME SeriesInv, now \in Nat, NEW t \in SeriesTickers, NEW side \in {"yes", "no"}, signal_seen(t, side)
  PROVE  SeriesInv'
<1> DEFINE s == [ticker |-> t, side |-> side, seen |-> now, resolved |-> FALSE, correct |-> FALSE, excluded |-> FALSE]
           n == Len(signal_rows)
<1>1. /\ signal_rows' = Append(signal_rows, s) /\ UNCHANGED << trade_rows, holdings, outcome, now >>
      /\ \A i \in 1..n : signal_rows[i].ticker = t /\ signal_rows[i].seen = now => signal_rows[i].side = side
  BY DEF signal_seen
<1>2. s \in SignalRow /\ s.ticker = t /\ s.side = side /\ s.seen = now /\ s.resolved = FALSE
  BY DEF SignalRow
<1> HIDE DEF s
<1>3. n \in Nat /\ signal_rows' \in Seq(SignalRow) /\ Len(signal_rows') = n + 1 /\ signal_rows'[n + 1] = s
  BY <1>1, <1>2, AppendProperties, LenProperties DEF SeriesInv, EvidenceOK
<1>4. \A i \in 1..n : signal_rows'[i] = signal_rows[i]
  BY <1>1, <1>2, AppendProperties DEF SeriesInv, EvidenceOK
<1> HIDE DEF n
<1>5. Sightings = 1..n /\ Sightings' = 1..n + 1
  BY <1>3 DEF Sightings, n
<1>6. EvidenceOK'
  BY <1>1, <1>3 DEF SeriesInv, EvidenceOK
<1>7. RowsStay
  BY <1>1, <1>3, <1>4, <1>5 DEF RowsStay, SameTrade, SameSignal, Trades
<1>8. TradesOK' /\ HoldingsOK'
  BY <1>1, <1>7, TradesStay
<1>9. SignalsOK'
  <2>1. ASSUME NEW i \in Sightings' PROVE (i \in 1..n /\ signal_rows'[i] = signal_rows[i]) \/ (i = n + 1 /\ signal_rows'[i] = s)
    <3>1. i \in 1..n \/ i = n + 1
      BY <1>3, <1>5
    <3> QED BY <1>3, <1>4, <3>1
  <2>2. ASSUME NEW i \in 1..n
        PROVE  /\ signal_rows[i].seen <= now
               /\ signal_rows[i].resolved => outcome[signal_rows[i].ticker] # "none" /\ signal_rows[i].correct = (signal_rows[i].side = outcome[signal_rows[i].ticker])
               /\ \A r \in 1..n : signal_rows[r].ticker = signal_rows[i].ticker /\ signal_rows[r].seen = signal_rows[i].seen => signal_rows[r].side = signal_rows[i].side
    BY <1>5 DEF SeriesInv, SignalsOK
  <2>3. ASSUME NEW i \in Sightings'
        PROVE  /\ signal_rows'[i].seen <= now'
               /\ signal_rows'[i].resolved => outcome'[signal_rows'[i].ticker] # "none" /\ signal_rows'[i].correct = (signal_rows'[i].side = outcome'[signal_rows'[i].ticker])
    <3>1. CASE i \in 1..n /\ signal_rows'[i] = signal_rows[i]
      BY <1>1, <2>2, <3>1
    <3>2. CASE i = n + 1 /\ signal_rows'[i] = s
      BY <1>1, <1>2, <3>2
    <3> QED BY <2>1, <3>1, <3>2
  <2>4. ASSUME NEW i \in Sightings', NEW r \in Sightings', signal_rows'[r].ticker = signal_rows'[i].ticker, signal_rows'[r].seen = signal_rows'[i].seen
        PROVE  signal_rows'[r].side = signal_rows'[i].side
    <3>1. (i \in 1..n /\ signal_rows'[i] = signal_rows[i]) \/ (i = n + 1 /\ signal_rows'[i] = s)
      BY <2>1
    <3>2. (r \in 1..n /\ signal_rows'[r] = signal_rows[r]) \/ (r = n + 1 /\ signal_rows'[r] = s)
      BY <2>1
    <3> QED BY <1>1, <1>2, <2>2, <2>4, <3>1, <3>2 DEF n
  <2> QED BY <2>3, <2>4 DEF SignalsOK
<1> QED BY <1>6, <1>8, <1>9 DEF SeriesInv

(* An entry is made on the stamp and the side of its signal.                  *)
LEMMA EntryKeepsSeries ==
  ASSUME SeriesInv, now \in Nat, NEW g \in Sightings, entered(g)
  PROVE  SeriesInv'
<1> DEFINE s == signal_rows[g]
           n == Len(trade_rows)
<1>1. PICK price \in 1..3 :
           trade_rows' = Append(trade_rows, [ticker |-> s.ticker, side |-> s.side, kind |-> "entry", type |-> "entry", at |-> now,
                                  price |-> price, fee |-> 1, seen |-> s.seen, realized |-> 0, signal |-> g, opener |-> 0, gone |-> FALSE, excluded |-> FALSE])
  BY DEF entered
<1>2. holdings[s.ticker] = 0 /\ holdings' = [holdings EXCEPT ![s.ticker] = n + 1] /\ UNCHANGED << signal_rows, outcome, now >>
  BY DEF entered
<1> DEFINE e == [ticker |-> s.ticker, side |-> s.side, kind |-> "entry", type |-> "entry", at |-> now,
                 price |-> price, fee |-> 1, seen |-> s.seen, realized |-> 0, signal |-> g, opener |-> 0, gone |-> FALSE, excluded |-> FALSE]
<1>3. s \in SignalRow /\ s.seen <= now /\ g \in Nat
  BY RowTypes DEF SeriesInv, SignalsOK, Sightings
<1>4. e \in TradeRow /\ e.ticker = s.ticker /\ e.side = s.side /\ e.kind = "entry" /\ e.at = now /\ e.seen = s.seen /\ e.signal = g /\ e.excluded = FALSE
  BY <1>3 DEF TradeRow, SignalRow
<1>5. trade_rows' = Append(trade_rows, e)
  BY <1>1
<1> HIDE DEF e
<1>6. n \in Nat /\ trade_rows' \in Seq(TradeRow) /\ Len(trade_rows') = n + 1 /\ trade_rows'[n + 1] = e
  BY <1>4, <1>5, AppendProperties, LenProperties DEF SeriesInv, EvidenceOK
<1>7. \A i \in 1..n : trade_rows'[i] = trade_rows[i]
  BY <1>4, <1>5, AppendProperties DEF SeriesInv, EvidenceOK
<1> HIDE DEF n
<1>8. Trades = 1..n /\ Trades' = 1..n + 1 /\ Sightings' = Sightings
  BY <1>2, <1>6 DEF Trades, Sightings, n
<1>9. EvidenceOK'
  BY <1>2, <1>6 DEF SeriesInv, EvidenceOK
<1>10. RowsStay
  BY <1>2, <1>6, <1>7, <1>8 DEF RowsStay, SameTrade, SameSignal
<1>11. SignalsOK'
  BY <1>2, <1>8 DEF SeriesInv, SignalsOK
<1>12. s.ticker \in SeriesTickers
  BY <1>3 DEF SignalRow
<1>13. TradesOK'
  <2>0. PICK m : m = n + 1
    OBVIOUS
  <2>1. EntryOK(m)'
    <3>1. trade_rows'[m] = e /\ signal_rows' = signal_rows
      BY <1>2, <1>6, <2>0
    <3> QED BY <1>3, <1>4, <1>8, <3>1 DEF EntryOK
  <2>2. ASSUME NEW i \in Trades' PROVE i \in Trades \/ i = m
    BY <2>0, <1>6, <1>8
  <2>3. ASSUME NEW i \in Trades
        PROVE  /\ trade_rows'[i].at <= now'
               /\ trade_rows'[i].kind = "entry" => EntryOK(i)'
               /\ trade_rows'[i].kind = "close" => CloseOK(i)'
    BY <1>2, <1>10, OldTradesStay DEF SeriesInv
  <2> DEFINE Fine(i) == /\ trade_rows'[i].at <= now'
                        /\ trade_rows'[i].kind = "entry" => EntryOK(i)'
                        /\ trade_rows'[i].kind = "close" => CloseOK(i)'
  <2>4. Fine(m)
    <3>1. trade_rows'[m].kind = "entry" /\ trade_rows'[m].at <= now'
      BY <1>2, <1>4, <1>6, <2>0
    <3> QED BY <2>1, <3>1
  <2>5. \A i \in Trades' : Fine(i)
    <3> HIDE DEF Fine
    <3>1. \A i \in Trades : Fine(i)
      BY <2>3 DEF Fine
    <3> QED BY <2>2, <2>4, <3>1
  <2> QED BY <2>5 DEF TradesOK
<1>14. HoldingsOK'
  <2> SUFFICES ASSUME NEW t \in SeriesTickers, holdings'[t] # 0
        PROVE  /\ holdings'[t] \in Trades' /\ trade_rows'[holdings'[t]].kind = "entry" /\ trade_rows'[holdings'[t]].ticker = t
               /\ \A k \in Trades' : holdings'[t] < k /\ k < Len(trade_rows') + 1 => ~(trade_rows'[k].kind = "entry" /\ trade_rows'[k].ticker = trade_rows'[holdings'[t]].ticker)
    BY DEF HoldingsOK, LastEntry
  <2>1. holdings'[t] = IF t = s.ticker THEN n + 1 ELSE holdings[t]
    BY <1>2 DEF SeriesInv, EvidenceOK
  <2>2. CASE t = s.ticker
    BY <1>4, <1>6, <1>8, <2>1, <2>2
  <2>3. CASE t # s.ticker
    <3>1. PICK h : h = holdings[t]
      OBVIOUS
    <3>2. h \in Trades /\ trade_rows[h].kind = "entry" /\ trade_rows[h].ticker = t /\ LastEntry(h, n + 1) /\ holdings'[t] = h
      BY <2>1, <2>3, <3>1 DEF SeriesInv, HoldingsOK, n
    <3>3. trade_rows'[h] = trade_rows[h]
      BY <1>7, <1>8, <3>2
    <3>4. ASSUME NEW k \in Trades', h < k PROVE ~(trade_rows'[k].kind = "entry" /\ trade_rows'[k].ticker = t)
      <4>1. CASE k = n + 1
        BY <1>4, <1>6, <2>3, <4>1
      <4>2. CASE k # n + 1
        <5>1. k \in 1..n /\ k < n + 1
          BY <1>6, <1>8, <4>2
        <5> QED BY <1>7, <1>8, <3>2, <3>4, <5>1 DEF LastEntry
      <4> QED BY <4>1, <4>2
    <3>5. h \in Trades'
      BY <1>8, <3>2, <1>6
    <3> QED BY <3>2, <3>3, <3>4, <3>5
  <2> QED BY <2>2, <2>3
<1> QED BY <1>9, <1>11, <1>13, <1>14 DEF SeriesInv

(* A close is of the position held, whose entry is the last of its market.    *)
LEMMA CloseKeepsSeries ==
  ASSUME SeriesInv, now \in Nat, NEW t \in SeriesTickers, NEW type \in {"stop_loss", "take_profit", "settled"}, closes(t, type)
  PROVE  SeriesInv'
<1> DEFINE n == Len(trade_rows)
<1>0. PICK h : h = holdings[t]
  OBVIOUS
<1> DEFINE e == trade_rows[h]
           fee == IF type = "settled" THEN 0 ELSE 1
<1>1. PICK price \in Int :
           trade_rows' = Append(trade_rows, [ticker |-> t, side |-> e.side, kind |-> "close", type |-> type, at |-> now,
                                  price |-> price, fee |-> fee, seen |-> 0, realized |-> CostOf(e.side, price) - CostOf(e.side, e.price) - e.fee - fee,
                                  signal |-> 0, opener |-> h, gone |-> FALSE, excluded |-> FALSE])
  <2> DEFINE prices == CASE outcome[t] = "yes" -> {4} [] outcome[t] = "no" -> {0} [] OTHER -> 1..3
  <2>1. prices \subseteq Int
    <3>1. CASE outcome[t] = "yes"
      BY <3>1
    <3>2. CASE outcome[t] = "no"
      BY <3>2
    <3>3. CASE outcome[t] # "yes" /\ outcome[t] # "no"
      BY <3>3
    <3> QED BY <3>1, <3>2, <3>3
  <2>2. PICK price \in prices :
           trade_rows' = Append(trade_rows, [ticker |-> t, side |-> e.side, kind |-> "close", type |-> type, at |-> now,
                                  price |-> price, fee |-> fee, seen |-> 0, realized |-> CostOf(e.side, price) - CostOf(e.side, e.price) - e.fee - fee,
                                  signal |-> 0, opener |-> h, gone |-> FALSE, excluded |-> FALSE])
    BY <1>0, Zenon DEF closes
  <2> HIDE DEF prices
  <2>3. price \in Int
    BY <2>1
  <2> QED BY <2>2, <2>3, Zenon
<1>2. h # 0 /\ holdings' = [holdings EXCEPT ![t] = 0] /\ UNCHANGED << signal_rows, outcome, now >>
  BY <1>0 DEF closes
<1>3. h \in Trades /\ e.kind = "entry" /\ e.ticker = t /\ LastEntry(h, n + 1) /\ e \in TradeRow
  BY <1>0, <1>2, RowTypes DEF SeriesInv, HoldingsOK
<1> DEFINE made == CostOf(e.side, price) - CostOf(e.side, e.price) - e.fee - fee
           c == [ticker |-> t, side |-> e.side, kind |-> "close", type |-> type, at |-> now, price |-> price, fee |-> fee, seen |-> 0,
                 realized |-> made, signal |-> 0, opener |-> h, gone |-> FALSE, excluded |-> FALSE]
<1>4. made \in Int /\ fee \in Int /\ h \in Nat
  <2>1. e.price \in Int /\ e.fee \in Int
    BY <1>3 DEF TradeRow
  <2>2. CostOf(e.side, price) \in Int /\ CostOf(e.side, e.price) \in Int
    BY <2>1 DEF CostOf
  <2>3. fee \in Int /\ h \in Nat
    BY <1>3 DEF Trades
  <2> HIDE DEF fee, e
  <2> QED BY <2>1, <2>2, <2>3
<1>5. trade_rows' = Append(trade_rows, c)
  BY <1>1
<1> HIDE DEF fee
<1>6. made = CostOf(e.side, price) - CostOf(e.side, e.price) - e.fee - fee
  OBVIOUS
<1> HIDE DEF made
<1>7. /\ c \in TradeRow /\ c.ticker = t /\ c.side = e.side /\ c.kind = "close" /\ c.at = now /\ c.price = price /\ c.fee = fee /\ c.realized = made /\ c.opener = h
  BY <1>3, <1>4 DEF TradeRow
<1> HIDE DEF c
<1>8. n \in Nat /\ trade_rows' \in Seq(TradeRow) /\ Len(trade_rows') = n + 1 /\ trade_rows'[n + 1] = c
  BY <1>5, <1>7, AppendProperties, LenProperties DEF SeriesInv, EvidenceOK
<1>9. \A i \in 1..n : trade_rows'[i] = trade_rows[i]
  BY <1>5, <1>7, AppendProperties DEF SeriesInv, EvidenceOK
<1> HIDE DEF n
<1>10. Trades = 1..n /\ Trades' = 1..n + 1 /\ Sightings' = Sightings
  BY <1>2, <1>8 DEF Trades, Sightings, n
<1>11. EvidenceOK'
  BY <1>2, <1>8 DEF SeriesInv, EvidenceOK
<1>12. RowsStay
  BY <1>2, <1>8, <1>9, <1>10 DEF RowsStay, SameTrade, SameSignal
<1>13. SignalsOK'
  BY <1>2, <1>10 DEF SeriesInv, SignalsOK
<1>14. ASSUME NEW k \in Trades', NEW i \in Trades, i < k, trade_rows'[k].kind = "entry", LastEntry(i, n + 1) PROVE trade_rows'[k].ticker # trade_rows[i].ticker
  <2>1. k # n + 1
    BY <1>7, <1>8, <1>14
  <2>2. k \in 1..n /\ k < n + 1
    BY <1>8, <1>10, <2>1
  <2> QED BY <1>9, <1>10, <1>14, <2>2 DEF LastEntry
<1>15. TradesOK'
  <2>0. PICK m : m = n + 1
    OBVIOUS
  <2>1. CloseOK(m)'
    <3>1. trade_rows'[m] = c /\ trade_rows'[h] = e /\ h \in 1..m - 1
      BY <1>3, <1>8, <1>9, <1>10, <2>0
    <3>2. \A k \in Trades' : h < k /\ k < m => ~(trade_rows'[k].kind = "entry" /\ trade_rows'[k].ticker = trade_rows'[h].ticker)
      BY <1>3, <1>14, <3>1
    <3> HIDE DEF e
    <3> QED BY <1>3, <1>6, <1>7, <3>1, <3>2 DEF CloseOK, LastEntry
  <2>2. ASSUME NEW i \in Trades' PROVE i \in Trades \/ i = m
    BY <2>0, <1>8, <1>10
  <2>3. ASSUME NEW i \in Trades
        PROVE  /\ trade_rows'[i].at <= now'
               /\ trade_rows'[i].kind = "entry" => EntryOK(i)'
               /\ trade_rows'[i].kind = "close" => CloseOK(i)'
    BY <1>2, <1>12, OldTradesStay DEF SeriesInv
  <2> DEFINE Fine(i) == /\ trade_rows'[i].at <= now'
                        /\ trade_rows'[i].kind = "entry" => EntryOK(i)'
                        /\ trade_rows'[i].kind = "close" => CloseOK(i)'
  <2>4. Fine(m)
    <3>1. trade_rows'[m].kind = "close" /\ trade_rows'[m].at <= now'
      BY <1>2, <1>7, <1>8, <2>0
    <3> QED BY <2>1, <3>1
  <2>5. \A i \in Trades' : Fine(i)
    <3> HIDE DEF Fine
    <3>1. \A i \in Trades : Fine(i)
      BY <2>3 DEF Fine
    <3> QED BY <2>2, <2>4, <3>1
  <2> QED BY <2>5 DEF TradesOK
<1>16. HoldingsOK'
  <2> SUFFICES ASSUME NEW u \in SeriesTickers, holdings'[u] # 0
        PROVE  /\ holdings'[u] \in Trades' /\ trade_rows'[holdings'[u]].kind = "entry" /\ trade_rows'[holdings'[u]].ticker = u
               /\ \A k \in Trades' : holdings'[u] < k /\ k < Len(trade_rows') + 1 => ~(trade_rows'[k].kind = "entry" /\ trade_rows'[k].ticker = trade_rows'[holdings'[u]].ticker)
    BY DEF HoldingsOK, LastEntry
  <2>1. holdings'[u] = holdings[u] /\ u # t
    BY <1>2 DEF SeriesInv, EvidenceOK
  <2>2. PICK o : o = holdings[u]
    OBVIOUS
  <2>3. o \in Trades /\ trade_rows[o].kind = "entry" /\ trade_rows[o].ticker = u /\ LastEntry(o, n + 1) /\ holdings'[u] = o
    BY <2>1, <2>2 DEF SeriesInv, HoldingsOK, n
  <2>4. trade_rows'[o] = trade_rows[o]
    BY <1>9, <1>10, <2>3
  <2>5. \A k \in Trades' : o < k => ~(trade_rows'[k].kind = "entry" /\ trade_rows'[k].ticker = u)
    BY <1>14, <2>3
  <2>6. o \in Trades'
    BY <1>8, <1>10, <2>3
  <2> QED BY <2>3, <2>4, <2>5, <2>6
<1> QED BY <1>11, <1>13, <1>15, <1>16 DEF SeriesInv

(* A market is decided once, after which no signal of it had been graded.     *)
LEMMA OutcomeKeepsSeries ==
  ASSUME SeriesInv, now \in Nat, NEW t \in SeriesTickers, market_ends(t)
  PROVE  SeriesInv'
<1>1. outcome[t] = "none" /\ UNCHANGED << signal_rows, trade_rows, holdings, now >>
  BY DEF market_ends
<1>2. PICK r \in {"yes", "no"} : outcome' = [outcome EXCEPT ![t] = r]
  BY DEF market_ends
<1>3. \A u \in SeriesTickers : outcome'[u] = IF u = t THEN r ELSE outcome[u]
  BY <1>2 DEF SeriesInv, EvidenceOK
<1>4. EvidenceOK'
  BY <1>1, <1>2 DEF SeriesInv, EvidenceOK
<1>5. Sightings' = Sightings /\ Trades' = Trades
  BY <1>1 DEF Sightings, Trades
<1>6. RowsStay
  BY <1>1, <1>5 DEF RowsStay, SameTrade, SameSignal
<1>7. TradesOK' /\ HoldingsOK'
  BY <1>1, <1>6, TradesStay
<1>8. SignalsOK'
  <2>1. \A s \in Sightings : signal_rows[s].ticker \in SeriesTickers
    BY RowTypes DEF SeriesInv, SignalRow
  <2>2. ASSUME NEW s \in Sightings, signal_rows[s].resolved PROVE outcome'[signal_rows[s].ticker] = outcome[signal_rows[s].ticker]
    BY <1>1, <1>3, <2>1, <2>2 DEF SeriesInv, SignalsOK
  <2> QED BY <1>1, <1>5, <2>2 DEF SeriesInv, SignalsOK
<1> QED BY <1>4, <1>7, <1>8 DEF SeriesInv

(* Grading and excluding signals changes nothing else of them.                *)
LEMMA SignalsMarked ==
  ASSUME SeriesInv, now \in Nat, now' = now, UNCHANGED << trade_rows, holdings, outcome >>,
         signal_rows' = [s \in Sightings |-> signal_rows'[s]], \A s \in Sightings : signal_rows'[s] \in SignalRow /\ SameSignal(signal_rows[s], signal_rows'[s]),
         \A s \in Sightings : signal_rows'[s].resolved =>
           outcome[signal_rows[s].ticker] # "none" /\ signal_rows'[s].correct = (signal_rows[s].side = outcome[signal_rows[s].ticker])
  PROVE  SeriesInv'
<1>1. Len(signal_rows) \in Nat /\ Sightings = 1..Len(signal_rows)
  BY RowTypes DEF SeriesInv, Sightings
<1>2. signal_rows' \in Seq(SignalRow) /\ Len(signal_rows') = Len(signal_rows)
  BY <1>1
<1>3. Sightings' = Sightings /\ Trades' = Trades
  BY <1>2 DEF Sightings, Trades
<1>4. EvidenceOK'
  BY <1>2 DEF SeriesInv, EvidenceOK
<1>5. RowsStay
  BY <1>3 DEF RowsStay, SameTrade
<1>6. TradesOK' /\ HoldingsOK'
  BY <1>5, TradesStay
<1>7. SignalsOK'
  <2>1. \A s \in Sightings : signal_rows'[s].ticker = signal_rows[s].ticker /\ signal_rows'[s].side = signal_rows[s].side /\ signal_rows'[s].seen = signal_rows[s].seen
    BY DEF SameSignal
  <2> QED BY <1>3, <2>1 DEF SeriesInv, SignalsOK
<1> QED BY <1>4, <1>6, <1>7 DEF SeriesInv

(* A market's signals are graded by its outcome.                              *)
LEMMA GradesKeepSeries ==
  ASSUME SeriesInv, now \in Nat, NEW t \in SeriesTickers, signals_resolved(t)
  PROVE  SeriesInv'
<1>1. outcome[t] # "none" /\ UNCHANGED << trade_rows, holdings, outcome, now >>
  BY DEF signals_resolved
<1>2. signal_rows' = [i \in Sightings |->
       IF signal_rows[i].ticker = t THEN [signal_rows[i] EXCEPT !.resolved = TRUE, !.correct = signal_rows[i].side = outcome[t]] ELSE signal_rows[i]]
  BY DEF signals_resolved, Sightings
<1>3. signal_rows' = [s \in Sightings |-> signal_rows'[s]]
  BY <1>2
<1>4. ASSUME NEW s \in Sightings
      PROVE  /\ signal_rows'[s] \in SignalRow /\ SameSignal(signal_rows[s], signal_rows'[s])
             /\ signal_rows'[s].resolved =>
                  outcome[signal_rows[s].ticker] # "none" /\ signal_rows'[s].correct = (signal_rows[s].side = outcome[signal_rows[s].ticker])
  <2>1. signal_rows[s] \in SignalRow
    BY RowTypes DEF SeriesInv
  <2>2. CASE signal_rows[s].ticker # t
    <3>1. signal_rows'[s] = signal_rows[s]
      BY <1>2, <2>2
    <3> QED BY <2>1, <3>1 DEF SameSignal, SeriesInv, SignalsOK
  <2>3. CASE signal_rows[s].ticker = t
    <3> DEFINE right == signal_rows[s].side = outcome[t]
               b == [signal_rows[s] EXCEPT !.resolved = TRUE, !.correct = right]
    <3>1. right \in BOOLEAN
      OBVIOUS
    <3>2. signal_rows'[s] = b
      BY <1>2, <2>3
    <3>3. right = (signal_rows[s].side = outcome[t])
      OBVIOUS
    <3> HIDE DEF right
    <3>4. b \in SignalRow /\ b.ticker = t /\ b.side = signal_rows[s].side /\ b.seen = signal_rows[s].seen /\ b.correct = right
      BY <2>1, <2>3, <3>1 DEF SignalRow
    <3> HIDE DEF b
    <3> QED BY <1>1, <2>3, <3>2, <3>3, <3>4 DEF SameSignal
  <2> QED BY <2>2, <2>3
<1> QED BY <1>1, <1>3, <1>4, SignalsMarked

(* A quarantined window of signals.                                           *)
LEMMA QuarantineKeepsSeries ==
  ASSUME SeriesInv, now \in Nat, NEW from, NEW to, signals_quarantined(from, to)
  PROVE  SeriesInv'
<1>1. UNCHANGED << trade_rows, holdings, outcome, now >>
  BY DEF signals_quarantined
<1>2. signal_rows' = [i \in Sightings |->
       IF from < signal_rows[i].seen /\ signal_rows[i].seen <= to THEN [signal_rows[i] EXCEPT !.excluded = TRUE] ELSE signal_rows[i]]
  BY DEF signals_quarantined, Sightings
<1>3. signal_rows' = [s \in Sightings |-> signal_rows'[s]]
  BY <1>2
<1>4. ASSUME NEW s \in Sightings
      PROVE  /\ signal_rows'[s] \in SignalRow /\ SameSignal(signal_rows[s], signal_rows'[s])
             /\ signal_rows'[s].resolved =>
                  outcome[signal_rows[s].ticker] # "none" /\ signal_rows'[s].correct = (signal_rows[s].side = outcome[signal_rows[s].ticker])
  <2> DEFINE a == signal_rows[s]
  <2>1. a \in SignalRow /\ (a.resolved => outcome[a.ticker] # "none" /\ a.correct = (a.side = outcome[a.ticker]))
    BY RowTypes DEF SeriesInv, SignalsOK
  <2>2. signal_rows'[s] = a \/ signal_rows'[s] = [a EXCEPT !.excluded = TRUE]
    BY <1>2
  <2>3. signal_rows'[s] \in SignalRow /\ SameSignal(a, signal_rows'[s]) /\ signal_rows'[s].resolved = a.resolved /\ signal_rows'[s].correct = a.correct
    <3> HIDE DEF a
    <3>1. CASE signal_rows'[s] = a
      BY <2>1, <3>1 DEF SameSignal
    <3>2. CASE signal_rows'[s] = [a EXCEPT !.excluded = TRUE]
      BY <2>1, <3>2 DEF SameSignal, SignalRow
    <3> QED BY <2>2, <3>1, <3>2
  <2> QED BY <2>1, <2>3
<1> QED BY <1>1, <1>3, <1>4, SignalsMarked

(* Marking trades deleted, or a close excluded.                               *)
LEMMA TradesMarked ==
  ASSUME SeriesInv, now \in Nat, now' = now, UNCHANGED << signal_rows, holdings, outcome >>, trade_rows' = [i \in Trades |-> trade_rows'[i]],
         \A i \in Trades : trade_rows'[i] \in TradeRow /\ SameTrade(trade_rows[i], trade_rows'[i])
  PROVE  SeriesInv'
<1>1. Len(trade_rows) \in Nat /\ Trades = 1..Len(trade_rows)
  BY RowTypes DEF SeriesInv, Trades
<1>2. trade_rows' \in Seq(TradeRow) /\ Len(trade_rows') = Len(trade_rows)
  BY <1>1
<1>3. Sightings' = Sightings /\ Trades' = Trades
  BY <1>2 DEF Sightings, Trades
<1>4. EvidenceOK'
  BY <1>2 DEF SeriesInv, EvidenceOK
<1>5. RowsStay
  BY <1>3 DEF RowsStay, SameSignal
<1>6. TradesOK' /\ HoldingsOK'
  BY <1>2, <1>5, TradesStay
<1>7. SignalsOK'
  BY <1>3 DEF SeriesInv, SignalsOK
<1> QED BY <1>4, <1>6, <1>7 DEF SeriesInv

(* A confirmed wrong close, or a time range, of the trades.                   *)
LEMMA EditsKeepSeries ==
  ASSUME SeriesInv, now \in Nat
  PROVE  /\ \A c \in Trades : close_corrected(c) => SeriesInv'
         /\ \A from, to : trades_purged(from, to) => SeriesInv'
<1>0. Trades = 1..Len(trade_rows) /\ (\A i \in Trades : trade_rows[i] \in TradeRow) /\ trade_rows = [i \in Trades |-> trade_rows[i]]
  BY RowTypes, LenProperties DEF SeriesInv, EvidenceOK, Trades
<1>1. ASSUME NEW c \in Trades, close_corrected(c) PROVE SeriesInv'
  <2>1. trade_rows[c].kind = "close" /\ trade_rows' = [trade_rows EXCEPT ![c].excluded = TRUE] /\ UNCHANGED << signal_rows, holdings, outcome, now >>
    BY <1>1 DEF close_corrected
  <2>2. trade_rows' = [i \in Trades |-> trade_rows'[i]] /\ \A i \in Trades : trade_rows'[i] = IF i = c THEN [trade_rows[c] EXCEPT !.excluded = TRUE] ELSE trade_rows[i]
    BY <1>0, <2>1
  <2> DEFINE a == trade_rows[c]
             b == [a EXCEPT !.excluded = TRUE]
  <2>3. b \in TradeRow /\ SameTrade(a, b)
    <3>1. a \in TradeRow /\ a.kind = "close"
      BY <1>0, <2>1
    <3> HIDE DEF a
    <3> QED BY <3>1 DEF TradeRow, SameTrade
  <2>4. ASSUME NEW i \in Trades PROVE trade_rows'[i] \in TradeRow /\ SameTrade(trade_rows[i], trade_rows'[i])
    <3>1. CASE i = c
      BY <2>2, <2>3, <3>1
    <3>2. CASE i # c
      BY <1>0, <2>2, <3>2 DEF SameTrade
    <3> QED BY <3>1, <3>2
  <2> QED BY <2>1, <2>2, <2>4, TradesMarked
<1>2. ASSUME NEW from, NEW to, trades_purged(from, to) PROVE SeriesInv'
  <2>1. trade_rows' = [i \in Trades |-> IF trade_rows[i].at \in from..to THEN [trade_rows[i] EXCEPT !.gone = TRUE] ELSE trade_rows[i]]
        /\ UNCHANGED << signal_rows, holdings, outcome, now >>
    BY <1>2 DEF trades_purged, Trades
  <2>2. trade_rows' = [i \in Trades |-> trade_rows'[i]]
    BY <2>1
  <2>3. ASSUME NEW i \in Trades PROVE trade_rows'[i] \in TradeRow /\ SameTrade(trade_rows[i], trade_rows'[i])
    <3> DEFINE a == trade_rows[i]
    <3>1. trade_rows'[i] = a \/ trade_rows'[i] = [a EXCEPT !.gone = TRUE]
      BY <2>1
    <3>2. a \in TradeRow
      BY <1>0
    <3> HIDE DEF a
    <3>3. CASE trade_rows'[i] = a
      BY <3>2, <3>3 DEF SameTrade, a
    <3>4. CASE trade_rows'[i] = [a EXCEPT !.gone = TRUE]
      <4>1. trade_rows'[i] \in TradeRow /\ SameTrade(a, trade_rows'[i])
        BY <3>2, <3>4 DEF SameTrade, TradeRow
      <4> QED BY <4>1 DEF a
    <3> QED BY <3>1, <3>3, <3>4
  <2> QED BY <2>1, <2>2, <2>3, TradesMarked
<1> QED BY <1>1, <1>2

(* Every step keeps it.                                                       *)
LEMMA SeriesStep == SeriesInv /\ Bounded /\ Bounded' /\ [Next]_deskVars => SeriesInv'
<1> SUFFICES ASSUME SeriesInv, Bounded, Bounded', [Next]_deskVars PROVE SeriesInv'
  OBVIOUS
<1>0. now \in Nat
  BY DEF Bounded
<1>1. CASE UNCHANGED evidenceVars
  <2>1. now' \in Nat /\ now' >= now
    BY BoundsStep DEF Bounded
  <2>2. UNCHANGED << signal_rows, trade_rows, holdings, outcome >>
    BY <1>1 DEF evidenceVars
  <2>3. RowsStay /\ Sightings' = Sightings /\ Len(trade_rows') = Len(trade_rows)
    BY <2>2 DEF RowsStay, SameTrade, SameSignal, Trades, Sightings
  <2>4. EvidenceOK'
    BY <2>2 DEF SeriesInv, EvidenceOK
  <2>5. \A s \in Sightings : signal_rows[s].seen \in Nat
    BY RowTypes DEF SeriesInv, SignalRow
  <2>6. SignalsOK'
    BY <1>0, <2>1, <2>2, <2>3, <2>5 DEF SeriesInv, SignalsOK
  <2>7. TradesOK' /\ HoldingsOK'
    BY <1>0, <2>1, <2>2, <2>3, TradesStay
  <2> QED BY <2>4, <2>6, <2>7 DEF SeriesInv
<1>2. ASSUME NEW t \in SeriesTickers PROVE (\E side \in {"yes", "no"} : signal_seen(t, side)) => SeriesInv'
  BY <1>0, SeenKeepsSeries
<1>3. ASSUME NEW t \in SeriesTickers PROVE (\E type \in {"stop_loss", "take_profit", "settled"} : closes(t, type)) => SeriesInv'
  BY <1>0, CloseKeepsSeries
<1>4. ASSUME NEW t \in SeriesTickers PROVE market_ends(t) \/ signals_resolved(t) => SeriesInv'
  BY <1>0, OutcomeKeepsSeries, GradesKeepSeries
<1>5. ASSUME NEW g \in Sightings, entered(g) PROVE SeriesInv'
  BY <1>0, <1>5, EntryKeepsSeries
<1>6. ASSUME NEW c \in Trades, close_corrected(c) PROVE SeriesInv'
  BY <1>0, <1>6, EditsKeepSeries
<1>7. ASSUME NEW from, NEW to, signals_quarantined(from - 1, to) \/ trades_purged(from, to) PROVE SeriesInv'
  BY <1>0, <1>7, EditsKeepSeries, QuarantineKeepsSeries
<1>8. CASE SeriesNext
  <2>1. (\E g \in Sightings : entered(g)) => SeriesInv'
    BY <1>5
  <2>2. (\E c \in Trades : close_corrected(c)) => SeriesInv'
    BY <1>6
  <2> QED BY <1>2, <1>3, <1>4, <1>7, <1>8, <2>1, <2>2 DEF SeriesNext, Sightings, Trades
<1> QED BY <1>1, <1>8 DEF Next, netting, reports, series, resets, index, tape, history_of_prices, signals, event_dates, tick_clock, deskVars

(* The greatest of some rows is one of them.                                  *)
LEMMA GreatestIs ==
  ASSUME NEW n \in Nat, NEW T, T \subseteq 1..n, T # {}, NEW g, g = CHOOSE x \in T : \A y \in T : y <= x
  PROVE  g \in T /\ \A y \in T : y <= g
<1>1. T \subseteq 0..n
  OBVIOUS
<1>2. \E x \in T : \A y \in T : y <= x
  BY <1>1, Greatest
<1> QED BY <1>2

(* What a report tells of a close.                                            *)
LEMMA HistoryRow ==
  ASSUME SeriesInv, NEW row \in history
  PROVE  /\ row.close \in _trades_for_series /\ row.close \in Trades /\ trade_rows[row.close].kind = "close" /\ CloseOK(row.close)
         /\ row.entry = last_entry(_trades_for_series, row.close) /\ row.fees = fees_paid(row.entry, row.close)
<1>1. PICK i \in { j \in _trades_for_series : trade_rows[j].kind = "close" } :
        row = [close |-> i, entry |-> last_entry(_trades_for_series, i), fees |-> fees_paid(last_entry(_trades_for_series, i), i)]
  BY DEF history, build_trade_history
<1>2. row.close = i /\ row.entry = last_entry(_trades_for_series, i) /\ row.fees = fees_paid(row.entry, i)
  BY <1>1
<1>3. i \in Trades /\ trade_rows[i].kind = "close"
  BY <1>1 DEF _trades_for_series, Trades
<1> QED BY <1>1, <1>2, <1>3 DEF SeriesInv, TradesOK

(* A close is told with its entry and its fees.                               *)
LEMMA ClosesAreTold == SeriesInv => ClosesFindTheirEntries
<1> SUFFICES ASSUME SeriesInv, NEW row \in history,
                    ~trade_rows[trade_rows[row.close].opener].gone, trade_rows[trade_rows[row.close].opener].at > since - Lookback
             PROVE  /\ row.entry = trade_rows[row.close].opener
                    /\ row.fees = trade_rows[trade_rows[row.close].opener].fee + trade_rows[row.close].fee
  BY DEF ClosesFindTheirEntries
<1>1. PICK j : j = row.close
  OBVIOUS
<1>2. PICK o : o = trade_rows[j].opener
  OBVIOUS
<1> DEFINE log == _trades_for_series
           before == entries_before(log, j)
<1>3. j \in Trades /\ j \in log /\ trade_rows[j].kind = "close" /\ CloseOK(j) /\ row.entry = last_entry(log, j) /\ row.fees = fees_paid(row.entry, j)
  BY <1>1, HistoryRow
<1>4. /\ o \in 1..j - 1 /\ trade_rows[o].kind = "entry" /\ trade_rows[o].ticker = trade_rows[j].ticker /\ trade_rows[o].side = trade_rows[j].side /\ LastEntry(o, j)
      /\ trade_rows[j].realized = CostOf(trade_rows[j].side, trade_rows[j].price) - CostOf(trade_rows[o].side, trade_rows[o].price) - trade_rows[o].fee - trade_rows[j].fee
  BY <1>2, <1>3 DEF CloseOK
<1>5. Len(trade_rows) \in Nat /\ Trades = 1..Len(trade_rows) /\ o \in Trades /\ j \in Nat
  BY <1>3, <1>4, RowTypes DEF SeriesInv, Trades
<1>6. trade_rows[o] \in TradeRow /\ trade_rows[j] \in TradeRow
  BY <1>3, <1>5, RowTypes DEF SeriesInv
<1>7. o \in log
  BY <1>1, <1>2, <1>4, <1>5 DEF _trades_for_series, loaded_from, SeriesInv, TradesOK, EntryOK, Trades
<1>8. log \subseteq 1..Len(trade_rows)
  BY DEF _trades_for_series
<1> HIDE DEF log
<1>9. before = { k \in log : k < j /\ trade_rows[k].kind = "entry" /\ trade_rows[k].ticker = trade_rows[j].ticker }
  BY DEF entries_before
<1> HIDE DEF before
<1>10. o < j
  BY <1>4, <1>5
<1>11. o \in before /\ before \subseteq 1..Len(trade_rows) /\ \A k \in before : k < j /\ trade_rows[k].kind = "entry" /\ trade_rows[k].ticker = trade_rows[j].ticker
  BY <1>4, <1>7, <1>8, <1>9, <1>10
<1>12. last_entry(log, j) = o
  <2>1. PICK g : g = last_entry(log, j)
    OBVIOUS
  <2>2. g = CHOOSE x \in before : \A k \in before : k <= x
    BY <1>11, <2>1 DEF last_entry, before
  <2>3. g \in before /\ \A y \in before : y <= g
    BY <1>5, <1>11, <2>2, GreatestIs
  <2>4. ~(o < g)
    BY <1>4, <1>5, <1>11, <2>3 DEF LastEntry
  <2>5. g \in Nat
    BY <1>5, <1>11, <2>3
  <2> QED BY <1>5, <1>11, <2>1, <2>3, <2>4, <2>5
<1>13. fees_paid(o, j) = trade_rows[o].fee + trade_rows[j].fee
  <2>1. o # 0
    BY <1>4
  <2>2. CostOf(trade_rows[j].side, trade_rows[j].price) \in Int /\ CostOf(trade_rows[o].side, trade_rows[o].price) \in Int /\ trade_rows[o].fee \in Int /\ trade_rows[j].fee \in Int
    BY <1>6 DEF TradeRow, CostOf
  <2>3. fees_paid(o, j) = CostOf(trade_rows[j].side, trade_rows[j].price) - CostOf(trade_rows[o].side, trade_rows[o].price) - trade_rows[j].realized
    BY <2>1 DEF fees_paid, Unpaired
  <2> QED BY <1>4, <2>2, <2>3
<1> QED BY <1>1, <1>2, <1>3, <1>12, <1>13

(* A signal of the window is among those joined.                              *)
LEMMA SignalsRead ==
  ASSUME NEW s
  PROVE  s \in _signals_for_series <=> s \in Sightings /\ since < signal_rows[s].seen /\ signal_rows[s].seen <= now /\ ~signal_rows[s].excluded
BY DEF _signals_for_series, Sightings

(* The signals an entry is joined with are of its side.                       *)
LEMMA EntriesAreJudged ==
  ASSUME SeriesInv, now \in Nat
  PROVE  /\ \A i \in traded_signals : signal_rows[by_key(i)].side = trade_rows[i].side
         /\ \A i \in unjoined : signal_rows[trade_rows[i].signal].excluded \/ signal_rows[trade_rows[i].signal].seen <= since
<1> DEFINE same(i) == { s \in _signals_for_series : signal_rows[s].ticker = trade_rows[i].ticker /\ signal_rows[s].seen = trade_rows[i].seen }
<1>1. ASSUME NEW i \in entries
      PROVE  /\ i \in Trades /\ EntryOK(i)
             /\ same(i) = {} => by_key(i) = 0
             /\ same(i) # {} => by_key(i) \in same(i) /\ by_key(i) \in Sightings /\ by_key(i) # 0
  <2>1. i \in Trades /\ EntryOK(i)
    BY DEF entries, Trades, SeriesInv, TradesOK
  <2>2. same(i) \subseteq 1..Len(signal_rows) /\ Len(signal_rows) \in Nat
    BY SignalsRead, RowTypes DEF SeriesInv, Sightings
  <2>3. same(i) = {} => by_key(i) = 0
    BY DEF by_key
  <2>4. same(i) # {} => by_key(i) = CHOOSE s \in same(i) : \A r \in same(i) : r <= s
    BY DEF by_key
  <2>5. PICK g : g = by_key(i)
    OBVIOUS
  <2> DEFINE T == same(i)
  <2> HIDE DEF T
  <2>6. T # {} => g \in T
    BY <2>2, <2>4, <2>5, GreatestIs DEF T
  <2> QED BY <2>1, <2>2, <2>3, <2>5, <2>6 DEF T, Sightings
<1>2. ASSUME NEW i \in traded_signals PROVE signal_rows[by_key(i)].side = trade_rows[i].side
  <2>1. PICK g : g = by_key(i)
    OBVIOUS
  <2>2. i \in entries /\ g # 0
    BY <2>1 DEF traded_signals
  <2>3. EntryOK(i) /\ g \in Sightings /\ signal_rows[g].ticker = trade_rows[i].ticker /\ signal_rows[g].seen = trade_rows[i].seen
    BY <1>1, <2>1, <2>2
  <2> QED BY <2>1, <2>3 DEF EntryOK, SeriesInv, SignalsOK
<1>3. ASSUME NEW i \in unjoined PROVE signal_rows[trade_rows[i].signal].excluded \/ signal_rows[trade_rows[i].signal].seen <= since
  <2>1. PICK s : s = trade_rows[i].signal
    OBVIOUS
  <2>2. i \in entries /\ by_key(i) = 0
    BY DEF unjoined, traded_signals
  <2>3. same(i) = {} /\ EntryOK(i)
    BY <1>1, <2>2
  <2>4. s \in Sightings /\ signal_rows[s].ticker = trade_rows[i].ticker /\ signal_rows[s].seen = trade_rows[i].seen
    BY <2>1, <2>3 DEF EntryOK
  <2>5. signal_rows[s].seen \in Nat /\ signal_rows[s].seen <= now /\ since \in Int
    BY <2>4, RowTypes, EvidenceAssumption DEF SeriesInv, SignalsOK, SignalRow, since
  <2>6. s \notin _signals_for_series
    BY <2>3, <2>4
  <2>7. signal_rows[s].excluded \/ ~(since < signal_rows[s].seen)
    BY <2>4, <2>5, <2>6, SignalsRead
  <2> QED BY <2>1, <2>5, <2>7
<1> QED BY <1>2, <1>3

(* A stop loss is blamed exactly when the side it gave up won.                *)
LEMMA StopsAreJudged ==
  ASSUME SeriesInv, now \in Nat
  PROVE  /\ \A row \in stopped_but_correct : outcome[trade_rows[row.close].ticker] = trade_rows[row.close].side
         /\ \A row \in history :
              LET close == trade_rows[row.close]
                  own == trade_rows[close.opener].signal
              IN  /\ close.type = "stop_loss" /\ row.entry # Unpaired /\ close.side = outcome[close.ticker]
                  /\ own \in _signals_for_series /\ signal_rows[own].resolved /\ row.entry = close.opener
                  => row \in stopped_but_correct
<1>1. ASSUME NEW row \in history, NEW s \in signals_before(row)
      PROVE  /\ s \in Sightings /\ outcome[trade_rows[row.close].ticker] # "none"
             /\ signal_rows[s].correct = (trade_rows[row.close].side = outcome[trade_rows[row.close].ticker])
  <2>1. s \in Sightings /\ signal_rows[s].resolved /\ signal_rows[s].ticker = trade_rows[row.close].ticker /\ signal_rows[s].side = trade_rows[row.close].side
    BY SignalsRead DEF signals_before
  <2> QED BY <2>1 DEF SeriesInv, SignalsOK
<1>2. ASSUME NEW row \in stopped_but_correct PROVE outcome[trade_rows[row.close].ticker] = trade_rows[row.close].side
  <2>1. row \in history /\ \E s \in signals_before(row) : signal_rows[s].correct
    BY DEF stopped_but_correct
  <2> QED BY <1>1, <2>1
<1>3. ASSUME NEW row \in history, NEW c, c = trade_rows[row.close], NEW own, own = trade_rows[c.opener].signal,
             c.type = "stop_loss", row.entry # Unpaired, c.side = outcome[c.ticker],
             own \in _signals_for_series, signal_rows[own].resolved, row.entry = c.opener
      PROVE  row \in stopped_but_correct
  <2>1. CloseOK(row.close)
    BY HistoryRow
  <2>2. c.opener \in Trades /\ trade_rows[c.opener].kind = "entry" /\ trade_rows[c.opener].ticker = c.ticker /\ trade_rows[c.opener].side = c.side
    <3>1. row.close \in 1..Len(trade_rows) /\ Len(trade_rows) \in Nat
      BY HistoryRow, RowTypes DEF SeriesInv, Trades
    <3>2. c.opener \in 1..row.close - 1 /\ trade_rows[c.opener].kind = "entry" /\ trade_rows[c.opener].ticker = c.ticker /\ trade_rows[c.opener].side = c.side
      BY <1>3, <2>1 DEF CloseOK
    <3>3. c.opener \in 1..Len(trade_rows)
      BY <3>1, <3>2
    <3> QED BY <3>2, <3>3 DEF Trades
  <2>3. signal_rows[own].ticker = c.ticker /\ signal_rows[own].side = c.side /\ signal_rows[own].seen <= trade_rows[c.opener].at
    BY <1>3, <2>2 DEF SeriesInv, TradesOK, EntryOK
  <2>4. own \in signals_before(row)
    BY <1>3, <2>3 DEF signals_before
  <2>5. signals_before(row) \subseteq 1..Len(signal_rows) /\ Len(signal_rows) \in Nat
    BY <1>1, RowTypes DEF SeriesInv, Sightings
  <2>6. signals_before(row) \subseteq 0..Len(signal_rows) /\ signals_before(row) # {}
    BY <2>4, <2>5
  <2>7. PICK s \in signals_before(row) : \A r \in signals_before(row) : r <= s
    BY <2>5, <2>6, Greatest
  <2>8. signal_rows[s].correct
    BY <1>1, <1>3, <2>7
  <2> QED BY <1>3, <2>7, <2>8 DEF stopped_but_correct
<1>4. ASSUME NEW row \in history
      PROVE  LET close == trade_rows[row.close]
                 own == trade_rows[close.opener].signal
             IN  /\ close.type = "stop_loss" /\ row.entry # Unpaired /\ close.side = outcome[close.ticker]
                 /\ own \in _signals_for_series /\ signal_rows[own].resolved /\ row.entry = close.opener
                 => row \in stopped_but_correct
  BY <1>3
<1> QED BY <1>2, <1>4

(* The series watcher's evidence (reconcile, build_trade_history): a close is *)
(* told with the entry and the fees of its position, an entry is judged by    *)
(* signals of its own side or counted as unjoined, and a stop loss is blamed  *)
(* exactly when the side it gave up won.                                      *)
THEOREM EvidenceTheorem == Spec => []EvidenceIsJoined
<1>1. Init => SeriesInv /\ Bounded
  BY SeriesStarts, BoundsStart
<1>2. SeriesInv /\ Bounded /\ [Next]_deskVars => SeriesInv' /\ Bounded'
  BY SeriesStep, BoundsStep
<1>3. SeriesInv /\ Bounded => EvidenceIsJoined
  <2> SUFFICES ASSUME SeriesInv, Bounded PROVE ClosesFindTheirEntries /\ JudgedByTheirSignals
    BY DEF EvidenceIsJoined
  <2>1. now \in Nat
    BY DEF Bounded
  <2>2. JudgedByTheirSignals
    BY <2>1, EntriesAreJudged, StopsAreJudged, Zenon DEF JudgedByTheirSignals
  <2> QED BY <2>2, ClosesAreTold
<1> QED BY <1>1, <1>2, <1>3, PTL DEF Spec

===============================================================================
