----------------------------- MODULE SeriesEvidence ---------------------------
(* What the reports say of one series: its signals and its trades joined in a *)
(* window. The rows carry, for the properties alone, what really belonged     *)
(* together: the signal of an entry, the entry of a close, the fees charged.  *)
EXTENDS Runtime

CONSTANTS
  SeriesTickers,
  Window,             \* the hours of a report
  Lookback            \* how far before the window trades are loaded (seven days)
ASSUME EvidenceAssumption == Window \in Nat /\ Lookback \in Nat

VARIABLES
  signal_rows,        \* signal_log: the signals
  trade_rows,         \* the trades table, oldest first
  holdings,           \* per ticker, the entry its open position came from (0: none)
  outcome             \* per ticker, the result of its market

evidenceVars == << signal_rows, trade_rows, holdings, outcome >>

EvidenceInit ==
  /\ signal_rows = << >> /\ trade_rows = << >>
  /\ holdings = [t \in SeriesTickers |-> 0]
  /\ outcome = [t \in SeriesTickers |-> "none"]

CostOf(side, price) == IF side = "yes" THEN price ELSE 4 - price

signal_seen(t, side) ==
  /\ outcome[t] = "none" /\ Spends("signals")
  /\ \A i \in 1..Len(signal_rows) : signal_rows[i].ticker = t /\ signal_rows[i].seen = now => signal_rows[i].side = side
  /\ signal_rows' = Append(signal_rows, [ticker |-> t, side |-> side, seen |-> now, resolved |-> FALSE, correct |-> FALSE, excluded |-> FALSE])
  /\ UNCHANGED << trade_rows, holdings, outcome, now >>

(* An entry carries the stamp of its signal; it may be made later, by a       *)
(* resting order. Positions are one per ticker.                               *)
entered(i) ==
  LET s == signal_rows[i]
  IN  /\ holdings[s.ticker] = 0 /\ outcome[s.ticker] = "none" /\ now - s.seen <= 1
      /\ Spends("entries")
      /\ \E price \in 1..3 :
           trade_rows' = Append(trade_rows, [ticker |-> s.ticker, side |-> s.side, kind |-> "entry", type |-> "entry", at |-> now,
                                  price |-> price, fee |-> 1, seen |-> s.seen, realized |-> 0, signal |-> i, opener |-> 0, gone |-> FALSE, excluded |-> FALSE])
      /\ holdings' = [holdings EXCEPT ![s.ticker] = Len(trade_rows) + 1]
      /\ UNCHANGED << signal_rows, outcome, now >>

(* A close writes what it realized into its reason.                           *)
closes(t, type) ==
  /\ holdings[t] # 0
  /\ type = "settled" <=> outcome[t] # "none"
  /\ LET e == trade_rows[holdings[t]]
     IN  \E price \in CASE outcome[t] = "yes" -> {4} [] outcome[t] = "no" -> {0} [] OTHER -> 1..3 :
           /\ type = "stop_loss" => CostOf(e.side, price) < CostOf(e.side, e.price)
           /\ type = "take_profit" => CostOf(e.side, price) > CostOf(e.side, e.price)
           /\ LET fee == IF type = "settled" THEN 0 ELSE 1
              IN  trade_rows' = Append(trade_rows, [ticker |-> t, side |-> e.side, kind |-> "close", type |-> type, at |-> now,
                                  price |-> price, fee |-> fee, seen |-> 0, realized |-> CostOf(e.side, price) - CostOf(e.side, e.price) - e.fee - fee,
                                  signal |-> 0, opener |-> holdings[t], gone |-> FALSE, excluded |-> FALSE])
  /\ holdings' = [holdings EXCEPT ![t] = 0]
  /\ UNCHANGED << signal_rows, outcome, now, budget >>

market_ends(t) ==
  /\ outcome[t] = "none"
  /\ \E r \in {"yes", "no"} : outcome' = [outcome EXCEPT ![t] = r]
  /\ UNCHANGED << signal_rows, trade_rows, holdings, now, budget >>

signals_resolved(t) ==
  /\ outcome[t] # "none"
  /\ \E i \in 1..Len(signal_rows) : signal_rows[i].ticker = t /\ ~signal_rows[i].resolved
  /\ signal_rows' = [i \in 1..Len(signal_rows) |->
       IF signal_rows[i].ticker = t THEN [signal_rows[i] EXCEPT !.resolved = TRUE, !.correct = signal_rows[i].side = outcome[t]] ELSE signal_rows[i]]
  /\ UNCHANGED << trade_rows, holdings, outcome, now, budget >>

(* A confirmed wrong close is excluded, a quarantined window of signals too,  *)
(* and the rows of a time range are deleted.                                  *)
close_corrected(i) ==
  /\ trade_rows[i].kind = "close" /\ ~trade_rows[i].excluded /\ Spends("edits")
  /\ trade_rows' = [trade_rows EXCEPT ![i].excluded = TRUE]
  /\ UNCHANGED << signal_rows, holdings, outcome, now >>

signals_quarantined(from, to) ==
  /\ Spends("edits")
  /\ signal_rows' = [i \in 1..Len(signal_rows) |->
       IF from < signal_rows[i].seen /\ signal_rows[i].seen <= to THEN [signal_rows[i] EXCEPT !.excluded = TRUE] ELSE signal_rows[i]]
  /\ UNCHANGED << trade_rows, holdings, outcome, now >>

trades_purged(from, to) ==
  /\ Spends("edits")
  /\ trade_rows' = [i \in 1..Len(trade_rows) |->
       IF trade_rows[i].at \in from..to THEN [trade_rows[i] EXCEPT !.gone = TRUE] ELSE trade_rows[i]]
  /\ UNCHANGED << signal_rows, holdings, outcome, now >>

SeriesNext ==
  /\ Takes("series")
  /\ \/ \E t \in SeriesTickers : \/ \E side \in {"yes", "no"} : signal_seen(t, side)
                                 \/ \E type \in {"stop_loss", "take_profit", "settled"} : closes(t, type)
                                 \/ market_ends(t) \/ signals_resolved(t)
     \/ \E i \in 1..Len(signal_rows) : entered(i)
     \/ \E i \in 1..Len(trade_rows) : close_corrected(i)
     \/ \E from, to \in 0..now : from <= to /\ (signals_quarantined(from - 1, to) \/ trades_purged(from, to))

-------------------------------------------------------------------------------
(* The rows a report reads.                                                   *)
since == now - Window
_signals_for_series ==
  { i \in 1..Len(signal_rows) : since < signal_rows[i].seen /\ signal_rows[i].seen <= now /\ ~signal_rows[i].excluded }
(* Faulty variant: trades are loaded from the window alone.                   *)
loaded_from_window == since
loaded_from == since - Lookback
_trades_for_series ==
  { i \in 1..Len(trade_rows) : /\ loaded_from < trade_rows[i].at /\ trade_rows[i].at <= now
                               /\ ~trade_rows[i].excluded /\ ~trade_rows[i].gone }

(* build_trade_history: a close is paired with the last entry before it.      *)
Unpaired == 0
entries_before(log, i) == { j \in log : j < i /\ trade_rows[j].kind = "entry" /\ trade_rows[j].ticker = trade_rows[i].ticker }
(* Faulty variant: with the first entry of its ticker.                        *)
paired_with_first(log, i) ==
  IF entries_before(log, i) = {} THEN Unpaired ELSE CHOOSE j \in entries_before(log, i) : \A k \in entries_before(log, i) : j <= k
last_entry(log, i) ==
  IF entries_before(log, i) = {} THEN Unpaired ELSE CHOOSE j \in entries_before(log, i) : \A k \in entries_before(log, i) : k <= j
fees_paid(entry, close) ==
  LET e == trade_rows[entry]
      c == trade_rows[close]
  IN  IF entry = Unpaired THEN c.fee ELSE CostOf(c.side, c.price) - CostOf(e.side, e.price) - c.realized
build_trade_history(log) ==
  { [close |-> i, entry |-> last_entry(log, i), fees |-> fees_paid(last_entry(log, i), i)] : i \in { j \in log : trade_rows[j].kind = "close" } }
history == { row \in build_trade_history(_trades_for_series) : trade_rows[row.close].at > since }

(* reconcile: the entries and the signals they came from, joined by ticker    *)
(* and stamp (of several signals with one stamp the last read wins), and the  *)
(* stop losses whose signal was right all along.                              *)
entries == { i \in 1..Len(trade_rows) : trade_rows[i].kind = "entry" /\ trade_rows[i].at > since /\ ~trade_rows[i].gone }
by_key(i) ==
  LET same == { s \in _signals_for_series : signal_rows[s].ticker = trade_rows[i].ticker /\ signal_rows[s].seen = trade_rows[i].seen }
  IN  IF same = {} THEN 0 ELSE CHOOSE s \in same : \A r \in same : r <= s
traded_signals == { i \in entries : by_key(i) # 0 }
unjoined == entries \ traded_signals
(* Faulty variant: signals of the other side are taken as well.               *)
signals_before_any(row) ==
  LET close == trade_rows[row.close]
  IN  { s \in _signals_for_series : signal_rows[s].resolved /\ signal_rows[s].ticker = close.ticker /\ signal_rows[s].seen <= trade_rows[row.entry].at }
signals_before(row) ==
  LET close == trade_rows[row.close]
  IN  { s \in _signals_for_series : /\ signal_rows[s].resolved /\ signal_rows[s].ticker = close.ticker
                                    /\ signal_rows[s].seen <= trade_rows[row.entry].at /\ signal_rows[s].side = close.side }
stopped_but_correct ==
  { row \in history : /\ trade_rows[row.close].type = "stop_loss" /\ row.entry # Unpaired
                      /\ \E s \in signals_before(row) : signal_rows[s].correct /\ \A r \in signals_before(row) : r <= s }

(* Every close of the window is told with the entry its position came from,   *)
(* and with the fees that were charged, unless that entry was deleted or is   *)
(* older than what is loaded.                                                 *)
ClosesFindTheirEntries ==
  \A row \in history :
    LET close == trade_rows[row.close]
        opener == trade_rows[close.opener]
    IN  ~opener.gone /\ opener.at > since - Lookback => row.entry = close.opener /\ row.fees = opener.fee + close.fee

(* An entry is judged by a signal of its own side, or it is counted among the *)
(* unjoined because its signal is excluded or older than the window; a stop   *)
(* loss is blamed exactly when the side it gave up won.                       *)
JudgedByTheirSignals ==
  /\ \A i \in traded_signals : signal_rows[by_key(i)].side = trade_rows[i].side
  /\ \A i \in unjoined : signal_rows[trade_rows[i].signal].excluded \/ signal_rows[trade_rows[i].signal].seen <= since
  /\ \A row \in stopped_but_correct : outcome[trade_rows[row.close].ticker] = trade_rows[row.close].side
  /\ \A row \in history :
       LET close == trade_rows[row.close]
           own == trade_rows[close.opener].signal
       IN  /\ close.type = "stop_loss" /\ row.entry # Unpaired /\ close.side = outcome[close.ticker]
           /\ own \in _signals_for_series /\ signal_rows[own].resolved /\ row.entry = close.opener
           => row \in stopped_but_correct

(* What a series is judged by: its closes with their entries, its entries     *)
(* with their signals.                                                        *)
EvidenceIsJoined == Takes("series") => ClosesFindTheirEntries /\ JudgedByTheirSignals
=============================================================================
