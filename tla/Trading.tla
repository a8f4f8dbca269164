------------------------------ MODULE Trading -------------------------------
(***************************************************************************)
(* The paper trading engine: services/strategy_engine.py (entries),        *)
(* services/settlement_edge_entry.py (the last-seconds entry),             *)
(* services/exits/exit_engine.py (exits) and the account routes of main.py *)
(* and services/reset, all driving one PaperBroker and one RiskManager.    *)
(*                                                                         *)
(* The tick loop, the WebSocket handlers and the HTTP routes call these    *)
(* handlers from one event loop in whatever order signals, quotes and      *)
(* requests arrive; each one runs without awaiting, so each is one step    *)
(* (or, where it commits several transactions, a job a crash can cut).     *)
(* Everything a handler reads from outside (a quote, a signal, the state   *)
(* of a live game) is an input of its step.                                *)
(***************************************************************************)
EXTENDS PaperBroker

CONSTANTS
    series_of,              \* ticker -> its series
    me_complement,          \* ticker -> the other half of its 2-way matchup, or Nothing
    EdgeTickers,            \* tickers with an index settlement window
    LimitModes,             \* values strategy.use_limit_orders takes while running
    Prices,                 \* prices signals and quotes arrive at
    Quotes,                 \* <<yes_bid, yes_ask>> pairs the book shows
    MarkPrices,             \* marks the kill switch values positions at
    OperatorActs,           \* what the person at the dashboard does besides watching
    EntryThreshold, MinUnitCost, MaxUnitCost,
    MaxPositionPct, MaxOpenPerSeries, CooldownSec, LimitOrderTimeoutSec,
    TakeProfitPct, StopLossPct, MaxDeviation,
    SoftExits               \* sentiment-reversal and auto exits switched on

ASSUME TradingAssumption ==
    /\ Prices \subseteq Price
    /\ Quotes \subseteq Quote \X Quote
    /\ MarkPrices \subseteq Quote
    /\ OperatorActs \subseteq {"close", "correct", "purge", "reset", "halt"}
    /\ LimitModes \subseteq BOOLEAN
    /\ EntryThreshold \in Nat
    /\ MinUnitCost \in Nat /\ MaxUnitCost \in Nat
    /\ 1 <= MinUnitCost /\ MaxUnitCost < Dollar
    /\ MaxPositionPct \in 0 .. 100
    /\ CooldownSec \in Nat /\ LimitOrderTimeoutSec \in 0 .. MaxTime
    /\ MaxOpenPerSeries \in Nat
    /\ SoftExits \in BOOLEAN

VARIABLES
    use_limit_orders,       \* the live config value
    result                  \* what the exchange says of each market

vars == <<brokerVars, riskVars, use_limit_orders, result>>
envVars == <<use_limit_orders, result>>

Results == {"open", "yes", "no"}
Confidences == 0 .. EntryThreshold
Marks == [Tickers -> MarkPrices]

(***************************************************************************)
(* Entries.                                                                *)
(***************************************************************************)
tradeable(side, price) == unit_cost(side, price) \in MinUnitCost .. MaxUnitCost

_validate_entry_price(side, price, confidence) ==
    confidence >= EntryThreshold /\ tradeable(side, price)

open_position_count_in_series(t) ==
    Cardinality({u \in open_tickers : series_of[u] = series_of[t]})

\* Contracts the position cap buys; kelly_scaled_max_size only ever shrinks it.
max_contracts(side, price) ==
    max_trade_size(bankroll, MaxPositionPct) \div unit_cost(side, price)

\* Faulty forms of entry_gates: without the same-ticker gate, and without the
\* matchup gate.
entry_gates_same_ticker(t, side, price, confidence) ==
    /\ result[t] = "open"
    /\ me_complement[t] # Nothing => positions[me_complement[t]] = Nothing
    /\ _validate_entry_price(side, price, confidence)
    /\ can_trade(t, CooldownSec)

entry_gates_no_matchup(t, side, price, confidence) ==
    /\ result[t] = "open"
    /\ positions[t] = Nothing
    /\ _validate_entry_price(side, price, confidence)
    /\ can_trade(t, CooldownSec)

entry_gates(t, side, price, confidence) ==
    /\ result[t] = "open"
    /\ positions[t] = Nothing
    /\ me_complement[t] # Nothing => positions[me_complement[t]] = Nothing
    /\ _validate_entry_price(side, price, confidence)
    /\ MaxOpenPerSeries > 0 => open_position_count_in_series(t) < MaxOpenPerSeries
    /\ can_trade(t, CooldownSec)

(***************************************************************************)
(* evaluate: the kill switch is checked first, against equity at the       *)
(* caller's marks.  Gates over data outside this model (liveness of the    *)
(* game, closing window, watchlist, series win rate, edge estimate) may    *)
(* reject any signal, so a skip is always possible.                        *)
(***************************************************************************)
evaluate_skip(marks) ==
    /\ idle
    /\ check_daily_loss(equity(marks), now)
    /\ UNCHANGED <<brokerVars, envVars>>

evaluate_limit(t, side, price, confidence, size, marks) ==
    /\ idle
    /\ check_daily_loss(equity(marks), now)
    /\ halt' = "none"
    /\ entry_gates(t, side, price, confidence)
    /\ use_limit_orders
    /\ size <= max_contracts(side, price)
    /\ place_limit_order(t, side, size, price, now + LimitOrderTimeoutSec, confidence)
    /\ UNCHANGED <<jobs, envVars>>

evaluate_market(t, side, price, confidence, size, marks) ==
    /\ idle /\ room_for_entry
    /\ check_daily_loss(equity(marks), now)
    /\ halt' = "none"
    /\ entry_gates(t, side, price, confidence)
    /\ ~use_limit_orders
    /\ size <= max_contracts(side, price)
    /\ risk_admits(FALSE, side, size, price)
    /\ open_position(t, side, size, price, "taker", FALSE)
    /\ UNCHANGED <<jobs, envVars>>

(***************************************************************************)
(* evaluate_entry: no signal, no rollover, no cooldown; it does look at    *)
(* resting orders.                                                         *)
(***************************************************************************)
settlement_edge_entry(t, side, price, size) ==
    /\ idle /\ room_for_entry
    /\ t \in EdgeTickers
    /\ positions[t] = Nothing /\ pending_orders[t] = Nothing
    /\ tradeable(side, price)
    /\ size <= max_contracts(side, price)
    /\ risk_admits(halted, side, size, price)
    /\ open_position(t, side, size, price, "taker", TRUE)
    /\ UNCHANGED <<jobs, riskVars, envVars>>

(***************************************************************************)
(* check_pending_fills with validate_pending_fill: only the price and the  *)
(* confidence are checked again, and then the execution-layer risk guard.  *)
(* The edge estimate inside the price check may reject any fill.           *)
(***************************************************************************)
fill_expired(t) == idle /\ expire_order(t) /\ UNCHANGED <<riskVars, envVars>>

fill_rejected(t, q) == idle /\ reject_fill(t, q[1], q[2]) /\ UNCHANGED <<riskVars, envVars>>

fill_taken(t, q) ==
    /\ idle
    /\ take_order(t, q[1], q[2])
    /\ _validate_entry_price(pending_orders[t].side, fill_price(t, q[1], q[2]),
                             pending_orders[t].confidence)
    /\ UNCHANGED <<riskVars, envVars>>

fill_opened ==
    /\ open_filled
    /\ risk_admits(halted, filling.order.side, filling.order.size, filling.price)
    /\ UNCHANGED <<riskVars, envVars>>

fill_blocked ==
    /\ drop_filled
    /\ ~risk_admits(halted, filling.order.side, filling.order.size, filling.price)
    /\ UNCHANGED <<riskVars, envVars>>

(***************************************************************************)
(* check_exits, one open position at a time.                               *)
(***************************************************************************)
close_if_settled(t) ==
    /\ idle
    /\ positions[t] # Nothing /\ result[t] # "open"
    /\ close_position(t, IF result[t] = "yes" THEN Dollar ELSE 0)
    /\ UNCHANGED <<jobs, riskVars, envVars>>

Abs(n) == IF n < 0 THEN -n ELSE n

\* The bid an exit is priced at: the book's, or the entry price when the book
\* has none; the last REST price instead when the book's is stale or far off it.
exit_bid(t, bid, corroborated, stale) ==
    LET yes_bid == IF bid = NoQuote THEN positions[t].entry_price ELSE bid
    IN  IF corroborated # NoQuote /\ (stale \/ Abs(yes_bid - corroborated) > MaxDeviation)
        THEN corroborated ELSE yes_bid

\* The price the position would be sold at now, NoQuote to hold it.
exit_price(t, bid, ask, corroborated, stale) ==
    LET side == positions[t].side
        quote == sellable_quote(side, exit_bid(t, bid, corroborated, stale), ask, bid)
    IN  IF /\ side = "no" /\ quote # NoQuote /\ corroborated # NoQuote
           /\ Abs(quote - corroborated) > MaxDeviation
        THEN NoQuote ELSE quote

\* Some exit rule fires: take-profit, stop-loss, the runway floor (never for a
\* position held to settlement), or one of the softer rules.
exit_rule(t, price, runway_exhausted) ==
    LET pnl == mark_to_market(t, price) - positions[t].entry_fee
                  - taker_fee(positions[t].size, price)
        fires == \/ pnl * 100 >= TakeProfitPct * cost_basis(t)
                 \/ pnl * 100 <= -(StopLossPct * cost_basis(t))
                 \/ runway_exhausted /\ ~positions[t].hold_to_settlement
                 \/ SoftExits
    IN  cost_basis(t) > 0 /\ fires

\* opened_since is the caller's reading of the clock, within the second now
\* counts or at its end; a position opened since then is left alone.
managed_exit(t, q, corroborated, stale, runway_exhausted, opened_since) ==
    /\ idle
    /\ positions[t] # Nothing /\ result[t] = "open"
    /\ positions[t].opened_at < opened_since
    /\ LET price == exit_price(t, q[1], q[2], corroborated, stale)
       IN  /\ price # NoQuote
           /\ exit_rule(t, price, runway_exhausted)
           /\ close_position(t, price)
    /\ UNCHANGED <<jobs, riskVars, envVars>>

(***************************************************************************)
(* The routes: flatten-all, close-positions, reset, halt, resume, the      *)
(* Danger Zone purge, a correction, a config edit; and the exchange and    *)
(* the clock.                                                              *)
(***************************************************************************)
flatten_all == start_closing(open_tickers) /\ UNCHANGED <<riskVars, envVars>>

close_positions(chosen) == start_closing(chosen) /\ UNCHANGED <<riskVars, envVars>>

close_selected(t, q) == close_next(t, q[1], q[2]) /\ UNCHANGED <<riskVars, envVars>>

correct_close(row, price) ==
    /\ idle
    /\ correct_erroneous_close(row, price)
    /\ UNCHANGED <<riskVars, envVars>>

purge_range(before, after) ==
    /\ idle
    /\ <<before, after>> # <<Never, Never>>
    /\ clear_trade_range(before, after)
    /\ UNCHANGED <<riskVars, envVars>>

reset_broker(close_positions_first) ==
    start_reset(close_positions_first) /\ UNCHANGED <<riskVars, envVars>>

reset_broker_account == reset_account /\ UNCHANGED <<riskVars, envVars>>

reset_broker_risk ==
    /\ reset_finished
    /\ reset_day(StartingBankroll, now)
    /\ UNCHANGED envVars

halt_trading == idle /\ manual_halt /\ UNCHANGED <<brokerVars, envVars>>

resume_trading == idle /\ resume /\ UNCHANGED <<brokerVars, envVars>>

edit_config(mode) ==
    /\ idle
    /\ use_limit_orders' = mode
    /\ UNCHANGED <<brokerVars, riskVars, result>>

settle(t, outcome) ==
    /\ idle
    /\ result[t] = "open"
    /\ result' = [result EXCEPT ![t] = outcome]
    /\ UNCHANGED <<brokerVars, riskVars, use_limit_orders>>

crash_restart == restart /\ UNCHANGED <<riskVars, envVars>>

time_passes == clock_tick /\ UNCHANGED <<riskVars, envVars>>

Init ==
    /\ BrokerInit
    /\ RiskInit(StartingBankroll, 0)
    /\ use_limit_orders \in LimitModes
    /\ result = [t \in Tickers |-> "open"]

Entries ==
    \/ \E marks \in Marks : evaluate_skip(marks)
    \/ \E t \in Tickers, side \in Sides, price \in Prices, size \in Sizes :
        \/ \E confidence \in Confidences, marks \in Marks :
              \/ evaluate_limit(t, side, price, confidence, size, marks)
              \/ evaluate_market(t, side, price, confidence, size, marks)
        \/ settlement_edge_entry(t, side, price, size)

Fills ==
    \/ \E t \in Tickers :
        \/ fill_expired(t)
        \/ \E q \in Quotes : fill_rejected(t, q) \/ fill_taken(t, q)
    \/ fill_opened
    \/ fill_blocked

Exits ==
    \E t \in Tickers :
        \/ close_if_settled(t)
        \/ \E q \in Quotes, corroborated \in Prices \cup {NoQuote},
              stale, runway_exhausted \in BOOLEAN, opened_since \in {now, now + 1} :
              managed_exit(t, q, corroborated, stale, runway_exhausted, opened_since)

Routes ==
    \/ "close" \in OperatorActs /\ flatten_all
    \/ "close" \in OperatorActs /\ \E chosen \in SUBSET Tickers : close_positions(chosen)
    \/ \E t \in Tickers, q \in Quotes : close_selected(t, q)
    \/ /\ "correct" \in OperatorActs
       /\ \E row \in disk.trades, price \in Prices \cup {NoQuote} : correct_close(row, price)
    \/ /\ "purge" \in OperatorActs
       /\ \E before, after \in Time \cup {Never} : purge_range(before, after)
    \/ "reset" \in OperatorActs /\ \E first \in BOOLEAN : reset_broker(first)
    \/ reset_broker_account
    \/ reset_broker_risk
    \/ "halt" \in OperatorActs /\ halt_trading
    \/ "halt" \in OperatorActs /\ resume_trading
    \/ \E mode \in LimitModes : edit_config(mode)

Environment ==
    \/ \E t \in Tickers, outcome \in {"yes", "no"} : settle(t, outcome)
    \/ crash_restart
    \/ time_passes

Next == Entries \/ Fills \/ Exits \/ Routes \/ Environment

Spec == Init /\ [][Next]_vars

(***************************************************************************)
(* Properties.                                                             *)
(***************************************************************************)

\* Every variable has the shape the code gives it.
BookTypeOK ==
    /\ bankroll \in Int
    /\ positions \in [Tickers -> Position \cup {Nothing}]
    /\ trade_log \in SUBSET Trade
    /\ pending_orders \in [Tickers -> PendingOrder \cup {Nothing}]
    /\ disk \in Tables
    /\ db_faults \in 0 .. MaxDbFaults
    /\ next_id \in Nat
    /\ now \in Time
    /\ charged \in [Tickers -> Int]

JobTypeOK ==
    /\ filling \in [ticker : Tickers, order : PendingOrder, price : Price] \cup {Nothing}
    /\ closing \in SUBSET Tickers
    /\ resetting \in {"no", "account", "risk"}

EnvTypeOK ==
    /\ use_limit_orders \in LimitModes
    /\ result \in [Tickers -> Results]

TypeOK ==
    /\ BookTypeOK
    /\ JobTypeOK
    /\ EnvTypeOK
    /\ last_trade_time \in [Tickers -> Time \cup {Never}]
    /\ off_ledger \in Int
    /\ halt \in HaltReasons
    /\ day_start_bankroll \in Int
    /\ day_start_date \in Nat

\* While no transaction fails, the database holds the account exactly as the
\* process does, at every instant a crash can strike, between the two
\* transactions of a fill or half way through a flatten included: a restart
\* loses nothing but the handler that was running.
DiskMatchesMemory ==
    db_faults = 0 =>
        disk = tables(bankroll, positions, trade_log, pending_orders)

\* The cash is what the trade log says it is: the starting bankroll, plus what
\* every row moved, plus the corrections and purges that leave no row.
LedgerBalances ==
    bankroll = StartingBankroll + MapThenSumSet(cash_flow, trade_log) + off_ledger

\* cost_basis, from which every exit percentage and the exposure cap are
\* computed, plus the entry fee is what the position really took from the
\* bankroll when it was opened (cost_basis's docstring).
CostBasisIsCharged ==
    \A t \in open_tickers : charged[t] = cost_basis(t) + positions[t].entry_fee

\* Both sides of the account: what a position took when it was opened, and the
\* cash after any history of entries, fills, closes, corrections and purges.
MoneyAddsUp == CostBasisIsCharged /\ LedgerBalances

\* An open position is never replaced by another one on its ticker: it can
\* only be closed (the comment above evaluate's same-ticker gate).
NoSilentReplacement ==
    [][\A t \in Tickers :
          positions[t] # Nothing => positions'[t] \in {positions[t], Nothing}]_vars

\* Only a settled market pays a full dollar a contract: no quote, stale bid,
\* empty book or fallback on any exit path is ever mistaken for a payout.
NoFabricatedPayout ==
    \A row \in trade_log :
        row.kind = "close" /\ unit_cost(row.side, row.price) = Dollar
            => result[row.ticker] = row.side

\* Both halves of a two-way matchup are never held at once.
OneSidePerMatchup ==
    \A t \in open_tickers :
        me_complement[t] # Nothing => positions[me_complement[t]] = Nothing

\* While trading stays halted, by the kill switch or by hand, no path (signal,
\* resting order, settlement window) puts on a position; only a step that lifts
\* the halt, the first signal of a new day included, may come with an entry.
HaltStopsEntries ==
    [][halted /\ halted' => open_tickers' \subseteq open_tickers \/ crash_restart]_vars

\* The account in the database is one whose cash its own trade rows explain.
DiskLedgerBalances ==
    disk.bankroll = StartingBankroll + MapThenSumSet(cash_flow, disk.trades) + off_ledger
=============================================================================
