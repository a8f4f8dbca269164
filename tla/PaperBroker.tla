---------------------------- MODULE PaperBroker -----------------------------
(***************************************************************************)
(* services/paper_broker.py: the paper account.                            *)
(*                                                                         *)
(* The account lives twice, in the process (bankroll, positions,           *)
(* trade_log, last_trade_time, pending_orders) and in the four tables of   *)
(* paper_broker.db (disk).  A method changes memory first and then writes  *)
(* its own rows in one transaction; the transaction either commits or      *)
(* raises (persist), and a handler that makes several of them can be cut   *)
(* off between two.  Handlers run on one event loop, so nothing but a      *)
(* crash comes between the steps of a handler that does not await: those   *)
(* are filling, closing and resetting.                                     *)
(*                                                                         *)
(* The operations below are the methods; Trading calls them, from behind   *)
(* the gates of the code that does.                                        *)
(***************************************************************************)
EXTENDS KalshiFees, RiskManager, FiniteSetsExt

CONSTANTS
    Tickers,
    Nothing,            \* Python's None: no position, no order
    StartingBankroll,   \* config risk.starting_bankroll
    MaxContracts,       \* bound: contracts in one order
    MaxTrades,          \* bound: trade rows ever written (a close is never refused)
    MaxTime,            \* bound: the clock
    MaxDbFaults         \* bound: transactions that raise instead of committing

ASSUME BrokerAssumption ==
    /\ StartingBankroll \in Nat
    /\ MaxContracts \in Nat
    /\ MaxTrades \in Nat
    /\ MaxTime \in Nat
    /\ MaxDbFaults \in Nat

VARIABLES
    bankroll, positions, trade_log, last_trade_time, pending_orders,
    disk,               \* what paper_broker.db holds
    db_faults,          \* transactions that raised so far
    next_id,            \* supply of fresh trade ids (uuid4), anew once no row is left
    now,                \* time.time()
    filling,            \* a resting order taken off the book and not yet opened
    closing,            \* tickers a close_all_positions loop still has to close
    resetting,          \* how far POST /api/reset has come
    charged,            \* history: cash the open position took when it was opened
    off_ledger          \* history: cash moved with no trade row to show for it

memory == <<bankroll, positions, trade_log, last_trade_time, pending_orders>>
jobs == <<filling, closing, resetting>>
history == <<charged, off_ledger>>
brokerVars == <<memory, disk, db_faults, next_id, now, jobs, history>>

Never == -1
Time == 0 .. MaxTime
Sizes == 1 .. MaxContracts

Position == [side : Sides, size : Int, entry_price : Price, entry_fee : Int,
             opened_at : Time, hold_to_settlement : BOOLEAN]
PendingOrder == [side : Sides, size : Sizes, limit_price : Price,
                 expires_at : Nat, confidence : Nat]
Trade == [id : Nat, ticker : Tickers, kind : {"entry", "close"},
          side : Sides, size : Int, price : Price, fee : Int,
          timestamp : Time, excluded : BOOLEAN]

Tables == [bankroll : Int, positions : [Tickers -> Position \cup {Nothing}],
           trades : SUBSET Trade,
           pending_orders : [Tickers -> PendingOrder \cup {Nothing}]]

ASSUME NothingAssumption ==
    /\ Nothing \notin Position
    /\ Nothing \notin PendingOrder

idle == filling = Nothing /\ closing = {} /\ resetting = "no"
open_tickers == {t \in Tickers : positions[t] # Nothing}

\* The bound on trade rows is met by refusing entries, so that every open
\* position keeps room for the row that closes it.
room_for_entry == next_id + Cardinality(open_tickers) + 2 <= MaxTrades

cost_basis(t) ==
    IF positions[t] = Nothing THEN 0
    ELSE positions[t].size * unit_cost(positions[t].side, positions[t].entry_price)

mark_to_market(t, price) ==
    IF positions[t] = Nothing THEN 0
    ELSE (IF positions[t].side = "yes" THEN 1 ELSE -1)
            * (price - positions[t].entry_price) * positions[t].size

exposure == MapThenSumSet(cost_basis, open_tickers)

\* equity() under the marks the caller has; a ticker with no mark is worth its cost.
equity(marks) ==
    LET value(t) == cost_basis(t)
            + mark_to_market(t, IF marks[t] = NoQuote
                                THEN positions[t].entry_price ELSE marks[t])
    IN  bankroll + MapThenSumSet(value, open_tickers)

can_trade(t, cooldown_sec) ==
    last_trade_time[t] = Never \/ now - last_trade_time[t] >= cooldown_sec

(***************************************************************************)
(* One transaction: its rows reach the disk, or it raises and the handler  *)
(* is abandoned with memory already changed.                               *)
(***************************************************************************)
tables(cash, held, rows, orders) ==
    [bankroll |-> cash, positions |-> held, trades |-> rows, pending_orders |-> orders]

committed == db_faults' = db_faults

persist(rows) ==
    \/ disk' = rows /\ committed
    \/ disk' = disk /\ db_faults < MaxDbFaults /\ db_faults' = db_faults + 1

\* Faulty form of entry_cost: the YES price whatever the side.
entry_cost_yes_priced(side, size, price) ==
    IF size * price <= bankroll THEN size * price ELSE bankroll

(***************************************************************************)
(* open_position.  The cost is clamped to the cash at hand and the size    *)
(* recomputed from it, but what is charged is the clamped cost and not the *)
(* cost of that size.                                                      *)
(***************************************************************************)
entry_cost(side, size, price) ==
    LET full == size * unit_cost(side, price)
    IN  IF full <= bankroll THEN full ELSE bankroll

entry_size(side, size, price) ==
    IF unit_cost(side, price) > 0
    THEN TruncDiv(entry_cost(side, size, price), unit_cost(side, price))
    ELSE 0

\* Faulty form of risk_admits: the halt is not looked at.
risk_admits_halted(is_halted, side, size, price) ==
    check_total_exposure(exposure, entry_cost(side, size, price), bankroll)

\* The execution-layer guard in front of every entry.
risk_admits(is_halted, side, size, price) ==
    /\ ~is_halted
    /\ check_total_exposure(exposure, entry_cost(side, size, price), bankroll)

book_entry(t, cost, position) ==
    LET trade == [id |-> next_id, ticker |-> t, kind |-> "entry", side |-> position.side,
                  size |-> position.size, price |-> position.entry_price,
                  fee |-> position.entry_fee, timestamp |-> now, excluded |-> FALSE]
    IN  /\ bankroll' = bankroll - (cost + position.entry_fee)
        /\ positions' = [positions EXCEPT ![t] = position]
        /\ trade_log' = trade_log \cup {trade}
        /\ last_trade_time' = [last_trade_time EXCEPT ![t] = now]
        /\ persist(tables(bankroll', [disk.positions EXCEPT ![t] = position],
                          disk.trades \cup {trade}, disk.pending_orders))
        /\ charged' = [charged EXCEPT ![t] = cost + position.entry_fee]
        /\ next_id' = next_id + 1
        /\ UNCHANGED <<pending_orders, now, off_ledger>>

open_position(t, side, size, price, fee_fn, hold) ==
    LET actual_size == entry_size(side, size, price)
    IN  book_entry(t, entry_cost(side, size, price),
            [side |-> side, size |-> actual_size, entry_price |-> price,
             entry_fee |-> fee_of(fee_fn, actual_size, price), opened_at |-> now,
             hold_to_settlement |-> hold])

place_limit_order(t, side, size, limit_price, expires_at, confidence) ==
    LET order == [side |-> side, size |-> size, limit_price |-> limit_price,
                  expires_at |-> expires_at, confidence |-> confidence]
    IN  /\ pending_orders[t] = Nothing /\ size > 0
        /\ pending_orders' = [pending_orders EXCEPT ![t] = order]
        /\ persist(tables(disk.bankroll, disk.positions, disk.trades,
                          [disk.pending_orders EXCEPT ![t] = order]))
        /\ UNCHANGED <<bankroll, positions, trade_log, last_trade_time, next_id, now, history>>

\* Faulty form of _cancel_pending: the row is not deleted.
_cancel_pending_memory_only(t) ==
    /\ pending_orders' = [pending_orders EXCEPT ![t] = Nothing]
    /\ persist(disk)
    /\ UNCHANGED <<bankroll, positions, trade_log, last_trade_time, next_id, now, history>>

_cancel_pending(t) ==
    /\ pending_orders' = [pending_orders EXCEPT ![t] = Nothing]
    /\ persist(tables(disk.bankroll, disk.positions, disk.trades,
                      [disk.pending_orders EXCEPT ![t] = Nothing]))
    /\ UNCHANGED <<bankroll, positions, trade_log, last_trade_time, next_id, now, history>>

(***************************************************************************)
(* check_pending_fills, one resting order at a time: the iterations touch  *)
(* different orders and each commits on its own.  fill_price is what the   *)
(* order would trade at now (NoQuote when this tick has no quote for it,   *)
(* which leaves the order alone).  A filled order is cancelled in one      *)
(* transaction and opened in the next.                                     *)
(***************************************************************************)
fill_price(t, bid, ask) == IF pending_orders[t].side = "yes" THEN ask ELSE bid

reached_limit(t, price) ==
    /\ price # NoQuote
    /\ unit_cost(pending_orders[t].side, price)
          <= unit_cost(pending_orders[t].side, pending_orders[t].limit_price)

expire_order(t) ==
    /\ pending_orders[t] # Nothing
    /\ now >= pending_orders[t].expires_at
    /\ _cancel_pending(t)
    /\ UNCHANGED jobs

reject_fill(t, bid, ask) ==
    /\ pending_orders[t] # Nothing
    /\ now < pending_orders[t].expires_at
    /\ reached_limit(t, fill_price(t, bid, ask))
    /\ _cancel_pending(t)
    /\ UNCHANGED jobs

take_order(t, bid, ask) ==
    /\ pending_orders[t] # Nothing
    /\ now < pending_orders[t].expires_at
    /\ reached_limit(t, fill_price(t, bid, ask))
    /\ room_for_entry
    /\ _cancel_pending(t)
    /\ filling' = IF committed
                  THEN [ticker |-> t, order |-> pending_orders[t],
                        price |-> fill_price(t, bid, ask)]
                  ELSE Nothing
    /\ UNCHANGED <<closing, resetting>>

open_filled ==
    /\ filling # Nothing
    /\ open_position(filling.ticker, filling.order.side, filling.order.size,
                     filling.price, "maker", FALSE)
    /\ filling' = Nothing
    /\ UNCHANGED <<closing, resetting>>

drop_filled ==
    /\ filling # Nothing
    /\ filling' = Nothing
    /\ UNCHANGED <<memory, disk, db_faults, next_id, now, closing, resetting, history>>

(***************************************************************************)
(* close_position.  last_trade_time is left alone.                         *)
(***************************************************************************)
close_position(t, exit_price) ==
    LET pos == positions[t]
        fee == taker_fee(pos.size, exit_price)
        trade == [id |-> next_id, ticker |-> t, kind |-> "close", side |-> pos.side,
                  size |-> pos.size, price |-> exit_price, fee |-> fee,
                  timestamp |-> now, excluded |-> FALSE]
    IN  /\ positions[t] # Nothing
        /\ bankroll' = bankroll + (pos.size * unit_cost(pos.side, exit_price) - fee)
        /\ trade_log' = trade_log \cup {trade}
        /\ positions' = [positions EXCEPT ![t] = Nothing]
        /\ persist(tables(bankroll', [disk.positions EXCEPT ![t] = Nothing],
                          disk.trades \cup {trade}, disk.pending_orders))
        /\ charged' = [charged EXCEPT ![t] = 0]
        /\ next_id' = next_id + 1
        /\ UNCHANGED <<last_trade_time, pending_orders, now, off_ledger>>

(***************************************************************************)
(* The forced-close loop of flatten-all, close-positions and a reset that  *)
(* closes first: a snapshot of tickers, closed one by one at the forced    *)
(* exit quote.                                                             *)
(***************************************************************************)
start_closing(chosen) ==
    /\ idle
    /\ chosen # {} /\ chosen \subseteq open_tickers
    /\ closing' = chosen
    /\ UNCHANGED <<memory, disk, db_faults, next_id, now, filling, resetting, history>>

close_next(t, bid, ask) ==
    /\ t \in closing
    /\ close_position(t, forced_exit_quote(positions[t].side,
                            IF bid = NoQuote THEN positions[t].entry_price ELSE bid,
                            ask, positions[t].entry_price))
    /\ closing' = IF committed THEN closing \ {t} ELSE {}
    /\ resetting' = IF committed THEN resetting ELSE "no"
    /\ UNCHANGED filling

\* UPDATE trades SET excluded = 1 WHERE id = ?, and its in-memory twin.
exclude(id, rows) ==
    {[r EXCEPT !.excluded = @ \/ r.id = id] : r \in rows}

\* Faulty form of correct_erroneous_close: a row already corrected is taken again.
correct_erroneous_close_again(row, corrected_price) ==
    LET paid == row.size * unit_cost(row.side, row.price) - row.fee
        credit == IF corrected_price = NoQuote THEN 0
                  ELSE row.size * unit_cost(row.side, corrected_price)
                          - taker_fee(row.size, corrected_price)
    IN  /\ row \in disk.trades /\ row.kind = "close"
        /\ bankroll' = bankroll - paid + credit
        /\ trade_log' = exclude(row.id, trade_log)
        /\ persist(tables(bankroll', disk.positions, exclude(row.id, disk.trades),
                          disk.pending_orders))
        /\ off_ledger' = off_ledger + credit
        /\ UNCHANGED <<positions, last_trade_time, pending_orders, next_id, now, charged, jobs>>

(***************************************************************************)
(* correct_erroneous_close: reverse what a closing row paid, credit what a *)
(* corrected price pays instead (NoQuote: nothing), mark the row.  It      *)
(* reads the row from the database and writes the database first.          *)
(***************************************************************************)
correct_erroneous_close(row, corrected_price) ==
    LET paid == row.size * unit_cost(row.side, row.price) - row.fee
        credit == IF corrected_price = NoQuote THEN 0
                  ELSE row.size * unit_cost(row.side, corrected_price)
                          - taker_fee(row.size, corrected_price)
    IN  /\ row \in disk.trades
        /\ row.kind = "close" /\ ~row.excluded
        /\ bankroll' = bankroll - paid + credit
        /\ persist(tables(bankroll', disk.positions, exclude(row.id, disk.trades),
                          disk.pending_orders))
        /\ trade_log' = IF committed THEN exclude(row.id, trade_log) ELSE trade_log
        /\ off_ledger' = off_ledger + credit
        /\ UNCHANGED <<positions, last_trade_time, pending_orders, next_id, now, charged, jobs>>

(***************************************************************************)
(* clear_trade_range: rows with after < timestamp <= before leave the      *)
(* database and then the log.  Never as either end leaves it open.         *)
(***************************************************************************)
in_range(row, before, after) ==
    /\ after = Never \/ row.timestamp > after
    /\ before = Never \/ row.timestamp <= before

cash_flow(row) ==
    CASE row.kind = "entry" -> -(row.size * unit_cost(row.side, row.price) + row.fee)
      [] row.kind = "close" /\ ~row.excluded ->
            row.size * unit_cost(row.side, row.price) - row.fee
      [] OTHER -> 0

clear_trade_range(before, after) ==
    LET purged == {r \in trade_log : in_range(r, before, after)}
    IN  /\ persist(tables(disk.bankroll, disk.positions,
                          {r \in disk.trades : ~in_range(r, before, after)},
                          disk.pending_orders))
        /\ trade_log' = IF committed THEN trade_log \ purged ELSE trade_log
        /\ off_ledger' = IF committed THEN off_ledger + MapThenSumSet(cash_flow, purged)
                         ELSE off_ledger
        /\ UNCHANGED <<bankroll, positions, last_trade_time, pending_orders, next_id,
                       now, charged, jobs>>

reset(starting_bankroll) ==
    /\ bankroll' = starting_bankroll
    /\ positions' = [t \in Tickers |-> Nothing]
    /\ trade_log' = {}
    /\ last_trade_time' = [t \in Tickers |-> Never]
    /\ pending_orders' = [t \in Tickers |-> Nothing]
    /\ persist(tables(starting_bankroll, positions', {}, pending_orders'))
    /\ charged' = [t \in Tickers |-> 0]
    /\ off_ledger' = 0
    /\ next_id' = IF committed THEN 0 ELSE next_id
    /\ UNCHANGED now

(***************************************************************************)
(* POST /api/reset for the paper account: close first if asked, wipe the   *)
(* account, then (reset_day, in Trading) the risk baseline in its own      *)
(* database.                                                               *)
(***************************************************************************)
start_reset(close_positions_first) ==
    /\ idle
    /\ resetting' = "account"
    /\ closing' = IF close_positions_first THEN open_tickers ELSE {}
    /\ UNCHANGED <<memory, disk, db_faults, next_id, now, filling, history>>

reset_account ==
    /\ resetting = "account" /\ closing = {}
    /\ reset(StartingBankroll)
    /\ resetting' = IF committed THEN "risk" ELSE "no"
    /\ UNCHANGED <<filling, closing>>

reset_finished ==
    /\ resetting = "risk"
    /\ resetting' = "no"
    /\ UNCHANGED <<memory, disk, db_faults, next_id, now, filling, closing, history>>

(***************************************************************************)
(* The process dies and comes back: PaperBroker.__init__ rebuilds memory   *)
(* from the tables.  The cooldown clock is rebuilt from every trade row,   *)
(* the closing ones included.                                              *)
(***************************************************************************)
latest_trade(t, rows) ==
    LET times == {r.timestamp : r \in {q \in rows : q.ticker = t}}
    IN  IF times = {} THEN Never ELSE Max(times)

restart ==
    /\ bankroll' = disk.bankroll
    /\ positions' = disk.positions
    /\ trade_log' = disk.trades
    /\ last_trade_time' = [t \in Tickers |-> latest_trade(t, disk.trades)]
    /\ pending_orders' = disk.pending_orders
    /\ filling' = Nothing /\ closing' = {} /\ resetting' = "no"
    /\ UNCHANGED <<disk, db_faults, next_id, now, history>>

clock_tick ==
    /\ idle
    /\ now < MaxTime
    /\ now' = now + 1
    /\ UNCHANGED <<memory, disk, db_faults, next_id, jobs, history>>

BrokerInit ==
    /\ bankroll = StartingBankroll
    /\ positions = [t \in Tickers |-> Nothing]
    /\ trade_log = {}
    /\ last_trade_time = [t \in Tickers |-> Never]
    /\ pending_orders = [t \in Tickers |-> Nothing]
    /\ disk = tables(StartingBankroll, positions, {}, pending_orders)
    /\ db_faults = 0 /\ next_id = 0 /\ now = 0
    /\ filling = Nothing /\ closing = {} /\ resetting = "no"
    /\ charged = [t \in Tickers |-> 0]
    /\ off_ledger = 0
=============================================================================
