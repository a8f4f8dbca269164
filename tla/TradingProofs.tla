--------------------------- MODULE TradingProofs ----------------------------
(***************************************************************************)
(* Proofs about Trading.                                                   *)
(***************************************************************************)
EXTENDS Trading, FiniteSetTheorems, WellFoundedInduction, TLAPS

\* What one contract costs, on either side, is again a price on the grid.
LEMMA UnitCostType ==
    ASSUME NEW side \in Sides, NEW price \in Price
    PROVE  unit_cost(side, price) \in Price /\ unit_cost(side, price) \in Int
BY FeeAssumption DEF unit_cost, Sides, Price

\* Both fee schedules yield a whole number of ticks.
LEMMA FeeType ==
    ASSUME NEW n \in Int, NEW price \in Price
    PROVE  taker_fee(n, price) \in Int /\ maker_fee(n, price) \in Int
<1>1. ASSUME NEW rate \in Nat PROVE fee_at(rate, n, price) \in Int
  <2>1. RateScale * Dollar \in Int
    BY FeeAssumption
  <2>2. rate * n * price * (Dollar - price) \in Int
    BY FeeAssumption DEF Price
  <2>3. RateScale * Dollar > 0
    BY FeeAssumption
  <2> QED BY <2>1, <2>2, <2>3 DEF fee_at, CeilDiv
<1> QED BY <1>1, FeeAssumption DEF taker_fee, maker_fee

\* The clamped cost of an entry and the contracts recomputed from it are integers.
LEMMA EntryTypes ==
    ASSUME bankroll \in Int, NEW side \in Sides, NEW size \in Sizes, NEW price \in Price
    PROVE  entry_cost(side, size, price) \in Int /\ entry_size(side, size, price) \in Int
<1>1. entry_cost(side, size, price) \in Int
  BY UnitCostType, BrokerAssumption DEF entry_cost, Sizes
<1>2. entry_size(side, size, price) \in Int
  BY <1>1, UnitCostType DEF entry_size, TruncDiv
<1> QED BY <1>1, <1>2

\* Marking a row excluded leaves every row a trade row.
LEMMA ExcludeType ==
    ASSUME NEW rows \in SUBSET Trade, NEW id
    PROVE  exclude(id, rows) \in SUBSET Trade
BY DEF exclude, Trade

\* Tables built from well-formed parts are well formed, and hold those parts.
LEMMA TablesType ==
    ASSUME NEW cash \in Int, NEW held \in [Tickers -> Position \cup {Nothing}],
           NEW rows \in SUBSET Trade, NEW orders \in [Tickers -> PendingOrder \cup {Nothing}]
    PROVE  /\ tables(cash, held, rows, orders) \in Tables
           /\ tables(cash, held, rows, orders).bankroll = cash
           /\ tables(cash, held, rows, orders).positions = held
           /\ tables(cash, held, rows, orders).trades = rows
           /\ tables(cash, held, rows, orders).pending_orders = orders
BY DEF tables, Tables

\* A transaction that commits leaves its rows on disk; one that raises counts.
LEMMA Persisted ==
    ASSUME disk \in Tables, db_faults \in 0 .. MaxDbFaults, NEW rows \in Tables, persist(rows)
    PROVE  /\ disk' \in Tables
           /\ db_faults' \in 0 .. MaxDbFaults
           /\ db_faults' = 0 => db_faults = 0 /\ disk' = rows
BY BrokerAssumption DEF persist, committed

BookOK == BookTypeOK /\ DiskMatchesMemory

\* What the tables hold is well formed, and is the memory while nothing failed.
LEMMA DiskAsMemory ==
    ASSUME BookOK
    PROVE  /\ disk.bankroll \in Int
           /\ disk.positions \in [Tickers -> Position \cup {Nothing}]
           /\ disk.trades \in SUBSET Trade
           /\ disk.pending_orders \in [Tickers -> PendingOrder \cup {Nothing}]
           /\ db_faults = 0 => /\ disk.bankroll = bankroll /\ disk.positions = positions
                               /\ disk.trades = trade_log
                               /\ disk.pending_orders = pending_orders
<1>1. db_faults = 0 => disk = tables(bankroll, positions, trade_log, pending_orders)
  BY DEF BookOK, DiskMatchesMemory
<1> QED BY <1>1 DEF BookOK, BookTypeOK, Tables, tables

\* One transaction carries the memory it was written from to the disk.
LEMMA WriteKeepsBook ==
    ASSUME BookOK,
           bankroll' \in Int, positions' \in [Tickers -> Position \cup {Nothing}],
           trade_log' \in SUBSET Trade,
           pending_orders' \in [Tickers -> PendingOrder \cup {Nothing}],
           next_id' \in Nat, now' \in Time, charged' \in [Tickers -> Int],
           NEW cash \in Int, NEW held \in [Tickers -> Position \cup {Nothing}],
           NEW rows \in SUBSET Trade, NEW orders \in [Tickers -> PendingOrder \cup {Nothing}],
           persist(tables(cash, held, rows, orders)),
           db_faults = 0 /\ db_faults' = 0 =>
               /\ cash = bankroll' /\ held = positions'
               /\ rows = trade_log' /\ orders = pending_orders'
    PROVE  BookOK'
<1>1. tables(cash, held, rows, orders) \in Tables
  BY TablesType
<1>2. /\ disk' \in Tables
      /\ db_faults' \in 0 .. MaxDbFaults
      /\ db_faults' = 0 => db_faults = 0 /\ disk' = tables(cash, held, rows, orders)
  BY <1>1, Persisted DEF BookOK, BookTypeOK
<1> QED BY <1>2 DEF BookOK, BookTypeOK, DiskMatchesMemory

\* Booking an entry (open_position from the debit on) changes memory and its own
\* rows alike.
LEMMA BookEntryKeepsBook ==
    ASSUME BookOK, NEW t \in Tickers, NEW cost \in Int, NEW position \in Position,
           book_entry(t, cost, position)
    PROVE  BookOK'
<1> DEFINE trade == [id |-> next_id, ticker |-> t, kind |-> "entry", side |-> position.side,
                     size |-> position.size, price |-> position.entry_price,
                     fee |-> position.entry_fee, timestamp |-> now, excluded |-> FALSE]
<1>1. trade \in Trade
  BY DEF BookOK, BookTypeOK, Trade, Position
<1>2. bankroll' \in Int /\ positions' \in [Tickers -> Position \cup {Nothing}]
  BY DEF BookOK, BookTypeOK, book_entry, Position
<1>3. trade_log' \in SUBSET Trade /\ disk.trades \cup {trade} \in SUBSET Trade
  BY <1>1, DiskAsMemory DEF BookOK, BookTypeOK, book_entry
<1>4. [disk.positions EXCEPT ![t] = position] \in [Tickers -> Position \cup {Nothing}]
  BY DiskAsMemory
<1>5. /\ next_id' \in Nat /\ now' \in Time /\ charged' \in [Tickers -> Int]
      /\ pending_orders' = pending_orders
  BY DEF BookOK, BookTypeOK, book_entry, Position
<1> QED
  BY <1>2, <1>3, <1>4, <1>5, WriteKeepsBook, DiskAsMemory
     DEF book_entry, BookOK, BookTypeOK

\* open_position, with either fee schedule, keeps the account well formed and stored.
LEMMA OpenPositionKeepsBook ==
    ASSUME BookOK, NEW t \in Tickers, NEW side \in Sides, NEW size \in Sizes,
           NEW price \in Price, NEW hold \in BOOLEAN, NEW fee_fn \in Schedules,
           open_position(t, side, size, price, fee_fn, hold)
    PROVE  BookOK'
<1> DEFINE actual_size == entry_size(side, size, price)
           position(fee) == [side |-> side, size |-> actual_size, entry_price |-> price,
                             entry_fee |-> fee, opened_at |-> now,
                             hold_to_settlement |-> hold]
<1>1. entry_cost(side, size, price) \in Int /\ actual_size \in Int
  BY EntryTypes DEF BookOK, BookTypeOK
<1>2. \A fee \in Int : position(fee) \in Position
  BY <1>1 DEF BookOK, BookTypeOK, Position
<1>3. PICK fee \in Int : book_entry(t, entry_cost(side, size, price), position(fee))
  BY <1>1, FeeType DEF open_position, fee_of
<1> QED BY <1>1, <1>2, <1>3, BookEntryKeepsBook

\* place_limit_order writes the row it adds to the book.
LEMMA PlaceOrderKeepsBook ==
    ASSUME BookOK, NEW t \in Tickers, NEW side \in Sides, NEW size \in Sizes,
           NEW price \in Price, NEW expires_at \in Nat, NEW confidence \in Nat,
           place_limit_order(t, side, size, price, expires_at, confidence)
    PROVE  BookOK'
<1> DEFINE order == [side |-> side, size |-> size, limit_price |-> price,
                     expires_at |-> expires_at, confidence |-> confidence]
<1>1. order \in PendingOrder
  BY DEF PendingOrder
<1>2. pending_orders' \in [Tickers -> PendingOrder \cup {Nothing}]
  BY <1>1 DEF BookOK, BookTypeOK, place_limit_order
<1>3. [disk.pending_orders EXCEPT ![t] = order] \in [Tickers -> PendingOrder \cup {Nothing}]
  BY <1>1, DiskAsMemory
<1> QED
  BY <1>2, <1>3, WriteKeepsBook, DiskAsMemory
     DEF place_limit_order, BookOK, BookTypeOK, history

\* _cancel_pending deletes the row it takes off the book.
LEMMA CancelKeepsBook ==
    ASSUME BookOK, NEW t \in Tickers, _cancel_pending(t)
    PROVE  BookOK'
<1>1. pending_orders' \in [Tickers -> PendingOrder \cup {Nothing}]
  BY DEF BookOK, BookTypeOK, _cancel_pending
<1>2. [disk.pending_orders EXCEPT ![t] = Nothing] \in [Tickers -> PendingOrder \cup {Nothing}]
  BY DiskAsMemory
<1> QED
  BY <1>1, <1>2, WriteKeepsBook, DiskAsMemory
     DEF _cancel_pending, BookOK, BookTypeOK, history

\* close_position deletes the position row and inserts the closing row it logs.
LEMMA ClosePositionKeepsBook ==
    ASSUME BookOK, NEW t \in Tickers, NEW price \in Price, close_position(t, price)
    PROVE  BookOK'
<1> DEFINE pos == positions[t]
           fee == taker_fee(pos.size, price)
           trade == [id |-> next_id, ticker |-> t, kind |-> "close", side |-> pos.side,
                     size |-> pos.size, price |-> price, fee |-> fee,
                     timestamp |-> now, excluded |-> FALSE]
<1>1. pos \in Position
  BY DEF BookOK, BookTypeOK, close_position
<1>2. pos.side \in Sides /\ pos.size \in Int
  BY <1>1 DEF Position
<1>3. fee \in Int /\ unit_cost(pos.side, price) \in Int
  BY <1>2, FeeType, UnitCostType
<1>4. trade \in Trade
  BY <1>2, <1>3 DEF BookOK, BookTypeOK, Trade
<1>5. bankroll' \in Int
  BY <1>2, <1>3 DEF BookOK, BookTypeOK, close_position
<1>6. positions' \in [Tickers -> Position \cup {Nothing}]
  BY DEF BookOK, BookTypeOK, close_position
<1>7. trade_log' \in SUBSET Trade /\ disk.trades \cup {trade} \in SUBSET Trade
  BY <1>4, DiskAsMemory DEF BookOK, BookTypeOK, close_position
<1>8. [disk.positions EXCEPT ![t] = Nothing] \in [Tickers -> Position \cup {Nothing}]
  BY DiskAsMemory
<1>9. /\ next_id' \in Nat /\ now' \in Time /\ charged' \in [Tickers -> Int]
      /\ pending_orders' = pending_orders
  BY DEF BookOK, BookTypeOK, close_position
<1> QED
  BY <1>5, <1>6, <1>7, <1>8, <1>9, WriteKeepsBook, DiskAsMemory
     DEF close_position, BookOK, BookTypeOK

\* correct_erroneous_close, which writes the database first, keeps memory in step.
LEMMA CorrectionKeepsBook ==
    ASSUME BookOK, NEW row \in disk.trades, NEW price \in Quote,
           correct_erroneous_close(row, price)
    PROVE  BookOK'
<1>1. row \in Trade
  BY DiskAsMemory
<1>2. row.size \in Int /\ row.side \in Sides /\ row.price \in Price /\ row.fee \in Int
  BY <1>1 DEF Trade
<1>3. bankroll' \in Int
  <2>1. unit_cost(row.side, row.price) \in Int
    BY <1>2, UnitCostType
  <2>2. price # NoQuote => price \in Price
    BY DEF Quote
  <2>3. price # NoQuote => unit_cost(row.side, price) \in Int /\ taker_fee(row.size, price) \in Int
    BY <1>2, <2>2, UnitCostType, FeeType
  <2> QED BY <1>2, <2>1, <2>3 DEF correct_erroneous_close, BookOK, BookTypeOK
<1>4. exclude(row.id, trade_log) \in SUBSET Trade /\ exclude(row.id, disk.trades) \in SUBSET Trade
  BY ExcludeType, DiskAsMemory DEF BookOK, BookTypeOK
<1>5. trade_log' \in SUBSET Trade
  BY <1>4 DEF correct_erroneous_close, BookOK, BookTypeOK
<1>6. UNCHANGED <<positions, pending_orders, next_id, now, charged>>
  BY DEF correct_erroneous_close
<1>7. db_faults = 0 /\ db_faults' = 0 => exclude(row.id, disk.trades) = trade_log'
  BY DiskAsMemory DEF correct_erroneous_close, committed
<1> QED
  BY <1>3, <1>4, <1>5, <1>6, <1>7, WriteKeepsBook, DiskAsMemory
     DEF correct_erroneous_close, BookOK, BookTypeOK

\* clear_trade_range removes the same rows from the log and from the table.
LEMMA PurgeKeepsBook ==
    ASSUME BookOK, NEW before, NEW after, clear_trade_range(before, after)
    PROVE  BookOK'
<1> DEFINE kept == {r \in disk.trades : ~in_range(r, before, after)}
<1>1. kept \in SUBSET Trade
  BY DiskAsMemory
<1>2. trade_log' = IF committed THEN trade_log \ {r \in trade_log : in_range(r, before, after)}
                   ELSE trade_log
  BY DEF clear_trade_range
<1>3. trade_log' \in SUBSET Trade
  BY <1>2 DEF BookOK, BookTypeOK
<1>4. db_faults = 0 /\ db_faults' = 0 => kept = trade_log'
  BY <1>2, DiskAsMemory DEF committed
<1>5. UNCHANGED <<bankroll, positions, pending_orders, next_id, now, charged>>
  BY DEF clear_trade_range
<1> QED
  BY <1>1, <1>3, <1>4, <1>5, WriteKeepsBook, DiskAsMemory
     DEF clear_trade_range, BookOK, BookTypeOK

\* reset empties memory and the four tables alike.
LEMMA ResetKeepsBook ==
    ASSUME BookOK, reset(StartingBankroll)
    PROVE  BookOK'
<1>1. StartingBankroll \in Int
  BY BrokerAssumption
<1>2. /\ positions' \in [Tickers -> Position \cup {Nothing}]
      /\ pending_orders' \in [Tickers -> PendingOrder \cup {Nothing}]
      /\ charged' \in [Tickers -> Int]
  BY DEF reset
<1>3. next_id' \in Nat /\ now' \in Time /\ trade_log' = {} /\ bankroll' = StartingBankroll
  BY DEF reset, BookOK, BookTypeOK
<1> QED BY <1>1, <1>2, <1>3, WriteKeepsBook DEF reset

\* A restart reads memory back from the tables.
LEMMA RestartKeepsBook ==
    ASSUME BookOK, restart
    PROVE  BookOK'
<1>1. /\ bankroll' = disk.bankroll /\ positions' = disk.positions
      /\ trade_log' = disk.trades /\ pending_orders' = disk.pending_orders
      /\ UNCHANGED <<disk, db_faults, next_id, now, charged>>
  BY DEF restart, history
<1>2. BookTypeOK'
  BY <1>1, DiskAsMemory DEF BookOK, BookTypeOK
<1>3. DiskMatchesMemory'
  BY <1>1, DiskAsMemory DEF BookOK, DiskMatchesMemory
<1> QED BY <1>2, <1>3 DEF BookOK

\* A step that touches neither the account nor the tables keeps the invariant.
LEMMA IdleKeepsBook ==
    ASSUME BookOK,
           UNCHANGED <<bankroll, positions, trade_log, pending_orders, disk, db_faults,
                       next_id, charged>>,
           now' \in Time
    PROVE  BookOK'
BY DEF BookOK, BookTypeOK, DiskMatchesMemory

(***************************************************************************)
(* Prices.  A managed exit sells strictly inside the book's range; a       *)
(* forced one may sell for nothing, but for a whole dollar only if the     *)
(* entry price it falls back on was one.                                   *)
(***************************************************************************)
\* The two halves of a book quote are quotes.
LEMMA QuoteParts ==
    ASSUME NEW q \in Quotes
    PROVE  q[1] \in Quote /\ q[2] \in Quote
BY TradingAssumption

\* A managed exit never sells at a terminal price.
LEMMA ExitPriceInside ==
    ASSUME BookOK, NEW t \in Tickers, positions[t] # Nothing, NEW bid \in Quote,
           NEW ask \in Quote, NEW corroborated \in Prices \cup {NoQuote},
           NEW stale \in BOOLEAN, exit_price(t, bid, ask, corroborated, stale) # NoQuote
    PROVE  exit_price(t, bid, ask, corroborated, stale) \in 1 .. Dollar - 1
BY FeeAssumption DEF exit_price, sellable_quote, NoQuote

\* A price strictly inside the range costs less than a dollar on either side.
LEMMA InsideIsBelowPar ==
    ASSUME NEW side \in Sides, NEW price \in 1 .. Dollar - 1
    PROVE  price \in Price /\ unit_cost(side, price) # Dollar
BY FeeAssumption DEF unit_cost, Price

\* A forced exit sells at a price of the grid, and for a whole dollar only when its
\* fallback is one.
LEMMA ForcedQuote ==
    ASSUME NEW side \in Sides, NEW bid \in Price, NEW ask \in Quote, NEW fallback \in Price
    PROVE  /\ forced_exit_quote(side, bid, ask, fallback) \in Price
           /\ unit_cost(side, fallback) # Dollar
                => unit_cost(side, forced_exit_quote(side, bid, ask, fallback)) # Dollar
<1>1. CASE side = "yes"
  <2>1. forced_exit_quote(side, bid, ask, fallback) = IF bid \in {NoQuote, Dollar} THEN fallback ELSE bid
    BY <1>1 DEF forced_exit_quote
  <2> QED BY <1>1, <2>1 DEF unit_cost
<1>2. CASE side = "no"
  <2>1. CASE ask = Dollar
    <3>1. forced_exit_quote(side, bid, ask, fallback) = Dollar
      BY <1>2, <2>1 DEF forced_exit_quote
    <3> QED BY <1>2, <3>1, FeeAssumption DEF unit_cost, Price
  <2>2. CASE ask # Dollar
    <3>1. forced_exit_quote(side, bid, ask, fallback) =
            IF ask \in {NoQuote, 0} \/ (bid # NoQuote /\ ask < bid) THEN fallback ELSE ask
      BY <1>2, <2>2 DEF forced_exit_quote
    <3> QED BY <1>2, <3>1, FeeAssumption DEF unit_cost, Price, Quote
  <2> QED BY <2>1, <2>2
<1> QED BY <1>1, <1>2 DEF Sides

(***************************************************************************)
(* The database mirrors the account.                                       *)
(***************************************************************************)
StoreInv == BookOK /\ JobTypeOK /\ EnvTypeOK

\* The empty account is stored.
LEMMA StoreInit == Init => StoreInv
<1> SUFFICES ASSUME Init PROVE StoreInv
  OBVIOUS
<1>1. BookTypeOK
  <2>1. StartingBankroll \in Int /\ 0 \in Time /\ 0 \in 0 .. MaxDbFaults
    BY BrokerAssumption DEF Time
  <2>2. /\ [t \in Tickers |-> Nothing] \in [Tickers -> Position \cup {Nothing}]
        /\ [t \in Tickers |-> Nothing] \in [Tickers -> PendingOrder \cup {Nothing}]
    OBVIOUS
  <2>3. disk \in Tables
    BY <2>1, <2>2, TablesType DEF Init, BrokerInit
  <2> QED BY <2>1, <2>2, <2>3 DEF Init, BrokerInit, BookTypeOK
<1>2. DiskMatchesMemory
  BY DEF Init, BrokerInit, DiskMatchesMemory
<1>3. JobTypeOK /\ EnvTypeOK
  BY DEF Init, BrokerInit, JobTypeOK, EnvTypeOK, Results
<1> QED BY <1>1, <1>2, <1>3 DEF StoreInv, BookOK

\* Signals and settlement-window entries keep the store invariant.
LEMMA EntriesKeepStore == StoreInv /\ Entries => StoreInv'
<1> SUFFICES ASSUME StoreInv, Entries PROVE StoreInv'
  OBVIOUS
<1> USE TradingAssumption
<1>1. ASSUME NEW marks \in Marks, evaluate_skip(marks) PROVE StoreInv'
  BY <1>1, IdleKeepsBook
     DEF evaluate_skip, StoreInv, BookOK, BookTypeOK, JobTypeOK, EnvTypeOK,
         brokerVars, memory, jobs, history, envVars
<1>2. ASSUME NEW t \in Tickers, NEW side \in Sides, NEW price \in Prices, NEW size \in Sizes,
             NEW confidence \in Confidences, NEW marks \in Marks,
             evaluate_limit(t, side, price, confidence, size, marks)
      PROVE  StoreInv'
  <2>1. price \in Price /\ confidence \in Nat /\ now + LimitOrderTimeoutSec \in Nat
    BY BrokerAssumption DEF Confidences, StoreInv, BookOK, BookTypeOK, Time
  <2> QED
    BY <1>2, <2>1, PlaceOrderKeepsBook
       DEF evaluate_limit, StoreInv, JobTypeOK, EnvTypeOK, jobs, envVars
<1>3. ASSUME NEW t \in Tickers, NEW side \in Sides, NEW price \in Prices, NEW size \in Sizes,
             NEW confidence \in Confidences, NEW marks \in Marks,
             evaluate_market(t, side, price, confidence, size, marks)
      PROVE  StoreInv'
  BY <1>3, OpenPositionKeepsBook
     DEF evaluate_market, StoreInv, JobTypeOK, EnvTypeOK, jobs, envVars, Schedules
<1>4. ASSUME NEW t \in Tickers, NEW side \in Sides, NEW price \in Prices, NEW size \in Sizes,
             settlement_edge_entry(t, side, price, size)
      PROVE  StoreInv'
  BY <1>4, OpenPositionKeepsBook
     DEF settlement_edge_entry, StoreInv, JobTypeOK, EnvTypeOK, jobs, envVars,
         Schedules
<1> QED BY <1>1, <1>2, <1>3, <1>4 DEF Entries

\* Resting orders that expire, are rejected or fill keep it.
LEMMA FillsKeepStore == StoreInv /\ Fills => StoreInv'
<1> SUFFICES ASSUME StoreInv, Fills PROVE StoreInv'
  OBVIOUS
<1>1. ASSUME NEW t \in Tickers, fill_expired(t) PROVE StoreInv'
  BY <1>1, CancelKeepsBook
     DEF fill_expired, expire_order, StoreInv, JobTypeOK, EnvTypeOK, jobs, envVars
<1>2. ASSUME NEW t \in Tickers, NEW q \in Quotes, fill_rejected(t, q) PROVE StoreInv'
  BY <1>2, CancelKeepsBook
     DEF fill_rejected, reject_fill, StoreInv, JobTypeOK, EnvTypeOK, jobs, envVars
<1>3. ASSUME NEW t \in Tickers, NEW q \in Quotes, fill_taken(t, q) PROVE StoreInv'
  <2> DEFINE price == fill_price(t, q[1], q[2])
  <2>1. pending_orders[t] \in PendingOrder
    BY <1>3 DEF fill_taken, take_order, StoreInv, BookOK, BookTypeOK
  <2>2. price \in Price
    BY <1>3, QuoteParts DEF fill_taken, take_order, reached_limit, fill_price, Quote
  <2>3. [ticker |-> t, order |-> pending_orders[t], price |-> price]
           \in [ticker : Tickers, order : PendingOrder, price : Price]
    BY <2>1, <2>2
  <2>4. JobTypeOK'
    BY <1>3, <2>3 DEF fill_taken, take_order, StoreInv, JobTypeOK
  <2>5. BookOK'
    BY <1>3, CancelKeepsBook DEF fill_taken, take_order, StoreInv
  <2> QED BY <1>3, <2>4, <2>5 DEF fill_taken, StoreInv, EnvTypeOK, envVars
<1>4. CASE fill_opened
  <2>1. filling.ticker \in Tickers /\ filling.order \in PendingOrder /\ filling.price \in Price
    BY <1>4 DEF fill_opened, open_filled, StoreInv, JobTypeOK
  <2>2. filling.order.side \in Sides /\ filling.order.size \in Sizes
    BY <2>1 DEF PendingOrder
  <2>3. BookOK'
    BY <1>4, <2>1, <2>2, OpenPositionKeepsBook DEF fill_opened, open_filled, StoreInv, Schedules
  <2> QED
    BY <1>4, <2>3 DEF fill_opened, open_filled, StoreInv, JobTypeOK, EnvTypeOK, envVars
<1>5. CASE fill_blocked
  BY <1>5, IdleKeepsBook
     DEF fill_blocked, drop_filled, StoreInv, BookOK, BookTypeOK, JobTypeOK, EnvTypeOK,
         memory, history, envVars
<1> QED BY <1>1, <1>2, <1>3, <1>4, <1>5 DEF Fills

\* Settlements and managed exits keep it.
LEMMA ExitsKeepStore == StoreInv /\ Exits => StoreInv'
<1> SUFFICES ASSUME StoreInv, Exits PROVE StoreInv'
  OBVIOUS
<1>1. ASSUME NEW t \in Tickers, close_if_settled(t) PROVE StoreInv'
  <2>1. 0 \in Price /\ Dollar \in Price
    BY FeeAssumption DEF Price
  <2> QED
    BY <1>1, <2>1, ClosePositionKeepsBook
       DEF close_if_settled, StoreInv, JobTypeOK, EnvTypeOK, jobs, envVars
<1>2. ASSUME NEW t \in Tickers, NEW q \in Quotes, NEW corroborated \in Prices \cup {NoQuote},
             NEW stale \in BOOLEAN, NEW runway_exhausted \in BOOLEAN,
             NEW opened_since \in {now, now + 1},
             managed_exit(t, q, corroborated, stale, runway_exhausted, opened_since)
      PROVE  StoreInv'
  <2> DEFINE price == exit_price(t, q[1], q[2], corroborated, stale)
  <2>1. price \in 1 .. Dollar - 1
    BY <1>2, QuoteParts, ExitPriceInside DEF managed_exit, StoreInv
  <2>2. price \in Price
    BY <2>1, FeeAssumption DEF Price
  <2>3. BookOK'
    BY <1>2, <2>2, ClosePositionKeepsBook DEF managed_exit, StoreInv
  <2> QED BY <1>2, <2>3 DEF managed_exit, StoreInv, JobTypeOK, EnvTypeOK, jobs, envVars
<1> QED BY <1>1, <1>2 DEF Exits

\* The price close_next sells at.
LEMMA ForcedClosePrice ==
    ASSUME BookOK, NEW t \in Tickers, NEW bid \in Quote, NEW ask \in Quote,
           positions[t] # Nothing
    PROVE  LET entry == positions[t].entry_price
               price == forced_exit_quote(positions[t].side,
                            IF bid = NoQuote THEN entry ELSE bid, ask, entry)
           IN  /\ price \in Price
               /\ unit_cost(positions[t].side, entry) # Dollar
                    => unit_cost(positions[t].side, price) # Dollar
<1>1. positions[t].side \in Sides /\ positions[t].entry_price \in Price
  BY DEF BookOK, BookTypeOK, Position
<1>2. (IF bid = NoQuote THEN positions[t].entry_price ELSE bid) \in Price
  BY <1>1 DEF Quote
<1> QED BY <1>1, <1>2, ForcedQuote

\* The operator's routes keep it.
LEMMA RoutesKeepStore == StoreInv /\ Routes => StoreInv'
<1> SUFFICES ASSUME StoreInv, Routes PROVE StoreInv'
  OBVIOUS
<1> USE DEF StoreInv
<1>1. CASE flatten_all \/ \E chosen \in SUBSET Tickers : close_positions(chosen)
  <2>1. BookOK'
    BY <1>1, IdleKeepsBook
       DEF flatten_all, close_positions, start_closing, BookOK, BookTypeOK, memory, history
  <2> QED
    BY <1>1, <2>1 DEF flatten_all, close_positions, start_closing, open_tickers, JobTypeOK,
                      EnvTypeOK, envVars
<1>2. ASSUME NEW t \in Tickers, NEW q \in Quotes, close_selected(t, q) PROVE StoreInv'
  <2>1. BookOK'
    BY <1>2, QuoteParts, ForcedClosePrice, ClosePositionKeepsBook
       DEF close_selected, close_next, close_position
  <2>2. JobTypeOK'
    BY <1>2 DEF close_selected, close_next, JobTypeOK
  <2> QED BY <1>2, <2>1, <2>2 DEF close_selected, EnvTypeOK, envVars
<1>3. ASSUME NEW row \in disk.trades, NEW price \in Prices \cup {NoQuote},
             correct_close(row, price)
      PROVE  StoreInv'
  <2>1. price \in Quote
    BY TradingAssumption DEF Quote
  <2> QED
    BY <1>3, <2>1, CorrectionKeepsBook
       DEF correct_close, correct_erroneous_close, JobTypeOK, EnvTypeOK, jobs, envVars
<1>4. ASSUME NEW before \in Time \cup {Never}, NEW after \in Time \cup {Never},
             purge_range(before, after)
      PROVE  StoreInv'
  BY <1>4, PurgeKeepsBook
     DEF purge_range, clear_trade_range, JobTypeOK, EnvTypeOK, jobs, envVars
<1>5. ASSUME NEW first \in BOOLEAN, reset_broker(first) PROVE StoreInv'
  <2>1. BookOK'
    BY <1>5, IdleKeepsBook DEF reset_broker, start_reset, BookOK, BookTypeOK, memory, history
  <2> QED
    BY <1>5, <2>1 DEF reset_broker, start_reset, open_tickers, JobTypeOK, EnvTypeOK, envVars
<1>6. CASE reset_broker_account
  BY <1>6, ResetKeepsBook
     DEF reset_broker_account, reset_account, JobTypeOK, EnvTypeOK, envVars
<1>7. CASE reset_broker_risk
  BY <1>7, IdleKeepsBook
     DEF reset_broker_risk, reset_finished, BookOK, BookTypeOK, JobTypeOK, EnvTypeOK,
         memory, history, envVars
<1>8. CASE halt_trading \/ resume_trading
  BY <1>8, IdleKeepsBook
     DEF halt_trading, resume_trading, BookOK, BookTypeOK, JobTypeOK, EnvTypeOK,
         brokerVars, memory, jobs, history, envVars
<1>9. ASSUME NEW mode \in LimitModes, edit_config(mode) PROVE StoreInv'
  BY <1>9, IdleKeepsBook
     DEF edit_config, BookOK, BookTypeOK, JobTypeOK, EnvTypeOK,
         brokerVars, memory, jobs, history
<1> QED BY <1>1, <1>2, <1>3, <1>4, <1>5, <1>6, <1>7, <1>8, <1>9 DEF Routes

\* Market results, restarts and the clock keep it.
LEMMA EnvironmentKeepsStore == StoreInv /\ Environment => StoreInv'
<1> SUFFICES ASSUME StoreInv, Environment PROVE StoreInv'
  OBVIOUS
<1> USE DEF StoreInv
<1>1. ASSUME NEW t \in Tickers, NEW outcome \in {"yes", "no"}, settle(t, outcome)
      PROVE  StoreInv'
  BY <1>1, IdleKeepsBook
     DEF settle, Results, BookOK, BookTypeOK, JobTypeOK, EnvTypeOK,
         brokerVars, memory, jobs, history
<1>2. CASE crash_restart
  BY <1>2, RestartKeepsBook DEF crash_restart, restart, JobTypeOK, EnvTypeOK, envVars
<1>3. CASE time_passes
  <2>1. now' \in Time
    BY <1>3, BrokerAssumption DEF time_passes, clock_tick, Time, BookOK, BookTypeOK
  <2> QED
    BY <1>3, <2>1, IdleKeepsBook
       DEF time_passes, clock_tick, JobTypeOK, EnvTypeOK, memory, jobs, history, envVars
<1> QED BY <1>1, <1>2, <1>3 DEF Environment

\* Every step keeps it.
LEMMA StoreStep == StoreInv /\ [Next]_vars => StoreInv'
<1> SUFFICES ASSUME StoreInv, [Next]_vars PROVE StoreInv'
  OBVIOUS
<1>1. CASE UNCHANGED vars
  BY <1>1, IdleKeepsBook
     DEF vars, StoreInv, BookOK, BookTypeOK, JobTypeOK, EnvTypeOK, brokerVars, memory,
         jobs, history
<1>2. CASE Next
  BY <1>2, EntriesKeepStore, FillsKeepStore, ExitsKeepStore, RoutesKeepStore,
     EnvironmentKeepsStore DEF Next
<1> QED BY <1>1, <1>2

\* While no transaction has failed, the four tables hold the account exactly as
\* the process does, whatever is traded, settled, corrected, purged or reset and
\* wherever a crash strikes (paper_broker.py's promise that a restart resumes).
THEOREM DiskMatchesMemoryTheorem == Spec => []DiskMatchesMemory
<1>1. StoreInv => DiskMatchesMemory
  BY DEF StoreInv, BookOK
<1> QED BY StoreInit, StoreStep, <1>1, PTL DEF Spec

(***************************************************************************)
(* No fabricated payout.  A forced close may fall back on the entry price, *)
(* so the invariant also says that no entry, held in memory, stored, or    *)
(* about to be opened by a fill, was made at a whole dollar.               *)
(***************************************************************************)
below_par(position) ==
    position # Nothing => unit_cost(position.side, position.entry_price) # Dollar

earned(row) ==
    row.kind = "close" /\ unit_cost(row.side, row.price) = Dollar
        => result[row.ticker] = row.side

PayoutInv ==
    /\ \A t \in Tickers : below_par(positions[t]) /\ below_par(disk.positions[t])
    /\ filling # Nothing => unit_cost(filling.order.side, filling.price) # Dollar
    /\ \A row \in trade_log \cup disk.trades : earned(row)

\* A step that adds no row and no position, or only ones already there.
LEMMA NothingNewKeepsPayouts ==
    ASSUME PayoutInv,
           \A t \in Tickers : /\ positions'[t] \in {positions[t], disk.positions[t], Nothing}
                              /\ disk'.positions[t] \in {disk.positions[t], Nothing},
           trade_log' \subseteq trade_log \cup disk.trades,
           disk'.trades \subseteq disk.trades,
           filling' \in {filling, Nothing},
           \A t \in Tickers : result[t] # "open" => result'[t] = result[t],
           trade_log \cup disk.trades \subseteq Trade
    PROVE  PayoutInv'
<1>1. \A t \in Tickers : below_par(positions'[t]) /\ below_par(disk'.positions[t])
  BY DEF PayoutInv, below_par
<1>2. \A row \in trade_log' \cup disk'.trades : earned(row)'
  <2> SUFFICES ASSUME NEW row \in trade_log \cup disk.trades PROVE earned(row)'
    OBVIOUS
  <2>1. row.ticker \in Tickers /\ row.side \in Sides
    BY DEF Trade
  <2> QED BY <2>1 DEF PayoutInv, earned, Sides
<1>3. filling' # Nothing => unit_cost(filling'.order.side, filling'.price) # Dollar
  BY DEF PayoutInv
<1>4. \A t \in Tickers : below_par(positions[t])' /\ below_par(disk.positions[t])'
  BY <1>1 DEF below_par
<1> QED BY <1>2, <1>3, <1>4 DEF PayoutInv

\* An entry below a whole dollar keeps the payout invariant.
LEMMA OpenKeepsPayouts ==
    ASSUME StoreInv, PayoutInv, NEW t \in Tickers, NEW side \in Sides, NEW size \in Sizes,
           NEW price \in Price, NEW hold \in BOOLEAN, unit_cost(side, price) # Dollar,
           NEW fee_fn \in Schedules, open_position(t, side, size, price, fee_fn, hold),
           filling' \in {filling, Nothing}, UNCHANGED result
    PROVE  PayoutInv'
<1> DEFINE actual_size == entry_size(side, size, price)
           position(fee) == [side |-> side, size |-> actual_size, entry_price |-> price,
                             entry_fee |-> fee, opened_at |-> now,
                             hold_to_settlement |-> hold]
           trade(fee) == [id |-> next_id, ticker |-> t, kind |-> "entry", side |-> side,
                          size |-> actual_size, price |-> price,
                          fee |-> fee, timestamp |-> now, excluded |-> FALSE]
<1>1. PICK fee : book_entry(t, entry_cost(side, size, price), position(fee))
  BY DEF open_position
<1>2. /\ positions' = [positions EXCEPT ![t] = position(fee)]
      /\ trade_log' = trade_log \cup {trade(fee)}
      /\ persist(tables(bankroll', [disk.positions EXCEPT ![t] = position(fee)],
                        disk.trades \cup {trade(fee)}, disk.pending_orders))
  BY <1>1 DEF book_entry
<1>3. \/ disk' = disk
      \/ /\ disk'.positions = [disk.positions EXCEPT ![t] = position(fee)]
         /\ disk'.trades = disk.trades \cup {trade(fee)}
  BY <1>2 DEF persist, tables
<1>4. below_par(position(fee)) /\ trade(fee).kind # "close"
  BY DEF below_par
<1>5. /\ positions \in [Tickers -> Position \cup {Nothing}]
      /\ disk.positions \in [Tickers -> Position \cup {Nothing}]
  BY DiskAsMemory DEF StoreInv, BookOK, BookTypeOK
<1>6. \A u \in Tickers : below_par(positions'[u]) /\ below_par(disk'.positions[u])
  BY <1>2, <1>3, <1>4, <1>5 DEF PayoutInv
<1>7. \A row \in trade_log' \cup disk'.trades : earned(row)'
  BY <1>2, <1>3, <1>4 DEF PayoutInv, earned
<1>8. \A u \in Tickers : below_par(positions[u])' /\ below_par(disk.positions[u])'
  BY <1>6 DEF below_par
<1> QED BY <1>7, <1>8 DEF PayoutInv

\* A close keeps it unless it pays a dollar no settlement owes.
LEMMA CloseKeepsPayouts ==
    ASSUME StoreInv, PayoutInv, NEW t \in Tickers, NEW price \in Price,
           close_position(t, price),
           unit_cost(positions[t].side, price) = Dollar => result[t] = positions[t].side,
           filling' \in {filling, Nothing}, UNCHANGED result
    PROVE  PayoutInv'
<1> DEFINE pos == positions[t]
           trade == [id |-> next_id, ticker |-> t, kind |-> "close", side |-> pos.side,
                     size |-> pos.size, price |-> price, fee |-> taker_fee(pos.size, price),
                     timestamp |-> now, excluded |-> FALSE]
<1>1. /\ positions' = [positions EXCEPT ![t] = Nothing]
      /\ trade_log' = trade_log \cup {trade}
      /\ persist(tables(bankroll', [disk.positions EXCEPT ![t] = Nothing],
                        disk.trades \cup {trade}, disk.pending_orders))
  BY DEF close_position
<1>2. \/ disk' = disk
      \/ /\ disk'.positions = [disk.positions EXCEPT ![t] = Nothing]
         /\ disk'.trades = disk.trades \cup {trade}
  BY <1>1 DEF persist, tables
<1>3. unit_cost(trade.side, trade.price) = Dollar => result'[trade.ticker] = trade.side
  OBVIOUS
<1>4. /\ positions \in [Tickers -> Position \cup {Nothing}]
      /\ disk.positions \in [Tickers -> Position \cup {Nothing}]
  BY DiskAsMemory DEF StoreInv, BookOK, BookTypeOK
<1>5. \A u \in Tickers : below_par(positions'[u]) /\ below_par(disk'.positions[u])
  BY <1>1, <1>2, <1>4 DEF PayoutInv, below_par
<1>6. \A row \in trade_log' \cup disk'.trades : earned(row)'
  BY <1>1, <1>2, <1>3 DEF PayoutInv, earned
<1>7. \A u \in Tickers : below_par(positions[u])' /\ below_par(disk.positions[u])'
  BY <1>5 DEF below_par
<1> QED BY <1>6, <1>7 DEF PayoutInv

\* A correction changes nothing of a row but its mark.
LEMMA ExcludeKeepsEarned ==
    ASSUME NEW rows \in SUBSET Trade, NEW id, \A row \in rows : earned(row)
    PROVE  \A row \in exclude(id, rows) : earned(row)
<1> SUFFICES ASSUME NEW r \in rows
             PROVE  earned([r EXCEPT !.excluded = @ \/ r.id = id])
  BY DEF exclude
<1> DEFINE marked == [r EXCEPT !.excluded = @ \/ r.id = id]
<1>1. /\ marked.kind = r.kind /\ marked.side = r.side
      /\ marked.price = r.price /\ marked.ticker = r.ticker
  BY DEF Trade
<1> QED BY <1>1 DEF earned

\* What a transaction can do to the positions and the trade rows on disk.
LEMMA TransactionTables ==
    ASSUME NEW cash, NEW held, NEW rows, NEW orders, persist(tables(cash, held, rows, orders))
    PROVE  \/ disk' = disk
           \/ disk'.positions = held /\ disk'.trades = rows
BY DEF persist, tables

\* Every step keeps the payout invariant, given that the account is well formed.
LEMMA PayoutStep == StoreInv /\ StoreInv' /\ PayoutInv /\ [Next]_vars => PayoutInv'
<1> SUFFICES ASSUME StoreInv, PayoutInv, [Next]_vars PROVE PayoutInv'
  OBVIOUS
<1> USE TradingAssumption, FeeAssumption
<1>type. /\ positions \in [Tickers -> Position \cup {Nothing}]
         /\ disk.positions \in [Tickers -> Position \cup {Nothing}]
         /\ trade_log \cup disk.trades \subseteq Trade
         /\ result \in [Tickers -> Results]
  BY DiskAsMemory DEF StoreInv, BookOK, BookTypeOK, EnvTypeOK
<1>quiet. ASSUME UNCHANGED <<positions, trade_log, disk, result>>, filling' \in {filling, Nothing}
          PROVE  PayoutInv'
  BY <1>quiet, <1>type, NothingNewKeepsPayouts
<1>cancel. ASSUME NEW t \in Tickers, _cancel_pending(t), UNCHANGED result
           PROVE  /\ UNCHANGED <<positions, trade_log>>
                  /\ disk'.positions = disk.positions /\ disk'.trades = disk.trades
  BY <1>cancel, TransactionTables DEF _cancel_pending
<1>tradeable. \A side \in Sides, price \in Price : tradeable(side, price) => unit_cost(side, price) # Dollar
  BY DEF tradeable
<1>1. CASE UNCHANGED vars
  BY <1>1, <1>quiet DEF vars, brokerVars, memory, jobs
<1>2. ASSUME NEW marks \in Marks, evaluate_skip(marks) PROVE PayoutInv'
  BY <1>2, <1>quiet DEF evaluate_skip, brokerVars, memory, jobs, envVars
<1>3. ASSUME NEW t \in Tickers, NEW side \in Sides, NEW price \in Prices, NEW size \in Sizes,
             NEW confidence \in Confidences, NEW marks \in Marks,
             evaluate_limit(t, side, price, confidence, size, marks)
      PROVE  PayoutInv'
  <2>1. /\ UNCHANGED <<positions, trade_log, result, filling>>
        /\ disk'.positions = disk.positions /\ disk'.trades = disk.trades
    BY <1>3, TransactionTables DEF evaluate_limit, place_limit_order, jobs, envVars
  <2> QED BY <2>1, <1>type, NothingNewKeepsPayouts
<1>4. ASSUME NEW t \in Tickers, NEW side \in Sides, NEW price \in Prices, NEW size \in Sizes,
             NEW confidence \in Confidences, NEW marks \in Marks,
             evaluate_market(t, side, price, confidence, size, marks)
      PROVE  PayoutInv'
  <2>1. unit_cost(side, price) # Dollar
    BY <1>4, <1>tradeable DEF evaluate_market, entry_gates, _validate_entry_price
  <2> QED BY <1>4, <2>1, OpenKeepsPayouts DEF evaluate_market, jobs, envVars, Schedules
<1>5. ASSUME NEW t \in Tickers, NEW side \in Sides, NEW price \in Prices, NEW size \in Sizes,
             settlement_edge_entry(t, side, price, size)
      PROVE  PayoutInv'
  <2>1. unit_cost(side, price) # Dollar
    BY <1>5, <1>tradeable DEF settlement_edge_entry
  <2> QED BY <1>5, <2>1, OpenKeepsPayouts DEF settlement_edge_entry, jobs, envVars, Schedules
<1>6. ASSUME NEW t \in Tickers, NEW q \in Quotes, fill_rejected(t, q) PROVE PayoutInv'
  <2>1. _cancel_pending(t) /\ UNCHANGED <<filling, result>>
    BY <1>6 DEF fill_rejected, reject_fill, jobs, envVars
  <2> QED BY <2>1, <1>cancel, <1>type, NothingNewKeepsPayouts
<1>7. ASSUME NEW t \in Tickers, fill_expired(t) PROVE PayoutInv'
  <2>1. _cancel_pending(t) /\ UNCHANGED <<filling, result>>
    BY <1>7 DEF fill_expired, expire_order, jobs, envVars
  <2> QED BY <2>1, <1>cancel, <1>type, NothingNewKeepsPayouts
<1>8. ASSUME NEW t \in Tickers, NEW q \in Quotes, fill_taken(t, q) PROVE PayoutInv'
  <2> DEFINE order == pending_orders[t]
             price == fill_price(t, q[1], q[2])
  <2>1. _cancel_pending(t) /\ UNCHANGED result
    BY <1>8 DEF fill_taken, take_order, envVars
  <2>2. order \in PendingOrder /\ price \in Price
    BY <1>8, QuoteParts DEF fill_taken, take_order, reached_limit, fill_price, Quote, StoreInv,
                            BookOK, BookTypeOK
  <2>3. unit_cost(order.side, price) # Dollar
    BY <1>8, <2>2, <1>tradeable DEF fill_taken, _validate_entry_price, PendingOrder
  <2>4. filling' \in {Nothing, [ticker |-> t, order |-> order, price |-> price]}
    BY <1>8 DEF fill_taken, take_order
  <2>5. filling' # Nothing => unit_cost(filling'.order.side, filling'.price) # Dollar
    BY <2>3, <2>4
  <2> QED BY <2>1, <2>5, <1>cancel DEF PayoutInv, below_par, earned
<1>9. CASE fill_opened
  <2>1. /\ filling.ticker \in Tickers /\ filling.order \in PendingOrder /\ filling.price \in Price
        /\ unit_cost(filling.order.side, filling.price) # Dollar
    BY <1>9 DEF fill_opened, open_filled, StoreInv, JobTypeOK, PayoutInv
  <2>2. filling.order.side \in Sides /\ filling.order.size \in Sizes
    BY <2>1 DEF PendingOrder
  <2> QED BY <1>9, <2>1, <2>2, OpenKeepsPayouts DEF fill_opened, open_filled, envVars, Schedules
<1>10. CASE fill_blocked
  BY <1>10, <1>quiet DEF fill_blocked, drop_filled, memory, envVars
<1>11. ASSUME NEW t \in Tickers, close_if_settled(t) PROVE PayoutInv'
  <2> DEFINE price == IF result[t] = "yes" THEN Dollar ELSE 0
  <2>1. price \in Price /\ positions[t].side \in Sides
    BY <1>11, <1>type DEF close_if_settled, Price, Position
  <2>2. result[t] \in {"yes", "no"}
    BY <1>11, <1>type DEF close_if_settled, Results
  <2>3. unit_cost(positions[t].side, price) = Dollar => result[t] = positions[t].side
    BY <2>1, <2>2 DEF unit_cost, Sides
  <2> QED BY <1>11, <2>1, <2>3, CloseKeepsPayouts DEF close_if_settled, jobs, envVars
<1>12. ASSUME NEW t \in Tickers, NEW q \in Quotes, NEW corroborated \in Prices \cup {NoQuote},
              NEW stale \in BOOLEAN, NEW runway_exhausted \in BOOLEAN,
              NEW opened_since \in {now, now + 1},
              managed_exit(t, q, corroborated, stale, runway_exhausted, opened_since)
       PROVE  PayoutInv'
  <2> DEFINE price == exit_price(t, q[1], q[2], corroborated, stale)
  <2>1. price \in 1 .. Dollar - 1
    BY <1>12, QuoteParts, ExitPriceInside DEF managed_exit, StoreInv
  <2>2. positions[t].side \in Sides
    BY <1>12, <1>type DEF managed_exit, Position
  <2>3. price \in Price /\ unit_cost(positions[t].side, price) # Dollar
    BY <2>1, <2>2, InsideIsBelowPar
  <2> QED BY <1>12, <2>3, CloseKeepsPayouts DEF managed_exit, jobs, envVars
<1>13. CASE flatten_all \/ \E chosen \in SUBSET Tickers : close_positions(chosen)
  BY <1>13, <1>quiet DEF flatten_all, close_positions, start_closing, memory, envVars
<1>14. ASSUME NEW t \in Tickers, NEW q \in Quotes, close_selected(t, q) PROVE PayoutInv'
  <2> DEFINE entry == positions[t].entry_price
             price == forced_exit_quote(positions[t].side,
                          IF q[1] = NoQuote THEN entry ELSE q[1], q[2], entry)
  <2>1. positions[t] # Nothing /\ close_position(t, price) /\ UNCHANGED <<filling, result>>
    BY <1>14 DEF close_selected, close_next, close_position, envVars
  <2>2. unit_cost(positions[t].side, entry) # Dollar
    BY <2>1 DEF PayoutInv, below_par
  <2>3. price \in Price /\ unit_cost(positions[t].side, price) # Dollar
    BY <2>1, <2>2, QuoteParts, ForcedClosePrice DEF StoreInv
  <2> QED BY <2>1, <2>3, CloseKeepsPayouts
<1>15. ASSUME NEW row \in disk.trades, NEW price \in Prices \cup {NoQuote},
              correct_close(row, price)
       PROVE  PayoutInv'
  <2>1. /\ trade_log' \in {trade_log, exclude(row.id, trade_log)}
        /\ UNCHANGED <<positions, filling, result>>
        /\ persist(tables(bankroll', disk.positions, exclude(row.id, disk.trades),
                          disk.pending_orders))
    BY <1>15 DEF correct_close, correct_erroneous_close, jobs, envVars
  <2>2. disk'.positions = disk.positions
        /\ disk'.trades \in {disk.trades, exclude(row.id, disk.trades)}
    BY <2>1, TransactionTables
  <2>3. trade_log \in SUBSET Trade /\ disk.trades \in SUBSET Trade
    BY <1>type
  <2>4. \A r \in exclude(row.id, trade_log) \cup exclude(row.id, disk.trades) : earned(r)
    BY <2>3, ExcludeKeepsEarned DEF PayoutInv
  <2>5. \A r \in trade_log' \cup disk'.trades : earned(r)
    BY <2>1, <2>2, <2>4 DEF PayoutInv
  <2> QED BY <2>1, <2>2, <2>5 DEF PayoutInv, below_par, earned
<1>16. ASSUME NEW before \in Time \cup {Never}, NEW after \in Time \cup {Never},
              purge_range(before, after)
       PROVE  PayoutInv'
  <2>1. /\ trade_log' \subseteq trade_log
        /\ UNCHANGED <<positions, filling, result>>
        /\ persist(tables(disk.bankroll, disk.positions,
                          {r \in disk.trades : ~in_range(r, before, after)},
                          disk.pending_orders))
    BY <1>16 DEF purge_range, clear_trade_range, jobs, envVars
  <2>2. disk'.positions = disk.positions /\ disk'.trades \subseteq disk.trades
    BY <2>1, TransactionTables
  <2> QED BY <2>1, <2>2, <1>type, NothingNewKeepsPayouts
<1>17. ASSUME NEW first \in BOOLEAN, reset_broker(first) PROVE PayoutInv'
  BY <1>17, <1>quiet DEF reset_broker, start_reset, memory, envVars
<1>18. CASE reset_broker_account
  <2>1. /\ positions' = [t \in Tickers |-> Nothing] /\ trade_log' = {}
        /\ UNCHANGED <<filling, result>>
        /\ persist(tables(StartingBankroll, positions', {}, pending_orders'))
    BY <1>18 DEF reset_broker_account, reset_account, reset, envVars
  <2>2. \/ disk' = disk
        \/ disk'.positions = [t \in Tickers |-> Nothing] /\ disk'.trades = {}
    BY <2>1 DEF persist, tables
  <2> QED BY <2>1, <2>2, <1>type, NothingNewKeepsPayouts
<1>19. CASE reset_broker_risk
  BY <1>19, <1>quiet DEF reset_broker_risk, reset_finished, memory, envVars
<1>20. CASE halt_trading \/ resume_trading \/ \E mode \in LimitModes : edit_config(mode)
  BY <1>20, <1>quiet
     DEF halt_trading, resume_trading, edit_config, brokerVars, memory, jobs, envVars
<1>21. ASSUME NEW t \in Tickers, NEW outcome \in {"yes", "no"}, settle(t, outcome)
       PROVE  PayoutInv'
  <2>1. /\ UNCHANGED <<positions, trade_log, disk, filling>>
        /\ result[t] = "open" /\ result' = [result EXCEPT ![t] = outcome]
    BY <1>21 DEF settle, brokerVars, memory, jobs
  <2>2. \A u \in Tickers : result[u] # "open" => result'[u] = result[u]
    BY <2>1, <1>type
  <2> QED BY <2>1, <2>2, <1>type, NothingNewKeepsPayouts
<1>22. CASE crash_restart
  <2>1. /\ positions' = disk.positions /\ trade_log' = disk.trades
        /\ filling' = Nothing /\ UNCHANGED <<disk, result>>
    BY <1>22 DEF crash_restart, restart, envVars
  <2> QED BY <2>1, <1>type, NothingNewKeepsPayouts
<1>23. CASE time_passes
  BY <1>23, <1>quiet DEF time_passes, clock_tick, memory, jobs, envVars
<1>24. Entries => PayoutInv'
  BY <1>2, <1>3, <1>4, <1>5 DEF Entries
<1>25. Fills => PayoutInv'
  BY <1>6, <1>7, <1>8, <1>9, <1>10 DEF Fills
<1>26. Exits => PayoutInv'
  BY <1>11, <1>12 DEF Exits
<1>27. Routes => PayoutInv'
  BY <1>13, <1>14, <1>15, <1>16, <1>17, <1>18, <1>19, <1>20 DEF Routes
<1>28. Environment => PayoutInv'
  BY <1>21, <1>22, <1>23 DEF Environment
<1> QED BY <1>1, <1>24, <1>25, <1>26, <1>27, <1>28 DEF Next

\* There is no position and no row to begin with.
LEMMA PayoutInit == Init => PayoutInv
<1> SUFFICES ASSUME Init PROVE PayoutInv
  OBVIOUS
<1>1. /\ positions = [t \in Tickers |-> Nothing] /\ filling = Nothing /\ trade_log = {}
      /\ disk.positions = positions /\ disk.trades = {}
  BY DEF Init, BrokerInit, tables
<1> QED BY <1>1 DEF PayoutInv, below_par

\* No closing row pays a full dollar a contract unless its market settled for
\* the side held: no stale bid, one-sided book or fallback on any exit path can
\* be booked as a win (kalshi_fees.sellable_quote, forced_exit_quote).
THEOREM NoFabricatedPayoutTheorem == Spec => []NoFabricatedPayout
<1>1. PayoutInv => NoFabricatedPayout
  BY DEF PayoutInv, NoFabricatedPayout, earned
<1> QED BY StoreInit, StoreStep, PayoutInit, PayoutStep, <1>1, PTL DEF Spec

\* The account, the database, the jobs in flight and the markets keep their types.
THEOREM TypesTheorem == Spec => [](BookTypeOK /\ JobTypeOK /\ EnvTypeOK)
<1>1. StoreInv => BookTypeOK /\ JobTypeOK /\ EnvTypeOK
  BY DEF StoreInv, BookOK
<1> QED BY StoreInit, StoreStep, <1>1, PTL DEF Spec

(***************************************************************************)
(* What a step may do to the positions: the four ways a position comes     *)
(* into being, and everything else, which keeps or closes it.              *)
(***************************************************************************)
signal_entry(t, side, price, size) ==
    \E confidence \in Confidences, marks \in Marks :
        evaluate_market(t, side, price, confidence, size, marks)

PositionsOnlyClose == \A t \in Tickers : positions'[t] \in {positions[t], Nothing}

\* Every step closes positions, or is one entry, one fill or a restart.
LEMMA PositionMoves ==
    ASSUME StoreInv, [Next]_vars
    PROVE  \/ PositionsOnlyClose
           \/ \E t \in Tickers, side \in Sides, price \in Prices, size \in Sizes :
                 \/ signal_entry(t, side, price, size)
                 \/ settlement_edge_entry(t, side, price, size)
           \/ fill_opened
           \/ crash_restart
<1>type. positions \in [Tickers -> Position \cup {Nothing}]
  BY DEF StoreInv, BookOK, BookTypeOK
<1>same. ASSUME UNCHANGED positions PROVE PositionsOnlyClose
  BY <1>same DEF PositionsOnlyClose
<1>closed. ASSUME NEW t \in Tickers, NEW price, close_position(t, price)
           PROVE  PositionsOnlyClose
  BY <1>closed, <1>type DEF PositionsOnlyClose, close_position
<1>1. CASE UNCHANGED vars
  BY <1>1, <1>same DEF vars, brokerVars, memory
<1>2. ASSUME Entries,
             ~ \E t \in Tickers, side \in Sides, price \in Prices, size \in Sizes :
                 \/ signal_entry(t, side, price, size)
                 \/ settlement_edge_entry(t, side, price, size)
      PROVE  PositionsOnlyClose
  <2>1. CASE \E marks \in Marks : evaluate_skip(marks)
    BY <2>1, <1>same DEF evaluate_skip, brokerVars, memory
  <2>2. ASSUME NEW t \in Tickers, NEW side \in Sides, NEW price \in Prices, NEW size \in Sizes,
               NEW confidence \in Confidences, NEW marks \in Marks,
               evaluate_limit(t, side, price, confidence, size, marks)
        PROVE  PositionsOnlyClose
    BY <2>2, <1>same DEF evaluate_limit, place_limit_order
  <2> QED BY <1>2, <2>1, <2>2 DEF Entries, signal_entry
<1>3. ASSUME Fills, ~fill_opened PROVE PositionsOnlyClose
  BY <1>3, <1>same DEF Fills, fill_expired, expire_order, fill_rejected, reject_fill, fill_taken,
                       take_order, fill_blocked, drop_filled, _cancel_pending, memory
<1>4. ASSUME Exits PROVE PositionsOnlyClose
  BY <1>4, <1>closed DEF Exits, close_if_settled, managed_exit
<1>5. ASSUME Routes PROVE PositionsOnlyClose
  <2>1. CASE \E t \in Tickers, q \in Quotes : close_selected(t, q)
    BY <2>1, <1>closed DEF close_selected, close_next
  <2>2. CASE reset_broker_account
    BY <2>2 DEF reset_broker_account, reset_account, reset, PositionsOnlyClose
  <2>3. CASE \/ flatten_all \/ \E chosen \in SUBSET Tickers : close_positions(chosen)
             \/ \E first \in BOOLEAN : reset_broker(first)
             \/ reset_broker_risk
    BY <2>3, <1>same DEF flatten_all, close_positions, start_closing, reset_broker, start_reset,
                         reset_broker_risk, reset_finished, memory
  <2>4. CASE \/ \E row \in disk.trades, price \in Prices \cup {NoQuote} : correct_close(row, price)
             \/ \E before, after \in Time \cup {Never} : purge_range(before, after)
    BY <2>4, <1>same DEF correct_close, correct_erroneous_close, purge_range, clear_trade_range
  <2>5. CASE halt_trading \/ resume_trading \/ \E mode \in LimitModes : edit_config(mode)
    BY <2>5, <1>same DEF halt_trading, resume_trading, edit_config, brokerVars, memory
  <2> QED BY <1>5, <2>1, <2>2, <2>3, <2>4, <2>5 DEF Routes
<1>6. ASSUME Environment, ~crash_restart PROVE PositionsOnlyClose
  BY <1>6, <1>same DEF Environment, settle, time_passes, clock_tick, brokerVars, memory
<1> QED BY <1>1, <1>2, <1>3, <1>4, <1>5, <1>6 DEF Next

\* While trading stays halted nothing puts a position on: not a signal (evaluate
\* checks the kill switch first), not a resting order that fills, not the
\* settlement window (both pass the execution-layer guard, risk_admits).
THEOREM HaltStopsEntriesTheorem == Spec => HaltStopsEntries
<1>1. ASSUME StoreInv, [Next]_vars, halted, halted', ~crash_restart
      PROVE  open_tickers' \subseteq open_tickers
  <2>1. \A t \in Tickers, side \in Sides, price \in Prices, size \in Sizes :
            ~signal_entry(t, side, price, size) /\ ~settlement_edge_entry(t, side, price, size)
    <3>1. halt # "none" /\ halt' # "none"
      BY <1>1 DEF halted
    <3>2. \A t \in Tickers, side \in Sides, price \in Prices, size \in Sizes :
              ~signal_entry(t, side, price, size)
      BY <3>1 DEF signal_entry, evaluate_market
    <3>3. \A t \in Tickers, side \in Sides, price \in Prices, size \in Sizes :
              ~settlement_edge_entry(t, side, price, size)
      BY <1>1 DEF settlement_edge_entry, risk_admits
    <3> QED BY <3>2, <3>3
  <2>2. ~fill_opened
    BY <1>1 DEF fill_opened, risk_admits
  <2>3. PositionsOnlyClose
    BY <1>1, <2>1, <2>2, PositionMoves
  <2> QED BY <2>3 DEF PositionsOnlyClose, open_tickers
<1>2. StoreInv /\ [Next]_vars
        => [halted /\ halted' => open_tickers' \subseteq open_tickers \/ crash_restart]_vars
  BY <1>1
<1> QED BY StoreInit, StoreStep, <1>2, PTL DEF Spec, HaltStopsEntries

(***************************************************************************)
(* One order mode.  An entry checks the position of its own ticker when    *)
(* the signal arrives, and a resting order fills without checking again:   *)
(* the two agree as long as strategy.use_limit_orders is not edited under  *)
(* a resting order, which is what OneOrderMode says of the values it takes.*)
(* A transaction that raised leaves a row on disk that memory no longer    *)
(* has, and a restart brings it back: what follows holds until one does.   *)
(***************************************************************************)
OneOrderMode == LimitModes # BOOLEAN
OnlyMarketOrders == TRUE \notin LimitModes

\* A resting order, or one being filled, is for a ticker nothing is held in.
OrdersInv ==
    db_faults = 0 =>
        /\ \A t \in Tickers : pending_orders[t] # Nothing
              => TRUE \in LimitModes /\ positions[t] = Nothing
        /\ filling # Nothing
              => /\ TRUE \in LimitModes
                 /\ positions[filling.ticker] = Nothing
                 /\ pending_orders[filling.ticker] = Nothing

OrdersOnlyLeave ==
    /\ \A t \in Tickers : pending_orders'[t] \in {pending_orders[t], Nothing}
    /\ filling' \in {filling, Nothing}

signal_order(t, side, price, size) ==
    \E confidence \in Confidences, marks \in Marks :
        evaluate_limit(t, side, price, confidence, size, marks)

\* Every step takes orders off the book, or is one placed, one taken or a restart.
LEMMA OrderMoves ==
    ASSUME StoreInv, [Next]_vars
    PROVE  \/ OrdersOnlyLeave
           \/ \E t \in Tickers, side \in Sides, price \in Prices, size \in Sizes :
                 signal_order(t, side, price, size)
           \/ \E t \in Tickers, q \in Quotes : fill_taken(t, q)
           \/ crash_restart
<1>type. pending_orders \in [Tickers -> PendingOrder \cup {Nothing}]
  BY DEF StoreInv, BookOK, BookTypeOK
<1>same. ASSUME UNCHANGED <<pending_orders, filling>> PROVE OrdersOnlyLeave
  BY <1>same DEF OrdersOnlyLeave
<1>cancel. ASSUME NEW t \in Tickers, _cancel_pending(t), UNCHANGED filling PROVE OrdersOnlyLeave
  BY <1>cancel, <1>type DEF OrdersOnlyLeave, _cancel_pending
<1>open. ASSUME NEW t, NEW side, NEW size, NEW price, NEW fee_fn, NEW hold,
                open_position(t, side, size, price, fee_fn, hold), filling' \in {filling, Nothing}
         PROVE  OrdersOnlyLeave
  BY <1>open DEF OrdersOnlyLeave, open_position, book_entry
<1>1. CASE UNCHANGED vars
  BY <1>1, <1>same DEF vars, brokerVars, memory, jobs
<1>2. ASSUME Entries,
             ~ \E t \in Tickers, side \in Sides, price \in Prices, size \in Sizes :
                 signal_order(t, side, price, size)
      PROVE  OrdersOnlyLeave
  <2>1. CASE \E marks \in Marks : evaluate_skip(marks)
    BY <2>1, <1>same DEF evaluate_skip, brokerVars, memory, jobs
  <2>2. ASSUME NEW t \in Tickers, NEW side \in Sides, NEW price \in Prices, NEW size \in Sizes,
               NEW confidence \in Confidences, NEW marks \in Marks,
               evaluate_market(t, side, price, confidence, size, marks)
        PROVE  OrdersOnlyLeave
    BY <2>2, <1>open DEF evaluate_market, jobs
  <2>3. ASSUME NEW t \in Tickers, NEW side \in Sides, NEW price \in Prices, NEW size \in Sizes,
               settlement_edge_entry(t, side, price, size)
        PROVE  OrdersOnlyLeave
    BY <2>3, <1>open DEF settlement_edge_entry, jobs
  <2> QED BY <1>2, <2>1, <2>2, <2>3 DEF Entries, signal_order
<1>3. ASSUME Fills, ~ \E t \in Tickers, q \in Quotes : fill_taken(t, q) PROVE OrdersOnlyLeave
  <2>1. CASE fill_opened
    BY <2>1, <1>open DEF fill_opened, open_filled
  <2>2. CASE fill_blocked
    BY <2>2 DEF fill_blocked, drop_filled, memory, OrdersOnlyLeave
  <2>3. CASE \E t \in Tickers : fill_expired(t) \/ \E q \in Quotes : fill_rejected(t, q)
    BY <2>3, <1>cancel DEF fill_expired, expire_order, fill_rejected, reject_fill, jobs
  <2> QED BY <1>3, <2>1, <2>2, <2>3 DEF Fills
<1>4. ASSUME Exits PROVE OrdersOnlyLeave
  <2>1. ASSUME NEW t \in Tickers, close_if_settled(t) PROVE OrdersOnlyLeave
    BY <2>1, <1>same DEF close_if_settled, close_position, jobs
  <2>2. ASSUME NEW t \in Tickers, NEW q \in Quotes, NEW corroborated \in Prices \cup {NoQuote},
               NEW stale \in BOOLEAN, NEW runway_exhausted \in BOOLEAN,
               NEW opened_since \in {now, now + 1},
               managed_exit(t, q, corroborated, stale, runway_exhausted, opened_since)
        PROVE  OrdersOnlyLeave
    BY <2>2, <1>same DEF managed_exit, close_position, jobs
  <2> QED BY <1>4, <2>1, <2>2 DEF Exits
<1>5. ASSUME Routes PROVE OrdersOnlyLeave
  <2>1. CASE \E t \in Tickers, q \in Quotes : close_selected(t, q)
    BY <2>1, <1>same DEF close_selected, close_next, close_position
  <2>2. CASE reset_broker_account
    BY <2>2 DEF reset_broker_account, reset_account, reset, OrdersOnlyLeave
  <2>3. CASE \/ flatten_all \/ \E chosen \in SUBSET Tickers : close_positions(chosen)
             \/ \E first \in BOOLEAN : reset_broker(first)
             \/ reset_broker_risk
    BY <2>3, <1>same DEF flatten_all, close_positions, start_closing, reset_broker, start_reset,
                         reset_broker_risk, reset_finished, memory
  <2>4. CASE \/ \E row \in disk.trades, price \in Prices \cup {NoQuote} : correct_close(row, price)
             \/ \E before, after \in Time \cup {Never} : purge_range(before, after)
    BY <2>4, <1>same DEF correct_close, correct_erroneous_close, purge_range, clear_trade_range, jobs
  <2>5. CASE halt_trading \/ resume_trading \/ \E mode \in LimitModes : edit_config(mode)
    BY <2>5, <1>same DEF halt_trading, resume_trading, edit_config, brokerVars, memory, jobs
  <2> QED BY <1>5, <2>1, <2>2, <2>3, <2>4, <2>5 DEF Routes
<1>6. ASSUME Environment, ~crash_restart PROVE OrdersOnlyLeave
  BY <1>6, <1>same DEF Environment, settle, time_passes, clock_tick, brokerVars, memory, jobs
<1> QED BY <1>1, <1>2, <1>3, <1>4, <1>5, <1>6 DEF Next

\* A transaction that raised is never forgotten.
LEMMA FaultsAreKept ==
    ASSUME StoreInv, [Next]_vars, db_faults' = 0
    PROVE  db_faults = 0
<1>type. db_faults \in Nat
  BY BrokerAssumption DEF StoreInv, BookOK, BookTypeOK
<1>same. UNCHANGED db_faults => db_faults = 0
  OBVIOUS
<1>write. ASSUME NEW rows, persist(rows) PROVE db_faults = 0
  BY <1>write, <1>type DEF persist, committed
<1>1. CASE UNCHANGED vars
  BY <1>1 DEF vars, brokerVars
<1>open. ASSUME NEW t, NEW side, NEW size, NEW price, NEW fee_fn, NEW hold,
                open_position(t, side, size, price, fee_fn, hold)
         PROVE  db_faults = 0
  BY <1>open, <1>write DEF open_position, book_entry
<1>close. ASSUME NEW t, NEW price, close_position(t, price) PROVE db_faults = 0
  BY <1>close, <1>write DEF close_position
<1>2. CASE Entries
  <2>1. CASE \E marks \in Marks : evaluate_skip(marks)
    BY <2>1 DEF evaluate_skip, brokerVars
  <2>2. ASSUME NEW t \in Tickers, NEW side \in Sides, NEW price \in Prices, NEW size \in Sizes,
               NEW confidence \in Confidences, NEW marks \in Marks,
               \/ evaluate_limit(t, side, price, confidence, size, marks)
               \/ evaluate_market(t, side, price, confidence, size, marks)
        PROVE  db_faults = 0
    BY <2>2, <1>write, <1>open DEF evaluate_limit, place_limit_order, evaluate_market
  <2>3. ASSUME NEW t \in Tickers, NEW side \in Sides, NEW price \in Prices, NEW size \in Sizes,
               settlement_edge_entry(t, side, price, size)
        PROVE  db_faults = 0
    BY <2>3, <1>open DEF settlement_edge_entry
  <2> QED BY <1>2, <2>1, <2>2, <2>3 DEF Entries
<1>3. CASE Fills
  BY <1>3, <1>write, <1>open DEF Fills, fill_expired, expire_order, fill_rejected, reject_fill,
                                 fill_taken, take_order, _cancel_pending, fill_opened,
                                 open_filled, fill_blocked, drop_filled
<1>4. CASE Exits
  BY <1>4, <1>close DEF Exits, close_if_settled, managed_exit
<1>5. CASE Routes
  <2>1. CASE \E t \in Tickers, q \in Quotes : close_selected(t, q)
    BY <2>1, <1>close DEF close_selected, close_next
  <2>2. CASE reset_broker_account
    BY <2>2, <1>write DEF reset_broker_account, reset_account, reset
  <2>3. CASE \/ flatten_all \/ \E chosen \in SUBSET Tickers : close_positions(chosen)
             \/ \E first \in BOOLEAN : reset_broker(first)
             \/ reset_broker_risk
    BY <2>3 DEF flatten_all, close_positions, start_closing, reset_broker, start_reset,
                reset_broker_risk, reset_finished
  <2>4. ASSUME NEW row \in disk.trades, NEW price \in Prices \cup {NoQuote}, correct_close(row, price)
        PROVE  db_faults = 0
    BY <2>4, <1>write DEF correct_close, correct_erroneous_close
  <2>5. ASSUME NEW before \in Time \cup {Never}, NEW after \in Time \cup {Never}, purge_range(before, after)
        PROVE  db_faults = 0
    BY <2>5, <1>write DEF purge_range, clear_trade_range
  <2>6. CASE halt_trading \/ resume_trading \/ \E mode \in LimitModes : edit_config(mode)
    BY <2>6 DEF halt_trading, resume_trading, edit_config, brokerVars
  <2> QED BY <1>5, <2>1, <2>2, <2>3, <2>4, <2>5, <2>6 DEF Routes
<1>6. CASE Environment
  BY <1>6 DEF Environment, settle, crash_restart, restart, time_passes, clock_tick, brokerVars
<1> QED BY <1>1, <1>2, <1>3, <1>4, <1>5, <1>6 DEF Next

\* Until a transaction raises, a position is opened only where none is held and
\* no order rests, in one order mode.
LEMMA OrdersStep ==
    ASSUME StoreInv, OneOrderMode, OrdersInv, [Next]_vars
    PROVE  /\ OrdersInv'
           /\ db_faults' = 0 => \A t \in Tickers : positions[t] # Nothing
                                    => positions'[t] \in {positions[t], Nothing}
<1> SUFFICES ASSUME db_faults' = 0
             PROVE  /\ OrdersInv'
                    /\ \A t \in Tickers : positions[t] # Nothing
                           => positions'[t] \in {positions[t], Nothing}
  BY DEF OrdersInv
<1>1. /\ db_faults = 0 /\ disk.positions = positions /\ disk.pending_orders = pending_orders
      /\ positions \in [Tickers -> Position \cup {Nothing}]
      /\ pending_orders \in [Tickers -> PendingOrder \cup {Nothing}]
      /\ filling # Nothing => filling.ticker \in Tickers
  BY FaultsAreKept, DiskAsMemory DEF StoreInv, BookOK, BookTypeOK, JobTypeOK
<1>2. ~ (TRUE \in LimitModes /\ FALSE \in LimitModes) /\ use_limit_orders \in LimitModes
  BY TradingAssumption DEF OneOrderMode, StoreInv, EnvTypeOK
<1>opens. ASSUME NEW t, NEW side, NEW size, NEW price, NEW fee_fn, NEW hold,
                 open_position(t, side, size, price, fee_fn, hold)
          PROVE  /\ \A u \in Tickers : u # t => positions'[u] = positions[u]
                /\ UNCHANGED pending_orders
  BY <1>opens, <1>1 DEF open_position, book_entry
<1>3. CASE crash_restart
  BY <1>1, <1>3 DEF crash_restart, restart, OrdersInv
<1>4. ASSUME NEW t \in Tickers, NEW side \in Sides, NEW price \in Prices, NEW size \in Sizes,
             signal_entry(t, side, price, size)
      PROVE  OrdersInv' /\ \A u \in Tickers : positions[u] # Nothing
                               => positions'[u] \in {positions[u], Nothing}
  <2>1. /\ open_position(t, side, size, price, "taker", FALSE)
        /\ positions[t] = Nothing /\ use_limit_orders = FALSE /\ UNCHANGED filling
    BY <1>2, <1>4, TradingAssumption DEF signal_entry, evaluate_market, entry_gates, jobs
  <2>2. (\A u \in Tickers : pending_orders[u] = Nothing) /\ filling = Nothing
    BY <1>1, <1>2, <2>1 DEF OrdersInv
  <2>3. (\A u \in Tickers : u # t => positions'[u] = positions[u]) /\ UNCHANGED pending_orders
    BY <1>opens, <2>1
  <2> QED BY <2>1, <2>2, <2>3 DEF OrdersInv
<1>5. ASSUME NEW t \in Tickers, NEW side \in Sides, NEW price \in Prices, NEW size \in Sizes,
             settlement_edge_entry(t, side, price, size)
      PROVE  OrdersInv' /\ \A u \in Tickers : positions[u] # Nothing
                               => positions'[u] \in {positions[u], Nothing}
  <2>1. /\ open_position(t, side, size, price, "taker", TRUE)
        /\ positions[t] = Nothing /\ pending_orders[t] = Nothing
        /\ filling = Nothing /\ UNCHANGED filling
    BY <1>5 DEF settlement_edge_entry, idle, jobs
  <2>2. (\A u \in Tickers : u # t => positions'[u] = positions[u]) /\ UNCHANGED pending_orders
    BY <1>opens, <2>1
  <2> QED BY <1>1, <2>1, <2>2 DEF OrdersInv
<1>6. CASE fill_opened
  <2>1. /\ open_position(filling.ticker, filling.order.side, filling.order.size,
                         filling.price, "maker", FALSE)
        /\ filling # Nothing /\ filling' = Nothing
    BY <1>6 DEF fill_opened, open_filled
  <2>2. positions[filling.ticker] = Nothing /\ pending_orders[filling.ticker] = Nothing
    BY <1>1, <2>1 DEF OrdersInv
  <2>3. (\A u \in Tickers : u # filling.ticker => positions'[u] = positions[u]) /\ UNCHANGED pending_orders
    BY <1>opens, <2>1
  <2> QED BY <1>1, <2>1, <2>2, <2>3 DEF OrdersInv
<1>7. CASE PositionsOnlyClose /\ OrdersOnlyLeave
  BY <1>1, <1>7 DEF PositionsOnlyClose, OrdersOnlyLeave, OrdersInv
<1>8. ASSUME NEW t \in Tickers, NEW side \in Sides, NEW price \in Prices, NEW size \in Sizes,
             signal_order(t, side, price, size)
      PROVE  OrdersInv' /\ UNCHANGED positions
  <2>1. /\ positions[t] = Nothing /\ TRUE \in LimitModes
        /\ UNCHANGED <<positions, filling>> /\ filling = Nothing
        /\ \A u \in Tickers : u # t => pending_orders'[u] = pending_orders[u]
    BY <1>1, <1>2, <1>8, TradingAssumption DEF signal_order, evaluate_limit, entry_gates,
                                               place_limit_order, idle, jobs
  <2> QED BY <1>1, <2>1 DEF OrdersInv
<1>9. ASSUME NEW t \in Tickers, NEW q \in Quotes, fill_taken(t, q)
      PROVE  OrdersInv' /\ UNCHANGED positions
  <2>1. /\ pending_orders[t] # Nothing /\ UNCHANGED positions
        /\ pending_orders' = [pending_orders EXCEPT ![t] = Nothing]
        /\ filling' # Nothing => filling'.ticker = t
    BY <1>9 DEF fill_taken, take_order, _cancel_pending
  <2> QED BY <1>1, <2>1 DEF OrdersInv
<1> QED
  BY <1>3, <1>4, <1>5, <1>6, <1>7, <1>8, <1>9, PositionMoves, OrderMoves

\* No order rests to begin with.
LEMMA OrdersInit == Init => OrdersInv
BY DEF Init, BrokerInit, OrdersInv

\* While use_limit_orders keeps one value and no transaction raises, an open
\* position is only ever closed: evaluate's same-ticker gate holds for market
\* orders, resting orders and the settlement window together.
THEOREM NoSilentReplacementTheorem ==
    ASSUME OneOrderMode, MaxDbFaults = 0
    PROVE  Spec => NoSilentReplacement
<1>1. ASSUME StoreInv, StoreInv', OrdersInv, [Next]_vars
      PROVE  [\A t \in Tickers :
                 positions[t] # Nothing => positions'[t] \in {positions[t], Nothing}]_vars
  <2>1. db_faults' = 0
    BY <1>1 DEF StoreInv, BookOK, BookTypeOK
  <2> QED BY <1>1, <2>1, OrdersStep
<1>2. StoreInv /\ OrdersInv /\ [Next]_vars => OrdersInv'
  BY OrdersStep
<1> QED BY StoreInit, StoreStep, OrdersInit, <1>1, <1>2, PTL DEF Spec, NoSilentReplacement

(***************************************************************************)
(* Two-way matchups.                                                       *)
(***************************************************************************)
\* A matchup is two markets, each the other's complement; an index market is in
\* none (settlement_edge_entry does not look at the other half).
MatchupsPair ==
    /\ Nothing \notin Tickers
    /\ \A t \in Tickers : me_complement[t] # Nothing
          => me_complement[t] \in Tickers \ {t} /\ me_complement[me_complement[t]] = t
    /\ \A t \in EdgeTickers, u \in Tickers : me_complement[t] = Nothing /\ me_complement[u] # t

\* Market orders never hold both halves of a matchup, until a transaction raises:
\* evaluate refuses the second half, whatever is closed, settled, reset or
\* restarted in between.
THEOREM OneSidePerMatchupTheorem ==
    ASSUME OnlyMarketOrders, MatchupsPair
    PROVE  Spec => [](db_faults = 0 => OneSidePerMatchup)
<1> DEFINE SideInv == db_faults = 0 => OneSidePerMatchup
<1>0. OneOrderMode
  BY DEF OneOrderMode, OnlyMarketOrders
<1>1. Init => SideInv
  BY DEF Init, BrokerInit, OneSidePerMatchup, open_tickers
<1>2. ASSUME StoreInv, OrdersInv, SideInv, [Next]_vars, db_faults' = 0
      PROVE  OneSidePerMatchup'
  <2>1. /\ db_faults = 0 /\ disk.positions = positions
        /\ positions \in [Tickers -> Position \cup {Nothing}]
        /\ filling = Nothing
    BY <1>2, FaultsAreKept, DiskAsMemory
       DEF StoreInv, BookOK, BookTypeOK, OrdersInv, OnlyMarketOrders
  <2>2. CASE PositionsOnlyClose
    BY <1>2, <2>1, <2>2 DEF PositionsOnlyClose, OneSidePerMatchup, open_tickers, MatchupsPair
  <2>3. CASE crash_restart
    BY <1>2, <2>1, <2>3 DEF crash_restart, restart, OneSidePerMatchup, open_tickers
  <2>4. ASSUME NEW t \in Tickers,
               \A u \in Tickers : u # t => positions'[u] = positions[u],
               me_complement[t] # Nothing => positions[me_complement[t]] = Nothing
        PROVE  OneSidePerMatchup'
    <3> SUFFICES ASSUME NEW u \in Tickers, positions'[u] # Nothing, me_complement[u] # Nothing
                 PROVE  positions'[me_complement[u]] = Nothing
      BY DEF OneSidePerMatchup, open_tickers
    <3>1. me_complement[u] \in Tickers \ {u} /\ me_complement[me_complement[u]] = u
      BY DEF MatchupsPair
    <3>2. CASE u = t
      BY <2>4, <3>1, <3>2
    <3>3. CASE u # t /\ me_complement[u] = t
      <4>1. me_complement[t] = u /\ me_complement[t] # Nothing
        BY <3>1, <3>3 DEF MatchupsPair
      <4> QED BY <2>4, <3>3, <4>1
    <3>4. CASE u # t /\ me_complement[u] # t
      BY <1>2, <2>1, <2>4, <3>1, <3>4 DEF OneSidePerMatchup, open_tickers
    <3> QED BY <3>2, <3>3, <3>4
  <2>5. ASSUME NEW t \in Tickers, NEW side \in Sides, NEW price \in Prices, NEW size \in Sizes,
               signal_entry(t, side, price, size)
        PROVE  OneSidePerMatchup'
    <3>1. /\ open_position(t, side, size, price, "taker", FALSE)
          /\ positions[t] = Nothing
          /\ me_complement[t] # Nothing => positions[me_complement[t]] = Nothing
      BY <2>5 DEF signal_entry, evaluate_market, entry_gates
    <3>2. \A u \in Tickers : u # t => positions'[u] = positions[u]
      BY <2>1, <3>1 DEF open_position, book_entry
    <3> QED BY <2>4, <3>1, <3>2
  <2>6. ASSUME NEW t \in Tickers, NEW side \in Sides, NEW price \in Prices, NEW size \in Sizes,
               settlement_edge_entry(t, side, price, size)
        PROVE  OneSidePerMatchup'
    <3>1. open_position(t, side, size, price, "taker", TRUE) /\ t \in EdgeTickers
      BY <2>6 DEF settlement_edge_entry
    <3>2. \A u \in Tickers : u # t => positions'[u] = positions[u]
      BY <2>1, <3>1 DEF open_position, book_entry
    <3> QED BY <2>4, <3>1, <3>2 DEF MatchupsPair
  <2>7. ~fill_opened
    BY <2>1 DEF fill_opened, open_filled
  <2> QED BY <1>2, <2>2, <2>3, <2>5, <2>6, <2>7, PositionMoves
<1>3. StoreInv /\ OrdersInv /\ [Next]_vars => OrdersInv'
  BY <1>0, OrdersStep
<1>4. StoreInv /\ OrdersInv /\ SideInv /\ [Next]_vars => SideInv'
  BY <1>2
<1> QED BY StoreInit, StoreStep, OrdersInit, <1>1, <1>3, <1>4, PTL DEF Spec

(***************************************************************************)
(* Sums over the trade rows.  The provers have no induction over finite    *)
(* sets, so what it would give is drawn from a smallest counterexample:    *)
(* the table of partial sums exists, is the only one, and the order the    *)
(* rows are taken up in does not matter.                                   *)
(***************************************************************************)
\* Among finite sets with something in common, one has no smaller one among them.
LEMMA Smallest ==
    ASSUME NEW S, IsFiniteSet(S), NEW family \in SUBSET SUBSET S, family # {}
    PROVE  \E s \in family : \A t \in SUBSET s : t # s => t \notin family
<1> DEFINE R == StrictSubsetOrdering(S)
<1>1. IsWellFoundedOn(R, SUBSET S)
  BY FS_StrictSubsetOrderingWellFounded, FS_FiniteSubsetsOfFinite
<1>2. PICK s \in family : \A t \in family : ~(<<t, s>> \in R)
  <2> HIDE DEF R
  <2> QED BY <1>1, WFMin
<1>3. ASSUME NEW t \in family, t \subseteq s, t # s PROVE <<t, s>> \in R
  <2> DEFINE pair == <<t, s>>
  <2>1. pair \in (SUBSET S) \X (SUBSET S) /\ pair[1] = t /\ pair[2] = s
    OBVIOUS
  <2>2. pair[1] \subseteq pair[2] /\ pair[1] # pair[2]
    BY <1>3, <2>1
  <2> QED BY <2>1, <2>2 DEF StrictSubsetOrdering, pair
<1> HIDE DEF R
<1>4. ASSUME NEW t \in SUBSET s, t # s PROVE t \notin family
  BY <1>2, <1>3, <1>4
<1> QED BY <1>4

\* What a set of rows moved, and the row its sum takes up first.
cash_total(rows) == MapThenSumSet(cash_flow, rows)
picked(rows) == CHOOSE r \in rows : TRUE

\* The table of sums MapThenSumSet reads its answer from.
SumTable(S, f) ==
    f = [s \in SUBSET S |->
            IF s = {} THEN 0 ELSE cash_flow(picked(s)) + f[s \ {picked(s)}]]

\* A sum is read from its table.
LEMMA TotalIsInTable ==
    ASSUME NEW S PROVE cash_total(S) = (CHOOSE f : SumTable(S, f))[S]
BY DEF cash_total, MapThenSumSet, MapThenFoldSet, SumTable, picked

\* What a table says of each of its sets.
LEMMA SumTableEntries ==
    ASSUME NEW S, NEW f, SumTable(S, f), NEW s \in SUBSET S
    PROVE  f[s] = IF s = {} THEN 0 ELSE cash_flow(picked(s)) + f[s \ {picked(s)}]
BY DEF SumTable

\* Any two tables agree where both are defined.
LEMMA SumTablesAgree ==
    ASSUME NEW S, IsFiniteSet(S), NEW T \in SUBSET S,
           NEW f, SumTable(S, f), NEW g, SumTable(T, g), NEW s \in SUBSET T
    PROVE  f[s] = g[s]
<1> DEFINE family == {u \in SUBSET T : f[u] # g[u]}
<1>1. ASSUME family # {} PROVE FALSE
  <2>1. IsFiniteSet(T) /\ family \in SUBSET SUBSET T
    BY FS_Subset
  <2>2. PICK u \in family : \A t \in SUBSET u : t # u => t \notin family
    <3> HIDE DEF family
    <3> QED BY <1>1, <2>1, Smallest
  <2>3. u \in SUBSET T /\ u \in SUBSET S /\ f[u] # g[u]
    OBVIOUS
  <2>4. CASE u = {}
    BY <2>3, <2>4, SumTableEntries
  <2>5. CASE u # {}
    <3>1. picked(u) \in u
      BY <2>5 DEF picked
    <3>2. f[u \ {picked(u)}] = g[u \ {picked(u)}]
      BY <2>2, <2>3, <3>1
    <3>3. /\ f[u] = cash_flow(picked(u)) + f[u \ {picked(u)}]
          /\ g[u] = cash_flow(picked(u)) + g[u \ {picked(u)}]
      BY <2>3, <2>5, SumTableEntries
    <3> QED BY <2>3, <3>2, <3>3
  <2> QED BY <2>4, <2>5
<1> QED BY <1>1

\* There is a table for every finite set.
LEMMA SumTableExists ==
    ASSUME NEW S, IsFiniteSet(S) PROVE \E f : SumTable(S, f)
<1> DEFINE family == {u \in SUBSET S : ~ \E f : SumTable(u, f)}
<1>1. ASSUME family # {} PROVE FALSE
  <2>1. family \in SUBSET SUBSET S
    OBVIOUS
  <2>2. PICK u \in family : \A t \in SUBSET u : t # u => t \notin family
    <3> HIDE DEF family
    <3> QED BY <1>1, <2>1, Smallest
  <2>3. \A t \in SUBSET u : t # u => \E f : SumTable(t, f)
    BY <2>2
  <2>4. ASSUME NEW t \in SUBSET u, t # u, t # {}
        PROVE  cash_total(t) = cash_flow(picked(t)) + cash_total(t \ {picked(t)})
    <3>1. picked(t) \in t /\ IsFiniteSet(t)
      BY <2>4, FS_Subset DEF picked
    <3>2. PICK f : SumTable(t, f) /\ cash_total(t) = f[t]
      BY <2>3, <2>4, TotalIsInTable
    <3>3. PICK g : SumTable(t \ {picked(t)}, g) /\ cash_total(t \ {picked(t)}) = g[t \ {picked(t)}]
      <4>1. t \ {picked(t)} \in SUBSET u /\ t \ {picked(t)} # u
        BY <2>4
      <4> QED BY <2>3, <4>1, TotalIsInTable
    <3>4. f[t \ {picked(t)}] = g[t \ {picked(t)}]
      BY <3>1, <3>2, <3>3, SumTablesAgree
    <3>5. f[t] = cash_flow(picked(t)) + f[t \ {picked(t)}]
      BY <2>4, <3>2, SumTableEntries
    <3> QED BY <3>2, <3>3, <3>4, <3>5
  <2>5. cash_total({}) = 0
    <3>1. SumTable({}, [s \in SUBSET {} |-> 0])
      BY DEF SumTable
    <3>2. PICK f : SumTable({}, f) /\ cash_total({}) = f[{}]
      BY <3>1, TotalIsInTable
    <3> QED BY <3>2, SumTableEntries
  <2> DEFINE g == [s \in SUBSET u |->
                     IF s = u /\ u # {} THEN cash_flow(picked(u)) + cash_total(u \ {picked(u)})
                     ELSE cash_total(s)]
  <2>6. ASSUME NEW s \in SUBSET u
        PROVE  g[s] = IF s = {} THEN 0 ELSE cash_flow(picked(s)) + g[s \ {picked(s)}]
    <3>1. CASE s = {}
      BY <2>5, <3>1
    <3>2. CASE s # {}
      <4>1. picked(s) \in s
        BY <3>2 DEF picked
      <4>2. s \ {picked(s)} \in SUBSET u /\ s \ {picked(s)} # u
        BY <4>1
      <4>3. g[s \ {picked(s)}] = cash_total(s \ {picked(s)})
        BY <4>2
      <4>4. g[s] = cash_flow(picked(s)) + cash_total(s \ {picked(s)})
        BY <2>4, <3>2
      <4> QED BY <3>2, <4>3, <4>4
    <3> QED BY <3>1, <3>2
  <2>7. g = [s \in SUBSET u |-> g[s]]
    OBVIOUS
  <2> HIDE DEF g
  <2>8. SumTable(u, g)
    BY <2>6, <2>7 DEF SumTable
  <2> QED BY <2>2, <2>8
<1> QED BY <1>1

\* A sum takes up one picked row at a time.
LEMMA TotalUnfolds ==
    ASSUME NEW S, IsFiniteSet(S)
    PROVE  cash_total(S) = IF S = {} THEN 0 ELSE cash_flow(picked(S)) + cash_total(S \ {picked(S)})
<1>1. PICK f : SumTable(S, f) /\ cash_total(S) = f[S]
  BY SumTableExists, TotalIsInTable
<1>2. CASE S = {}
  BY <1>1, <1>2, SumTableEntries
<1>3. CASE S # {}
  <2> DEFINE T == S \ {picked(S)}
  <2>1. T \in SUBSET S /\ IsFiniteSet(T)
    BY FS_Subset
  <2>2. PICK g : SumTable(T, g) /\ cash_total(T) = g[T]
    BY <2>1, SumTableExists, TotalIsInTable
  <2>3. f[T] = g[T]
    BY <1>1, <2>1, <2>2, SumTablesAgree
  <2> QED BY <1>1, <1>3, <2>2, <2>3, SumTableEntries
<1> QED BY <1>2, <1>3

\* A sum of whole amounts is one.
LEMMA TotalIsInt ==
    ASSUME NEW S, IsFiniteSet(S), \A r \in S : cash_flow(r) \in Int
    PROVE  cash_total(S) \in Int
<1> DEFINE family == {u \in SUBSET S : cash_total(u) \notin Int}
<1>1. ASSUME family # {} PROVE FALSE
  <2>1. family \in SUBSET SUBSET S
    OBVIOUS
  <2>2. PICK u \in family : \A t \in SUBSET u : t # u => t \notin family
    <3> HIDE DEF family
    <3> QED BY <1>1, <2>1, Smallest
  <2>3. IsFiniteSet(u) /\ u \in SUBSET S /\ cash_total(u) \notin Int
    BY FS_Subset
  <2>4. u # {}
    BY <2>3, TotalUnfolds
  <2>5. picked(u) \in u
    BY <2>4 DEF picked
  <2>6. cash_total(u \ {picked(u)}) \in Int
    BY <2>2, <2>3, <2>5
  <2>7. cash_total(u) = cash_flow(picked(u)) + cash_total(u \ {picked(u)})
    BY <2>3, <2>4, TotalUnfolds
  <2> QED BY <2>3, <2>5, <2>6, <2>7
<1> QED BY <1>1

\* The order the rows are taken up in does not matter.
LEMMA TotalRemoves ==
    ASSUME NEW S, IsFiniteSet(S), \A r \in S : cash_flow(r) \in Int, NEW y \in S
    PROVE  cash_total(S) = cash_flow(y) + cash_total(S \ {y})
<1> DEFINE family == {u \in SUBSET S : \E r \in u : cash_total(u) # cash_flow(r) + cash_total(u \ {r})}
<1>1. ASSUME family # {} PROVE FALSE
  <2>1. family \in SUBSET SUBSET S
    OBVIOUS
  <2>2. PICK u \in family : \A t \in SUBSET u : t # u => t \notin family
    <3> HIDE DEF family
    <3> QED BY <1>1, <2>1, Smallest
  <2>3. IsFiniteSet(u) /\ u \in SUBSET S
    BY FS_Subset
  <2>smaller. \A t \in SUBSET u : t # u => \A q \in t : cash_total(t) = cash_flow(q) + cash_total(t \ {q})
    BY <2>2, <2>3
  <2>4. PICK r \in u : cash_total(u) # cash_flow(r) + cash_total(u \ {r})
    BY <2>2
  <2> DEFINE c == picked(u)
             rest == (u \ {c}) \ {r}
  <2>5. c \in u
    BY <2>4 DEF picked
  <2>6. cash_total(u) = cash_flow(c) + cash_total(u \ {c})
    BY <2>3, <2>4, TotalUnfolds
  <2>7. c # r
    BY <2>4, <2>6
  <2> HIDE DEF c
  <2>8. cash_total(u \ {c}) = cash_flow(r) + cash_total(rest)
    <3>1. u \ {c} \in SUBSET u /\ u \ {c} # u /\ r \in u \ {c} /\ u \ {c} \in SUBSET S
      BY <2>3, <2>5, <2>7
    <3> QED BY <2>smaller, <3>1
  <2>9. cash_total(u \ {r}) = cash_flow(c) + cash_total(rest)
    <3>1. u \ {r} \in SUBSET u /\ u \ {r} # u /\ c \in u \ {r} /\ u \ {r} \in SUBSET S
      BY <2>3, <2>5, <2>7
    <3>2. (u \ {r}) \ {c} = rest
      OBVIOUS
    <3>3. cash_total(u \ {r}) = cash_flow(c) + cash_total((u \ {r}) \ {c})
      BY <2>smaller, <3>1
    <3> QED BY <3>2, <3>3
  <2>10. cash_total(rest) \in Int /\ cash_flow(c) \in Int /\ cash_flow(r) \in Int
    <3>1. IsFiniteSet(rest) /\ rest \in SUBSET S
      BY <2>3, FS_Subset
    <3> QED BY <2>3, <2>5, <3>1, TotalIsInt
  <2> HIDE DEF rest
  <2> QED BY <2>4, <2>6, <2>8, <2>9, <2>10
<1> QED BY <1>1

\* One more row adds what it moves.
LEMMA TotalAdds ==
    ASSUME NEW S, IsFiniteSet(S), \A r \in S : cash_flow(r) \in Int,
           NEW y, y \notin S, cash_flow(y) \in Int
    PROVE  IsFiniteSet(S \cup {y}) /\ cash_total(S \cup {y}) = cash_total(S) + cash_flow(y)
<1>1. IsFiniteSet(S \cup {y}) /\ (S \cup {y}) \ {y} = S
  BY FS_AddElement
<1>2. cash_total(S \cup {y}) = cash_flow(y) + cash_total(S)
  BY <1>1, TotalRemoves
<1> QED BY <1>1, <1>2, TotalIsInt

\* Rows that leave take their part of the sum with them.
LEMMA TotalSplits ==
    ASSUME NEW S, IsFiniteSet(S), \A r \in S : cash_flow(r) \in Int, NEW T \in SUBSET S
    PROVE  cash_total(S) = cash_total(S \ T) + cash_total(T)
<1> DEFINE family == {u \in SUBSET T : cash_total((S \ T) \cup u) # cash_total(S \ T) + cash_total(u)}
<1>1. ASSUME family # {} PROVE FALSE
  <2>1. family \in SUBSET SUBSET T /\ IsFiniteSet(T)
    BY FS_Subset
  <2>2. PICK u \in family : \A t \in SUBSET u : t # u => t \notin family
    <3> HIDE DEF family
    <3> QED BY <1>1, <2>1, Smallest
  <2> DEFINE base == S \ T
  <2>3. /\ IsFiniteSet(u) /\ u \in SUBSET S /\ base \in SUBSET S /\ IsFiniteSet(base)
        /\ IsFiniteSet(base \cup u) /\ base \cup u \in SUBSET S
    BY <2>1, FS_Subset
  <2>4. cash_total(base) \in Int
    BY <2>3, TotalIsInt
  <2>5. u # {}
    <3>1. base \cup {} = base /\ cash_total({}) = 0
      BY FS_EmptySet, TotalUnfolds
    <3>2. cash_total(base \cup u) # cash_total(base) + cash_total(u)
      BY <2>2
    <3> HIDE DEF base
    <3> QED BY <2>4, <3>1, <3>2
  <2>6. PICK y \in u : TRUE
    BY <2>5
  <2>7. cash_total(base \cup (u \ {y})) = cash_total(base) + cash_total(u \ {y})
    BY <2>2, <2>6
  <2>8. cash_total(u) = cash_flow(y) + cash_total(u \ {y})
    BY <2>3, <2>6, TotalRemoves
  <2>9. cash_total(base \cup u) = cash_flow(y) + cash_total(base \cup (u \ {y}))
    <3>1. (base \cup u) \ {y} = base \cup (u \ {y})
      BY <2>2, <2>6
    <3> QED BY <2>3, <2>6, <3>1, TotalRemoves
  <2>10. cash_total(u \ {y}) \in Int /\ cash_flow(y) \in Int
    <3>1. IsFiniteSet(u \ {y}) /\ u \ {y} \in SUBSET S
      BY <2>3, FS_Subset
    <3> QED BY <2>3, <2>6, <3>1, TotalIsInt
  <2>11. cash_total(base \cup u) # cash_total(base) + cash_total(u)
    BY <2>2
  <2> HIDE DEF base
  <2> QED BY <2>4, <2>7, <2>8, <2>9, <2>10, <2>11
<1>2. (S \ T) \cup T = S
  OBVIOUS
<1> HIDE DEF family
<1>3. T \notin family
  BY <1>1
<1> QED BY <1>2, <1>3 DEF family

(***************************************************************************)
(* The cash.  MoneyInv adds to the two sums what they need to hold after   *)
(* the next row: finitely many rows, each under an id of its own and below *)
(* the next one to be given out, so that a correction marks one row only.  *)
(***************************************************************************)
IdsOK(rows, next) ==
    /\ IsFiniteSet(rows)
    /\ \A r \in rows : r.id < next
    /\ \A r, s \in rows : r.id = s.id => r = s

MoneyInv ==
    db_faults = 0 => IdsOK(trade_log, next_id) /\ off_ledger \in Int /\ MoneyAddsUp

\* What a row moves is a whole number of ticks.
LEMMA FlowType ==
    ASSUME NEW row \in Trade
    PROVE  cash_flow(row) \in Int
<1>1. row.side \in Sides /\ row.price \in Price /\ row.size \in Int /\ row.fee \in Int
  BY DEF Trade
<1>2. unit_cost(row.side, row.price) \in Int
  BY <1>1, UnitCostType
<1> QED BY <1>1, <1>2 DEF cash_flow, Trade

\* The ledger, said with the sum the lemmas are about.
LEMMA LedgerSaid ==
    /\ LedgerBalances <=> bankroll = StartingBankroll + cash_total(trade_log) + off_ledger
    /\ LedgerBalances' <=> bankroll' = StartingBankroll + cash_total(trade_log') + off_ledger'
BY DEF LedgerBalances, cash_total

\* A row under a fresh id adds what it moves.
LEMMA RowAdds ==
    ASSUME NEW rows \in SUBSET Trade, NEW next \in Nat, IdsOK(rows, next),
           NEW row \in Trade, row.id = next
    PROVE  /\ IdsOK(rows \cup {row}, next + 1)
           /\ cash_total(rows) \in Int /\ cash_flow(row) \in Int
           /\ cash_total(rows \cup {row}) = cash_total(rows) + cash_flow(row)
<1>1. row \notin rows /\ \A r \in rows : r.id \in Nat /\ cash_flow(r) \in Int
  BY FlowType DEF IdsOK, Trade
<1>2. IsFiniteSet(rows \cup {row}) /\ cash_total(rows \cup {row}) = cash_total(rows) + cash_flow(row)
  BY <1>1, FlowType, TotalAdds DEF IdsOK
<1>3. IdsOK(rows \cup {row}, next + 1)
  BY <1>1, <1>2 DEF IdsOK
<1> QED BY <1>1, <1>2, <1>3, FlowType, TotalIsInt DEF IdsOK

\* Marking a closing row takes back what it moved, and touches no other.
LEMMA ExcludeTakesBack ==
    ASSUME NEW rows \in SUBSET Trade, NEW next \in Nat, IdsOK(rows, next),
           NEW row \in rows, row.kind = "close", ~row.excluded
    PROVE  /\ IdsOK(exclude(row.id, rows), next)
           /\ cash_total(rows) \in Int /\ cash_flow(row) \in Int
           /\ cash_total(exclude(row.id, rows)) = cash_total(rows) - cash_flow(row)
<1> DEFINE mark(r) == [r EXCEPT !.excluded = @ \/ r.id = row.id]
           marked == mark(row)
           rest == rows \ {row}
<1>1. marked \in Trade /\ marked.id = row.id /\ marked.kind = "close" /\ marked.excluded
  BY DEF Trade
<1>2. ASSUME NEW r \in rest PROVE mark(r) = r /\ r.id # row.id
  <2>1. r.id # row.id /\ r \in Trade
    BY DEF IdsOK
  <2>2. (r.excluded \/ r.id = row.id) = r.excluded
    BY <2>1 DEF Trade
  <2> QED BY <2>1, <2>2 DEF Trade
<1>3. exclude(row.id, rows) = rest \cup {marked}
  <2>1. exclude(row.id, rows) = {mark(r) : r \in rows}
    BY DEF exclude
  <2> HIDE DEF mark
  <2> QED BY <1>2, <2>1
<1> HIDE DEF marked
<1>4. rest \in SUBSET rows /\ IsFiniteSet(rest) /\ marked \notin rest
  BY <1>1, <1>2, FS_Subset DEF IdsOK
<1>5. \A r \in rows : cash_flow(r) \in Int
  BY FlowType
<1>6. cash_flow(marked) = 0
  BY <1>1 DEF cash_flow
<1>7. IsFiniteSet(rest \cup {marked}) /\ cash_total(rest \cup {marked}) = cash_total(rest) + 0
  BY <1>4, <1>5, <1>6, TotalAdds
<1>8. cash_total(rows) = cash_flow(row) + cash_total(rest) /\ cash_total(rest) \in Int
  BY <1>4, <1>5, TotalRemoves, TotalIsInt DEF IdsOK
<1>9. IdsOK(exclude(row.id, rows), next)
  BY <1>1, <1>2, <1>3, <1>7 DEF IdsOK
<1> HIDE DEF rest
<1> QED BY <1>3, <1>5, <1>7, <1>8, <1>9

\* Purged rows take what they moved with them.
LEMMA PurgeTakesBack ==
    ASSUME NEW rows \in SUBSET Trade, NEW next \in Nat, IdsOK(rows, next), NEW purged \in SUBSET rows
    PROVE  /\ IdsOK(rows \ purged, next)
           /\ cash_total(rows) \in Int /\ cash_total(purged) \in Int
           /\ cash_total(rows \ purged) = cash_total(rows) - cash_total(purged)
<1>1. \A r \in rows : cash_flow(r) \in Int
  BY FlowType
<1>2. /\ rows \ purged \in SUBSET rows /\ IsFiniteSet(purged) /\ IsFiniteSet(rows \ purged)
      /\ IsFiniteSet(rows)
  BY FS_Subset DEF IdsOK
<1>3. cash_total(rows) = cash_total(rows \ purged) + cash_total(purged)
  BY <1>1, <1>2, TotalSplits
<1>4. cash_total(rows \ purged) \in Int /\ cash_total(purged) \in Int
  BY <1>1, <1>2, TotalIsInt
<1>5. IdsOK(rows \ purged, next)
  BY <1>2 DEF IdsOK
<1> QED BY <1>3, <1>4, <1>5

\* A quotient times its divisor, and a share of the cash, are within what they
\* were taken from.
LEMMA QuotientFits ==
    ASSUME NEW n \in Nat, NEW d \in Nat, d > 0, NEW c \in Int, n <= c \div d
    PROVE  n * d <= c
OBVIOUS

\* A percentage of a cost, rounded down, is never more than that cost.
LEMMA ShareFits ==
    ASSUME NEW p \in 0 .. 100, NEW c \in Int
    PROVE  /\ (c * p) \div 100 \in Int
           /\ c >= 0 => (c * p) \div 100 <= c
           /\ c < 0 => (c * p) \div 100 <= 0
OBVIOUS

\* The contracts recomputed from a whole cost are those the cost was computed from.
LEMMA ProductDivides ==
    ASSUME NEW n \in Nat, NEW d \in Nat, d > 0
    PROVE  n * d \in Nat /\ (n * d) \div d = n
OBVIOUS

\* An entry inside the position cap is charged in full: open_position's clamp
\* leaves it alone, and the contracts recomputed from its cost are those asked for.
LEMMA CappedEntryIsWhole ==
    ASSUME bankroll \in Int, NEW side \in Sides, NEW price \in Price, NEW size \in Sizes,
           tradeable(side, price), size <= max_contracts(side, price)
    PROVE  /\ size * unit_cost(side, price) \in Nat
           /\ entry_cost(side, size, price) = size * unit_cost(side, price)
           /\ entry_size(side, size, price) = size
<1> DEFINE uc == unit_cost(side, price)
           cap == (bankroll * MaxPositionPct) \div 100
<1>1. uc \in Nat /\ uc > 0 /\ size \in Nat /\ size >= 1
  BY TradingAssumption, BrokerAssumption DEF tradeable, Sizes
<1>2. size <= cap \div uc
  BY DEF max_contracts, max_trade_size
<1>3. cap \in Int /\ (bankroll >= 0 => cap <= bankroll) /\ (bankroll < 0 => cap <= 0)
  BY TradingAssumption, ShareFits
<1> HIDE DEF cap
<1>4. size * uc <= cap
  <2> HIDE DEF uc
  <2> QED BY <1>1, <1>2, <1>3, QuotientFits
<1>5. size * uc \in Nat /\ size * uc > 0 /\ (size * uc) \div uc = size
  <2> HIDE DEF uc
  <2> QED BY <1>1, ProductDivides
<1> DEFINE full == size * uc
<1>6. full \in Nat /\ full > 0 /\ full <= cap /\ full \div uc = size
  BY <1>4, <1>5
<1>7. entry_cost(side, size, price) = IF full <= bankroll THEN full ELSE bankroll
  BY DEF entry_cost
<1>8. entry_size(side, size, price) =
        IF uc > 0 THEN TruncDiv(entry_cost(side, size, price), uc) ELSE 0
  BY DEF entry_size
<1> HIDE DEF full, uc
<1>9. entry_cost(side, size, price) = full
  BY <1>3, <1>6, <1>7
<1>10. TruncDiv(full, uc) = size
  BY <1>1, <1>6 DEF TruncDiv
<1> QED BY <1>1, <1>6, <1>8, <1>9, <1>10 DEF full, uc

\* An entry inside the cap is charged what its row says.
LEMMA EntryAddsUp ==
    ASSUME StoreInv, MoneyInv, db_faults = 0, NEW t \in Tickers, NEW side \in Sides,
           NEW price \in Price, NEW size \in Sizes, NEW hold \in BOOLEAN, NEW fee_fn \in Schedules,
           tradeable(side, price), size <= max_contracts(side, price),
           open_position(t, side, size, price, fee_fn, hold)
    PROVE  MoneyInv'
<1> DEFINE cost == size * unit_cost(side, price)
           position(fee) == [side |-> side, size |-> size, entry_price |-> price,
                             entry_fee |-> fee, opened_at |-> now,
                             hold_to_settlement |-> hold]
           trade(fee) == [id |-> next_id, ticker |-> t, kind |-> "entry", side |-> side,
                          size |-> size, price |-> price,
                          fee |-> fee, timestamp |-> now, excluded |-> FALSE]
<1>1. /\ bankroll \in Int /\ positions \in [Tickers -> Position \cup {Nothing}]
      /\ trade_log \in SUBSET Trade /\ next_id \in Nat /\ now \in Time
      /\ charged \in [Tickers -> Int]
      /\ IdsOK(trade_log, next_id) /\ off_ledger \in Int
      /\ CostBasisIsCharged /\ LedgerBalances
  BY DEF StoreInv, BookOK, BookTypeOK, MoneyInv, MoneyAddsUp
<1>2. /\ cost \in Nat /\ entry_cost(side, size, price) = cost
      /\ entry_size(side, size, price) = size /\ size \in Int
  BY <1>1, CappedEntryIsWhole DEF Sizes
<1>3. PICK fee \in Int : book_entry(t, cost, position(fee))
  BY <1>2, FeeType DEF open_position, fee_of
<1>4. /\ bankroll' = bankroll - (cost + fee)
      /\ positions' = [positions EXCEPT ![t] = position(fee)]
      /\ trade_log' = trade_log \cup {trade(fee)}
      /\ charged' = [charged EXCEPT ![t] = cost + fee]
      /\ next_id' = next_id + 1 /\ off_ledger' = off_ledger
  BY <1>3 DEF book_entry
<1>5. trade(fee) \in Trade /\ trade(fee).id = next_id
  BY <1>1, <1>2 DEF Trade
<1>6. cash_flow(trade(fee)) = -(cost + fee)
  BY DEF cash_flow
<1>7. CostBasisIsCharged'
  <2> SUFFICES ASSUME NEW u \in Tickers, positions'[u] # Nothing
               PROVE  charged'[u] = cost_basis(u)' + positions'[u].entry_fee
    BY DEF CostBasisIsCharged, open_tickers
  <2>1. CASE u = t
    <3>1. positions'[t] = position(fee) /\ charged'[t] = cost + fee
      BY <1>1, <1>4
    <3>2. cost_basis(t)' = cost
      BY <2>1, <3>1 DEF cost_basis
    <3> QED BY <2>1, <3>1, <3>2
  <2>2. CASE u # t
    <3>1. positions'[u] = positions[u] /\ charged'[u] = charged[u]
      BY <1>1, <1>4, <2>2
    <3>2. cost_basis(u)' = cost_basis(u)
      BY <3>1 DEF cost_basis
    <3> QED BY <1>1, <3>1, <3>2 DEF CostBasisIsCharged, open_tickers
  <2> QED BY <2>1, <2>2
<1> DEFINE row == trade(fee)
<1>8. trade_log' = trade_log \cup {row} /\ row \in Trade /\ row.id = next_id
      /\ cash_flow(row) = -(cost + fee)
  BY <1>4, <1>5, <1>6
<1> HIDE DEF row, cost
<1>9. /\ IdsOK(trade_log', next_id') /\ cash_total(trade_log) \in Int
      /\ cash_total(trade_log') = cash_total(trade_log) - (cost + fee)
  BY <1>1, <1>2, <1>4, <1>8, RowAdds
<1>10. LedgerBalances'
  BY <1>1, <1>2, <1>4, <1>9, LedgerSaid, BrokerAssumption
<1> QED BY <1>1, <1>4, <1>7, <1>9, <1>10 DEF MoneyInv, MoneyAddsUp

\* A close pays what its row says.
LEMMA CloseAddsUp ==
    ASSUME StoreInv, MoneyInv, db_faults = 0, NEW t \in Tickers, NEW price \in Price,
           close_position(t, price)
    PROVE  MoneyInv'
<1> DEFINE pos == positions[t]
           fee == taker_fee(pos.size, price)
           proceeds == pos.size * unit_cost(pos.side, price)
           trade == [id |-> next_id, ticker |-> t, kind |-> "close", side |-> pos.side,
                     size |-> pos.size, price |-> price, fee |-> fee,
                     timestamp |-> now, excluded |-> FALSE]
<1>1. /\ bankroll \in Int /\ positions \in [Tickers -> Position \cup {Nothing}]
      /\ trade_log \in SUBSET Trade /\ next_id \in Nat /\ now \in Time
      /\ charged \in [Tickers -> Int]
      /\ IdsOK(trade_log, next_id) /\ off_ledger \in Int
      /\ CostBasisIsCharged /\ LedgerBalances
  BY DEF StoreInv, BookOK, BookTypeOK, MoneyInv, MoneyAddsUp
<1>2. pos \in Position
  BY <1>1 DEF close_position
<1>3. pos.side \in Sides /\ pos.size \in Int
  BY <1>2 DEF Position
<1>4. fee \in Int /\ unit_cost(pos.side, price) \in Int
  BY <1>3, FeeType, UnitCostType
<1>5. proceeds \in Int
  BY <1>3, <1>4
<1>6. /\ bankroll' = bankroll + (proceeds - fee)
      /\ positions' = [positions EXCEPT ![t] = Nothing]
      /\ trade_log' = trade_log \cup {trade}
      /\ charged' = [charged EXCEPT ![t] = 0]
      /\ next_id' = next_id + 1 /\ off_ledger' = off_ledger
  BY DEF close_position
<1>7. trade \in Trade /\ trade.id = next_id
  BY <1>1, <1>3, <1>4 DEF Trade
<1>8. cash_flow(trade) = proceeds - fee
  BY DEF cash_flow
<1>9. CostBasisIsCharged'
  <2> SUFFICES ASSUME NEW u \in Tickers, positions'[u] # Nothing
               PROVE  charged'[u] = cost_basis(u)' + positions'[u].entry_fee
    BY DEF CostBasisIsCharged, open_tickers
  <2>1. u # t /\ positions'[u] = positions[u] /\ charged'[u] = charged[u]
    BY <1>1, <1>6
  <2>2. cost_basis(u)' = cost_basis(u)
    BY <2>1 DEF cost_basis
  <2> QED BY <1>1, <2>1, <2>2 DEF CostBasisIsCharged, open_tickers
<1> HIDE DEF trade, proceeds, fee
<1>10. /\ IdsOK(trade_log', next_id') /\ cash_total(trade_log) \in Int
       /\ cash_total(trade_log') = cash_total(trade_log) + (proceeds - fee)
  BY <1>1, <1>6, <1>7, <1>8, RowAdds
<1>11. LedgerBalances'
  BY <1>1, <1>4, <1>5, <1>6, <1>10, LedgerSaid, BrokerAssumption
<1> QED BY <1>1, <1>6, <1>9, <1>10, <1>11 DEF MoneyInv, MoneyAddsUp

\* A correction reverses the row it marks and credits what leaves no row.
LEMMA CorrectionAddsUp ==
    ASSUME StoreInv, MoneyInv, db_faults = 0, db_faults' = 0,
           NEW row \in disk.trades, NEW price \in Quote, correct_erroneous_close(row, price)
    PROVE  MoneyInv'
<1> DEFINE paid == row.size * unit_cost(row.side, row.price) - row.fee
           credit == IF price = NoQuote THEN 0
                     ELSE row.size * unit_cost(row.side, price) - taker_fee(row.size, price)
<1>1. /\ bankroll \in Int /\ trade_log \in SUBSET Trade /\ next_id \in Nat
      /\ IdsOK(trade_log, next_id) /\ off_ledger \in Int
      /\ CostBasisIsCharged /\ LedgerBalances
  BY DEF StoreInv, BookOK, BookTypeOK, MoneyInv, MoneyAddsUp
<1>2. row \in trade_log
  BY DiskAsMemory DEF StoreInv
<1>3. row.size \in Int /\ row.side \in Sides /\ row.price \in Price /\ row.fee \in Int
  BY <1>1, <1>2 DEF Trade
<1>4. paid \in Int /\ credit \in Int
  <2>1. unit_cost(row.side, row.price) \in Int
    BY <1>3, UnitCostType
  <2>2. price # NoQuote => price \in Price
    BY DEF Quote
  <2>3. price # NoQuote => unit_cost(row.side, price) \in Int /\ taker_fee(row.size, price) \in Int
    BY <1>3, <2>2, UnitCostType, FeeType
  <2> QED BY <1>3, <2>1, <2>3
<1>5. /\ row.kind = "close" /\ ~row.excluded
      /\ bankroll' = bankroll - paid + credit
      /\ trade_log' = exclude(row.id, trade_log)
      /\ off_ledger' = off_ledger + credit
      /\ UNCHANGED <<positions, next_id, charged>>
  BY DEF correct_erroneous_close, committed
<1>6. cash_flow(row) = paid
  BY <1>5 DEF cash_flow
<1> HIDE DEF paid, credit
<1>7. /\ IdsOK(trade_log', next_id') /\ cash_total(trade_log) \in Int
      /\ cash_total(trade_log') = cash_total(trade_log) - paid
  BY <1>1, <1>2, <1>5, <1>6, ExcludeTakesBack
<1>8. LedgerBalances' /\ off_ledger' \in Int
  BY <1>1, <1>4, <1>5, <1>7, LedgerSaid, BrokerAssumption
<1>9. CostBasisIsCharged'
  BY <1>1, <1>5 DEF CostBasisIsCharged, open_tickers, cost_basis
<1> QED BY <1>7, <1>8, <1>9 DEF MoneyInv, MoneyAddsUp

\* A purge moves what the purged rows moved off the ledger.
LEMMA PurgeAddsUp ==
    ASSUME StoreInv, MoneyInv, db_faults = 0, db_faults' = 0, NEW before, NEW after,
           clear_trade_range(before, after)
    PROVE  MoneyInv'
<1> DEFINE purged == {r \in trade_log : in_range(r, before, after)}
<1>1. /\ bankroll \in Int /\ trade_log \in SUBSET Trade /\ next_id \in Nat
      /\ IdsOK(trade_log, next_id) /\ off_ledger \in Int
      /\ CostBasisIsCharged /\ LedgerBalances
  BY DEF StoreInv, BookOK, BookTypeOK, MoneyInv, MoneyAddsUp
<1>2. /\ trade_log' = trade_log \ purged
      /\ off_ledger' = off_ledger + cash_total(purged)
      /\ UNCHANGED <<bankroll, positions, next_id, charged>>
  BY DEF clear_trade_range, committed, cash_total
<1>3. purged \in SUBSET trade_log
  OBVIOUS
<1> HIDE DEF purged
<1>4. /\ IdsOK(trade_log', next_id')
      /\ cash_total(trade_log) \in Int /\ cash_total(purged) \in Int
      /\ cash_total(trade_log') = cash_total(trade_log) - cash_total(purged)
  BY <1>1, <1>2, <1>3, PurgeTakesBack
<1>5. LedgerBalances' /\ off_ledger' \in Int
  BY <1>1, <1>2, <1>4, LedgerSaid, BrokerAssumption
<1>6. CostBasisIsCharged'
  BY <1>1, <1>2 DEF CostBasisIsCharged, open_tickers, cost_basis
<1> QED BY <1>4, <1>5, <1>6 DEF MoneyInv, MoneyAddsUp

\* An account with no row and no position.
LEMMA EmptyAccountAddsUp ==
    ASSUME trade_log = {}, bankroll = StartingBankroll, off_ledger = 0,
           positions = [t \in Tickers |-> Nothing], next_id \in Nat
    PROVE  MoneyInv
<1>1. IsFiniteSet({}) /\ cash_total({}) = 0
  BY FS_EmptySet, TotalUnfolds
<1>2. LedgerBalances
  BY <1>1, LedgerSaid, BrokerAssumption
<1> QED BY <1>1, <1>2 DEF MoneyInv, IdsOK, MoneyAddsUp, CostBasisIsCharged, open_tickers

\* reset leaves such an account.
LEMMA EmptiedAccountAddsUp ==
    ASSUME StoreInv', reset(StartingBankroll)
    PROVE  MoneyInv'
<1>1. /\ trade_log' = {} /\ bankroll' = StartingBankroll /\ off_ledger' = 0
      /\ positions' = [t \in Tickers |-> Nothing]
  BY DEF reset
<1>2. IsFiniteSet({}) /\ cash_total({}) = 0
  BY FS_EmptySet, TotalUnfolds
<1>3. LedgerBalances'
  BY <1>1, <1>2, LedgerSaid, BrokerAssumption
<1>4. IdsOK(trade_log', next_id') /\ off_ledger' \in Int
  BY <1>1, <1>2 DEF IdsOK
<1>5. CostBasisIsCharged'
  BY <1>1 DEF CostBasisIsCharged, open_tickers
<1> QED BY <1>3, <1>4, <1>5 DEF MoneyInv, MoneyAddsUp

\* Every step keeps the sums, while only market orders are placed.
LEMMA MoneyStep ==
    ASSUME StoreInv, StoreInv', OnlyMarketOrders, OrdersInv, MoneyInv, [Next]_vars
    PROVE  MoneyInv'
<1> SUFFICES ASSUME db_faults' = 0 PROVE MoneyInv'
  BY DEF MoneyInv
<1> USE TradingAssumption
<1>1. /\ db_faults = 0 /\ filling = Nothing
      /\ disk.bankroll = bankroll /\ disk.positions = positions /\ disk.trades = trade_log
  BY FaultsAreKept, DiskAsMemory DEF StoreInv, OrdersInv, OnlyMarketOrders
<1>same. ASSUME UNCHANGED <<bankroll, positions, trade_log, next_id, charged, off_ledger>>
         PROVE  MoneyInv'
  <2>1. LedgerBalances'
    BY <1>1, <1>same, LedgerSaid DEF MoneyInv, MoneyAddsUp
  <2>2. CostBasisIsCharged'
    BY <1>1, <1>same DEF MoneyInv, MoneyAddsUp, CostBasisIsCharged, open_tickers, cost_basis
  <2> QED BY <1>1, <1>same, <2>1, <2>2 DEF MoneyInv, MoneyAddsUp
<1>cancel. ASSUME NEW t, _cancel_pending(t) PROVE MoneyInv'
  BY <1>cancel, <1>same DEF _cancel_pending, history
<1>2. CASE UNCHANGED vars
  BY <1>2, <1>same DEF vars, brokerVars, memory, history
<1>3. CASE Entries
  <2>1. CASE \E marks \in Marks : evaluate_skip(marks)
    BY <2>1, <1>same DEF evaluate_skip, brokerVars, memory, history
  <2>2. ASSUME NEW t \in Tickers, NEW side \in Sides, NEW price \in Prices, NEW size \in Sizes,
               NEW confidence \in Confidences, NEW marks \in Marks,
               evaluate_limit(t, side, price, confidence, size, marks)
        PROVE  MoneyInv'
    BY <2>2, <1>same DEF evaluate_limit, place_limit_order, history
  <2>3. ASSUME NEW t \in Tickers, NEW side \in Sides, NEW price \in Prices, NEW size \in Sizes,
               NEW confidence \in Confidences, NEW marks \in Marks,
               evaluate_market(t, side, price, confidence, size, marks)
        PROVE  MoneyInv'
    BY <2>3, <1>1, EntryAddsUp
       DEF evaluate_market, entry_gates, _validate_entry_price, Schedules
  <2>4. ASSUME NEW t \in Tickers, NEW side \in Sides, NEW price \in Prices, NEW size \in Sizes,
               settlement_edge_entry(t, side, price, size)
        PROVE  MoneyInv'
    BY <2>4, <1>1, EntryAddsUp DEF settlement_edge_entry, Schedules
  <2> QED BY <1>3, <2>1, <2>2, <2>3, <2>4 DEF Entries
<1>4. CASE Fills
  BY <1>4, <1>1, <1>cancel
     DEF Fills, fill_expired, expire_order, fill_rejected, reject_fill, fill_taken, take_order,
         fill_opened, open_filled, fill_blocked, drop_filled
<1>5. CASE Exits
  <2>1. ASSUME NEW t \in Tickers, close_if_settled(t) PROVE MoneyInv'
    <3>1. 0 \in Price /\ Dollar \in Price
      BY FeeAssumption DEF Price
    <3> QED BY <2>1, <3>1, <1>1, CloseAddsUp DEF close_if_settled
  <2>2. ASSUME NEW t \in Tickers, NEW q \in Quotes, NEW corroborated \in Prices \cup {NoQuote},
               NEW stale \in BOOLEAN, NEW runway_exhausted \in BOOLEAN,
               NEW opened_since \in {now, now + 1},
               managed_exit(t, q, corroborated, stale, runway_exhausted, opened_since)
        PROVE  MoneyInv'
    <3> DEFINE price == exit_price(t, q[1], q[2], corroborated, stale)
    <3>1. price \in 1 .. Dollar - 1
      BY <2>2, QuoteParts, ExitPriceInside DEF managed_exit, StoreInv
    <3>2. price \in Price
      BY <3>1, FeeAssumption DEF Price
    <3>3. close_position(t, price)
      BY <2>2 DEF managed_exit
    <3> HIDE DEF price
    <3> QED BY <3>2, <3>3, <1>1, CloseAddsUp
  <2> QED BY <1>5, <2>1, <2>2 DEF Exits
<1>6. CASE Routes
  <2>1. ASSUME NEW t \in Tickers, NEW q \in Quotes, close_selected(t, q) PROVE MoneyInv'
    <3> DEFINE entry == positions[t].entry_price
               price == forced_exit_quote(positions[t].side, IF q[1] = NoQuote THEN entry ELSE q[1], q[2], entry)
    <3>1. close_position(t, price)
      BY <2>1 DEF close_selected, close_next
    <3>2. positions[t] # Nothing /\ BookOK /\ q[1] \in Quote /\ q[2] \in Quote
      BY <3>1, QuoteParts DEF close_position, StoreInv
    <3>3. price \in Price
      BY <3>2, ForcedClosePrice
    <3> HIDE DEF price
    <3> QED BY <1>1, <3>1, <3>3, CloseAddsUp
  <2>2. CASE reset_broker_account
    BY <2>2, EmptiedAccountAddsUp DEF reset_broker_account, reset_account
  <2>3. CASE \/ flatten_all \/ \E chosen \in SUBSET Tickers : close_positions(chosen)
             \/ \E first \in BOOLEAN : reset_broker(first)
             \/ reset_broker_risk
    BY <2>3, <1>same DEF flatten_all, close_positions, start_closing, reset_broker, start_reset,
                         reset_broker_risk, reset_finished, memory, history
  <2>4. ASSUME NEW row \in disk.trades, NEW price \in Prices \cup {NoQuote}, correct_close(row, price)
        PROVE  MoneyInv'
    <3>1. price \in Quote
      BY DEF Quote
    <3> QED BY <2>4, <3>1, <1>1, CorrectionAddsUp DEF correct_close
  <2>5. ASSUME NEW before \in Time \cup {Never}, NEW after \in Time \cup {Never}, purge_range(before, after)
        PROVE  MoneyInv'
    BY <2>5, <1>1, PurgeAddsUp DEF purge_range
  <2>6. CASE halt_trading \/ resume_trading \/ \E mode \in LimitModes : edit_config(mode)
    BY <2>6, <1>same DEF halt_trading, resume_trading, edit_config, brokerVars, memory, history
  <2> QED BY <1>6, <2>1, <2>2, <2>3, <2>4, <2>5, <2>6 DEF Routes
<1>7. CASE Environment
  BY <1>7, <1>1, <1>same DEF Environment, settle, crash_restart, restart, time_passes, clock_tick,
                             brokerVars, memory, history
<1> QED BY <1>2, <1>3, <1>4, <1>5, <1>6, <1>7 DEF Next

\* With market orders only, and until a transaction raises, the cash is what the
\* trade rows, the corrections and the purges explain, and every open position
\* took from it exactly its cost basis and its fee (cost_basis's docstring): the
\* position cap keeps every entry inside the cash, so open_position never clamps.
THEOREM MoneyAddsUpTheorem ==
    ASSUME OnlyMarketOrders
    PROVE  Spec => [](db_faults = 0 => MoneyAddsUp)
<1>0. OneOrderMode
  BY DEF OneOrderMode, OnlyMarketOrders
<1>1. Init => MoneyInv
  BY EmptyAccountAddsUp DEF Init, BrokerInit
<1>2. StoreInv /\ OrdersInv /\ [Next]_vars => OrdersInv'
  BY <1>0, OrdersStep
<1>3. StoreInv /\ StoreInv' /\ OrdersInv /\ MoneyInv /\ [Next]_vars => MoneyInv'
  BY MoneyStep
<1>4. MoneyInv => (db_faults = 0 => MoneyAddsUp)
  BY DEF MoneyInv
<1> QED BY StoreInit, StoreStep, OrdersInit, <1>1, <1>2, <1>3, <1>4, PTL DEF Spec
=============================================================================
