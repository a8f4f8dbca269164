--------------------------- MODULE StreamDispatch ---------------------------
(***************************************************************************)
(* The market side of services/kalshi/websocket.py, KalshiStreamGateway    *)
(* with two_consumer_mode on: a reader that counts, coalesces and queues   *)
(* what a connection delivers, one consumer that drains the market queue   *)
(* and then the coalesced tickers, a timer that drains the same tickers,   *)
(* and up to Slots trade handlers running at once behind a gate that       *)
(* admits one per ticker.  All of them share one event loop and interleave *)
(* where they await.                                                       *)
(*                                                                         *)
(* A lost connection cancels the consumer and every trade task; the next   *)
(* one starts with empty queues.  The semaphore, the gate, the counters    *)
(* and the timer outlive connections.                                      *)
(***************************************************************************)
EXTENDS Integers, Sequences, SequencesExt, FiniteSetsExt

CONSTANTS
    Markets,            \* market tickers
    NoMarket,           \* of an item that names none
    Slots,              \* _TRADE_DISPATCH_CONCURRENCY
    MaxQueue,           \* _INGEST_QUEUE_MAX
    Stamps,             \* exchange timestamps of ticker updates
    MaxReceived,        \* bound: messages ever received
    MaxConnects         \* bound: connections

ASSUME DispatchAssumption ==
    /\ NoMarket \notin Markets
    /\ Slots \in Nat /\ Slots >= 1
    /\ MaxQueue \in Nat /\ MaxQueue >= 1
    /\ Stamps \subseteq Nat \ {0}
    /\ MaxReceived \in Nat /\ MaxConnects \in Nat

VARIABLES
    connects,           \* _connects
    connected,
    queue,              \* _market_queue
    ticker_by_market,   \* _ticker_by_market, in insertion order
    consumer,           \* _consume_market_from: [at, item]
    flusher,            \* flush_pending_tickers: "idle" or "handling"
    tasks,              \* trade tasks in creation order: [id, market, at]
    gate,               \* _TickerDispatchGate: market -> ids, the holder first
    free,               \* the semaphore's value
    received, processed, coalesced, dropped, discarded,
    uncounted,          \* history: trades cancelled after they left the queue
    leaked,             \* history: slots whose task was cancelled before it started
    newest,             \* history: market -> newest stamp of this connection, 0 if none
    shown,              \* history: market -> stamps handed to a handler
    last_begun          \* history: market -> last trade whose handler began

connection == <<connects, connected>>
counters == <<received, processed, coalesced, dropped, discarded, uncounted>>
tickers == <<ticker_by_market, newest, shown>>
dispatch == <<tasks, gate, free, leaked, last_begun>>
vars == <<connection, queue, tickers, consumer, flusher, dispatch, counters>>

Wake == [cls |-> "wake", id |-> 0, market |-> NoMarket]
NoItem == [cls |-> "none", id |-> 0, market |-> NoMarket]
Idle(at) == [at |-> at, item |-> NoItem]
Ready == Idle("ready")

\* Bound: is there a message left to receive?
may_receive == connected /\ received < MaxReceived

Init ==
    /\ connects = 0 /\ connected = FALSE
    /\ queue = <<>> /\ ticker_by_market = <<>>
    /\ consumer = Idle("cancelled")
    /\ flusher = "idle"
    /\ tasks = <<>>
    /\ gate = [m \in Markets |-> <<>>]
    /\ free = Slots
    /\ received = 0 /\ processed = 0 /\ coalesced = 0 /\ dropped = 0 /\ discarded = 0
    /\ uncounted = 0 /\ leaked = 0
    /\ newest = [m \in Markets |-> 0]
    /\ shown = [m \in Markets |-> {}]
    /\ last_begun = [m \in Markets |-> 0]

(***************************************************************************)
(* The reader: _ingest_raw for a trade, or for a class handled inline      *)
(* (index, unclassified); a full queue sheds the new message.              *)
(***************************************************************************)
has_room == Len(queue) < MaxQueue

ingest(cls, m) ==
    /\ may_receive
    /\ received' = received + 1
    /\ IF has_room
       THEN /\ queue' = Append(queue, [cls |-> cls, id |-> received', market |-> m])
            /\ UNCHANGED dropped
       ELSE dropped' = dropped + 1 /\ UNCHANGED queue
    /\ UNCHANGED <<connection, tickers, consumer, flusher, dispatch,
                   processed, coalesced, discarded, uncounted>>

is_pending(m) == \E i \in DOMAIN ticker_by_market : ticker_by_market[i].market = m
pending_at(m) == CHOOSE i \in DOMAIN ticker_by_market : ticker_by_market[i].market = m

\* _coalesce_ticker, the market already pending: an older stamp is discarded,
\* any other takes the pending one's place.
\* Faulty form: the later arrival always wins.
supersede_always(m, stamp) ==
    ticker_by_market' = [ticker_by_market EXCEPT ![pending_at(m)].stamp = stamp]

supersede(m, stamp) ==
    ticker_by_market' = [ticker_by_market EXCEPT ![pending_at(m)].stamp =
                             IF stamp < @ THEN @ ELSE stamp]

\* _coalesce_ticker, the market not pending: the first entry wakes a parked
\* consumer.  Faulty form: emptiness is read after the insertion.
add_pending_unwoken(m, stamp) ==
    /\ ticker_by_market' = Append(ticker_by_market, [market |-> m, stamp |-> stamp])
    /\ queue' = IF ticker_by_market' = <<>> /\ has_room
                THEN Append(queue, Wake) ELSE queue

add_pending(m, stamp) ==
    /\ ticker_by_market' = Append(ticker_by_market, [market |-> m, stamp |-> stamp])
    /\ queue' = IF ticker_by_market = <<>> /\ has_room
                THEN Append(queue, Wake) ELSE queue

_coalesce_ticker(m, stamp) ==
    /\ may_receive
    /\ received' = received + 1
    /\ newest' = [newest EXCEPT ![m] = Max({@, stamp})]
    /\ IF is_pending(m)
       THEN supersede(m, stamp) /\ coalesced' = coalesced + 1 /\ UNCHANGED queue
       ELSE add_pending(m, stamp) /\ UNCHANGED coalesced
    /\ UNCHANGED <<connection, shown, consumer, flusher, dispatch,
                   processed, dropped, discarded, uncounted>>

(***************************************************************************)
(* The consumer's turn at the top of its loop: queue items first, then one *)
(* pending ticker, else it parks on queue.get().  Popping a ticker and the *)
(* handler's price write happen before the handler first awaits.           *)
(***************************************************************************)
pop_ticker ==
    /\ ticker_by_market # <<>>
    /\ ticker_by_market' = Tail(ticker_by_market)
    /\ LET u == Head(ticker_by_market)
       IN  shown' = [shown EXCEPT ![u.market] = @ \cup {u.stamp}]
    /\ UNCHANGED newest

\* _dispatch_trade_concurrent past the semaphore: take a slot, create the task.
create_task(item) ==
    /\ free' = free - 1
    /\ tasks' = Append(tasks, [id |-> item.id, market |-> item.market, at |-> "created"])
    /\ UNCHANGED <<gate, leaked, last_begun>>

take_item ==
    /\ consumer.at \in {"ready", "parked"} /\ queue # <<>>
    /\ queue' = Tail(queue)
    /\ LET item == Head(queue)
       IN  \/ item.cls = "wake" /\ consumer' = Ready /\ UNCHANGED dispatch
           \/ item.cls = "inline" /\ consumer' = [at |-> "handling", item |-> item] /\ UNCHANGED dispatch
           \/ item.cls = "trade" /\ free > 0 /\ create_task(item) /\ consumer' = Ready
           \/ item.cls = "trade" /\ free = 0 /\ consumer' = [at |-> "acquiring", item |-> item] /\ UNCHANGED dispatch
    /\ UNCHANGED <<connection, tickers, flusher, counters>>

take_ticker ==
    /\ consumer.at = "ready" /\ queue = <<>>
    /\ pop_ticker
    /\ consumer' = [at |-> "handling", item |-> NoItem]
    /\ UNCHANGED <<connection, queue, flusher, dispatch, counters>>

park ==
    /\ consumer.at = "ready" /\ queue = <<>> /\ ticker_by_market = <<>>
    /\ consumer' = Idle("parked")
    /\ UNCHANGED <<connection, queue, tickers, flusher, dispatch, counters>>

acquired ==
    /\ consumer.at = "acquiring" /\ free > 0
    /\ create_task(consumer.item)
    /\ consumer' = Ready
    /\ UNCHANGED <<connection, queue, tickers, flusher, counters>>

\* _process_item returns: handled, raised, or timed out after _HANDLER_TIMEOUT_SEC.
handled ==
    /\ consumer.at = "handling"
    /\ processed' = processed + 1
    /\ consumer' = Ready
    /\ UNCHANGED <<connection, queue, tickers, flusher, dispatch,
                   received, coalesced, dropped, discarded, uncounted>>

(***************************************************************************)
(* flush_pending_tickers: its own timer, whatever the consumer is doing,   *)
(* and between connections too.                                            *)
(***************************************************************************)
\* Faulty form of flush_ticker: no drain but the consumer's own.
flush_ticker_when_parked ==
    /\ flusher = "idle" /\ consumer.at = "parked"
    /\ pop_ticker
    /\ flusher' = "handling"
    /\ UNCHANGED <<connection, queue, consumer, dispatch, counters>>

flush_ticker ==
    /\ flusher = "idle"
    /\ pop_ticker
    /\ flusher' = "handling"
    /\ UNCHANGED <<connection, queue, consumer, dispatch, counters>>

flushed ==
    /\ flusher = "handling"
    /\ processed' = processed + 1
    /\ flusher' = "idle"
    /\ UNCHANGED <<connection, queue, tickers, consumer, dispatch,
                   received, coalesced, dropped, discarded, uncounted>>

(***************************************************************************)
(* _run_trade_item.  The event loop starts tasks in the order they were    *)
(* created; an asyncio.Lock admits its waiters in the order they came.     *)
(***************************************************************************)
set_task(i, at) == tasks' = [tasks EXCEPT ![i].at = at]
begin(t) == last_begun' = [last_begun EXCEPT ![t.market] = t.id]

next_to_start(i) ==
    /\ i \in DOMAIN tasks /\ tasks[i].at = "created"
    /\ \A j \in 1 .. i - 1 : tasks[j].at # "created"

start_trade(i) ==
    /\ next_to_start(i)
    /\ LET t == tasks[i]
       IN  /\ gate' = [gate EXCEPT ![t.market] = Append(@, t.id)]
           /\ IF gate[t.market] = <<>>
              THEN set_task(i, "running") /\ begin(t)
              ELSE set_task(i, "gated") /\ UNCHANGED last_begun
    /\ UNCHANGED <<connection, queue, tickers, consumer, flusher, free, leaked, counters>>

\* Faulty form of nobody_ahead: a lock any of its waiters may take.
nobody_ahead_unfair(t) ==
    \A j \in DOMAIN tasks : tasks[j].market = t.market => tasks[j].at # "running"

nobody_ahead(t) == \A k \in DOMAIN gate[t.market] : gate[t.market][k] = t.id => k = 1

pass_gate(i) ==
    /\ i \in DOMAIN tasks /\ tasks[i].at = "gated"
    /\ nobody_ahead(tasks[i])
    /\ set_task(i, "running") /\ begin(tasks[i])
    /\ UNCHANGED <<connection, queue, tickers, consumer, flusher, gate, free, leaked, counters>>

\* _hold's finally.  Faulty form: the lock is evicted though others wait on it.
release_gate_evict(m) == gate' = [gate EXCEPT ![m] = <<>>]

release_gate(m) == gate' = [gate EXCEPT ![m] = Tail(@)]

finish_trade(i) ==
    /\ i \in DOMAIN tasks /\ tasks[i].at = "running"
    /\ release_gate(tasks[i].market)
    /\ tasks' = RemoveAt(tasks, i)
    /\ free' = free + 1
    /\ processed' = processed + 1
    /\ UNCHANGED <<connection, queue, tickers, consumer, flusher, leaked, last_begun,
                   received, coalesced, dropped, discarded, uncounted>>

(***************************************************************************)
(* run(): the connection is lost (or forced closed).  Cancelling a running *)
(* handler goes through its finally blocks; so does one waiting at the     *)
(* gate, which has counted nothing yet; a task that was created but never  *)
(* started has entered no try block, and releases nothing.                 *)
(***************************************************************************)
tasks_at(stages) == {i \in DOMAIN tasks : tasks[i].at \in stages}

disconnect ==
    /\ connected /\ connected' = FALSE
    /\ consumer' = Idle("cancelled")
    /\ LET began == Cardinality(tasks_at({"running"}))
           unstarted == Cardinality(tasks_at({"created"}))
       IN  /\ processed' = processed + began + (IF consumer.at = "handling" THEN 1 ELSE 0)
           /\ uncounted' = uncounted + (Len(tasks) - began)
                               + (IF consumer.at = "acquiring" THEN 1 ELSE 0)
           /\ free' = free + (Len(tasks) - unstarted)
           /\ leaked' = leaked + unstarted
    /\ tasks' = <<>>
    /\ gate' = [m \in Markets |-> <<>>]
    /\ UNCHANGED <<connects, queue, tickers, flusher, last_begun,
                   received, coalesced, dropped, discarded>>

queued_messages == Cardinality({i \in DOMAIN queue : queue[i] # Wake})

\* _count_reconnect_discards.  Faulty form: the coalesced tickers are forgotten.
discards_queued_only == queued_messages

discards == queued_messages + Len(ticker_by_market)

_begin_connection ==
    /\ ~connected /\ connects < MaxConnects
    /\ connected' = TRUE /\ connects' = connects + 1
    /\ discarded' = discarded + discards
    /\ queue' = <<>> /\ ticker_by_market' = <<>>
    /\ consumer' = Ready
    /\ newest' = [m \in Markets |-> 0]
    /\ shown' = [m \in Markets |-> {}]
    /\ UNCHANGED <<flusher, dispatch, received, processed, coalesced, dropped, uncounted>>

-----------------------------------------------------------------------------
Receive ==
    \/ \E m \in Markets : ingest("trade", m)
    \/ ingest("inline", NoMarket)
    \/ \E m \in Markets, stamp \in Stamps : _coalesce_ticker(m, stamp)

Consume == take_item \/ take_ticker \/ park \/ acquired \/ handled

Flush == flush_ticker \/ flushed

RunTrade ==
    \E i \in 1 .. Slots : start_trade(i) \/ pass_gate(i) \/ finish_trade(i)

Next == Receive \/ Consume \/ Flush \/ RunTrade \/ disconnect \/ _begin_connection

Spec == Init /\ [][Next]_vars

\* Handlers end (the timeout bounds them), the event loop serves every task,
\* and the flush timer is supervised with restart.  Nothing is assumed of the
\* connection or of the slots.
FairSpec == Spec /\ WF_vars(Consume) /\ WF_vars(Flush) /\ WF_vars(RunTrade)

-----------------------------------------------------------------------------
Item == [cls : {"trade", "inline", "wake", "none"}, id : Nat, market : Markets \cup {NoMarket}]
Pending == [market : Markets, stamp : Stamps]
Consumer == [at : {"ready", "parked", "acquiring", "handling", "cancelled"}, item : Item]
Task == [id : Nat, market : Markets, at : {"created", "gated", "running"}]

\* The state has its types, and neither the queue nor the semaphore exceeds
\* its bound.
TypeOK ==
    /\ connects \in 0 .. MaxConnects /\ connected \in BOOLEAN
    /\ queue \in Seq(Item) /\ Len(queue) <= MaxQueue
    /\ ticker_by_market \in Seq(Pending)
    /\ consumer \in Consumer
    /\ flusher \in {"idle", "handling"}
    /\ tasks \in Seq(Task)
    /\ gate \in [Markets -> Seq(Nat)]
    /\ free \in 0 .. Slots
    /\ received \in Nat /\ processed \in Nat /\ coalesced \in Nat /\ dropped \in Nat
    /\ discarded \in Nat /\ uncounted \in Nat /\ leaked \in Nat
    /\ newest \in [Markets -> Stamps \cup {0}]
    /\ shown \in [Markets -> SUBSET Stamps]
    /\ last_begun \in [Markets -> Nat]

\* Two handlers never run for one ticker: the reason _TickerDispatchGate gives
\* is the cache they would both write in _resolve_unknown_markets.
OneHandlerPerTicker ==
    \A i, j \in tasks_at({"running"}) : tasks[i].market = tasks[j].market => i = j

\* One ticker's trades are handled in turn: one at a time, and begun in the
\* order they arrived, across the queue, the semaphore, the event loop and the
\* gate (_consume_market_from: "Same-ticker ordering is preserved").
TradesKeepTheirTurn ==
    [][/\ OneHandlerPerTicker'
       /\ \A m \in Markets : last_begun'[m] # last_begun[m] => last_begun'[m] > last_begun[m]]_vars

\* A consumer parked on its queue is never left there with tickers pending and
\* nothing in the queue to wake it (_coalesce_ticker's wake sentinel).
NoLostWakeup ==
    consumer.at = "parked" /\ queue = <<>> => ticker_by_market = <<>>

\* The newest update of a market that this connection delivered is pending or
\* has been handed to the handler, whichever of the two drains ran and
\* whatever order the updates came in.
NewestIsShown ==
    connected => \A m \in Markets :
        \/ newest[m] = 0
        \/ newest[m] \in shown[m]
        \/ is_pending(m) /\ ticker_by_market[pending_at(m)].stamp = newest[m]

still_here ==
    queued_messages + Len(ticker_by_market) + Len(tasks) + (IF flusher = "handling" THEN 1 ELSE 0)
               + (IF consumer.at \in {"handling", "acquiring"} THEN 1 ELSE 0)

\* Every message received is processed, coalesced, dropped, discarded with a
\* connection, still here, or one of the cancelled trades nothing counts
\* (the identity ingest_metrics is read by, #209).
EveryMessageCounted ==
    received = processed + coalesced + dropped + discarded + uncounted + still_here

\* No message is lost from sight, of the tickers never the newest one, and none
\* waits for a consumer that nothing will wake.
NothingIsLost == NewestIsShown /\ EveryMessageCounted /\ NoLostWakeup

\* Slots are held by tasks, and come back when the tasks are gone.
SlotsComeBack == free + Len(tasks) = Slots

\* A pending ticker leaves the map, even if the consumer waits for a slot for
\* ever (flush_pending_tickers: "drains the map on its own schedule").
TickersDrain == \A m \in Markets : is_pending(m) ~> ~is_pending(m)
=============================================================================
