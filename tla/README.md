# Kalshi whale-watcher: the model

The program watches the trades printed on the Kalshi exchange, turns large ones
into signals, decides on each signal whether to enter a position in a paper
account, and exits the positions it holds. Around that path it keeps a catalog
of markets, records what it saw, grades its own records against settled
results, tunes its configuration from them, and looks after itself. These
modules model the parts that move the account's money, the path a trade takes
to a decision, the stores that remember it, and the loops around them. TLC
checks them on small instances; TLAPS proves the theorems of section 6 for
every instance.

## 1. Inventory

Paths are relative to `src/services/` (`main.py` and `tools/` to `src/`).

| Part | State | Operations | Works with |
|---|---|---|---|
| `paper_broker.py` | bankroll, positions, trade log, cooldown clock, resting orders; four SQLite tables | open, place, check fills, close, close all, correct, purge, reset, load | every path into the account |
| `kalshi_fees.py` | none | unit cost, fees, the price an exit can be had at | broker, exits, routes |
| `risk_manager.py` | halt and its reason, day, day's baseline | check loss (with rollover), halt, resume, reset day, exposure check | strategy engine, broker guard, routes |
| `strategy_engine.py`, `settlement_edge_entry.py` | none of their own | `evaluate`, `validate_pending_fill`, `evaluate_entry` | decision bridge, trading loop, broker |
| `exits/exit_engine.py`, `exits/position_netting.py` | hysteresis counters, book peaks | `close_if_settled`, `check_exits`, `review` | broker |
| `main.py`, `position/routes.py`, `reset/routes.py` | the shared `state` dict | trading loop, flatten, close selected, reset, halt, resume | everything |
| `whalewatchers/kalshi_trade_tape.py`, `whale_stream/*` | seen ring, market cache, per-ticker watermark | look a market up, score a trade, poll the tape | gateway, decision bridge |
| `candidate_retry.py`, `candidate_ledger.py` | queue of failed lookups; one table | enqueue, run_pending; claim, record_decision | trade tape, decision bridge |
| `kalshi/websocket.py` | connection, three queues, coalescing map, semaphore, ticker gate, watchlist, flags and sids | receive, coalesce, dispatch, flush, subscribe, update, reconnect | trade tape, exits, dashboard |
| `capture_writer.py`, `candidate_log.py` | buffers, a writer thread, retained batches, the drop counter | submit, flush, retain, resolve, delete a range | every logger of trades and rejections |
| `settlement_resolver.py` | queue of settled tickers with attempts, three counts | enqueue, run_pending | lifecycle stream, five stores |
| `config/*`, `advisory/*`, `whale_calibration/*` | configuration and its file; suggestions, applied changes, snapshots | get, update, reload; generate, apply, calibrate | every part, every tick |
| `http_client.py` | token bucket, per-endpoint window, counts | request with retries | every REST caller |
| `alerting/*`, `task_supervisor.py` | last state per condition, alert table | check, crash alert, resolve, restart a task | background loops |
| `backup/*` | running flag, snapshot directories, recorded time | due, by hand, copy, prune, record | background loop, routes |
| `shadow_mode.py` | a second day, halt and cooldown clock | evaluate, resume, clear | decision bridge |
| `fault_log.py`, `series_watcher.py`, sampler | buffers, merged rows, windows | record, flush, merge, sample | every component |
| `market_catalog/*`, `market_watch/*` | catalog, series list, discovery cache, milestones, live status, winners, prices | scan, refresh, poll, overlay, rebuild | trading tick |
| `index_feed/*` | ticks, gaps, window observations | ingest, detect a gap, backfill, observe, prune | stream, settlement |
| `price_history`, `signal_log.py`, `signal_outcomes`, `data_quarantine.py` | snapshots, markouts, signals, ranges | record, score, grade, exclude, quarantine, release | decision bridge, reports |
| `market_events/event_schedule.py` | stored dates, one background task | resolve one, resolve a batch | trading tick |
| `diagnostics/*`, `analytics` | shared reading connections per loop | query with a timeout, join | dashboard |
| `reset/trade_archive.py` | archive tables, epoch | archive, delete | reset route |
| `tools/quality_*.py` | a small database per tool | observe, raise, settle, forget | the repository itself |

**What interleaves.** Everything that decides runs on one event loop, so two
handlers interleave only where they `await`; SQLite work goes through executor
threads or happens in place. A call without an `await` is one step of a model;
one that commits several transactions, awaits, or leaves the loop for a thread
is several. The capture writer has a daemon thread of its own beside callers
that flush; the tools are separate processes.

**What is hard.** The same facts live in several places: the account in memory
and in four tables, a trade id in a ring and in a ledger, a configuration in
memory and in a file, a market's newest price in a map two consumers drain, a
result in the exchange and in five stores that grade against it. Each path into
the account repeats only some of the gates of the others. Answers arrive after
what they describe has moved on. A connection, a transaction or the process can
be lost between any two steps.

**What makes each part correct.**

- *Account*: the cash is explained by the rows; a position is closed, never
  replaced; the tables equal memory whenever the process may die. *Entries and
  exits*: a halt stops every entry path; the two halves of a matchup are not
  both held; no quote is booked as a settled payout.
- *Candidate path*: a trade is evaluated once; a failed lookup stays retryable
  and its retry ends; the ledger says what happened.
- *Stream*: one handler a ticker, in order; no lost wake-up; the newest price is
  shown; every message is accounted for; each channel is subscribed once and
  updates name this connection's subscriptions.
- *Capture writer*: a row moves forward only, from waiting to stored or gone.
  *Settlement*: accepted tickers are resolved, dropped or queued; a grade agrees
  with the final result; a resolved row is frozen.
- *Configuration*: memory follows the file, automatic changes are authorized,
  spaced and on fresh evidence, and stay in the usable range.
- *Services*: the request rate is kept, alerts tell the conditions, nothing is
  uncounted, a restart keeps halts, backups and their spacing.
- *Discovery*: what is shown is current, pinned series are scanned, no milestone
  falls behind the watermark, fills are reconciled.
- *Desk*: a review does what it decided, evidence is joined to the right rows,
  gaps are filled, an observation belongs to its own moment.

`PROJECT.json` lists the hazards line by line with the properties that watch
them, and each component with its status.

## 2. Modules and the code

| Module | Models | EXTENDS |
|---|---|---|
| `KalshiFees`, `RiskManager`, `PaperBroker`, `Trading` | the account and every path into it | in a chain |
| `CandidatePath` | trade tape, retry, ledger, decision bridge | |
| `StreamDispatch`, `StreamSubscriptions` | the gateway, two-consumer mode; its subscriptions with the exchange's side | |
| `RowLedger` | abstract: what a capture store promises about a row | |
| `CaptureWriter` | submit, the daemon's and a caller's flush, failures, deletion, resolution | |
| `Settlement` | the queue, the signal poll, the tick and the window poll over the stores | `CaptureWriter` |
| `AdvisoryRules`, `ConfigStore` | suggestions and learnt weights; the configuration and its file | |
| `AutoApply` | automatic passes, routes and editors that change the configuration | those two |
| `Runtime` | the clock and the bounds the modules below share | |
| `RestClient`, `Backup`, `ShadowTrader`, `Telemetry`, `Coordination` | one background service each; `Telemetry` also alerts and supervised tasks | `Runtime` |
| `Operations` | these in one process: one clock, one crash, one sampler that empties the others' windows | those five |
| `Catalog`, `EventScans`, `Prices` | catalog and discovery; milestones, live status, winners; the market side of a tick and account fills | `Runtime` (`Prices`: `Catalog`) |
| `Discovery` | these on their schedules in one loop | `Prices`, `EventScans` |
| `PositionNetting`, `Background`, `SeriesEvidence`, `ResetArchive`, `IndexFeed`, `MarketHistory`, `Signals` | the work beside trading: `Background` has the report connections and the event schedule, `MarketHistory` the polled tape and the price history, the others one part each | `Runtime` or each other |
| `Desk` | these in one process | those seven |
| `MC*` | model values, tables, scenarios and symmetry for TLC | their module |
| `TradingProofs`, `CandidateProofs`, `WatchProofs`, `DispatchProofs`, `SettlementProofs`, `OperationsProofs`, `ControlProofs`, `DeskProofs` | theorems | module and `TLAPS` |

Operators keep the names of the functions they model. A definition whose comment
begins "Faulty form", "Faulty variant" or "Mutant" is a plausible mistake in the
definition below it; no specification uses it, and `PROJECT.json` ("mutants")
says which property it breaks.

**Account.** `bankroll`, `positions`, `trade_log`, `last_trade_time` and
`pending_orders` are the broker's attributes; `disk` is the four tables. A step
that commits writes `disk` from memory (`persist`), and while `db_faults` is
below its bound a commit may fail instead: memory has moved and disk has not.
Handlers that commit more than once are jobs (`filling`, `closing`,
`resetting`); while a job runs only its own next step or a crash may happen,
because the handler does not await in between; `restart` drops the job and loads
`disk`. `charged` and `off_ledger` are history: what opening a position took,
and what corrections and purges moved without a row. In `Trading`, `Entries` are
`evaluate` and `settlement_edge_entry`, `Fills` are `check_pending_fills` for
one order, `Exits` are `close_if_settled` and `managed_exit`, `Routes` the
operator's, `Environment` settles markets, crashes the process and moves the
clock. Gates over data outside the account can reject anything, so a skip is
always allowed.

**Candidate path.** `worker[w]` is where a handler's coroutine stands and with
which trade; the retry loop is one more handler. `seen` is the ring, `pending`
the retry queue, `ledger` the table, the only part a crash leaves.

**Stream.** `Receive` is `_ingest` and `_coalesce_ticker`; `Consume` the market
consumer with a step after each of its awaits; `Flush` the timer that drains the
same map; `RunTrade` a trade task. `disconnect` cancels consumer and tasks, each
where it stands. The semaphore, the gate and the counters outlive connections.
`sync` is one run of `_sync_subscriptions`, a single step because the sends of
one run share the flags it has just set; `answer` a processed `subscribed`
reply, `shed_answer` one dropped by a full queue; `server` is the exchange,
external to `src/`.

**Capture and settlement.** A thread of `capture_writer` is a record saying which
batch it swapped out and whether it is writing it or adding a lost batch to the
counter it read without the lock. Keyed stores replace by ticker, the event
store inserts. `job` is `run_pending` between its request and the five stores,
any of which may raise; `poll` and `tick` are the two other writers of grades.
The exchange may amend a result until the market is finalized. `CaptureWriter`
instantiates `RowLedger` twice, as `Events` and `Candidates`, under the mapping
that merges buffers, retained and swapped-out batches into `waiting`.

**Configuration.** `store` holds objects on a heap, because callers keep
references to tables that `update` merges into in place; the file has contents
and a modification time. `pass` and `manual` are the two calibrations, which
leave the loop while they read signals; `pending` is a change written and not yet
recorded. The rules and the calibration of `AdvisoryRules` are
functions of the evidence, in integers scaled as their comments say.

**Operations, discovery, desk.** Requests, scans, copies, polls and joins are
records with a phase; the answer to a request is drawn from what the exchange
held when asked or may be missing; a price or volume is represented by the time
it was read, which is what its freshness depends on. Each of `rest`, `alerting`,
`scan`, `prices`, ... is a `part`, taken by a behaviour when its scenario names it.

**Signals.** A worker of `scoring` holds the signals its batch returned, scored
against the rows `logged` at the moment the thread looked; `_handle_signal` is
the loop taking one of them, and it may find the trade claimed by the other path.
The nine factors and their weighted mean are computed, in parts of `Full`, prices
in parts of `Unit`; the exponential of the depth is a table. What the watcher
turns down goes to `turned_down` (history) and, as `candidate_rows`, through the
writer's buffer and hands into the two candidate tables, one keyed, one sampled;
the reports (`gate_summary`, `population_gate_summary`, its bands) are operators
over what a flush leaves in the tables. The reader's gate
(`_gate_check_and_maybe_filter`, off by default) records what it filters by
itself. `deltas` holds the rows the edge gate is calibrated on, the gate's
verdict (`_edge_gate_check`) and the pressure to leave a position
(`_exit_confidence`) are operators of the state, asked at every moment for the
positions `budget.exits` names. The edge gate's buckets go by the category
recorded when the account traded a market (`recorded_category`); a row of a
market it never traded is in none, and a market without a category moves no
price. A batch is scored against the rows of one moment, where the code reads
the log again for each print of it. That a flush may fail is in `CaptureWriter`,
not here.

**The polled tape and the price history.** `_seen_order` is the watcher's ring;
it and the watermark are attributes of the process, so `stopped_and_started`
empties both, and the first tick afterwards fetches the newest page again and
judges what is on it, as `crash_restart` of `CandidatePath` has it for the
stream. A signal judged twice that way is dropped by the durable claim of
`CandidatePath`; a rejection is recorded again. `judged` is history: what was
judged, in order, with the restarts. Of the prices, `seen_prices` grows when a
price is shown, with its moment; `in_flight` is what the executor was given and
has not written, in any order; a row falls to the throttle, to a fault or to a
restart (`unrecorded`), and a prune takes a bounded batch of the old rows, in no
order. A markout notes what was in flight when it was taken (`excused`).

**Netting.** `review` decides on every group, then closes leg by leg without
awaiting, so it is one step: all legs, or, when a commit fails, those up to and
including the leg whose rows could not be written, and nothing after it. Memory
is what `held` is; the tables are those of `PaperBroker`.

## 3. Runs

| Run | Shows | Size |
|---|---|---|
| `trading_market` | market orders on the halves of one matchup with exits, flatten, selective closes, corrections, purges, settlements, crashes: cash explained, one side, nothing replaced, no fabricated payout | 399k states |
| `trading_limit` | one ticker, both order modes, settlement-window entries, both halts, rollover, resets: tables equal memory at every crash point, a standing halt admits no entry | 421k |
| `candidate_once` | redelivery, ring eviction, retries, failing writes, a restart: evaluated once, ledger true, retries end | 175k |
| `stream_gateway` | two slots, queue of two, four messages, two connections: turn and order of a ticker's trades, nothing lost or uncounted, pending tickers drain | 511k |
| `stream_served` | four watchlist changes over three connections, late and shed answers | 32k |
| `settlement_grading` | eight scenarios of rows, overlapping flushes, failing statements, deletes and crashes around an exchange that amends results: both stores implement the row ledger, the queue adds up and drains, no grade contradicts a final result | 102k |
| `control_tuning` | eleven scenarios of closing trades, automatic passes, routes, edits of the file, failing writes and crashes | < 1 min |
| `operations_services` | fifteen scenarios of the services under failing writes, cancellations, crashed tasks and restarts, and of the two repository tools | about 1 min |
| `discovery_watch` | sixteen scenarios of discovery and of a tick's market side under failing, missing and late answers, lost messages and restarts | about 1 min |
| `desk_services` | thirty-four scenarios of the work beside trading: netting, reports, series evidence, resets, the index feed, the polled tape, markouts, and signals scored, graded, quarantined, released and cleared | 1.7M, 3 min |
| `stream_slots`, `operations_loops` | a statement of the code's comments the code does not keep (section 5) | stop at the counterexample |

**Scenarios.** From `Settlement` on, an initial state draws one member of
`Scenarios`: the bounds of the behaviour (how many rows, requests, faults,
restarts, ticks of the clock) and the parts that take part. That keeps one
specification per composition while each question is asked at the size it needs;
the MC modules name the scenarios after what they are about. `Takes(part)` and
`Spends(bound)` are the only guards that come from a bound and not from the code.

**Bounds, and why they suffice.**

- *Trading*: prices in quarters of a dollar (`Dollar = 4`), so take-profit,
  stop-loss, break-even and a full payout are different prices; two tickers, the
  halves of one matchup and members of one series, because no gate relates more
  than two; quotes that include an empty side and a 0/1 book; `MaxTrades = 4`
  rows, two entries and two closes; `MaxTime = 1`, past one cooldown, one order
  timeout and, with `DayLength = 1`, one day. `trading_market` runs with market
  orders only and both runs with `MaxDbFaults = 0`: the premises under which
  their properties hold (section 5 lifts each).
- *Candidate path*: two trades and a ring of one, so each evicts the other; one
  stream handler beside the retry, two attempts, one crash, one reset.
- *Dispatch*: two markets; two slots, so two leaked slots leave the consumer
  waiting for ever; a queue of two, full with a wake-up and a trade; four
  messages; two connections; two stamps, in either order.
- *Subscriptions*: two tickers, so a list can grow, shrink and be swapped; a
  change before, between and after each of the first two connections.
- *Settlement*: two rows of one ticker, so an upsert can be overtaken by the
  older one; three flushing threads; two attempts; `MaxRetained = 1`, so a
  retained batch is at its cap at once; a result that is amended once.
- *Control*: one group of trades per rule, large enough to pass its floor and
  small enough that each application makes it stale; clocks past a cooldown.
- *Operations*: three requests and a bucket of two, so the third waits; two
  copies kept over three intervals, so pruning meets a failed cycle; a day of two
  ticks with two shadow trades; tools with two subjects, a floor of two to four
  hours and up to four runs.
- *Discovery*: clocks long enough for two scans, a full series list and its
  next; three series and a batch of two, so one can be starved; pages and polls
  of one object, so a rotation has to turn; one omitted answer.
- *Desk*: two to four positions of one event, on the same and on opposite sides;
  three readers over two loops and one file; an index clock past several windows; two
  pages of one trade; prints of two markets; a ring of two (`MaxSeen`) for three
prints, so it evicts while the overlap still holds the evicted; a prune of one
row at a time, so old rows are left beside a gap. A scenario enumerates the moments
  at which another part may strike (a restart, a fault, a late answer).
- *Signals*: `Unit = 6`, so the bands of a price have inner bounds and a price
  has a mirror image that is not itself; prints a factor of four apart in size
  (the bound of "similar"), without a size, a side, a price or a known market;
  a batch of two; three quotes, the least from which unrest is measured; one
  settlement, one quarantine with its release and one cleared range.

`CHECK_DEADLOCK FALSE` is set for the stream, control, operations, discovery and
desk runs: a quiet connection delivers nothing, and a scenario whose budget is
spent ends. Symmetry is used in `trading_market` only, and in no run with a
liveness property. `PROJECT.json` has a mutant of the code for every property of
every passing run.

## 4. Fairness

- `CandidatePath!FairSpec`: the retry loop is a supervised task and its awaits
  time out, so each of its steps is eventually taken; picking one given queued
  trade is strongly fair because the loop walks its whole queue and is only busy
  with others in between. Nothing is assumed of the stream.
- `StreamDispatch!FairSpec`: handlers are cut by `_HANDLER_TIMEOUT_SEC`, the loop
  serves every task and the flush timer is supervised, so `Consume`, `Flush` and
  `RunTrade` are weakly fair. Nothing is assumed of the connection, of messages
  or of slots: `TickersDrain` holds even with the consumer stuck for ever,
  because of the timer.
- `Settlement!FairSpec`: flushes, workers, `run_pending` and its store steps, the
  signal poll and the tick are periodic and finish, so they are weakly fair; a
  request that is asked again and again is sometimes answered and a statement
  repeated sometimes succeeds, so `request_answered` and `mark_resolved` are
  strongly fair. Nothing is assumed of new rows, deletes, crashes or amendments.
- `Operations!FairSpec`: a supervised task that is waiting to be restarted is
  restarted, because `supervise` only sleeps.

The control, operations, discovery and desk runs check safety. Progress among
their properties is a bound on the clock ("scanned", "refreshed", "resynchronised
within n ticks"), which needs no fairness: as the loop runs what is due before
it sleeps again, `tick_clock` waits for it (`CatalogPrompt`, `PricesPrompt`,
`IndexPrompt`, `TapePrompt`), and a request takes at most `AnswerTime`.

## 5. Where code and comments disagree

Two statements have a run of their own:

- `kalshi/websocket.py:1460` (`stream_slots`): a trade task cancelled before its
  first step never releases its slot, and the semaphore outlives the connection.
- `task_supervisor.py:65` (`operations_loops`): a crash whose alert cannot be
  written ends a supervised loop for good.

The models contain the states behind the following, and the statement is kept as
a definition beside the properties. Putting it into the configuration named here
as an `INVARIANT` or `PROPERTY` makes TLC print the counterexample.

| Statement | Instance that refutes it | Code |
|---|---|---|
| `NoSilentReplacement` | `Trading_limit.cfg` (both order modes) | `paper_broker.py:584`: a fill overwrites the position a market order opened after the mode was edited |
| `CostBasisIsCharged` | `Trading_limit.cfg` | `paper_broker.py:388`: a fill clamped to the remaining cash charges the cash, not the cost |
| `DiskLedgerBalances` | `Trading_limit.cfg`, `MaxDbFaults = 1` | `paper_broker.py:434`: the write after a failed one stores the failed trade's cash without its row |
| `ClaimedIsEvaluated`, `CountersExist` | `CandidatePath_once.cfg` | `decision_bridge.py:66`: claimed and never evaluated; `reset/routes.py:208`: a counter lost by a reset |
| `WatchlistIsServed` | `StreamSubscriptions_served.cfg` | `websocket.py:1815`: a change synced before the answers is sent to nobody |
| `WindowGradedByTerminalResult` | `MCSettlement`, `WindowScenarios` | `index_stream_handlers.py:196`: a window is graded by a result that is amended later |
| `RecordedChangeIsLive`, `AuditTellsTheOldValue` | `MCControl`, `OverrideScenarios`, `AuditScenarios` | `config_store.py:164`: a removed override stays; `main.py:658`: the old weights are logged as the new |
| `QuietPricesRefreshed`, `StampTellsPrice`, `VolumesWithinWindow` | `MCDiscovery`, `PriceScenarios`, `StampScenarios`, `FeeScenarios` | `market_fetch.py:92`, `main.py:1172`, `catalog_scan.py:563` |
| `NeverHalfExecuted` | `MCDesk`, `HalfScenarios` | `position_netting.py:471`: a leg whose rows cannot be written raises, and the legs after it stay open |
| `LockedIsLocked` | `MCDesk`, `RunnersScenarios` | `position_netting.py:93`: two open siblings of a larger field are priced as a complete pair |

`PROJECT.json` quotes each, and the disagreements met while reading whose state
the models contain but no property states (the unread buffer ceiling of the
series watcher, alerts that outlive a restart, directories of failed cycles
counted as snapshots, events without a milestone that starve the live rotation,
the live flag of an experiment nothing writes, releases that restore signals of
another range, gaps detected before the connection is back or whose last tick
cannot be read, a ring of seen prints that a restart empties, watermarks that
advance over a failed fetch, resets that delete what they could not archive, and
others). In the signals: the reports of `candidate_log.py` flush so that "no
caller ever sees a stale undercount", which is not so for a batch the writer's
thread has swapped out and not yet committed, and such a batch, written after the
flush, puts an older row of its key over the newer one (`Written`); the reader's
gate records a print as often as it is delivered, because the ring of seen trades
is behind it; `series_evaluator` is never fed, as nothing calls
`record_trades_observed_bulk`. Further, without an entry there: a cancelled trade is counted nowhere
(`uncounted` is that remainder), a restart rebuilds the cooldown clock from
closing rows too, resting orders on both halves of a matchup can both fill.

## 6. Proofs

The assumptions are the modules' named `ASSUME`s: ranges of the constants, that
`Nothing` is not a position or an order, that `Tickers` is finite and not empty,
that scenarios are budgets, that the bounds of rows and retained rows are
numbers, that there are finitely many requests and files to copy, that the
categories an alert watches are no crash, that the sampler's and the flush's own faults are faults,
that the fault rows an older database held are rows, and that `NoCaller` and
`Daemon` are no worker threads. The cooldown of automatic changes is a
number, and no level's floor is below the gap of a burst. Of the desk: every
reader has a name and a loop; the overlap of the tape and the retention of the
price history are numbers, the ring holds at least one print, and no scenario delays a print by more than the
overlap and the second the watermark allows; the account is none of the domains a
reset can also clear; a settlement window is shorter than the quarter hour, markets
close on it and the tolerance is less than it; values and strikes are integers.
The entries, books and quotes of a netting are positions and quotes of finitely many
markets, their prices cents, their sizes numbers; the series watcher's window and the
lookback of its evidence are numbers. Of discovery (`CatalogAssumption`,
`PricesAssumption`, `EventAssumption`): periods are numbers, each market belongs to
a series, there are finitely many, requests and pauses take time, and the live
markets of a tick fit into what an eviction leaves of the cache (`watchlist_size`
is 150, `_MAX_MARKET_OBJECT_CACHE` 2000).
Every theorem is of `Spec`, without fairness.

- `CandidateProofs`: `EvaluatedOnceTheorem`, `LedgerTruthTheorem`. At most one
  evaluation is not inductive: two handlers may reach the claim with one trade.
  `OnceInv` adds that at most one handler is between claim and evaluation of a
  trade, and then the ledger says `claimed` with no evaluation; that a handler
  past its evaluation has made exactly one; and that an unclaimed trade is in no
  handler past the claim.
- `TradingProofs`: `DiskMatchesMemoryTheorem`, `TypesTheorem`,
  `NoFabricatedPayoutTheorem`, `HaltStopsEntriesTheorem`,
  `NoSilentReplacementTheorem`, `OneSidePerMatchupTheorem`, `MoneyAddsUpTheorem`. `StoreInv` is the type of book, jobs and
  environment together with the equality: the tables must be typed as well as
  the memory, because a restart loads one into the other, and a commit makes the
  tables equal only if what it stores is well formed. `PayoutInv` adds that no
  position held, stored or about to open has a unit cost of a whole dollar (an
  exit that falls back on the entry price is no payout), and that stored rows are
  as earned as those in memory.
  `HaltStopsEntriesTheorem` has no premise. `NoSilentReplacementTheorem` is for
  either order mode, kept: `OrdersInv` says that a resting order, or one that is
  being filled, is for a ticker nothing is held in, which a live edit of
  `use_limit_orders` breaks (section 5), and so does a failed transaction, whose
  row is still on disk at the next restart. `OneSidePerMatchupTheorem` and
  `MoneyAddsUpTheorem` are for market orders, the configured mode, until a
  transaction raises (`db_faults = 0 => ...`); a resting order is checked against
  the complement and the cash when it is placed, not when it fills. The first
  also needs `MatchupsPair`: complements come in pairs, and the markets of the
  settlement window, which never looks at the other half, are in none. In
  `MoneyInv` the trade rows are finite with distinct ids below the next one, so a
  correction takes back one row and a purge each row once; that a position took
  exactly its cost and fee follows from the position cap, under which
  `open_position` never clamps.
- `WatchProofs`: `SubscribedOnceTheorem`, `ServedWhenAddressedTheorem`,
  `SidsTheorem` of the stream's subscriptions; `MarketDataTheorem`,
  `FillsTheorem`, `MilestonesTheorem`, `PinsTheorem` of discovery, for any
  periods, bounds and sets. `StreamInv` adds what the flags mean (a channel not up has not
  been subscribed; an exchange-wide trade channel is up and whole) and what is
  believed (the list believed subscribed is the watchlist unless a change is
  unseen, and is what the exchange streams unless an update was not addressed).
  `DiscoveryInv` is the invariant of the polling, in four parts that share the
  clock and the bounds (`WatchBounded`); a lemma says which of them a step can
  touch. `CatalogInv`: a market that is not listed yet is in no message and no
  answer, so no stale row can bring it forward (`UnlistedOK`); what is shown was
  traded when its confirmation was asked (`ShownOK`); a full list that was read
  and is not merged yet stands for the one in the cache (`ListsOK`, `VolumesOK`),
  which is why a restart in between costs the time that list was awaited
  (`Restarted`). `PricesInv`: the snapshot a tick holds has every fill from before
  it was asked (`SnapshotOK`), and a fill not shown cannot have waited longer than
  a refresh before the tick that will show it (`FillsOK`). Of a price, `Stamped`
  and `RowTaken` relate its age, its stamp, the row the tick has gathered and how
  often a row was put back over a newer price (`Lag`). An eviction may remove the
  row a tick just asked for, but not one of the live set: half the cache is left
  and the newest rows stay, which the set fits into (`AskedAreKept`, a
  cardinality argument); a position's own row that is evicted waits one tick
  (`Slack`). `MilestonesInv`: an update older than the next watermark is known or
  in the answer that has been read.
- `DispatchProofs`: `MessagesAreNotLost`, `TurnsAreKept`, `DispatchIsTyped`,
  `SlotsAreAccounted`, from `DispatchInvariant`. That trades of one ticker begin
  in the order they arrived is the work of four stages, none of which knows the
  others: the queue, the wait for a slot, the order in which the loop starts
  tasks, and the gate. `ArrivalInv` says that what waits is numbered as it
  arrived, tasks before the trade that waits for a slot, that before the queue,
  and all of it after every trade that has begun; `GateInv` that tasks start in
  the order of their creation, that a market's gate holds exactly its started
  tasks in that order, and that the running one is its first. `PendingInv` (one
  entry a market, never above the newest stamp) makes `NewestIsShown` inductive;
  the count needs `ArrivalInv` too, because only a wake-up in the queue stands
  for no message. `SlotsInv` is the sum the code relies on with the remainder it
  does not know, the slots of tasks cancelled before they started.
- `SettlementProofs`: `QueueTheorem` from `QueueInv` (types; a job in progress
  holds tickers that are queued). `TerminalTheorem` from `GradeInv`: no grade of
  a final market contradicts its result, whichever writer came first. What a
  writer holds in its hands must agree too, so the invariant says it of declared
  winners, of results fetched and not yet written, of rows in the stores and of
  resolved candidates; it needs `MilestonesAgree`, that a declared milestone
  winner is the final result, which the code takes for granted. `FrozenTheorem`:
  no flush, retry or restart rewrites a resolved row. `EventsTheorem` is the
  refinement `Spec => Events!Spec`: the event store implements `RowLedger`. Its
  invariant adds that a row waits in one place only (buffer, retained or one
  thread's batch) and nowhere once stored, without which a flush could store a
  row twice.

- `OperationsProofs`: `RateTheorem`, `AlertsTheorem`, `GuardsTheorem`,
  `CountsTheorem`, `ToolsTheorem`. The parts share a clock and a restart and nothing else, so
  each has its own invariant and a lemma that says which steps touch its state.
  `RateInv` adds to the rate what makes it inductive: from any grant on, the
  grants since and what the bucket still holds are within the bucket and the
  refill since (`Paid`). `AlertsTellTheState` is inductive with its types;
  the work is to carry it through `RowsAfter`, which recurs over the categories
  and may end at any of them. `BackupInv` orders the
  copies of a tier in time and says which file each still lacks, so that pruning
  the oldest cannot take the one a run recorded. `SampleInv` says that the gate
  of the sampler is its last sample or not looked up. `AttemptInv` adds that a
  request has one place in the limiter's queue; then every step moves one
  attempt between the tables or none. `FaultInv` says that the index implies one
  row per fault and that the counts are what was reported: the merge of an older
  database keeps the count of all its rows (`MergeCounts`). `RowsInv` says that
  an observed row is in exactly one place; a swap, a flush and a restart are all
  moves of whole places (`MovedOnce`).
  `ToolsInv` says of both tools' rows that one which
  is not gone began in a run since when every run found its subject (`Lasting`);
  it needs only that no level's floor is below the gap of a burst.

- `ControlProofs`: `FollowsTheorem`, `TuningTheorem`. `StoreInv` adds the state
  between a rename and its stat: an update that is written and not yet recorded
  left memory and file the same, so stamping the file as read is no lie; a
  failed dump, or an edit in between, is what `adrift` names. `RecordInv` carries
  the cooldown over the two steps of an automatic change, the update and its
  row: one that waits for its row is a cooldown after every row of its source
  (`Since`), which the pass asked of `last_applied_at` at its own, earlier time
  (`PassClock`), and nobody else adds a row of that source in between. That the
  evidence is fresh is a fact of the step: the place the pass takes is one that
  `drop_stale_recommendations` left, and the time it compared with is no earlier
  than any row of the path (`LastOfPath`). The rules themselves are arbitrary:
  nothing is assumed of what they suggest.

- `DeskProofs`: `BackgroundTheorem`, `TapeTheorem`, `MarkoutsTheorem`,
  `ResetsTheorem`, `IndexTheorem`, `NettingTheorem`, `EvidenceTheorem`. `Desk` composes nine parts that share a clock and the bounds;
  `BoundsStep` says once what a step of any part may do to those, and each
  invariant is then carried by the steps of its own part. `WorkersInv`: a worker
  that runs is cached under its own key, or its opener holds the lock of its
  loop and nothing is cached under the key. From that follows what the property
  says, that no two running workers share a key and the exit hook finds each;
  the probe, the second look under the lock and the eviction each keep one of
  its halves. `TapeCovers` says what each stage of a tick owes: a fetch under
  way has, from every market that answered, all that is due at its own moment;
  a fetched tape holds what the watermark, already advanced, made due. It needs
  that a print is served late by no more than the overlap. `RingOK` says that the
  ring is the end of what was judged since the last restart (`LogEnd`): so what is
  judged again is not among the last `MaxSeen`, or a restart lies between. `HistoryInv`
  says that a price is in flight, unrecorded, in the table with the moment it was
  shown, or past the retention: so the newest row up to a target is the newest of
  the prices a markout may know (`PricedBy`), and one already taken stays true
  whatever is shown, written or pruned after it (`MarkoutStays`). In
  `ResetInv` the rows of the account, gone and present, have distinct ids below the next one
  (`Numbered`), every row gone is in an archive taken before, and the rows gone
  are those the log has counted and those the reset under way will. Of the index,
  `WindowInv` ties the newest frame and every observation to the values they are
  of, by place in the sequence: a sum over a part of it is not changed by more
  values (`PartStays`), and the part known and the rest add up to the window
  (`PartsAdd`), so an observation comes true exactly when its market settles
  YES. `FillInv` says that no row leaves the tape's four places, and that a gap
  measured whole begins at a row there is; then every second after the last
  row is missing, in a bucket that is read (`PromisedIsAnswered`); a last tick that cannot be read
  promises nothing. Of netting,
  every amount of a book is whole (`ExpectedIsInt`), so legs equally worth
  trimming have one improvement, and what is expected of an action splits into
  the money it brings and the rest of the book (`ActionsTellTheirGain`); the theorem
  is about decisions whose every leg was closed, of the others `NeverHalfExecuted`
  speaks. Of the
  series evidence, `SeriesInv` says that a close names the last entry of its
  market before it and an entry its signal, and that signals of one market and
  stamp are of one side; no edit may change that of a row (`RowsStay`). So the
  last entry that a report reads is the close's own unless that one was purged
  or is older than what is loaded.

Sums and folds are recursive functions (`SumOfAll`, `Kept`, `RowsAfter`). What they
compute is proved without the induction theorems, from the least index at which
the claim would fail (`Least`, which `WFMin` of the library gives). Sums over a
set of rows (`MapThenSumSet`) are proved the same way, from a smallest set that
would be a counterexample (`Smallest`): the table of partial sums exists, is
unique, and does not depend on the order in which rows are taken.

**Only model-checked.** The same refinement for `rejected_candidates`
(`Candidates`, part of `LedgerIsKept`): its merge of a batch is a fold over
batches of rows. Of the desk, `SignalsAreEvidence`, which compares what
was stored with what a function computes from sequences of rows.
`TunedWithinBounds` of the control modules is not an invariant of every instance:
an operator's edit or patch may leave the bounds, and the cross-variant rule
copies a take-profit as it finds it
(`src/services/advisory/advisory_engine.py:480`), so it holds of the runs'
edits, patches and analyses, which stay within the bounds. Liveness
(`LookupsAreRetried`, `TickersDrain`, `GradingEnds`) is out of TLAPS's reach.

## 7. Not modelled

`PROJECT.json` has a note for each part that is left out or only partly there.

- *Kalshi account, orders and contracts*: translation of wire formats; live order
  entry is disabled by configuration, so no path reaches it.
- *Accounts and authentication*, *dashboard*: apart from trading; the payload is
  a view.
- *Gateway*: single-consumer mode (configured off), the
  critical consumer, account channels and discovery requests. A forced reconnect
  by the stall detector is a lost connection.
- *Scoring*: the estimate of an analyst agent is an arbitrary input, and so are
  volumes and closing times. The report by bands is read through a cache of five
  minutes, which is not modelled; neither are the cached reads of one tick.
- *Reports, analytics, backtest and research*: they read; their joins and their
  connections are modelled where a wrong one would mislead a decision.
- *Tools*: backfill, replay, audits and benchmarks are run by hand on a stopped
  or separate system; the two that keep state between runs are `Coordination`.
- *Restoring a backup*, the alert webhook, pagination of REST answers, parsing
  of dates and titles: I/O and text, modelled by their outcome or not at all.

Still worth adding: the critical consumer of the gateway, the composition of
`StreamDispatch` with `CandidatePath` (delivery, loss and retry as one path),
and an abstract account ledger that `Trading` implements.
