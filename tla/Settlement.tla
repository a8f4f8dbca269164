----------------------------- MODULE Settlement ------------------------------
(* How a settled market reaches the stores that grade against it: the        *)
(* deferred queue of services/settlement_resolver.py, the signal poll and    *)
(* the tick's own resolution in main.py, and the settlement-window poll of   *)
(* index_stream_handlers.py, over the capture stores of CaptureWriter. The   *)
(* exchange may amend a result until the market is finalized.                *)
EXTENDS CaptureWriter

CONSTANTS
  MaxAttempts,     \* max_attempts of run_pending
  BatchSize,       \* batch_size of run_pending
  NoCaller,        \* no worker
  MilestonesAgree  \* assumption: a declared milestone winner is the final result

ASSUME AttemptsAssumption == MaxAttempts \in Nat \ {0} /\ BatchSize \in Nat \ {0}
ASSUME CallerAssumption == NoCaller \notin Callers /\ Daemon \notin Callers

Grades == {"absent", "open", "yes", "no"}
GradeStores == {"outcomes", "windows", "analyses", "signals"}
Binary == {"yes", "no"}
Market == [status : {"active", "determined", "finalized"}, result : {"none", "yes", "no", "void"},
           amended : BOOLEAN, winner : Results]
Missing == [status |-> "missing", result |-> "none"]
Unqueued == -1

VARIABLES
  market,   \* Kalshi: each market's state
  rows,     \* per store and ticker: no row, a row to grade, or its grade
  pending,  \* _pending: attempts so far, or Unqueued
  stats,    \* _stats, the three counts whose sum is conserved
  job,      \* run_pending in progress
  poll,     \* the signals _check_signal_resolutions has asked about
  tick      \* _resolve_and_record_settlements in progress
resolverVars == <<pending, stats, job>>
vars == <<captureVars, market, rows, resolverVars, poll, tick>>

NoView == [t \in Tickers |-> Missing]
NoJob == [phase |-> "idle", todo |-> {}, seen |-> NoView, ticker |-> CHOOSE t \in Tickers : TRUE, worker |-> NoCaller]
NoTick == [phase |-> "idle", worker |-> NoCaller, results |-> NoResults]

View(t) == [status |-> market[t].status, result |-> market[t].result]
Views(D) == {v \in [Tickers -> {Missing} \cup {View(t) : t \in Tickers}] :
               \A t \in Tickers : v[t] = Missing \/ (t \in D /\ v[t] = View(t))}
(* Mutant: a result is taken when it is determined.                          *)
final_ungated(v) == v.result \in Binary

final(v) == v.status = "finalized" /\ v.result \in Binary
grade(st, t, r) == [rows EXCEPT ![st][t] = r]
graded(st, t) == rows[st][t] \in Binary

Init ==
  /\ CaptureInit
  /\ market = [t \in Tickers |->
       IF "exchange" \in budget.parts
       THEN [status |-> "active", result |-> "none", amended |-> FALSE, winner |-> "none"]
       ELSE [status |-> "finalized", result |-> "yes", amended |-> FALSE, winner |-> "none"]]
  /\ rows = [st \in GradeStores |-> [t \in Tickers |-> "absent"]]
  /\ pending = [t \in Tickers |-> Unqueued]
  /\ stats = [enqueued |-> 0, resolved |-> 0, dropped |-> 0]
  /\ job = NoJob
  /\ poll = {}
  /\ tick = NoTick

-----------------------------------------------------------------------------
(* The exchange, and the rows the rest of the program logs.                  *)
exchange == UNCHANGED <<captureVars, rows, resolverVars, poll, tick>>

determine(t) ==
  /\ market[t].status = "active"
  /\ \E r \in {"yes", "no", "void"} :
       market' = [market EXCEPT ![t].status = "determined", ![t].result = r]
  /\ exchange

amend(t) ==
  /\ market[t].status = "determined" /\ ~market[t].amended
  /\ \E r \in Binary \ {market[t].result} :
       market' = [market EXCEPT ![t].result = r, ![t].amended = TRUE]
  /\ exchange

finalize(t) ==
  /\ market[t].status = "determined"
  /\ MilestonesAgree => market[t].winner \in {"none", market[t].result}
  /\ market' = [market EXCEPT ![t].status = "finalized"]
  /\ exchange

declare_winner(t) ==
  /\ "milestones" \in budget.parts
  /\ market[t].winner = "none" /\ market[t].status # "finalized"
  /\ \E r \in Binary : market' = [market EXCEPT ![t].winner = r]
  /\ exchange

log_row(st, t) ==
  /\ st # "outcomes" /\ st \in budget.parts /\ rows[st][t] = "absent"
  /\ rows' = grade(st, t, "open")
  /\ UNCHANGED <<captureVars, market, resolverVars, poll, tick>>

-----------------------------------------------------------------------------
(* enqueue, from the lifecycle handler's settled branch: the message may     *)
(* come before the market is finalized, more than once, or not at all.       *)
enqueue(t) ==
  /\ market[t].status # "active"
  /\ pending[t] = Unqueued /\ stats.enqueued < budget.enqueued
  /\ pending' = [pending EXCEPT ![t] = 0]
  /\ stats' = [stats EXCEPT !.enqueued = @ + 1]
  /\ UNCHANGED <<captureVars, market, rows, job, poll, tick>>

Queued == {t \in Tickers : pending[t] # Unqueued}

(* run_pending: the due tickers are asked for in one request.                *)
run_pending ==
  /\ job.phase = "idle"
  /\ \E D \in SUBSET Queued \ {{}} :
       /\ Cardinality(D) <= BatchSize
       /\ job' = [NoJob EXCEPT !.phase = "await", !.todo = D]
  /\ UNCHANGED <<captureVars, market, rows, pending, stats, poll, tick>>

(* The request fails: every ticker stays, no attempt is counted.             *)
request_fails ==
  /\ job.phase = "await"
  /\ job' = NoJob
  /\ UNCHANGED <<captureVars, market, rows, pending, stats, poll, tick>>

request_answered ==
  /\ job.phase = "await"
  /\ \E v \in Views(job.todo) : job' = [job EXCEPT !.phase = "drain", !.seen = v]
  /\ UNCHANGED <<captureVars, market, rows, pending, stats, poll, tick>>

leave(t) == job' = IF job.todo = {t} THEN NoJob
                   ELSE [job EXCEPT !.phase = "drain", !.todo = @ \ {t}, !.worker = NoCaller]

(* Mutants: a ticker given up is not counted; an attempt is not counted.     *)
drop_uncounted(t) ==
  /\ pending' = [pending EXCEPT ![t] = IF @ + 1 >= MaxAttempts THEN Unqueued ELSE @ + 1]
  /\ UNCHANGED stats
retry_forever(t) == UNCHANGED <<pending, stats>>

(* _retry_or_drop.                                                           *)
retry_or_drop(t) ==
  IF pending[t] + 1 >= MaxAttempts
  THEN /\ pending' = [pending EXCEPT ![t] = Unqueued]
       /\ stats' = [stats EXCEPT !.dropped = @ + 1]
  ELSE /\ pending' = [pending EXCEPT ![t] = @ + 1]
       /\ UNCHANGED stats

not_final(t) ==
  /\ job.phase = "drain" /\ t \in job.todo
  /\ job.seen[t].status # "finalized"
  /\ retry_or_drop(t)
  /\ leave(t)
  /\ UNCHANGED <<captureVars, market, rows, poll, tick>>

non_binary(t) ==
  /\ job.phase = "drain" /\ t \in job.todo
  /\ job.seen[t].status = "finalized" /\ job.seen[t].result \notin Binary
  /\ pending' = [pending EXCEPT ![t] = Unqueued]
  /\ stats' = [stats EXCEPT !.dropped = @ + 1]
  /\ leave(t)
  /\ UNCHANGED <<captureVars, market, rows, poll, tick>>

(* _resolve_one_sync, one transaction per step: outcome (first write wins),  *)
(* window (an error is swallowed), analyses, candidates, signals.            *)
store_outcome(t) ==
  /\ job.phase = "drain" /\ t \in job.todo
  /\ final(job.seen[t])
  /\ rows' = IF graded("outcomes", t) THEN rows ELSE grade("outcomes", t, job.seen[t].result)
  /\ job' = [job EXCEPT !.phase = "window", !.ticker = t]
  /\ UNCHANGED <<captureVars, market, pending, stats, poll, tick>>

Storing(phase) == job.phase = phase
Result == job.seen[job.ticker].result

store_window ==
  /\ Storing("window")
  /\ \/ /\ rows' = IF rows["windows"][job.ticker] = "open" THEN grade("windows", job.ticker, Result) ELSE rows
        /\ UNCHANGED captureVars
     \/ /\ fault
        /\ UNCHANGED <<rows, recorded, submitted, buffers, flight, table, counted, call>>
  /\ job' = [job EXCEPT !.phase = "analyses"]
  /\ UNCHANGED <<market, pending, stats, poll, tick>>

store_analyses ==
  /\ Storing("analyses")
  /\ rows' = IF rows["analyses"][job.ticker] = "open" THEN grade("analyses", job.ticker, Result) ELSE rows
  /\ \E c \in Callers :
       /\ begin(c, "resolve", [NoResults EXCEPT ![job.ticker] = Result], 0)
       /\ job' = [job EXCEPT !.phase = "candidates", !.worker = c]
  /\ UNCHANGED <<recorded, submitted, buffers, flight, table, counted, budget,
                 market, pending, stats, poll, tick>>

store_candidates ==
  /\ Storing("candidates")
  /\ resolve_rows(job.worker)
  /\ job' = [job EXCEPT !.phase = "signals"]
  /\ UNCHANGED <<market, rows, pending, stats, poll, tick>>

store_signals ==
  /\ Storing("signals")
  /\ rows' = IF rows["signals"][job.ticker] = "open" THEN grade("signals", job.ticker, Result) ELSE rows
  /\ pending' = [pending EXCEPT ![job.ticker] = Unqueued]
  /\ stats' = [stats EXCEPT !.resolved = @ + 1]
  /\ leave(job.ticker)
  /\ UNCHANGED <<captureVars, market, poll, tick>>

(* One of the stores raises: the ticker keeps its place and loses an attempt.*)
store_raises ==
  /\ \/ /\ job.phase \in {"analyses", "signals"}
        /\ fault
        /\ UNCHANGED <<recorded, submitted, buffers, flight, table, counted, call>>
     \/ Storing("candidates") /\ resolve_raises(job.worker)
  /\ retry_or_drop(job.ticker)
  /\ leave(job.ticker)
  /\ UNCHANGED <<market, rows, poll, tick>>

outcome_raises(t) ==
  /\ job.phase = "drain" /\ t \in job.todo
  /\ final(job.seen[t])
  /\ fault
  /\ retry_or_drop(t)
  /\ leave(t)
  /\ UNCHANGED <<recorded, submitted, buffers, flight, table, counted, call,
                 market, rows, poll, tick>>

-----------------------------------------------------------------------------
(* _check_signal_resolutions: at most one runs (the batch is chosen, then    *)
(* asked for), and each signal is marked by id when the answer comes. What   *)
(* the answer says of a final market stays true, so it is read here.         *)
unresolved_batch == {t \in Tickers : rows["signals"][t] = "open"}
poll_signals ==
  /\ poll = {}
  /\ \E D \in SUBSET unresolved_batch \ {{}} : poll' = D
  /\ UNCHANGED <<captureVars, market, rows, resolverVars, tick>>

poll_fails ==
  /\ poll # {}
  /\ poll' = {}
  /\ UNCHANGED <<captureVars, market, rows, resolverVars, tick>>

(* Mutant: the terminal status is looked for under the stream's event name.  *)
signal_view_unmatched(t) ==
  [View(t) EXCEPT !.status = IF @ = "finalized" THEN "settled" ELSE @]

signal_view(t) == View(t)

mark_resolved ==
  /\ poll # {}
  /\ rows' = [rows EXCEPT !["signals"] =
                [t \in Tickers |-> IF t \in poll /\ final(signal_view(t)) THEN signal_view(t).result ELSE @[t]]]
  /\ poll' = {}
  /\ UNCHANGED <<captureVars, market, resolverVars, tick>>

-----------------------------------------------------------------------------
(* The tick: propagate_milestone_winners builds the results from finalized   *)
(* markets and from declared winners, whose outcome it records at once;      *)
(* _resolve_and_record_settlements grades the analyses, then the candidates, *)
(* on a worker.                                                              *)
tick_result(t) ==
  IF market[t].winner # "none" THEN market[t].winner
  ELSE IF final(View(t)) THEN market[t].result ELSE "none"

tick_resolve ==
  /\ "tick" \in budget.parts
  /\ tick = NoTick
  /\ \E c \in Callers :
       LET results == [t \in Tickers |-> tick_result(t)]
       IN /\ begin(c, "resolve", results, 0)
          /\ tick' = [phase |-> "candidates", worker |-> c, results |-> [t \in Tickers |-> IF final(View(t)) THEN market[t].result ELSE "none"]]
          /\ rows' = [rows EXCEPT
               !["outcomes"] = [t \in Tickers |-> IF market[t].winner # "none" /\ @[t] \notin Binary THEN market[t].winner ELSE @[t]],
               !["analyses"] = [t \in Tickers |-> IF @[t] = "open" /\ results[t] # "none" THEN results[t] ELSE @[t]]]
  /\ UNCHANGED <<recorded, submitted, buffers, flight, table, counted, budget, market, resolverVars, poll>>

(* Then the outcomes and the windows of the markets seen finalized.          *)
tick_record ==
  /\ tick.phase = "candidates"
  /\ \/ /\ resolve_rows(tick.worker)
        /\ LET to(t) == tick.results[t] # "none"
           IN rows' = [rows EXCEPT
                !["outcomes"] = [t \in Tickers |-> IF to(t) /\ @[t] \notin Binary THEN tick.results[t] ELSE @[t]],
                !["windows"] = [t \in Tickers |-> IF to(t) /\ @[t] = "open" THEN tick.results[t] ELSE @[t]]]
     \/ resolve_raises(tick.worker) /\ UNCHANGED rows
  /\ tick' = NoTick
  /\ UNCHANGED <<market, resolverVars, poll>>

-----------------------------------------------------------------------------
(* _resolve_settlement_windows: a result is taken whatever the status.       *)
_resolve_settlement_windows ==
  /\ "windows" \in budget.parts
  /\ rows' = [rows EXCEPT !["windows"] =
                [t \in Tickers |-> IF @[t] = "open" /\ market[t].result \in Binary THEN market[t].result ELSE @[t]]]
  /\ UNCHANGED <<captureVars, market, resolverVars, poll, tick>>

-----------------------------------------------------------------------------
(* The queue and everything in progress is memory; the rows stay.            *)
crash_restart ==
  /\ capture_restart
  /\ pending' = [t \in Tickers |-> Unqueued]
  /\ stats' = [enqueued |-> 0, resolved |-> 0, dropped |-> 0]
  /\ job' = NoJob /\ poll' = {} /\ tick' = NoTick
  /\ UNCHANGED <<market, rows>>

settlementVars == <<market, rows, resolverVars, poll, tick>>
CaptureStep ==
  /\ \/ \E t \in budget.tickers : record_rejection(t)
     \/ \E st \in Stores : daemon_flush(st)
     \/ \E th \in Threads : Flush(th)
     \/ \E c \in Callers : caller_flush(c) \/ Delete(c)
  /\ UNCHANGED settlementVars

Exchange ==
  \E t \in budget.tickers :
    \/ determine(t) \/ amend(t) \/ finalize(t) \/ declare_winner(t)
    \/ \E st \in GradeStores : log_row(st, t)

Resolve ==
  \/ run_pending \/ request_fails \/ request_answered
  \/ \E t \in budget.tickers : enqueue(t)
  \/ \E t \in Tickers : not_final(t) \/ non_binary(t) \/ store_outcome(t) \/ outcome_raises(t)
  \/ store_window \/ store_analyses \/ store_candidates \/ store_signals \/ store_raises

Poll == poll_signals \/ poll_fails \/ mark_resolved
Tick == tick_resolve \/ tick_record \/ _resolve_settlement_windows

Next == CaptureStep \/ Exchange \/ Resolve \/ Poll \/ Tick \/ crash_restart
Spec == Init /\ [][Next]_vars

(* The loops run again every few seconds and a worker gets to finish what it *)
(* started; a request that is tried again and again is sometimes answered.   *)
Fairness ==
  /\ WF_vars(CaptureStep /\ \E th \in Threads : flush_committed(th) \/ count_dropped(th))
  /\ \A c \in Callers : WF_vars(caller_flush(c) /\ UNCHANGED settlementVars)
  /\ WF_vars(run_pending)
  /\ SF_vars(request_answered)
  /\ WF_vars(\E t \in Tickers : not_final(t) \/ non_binary(t) \/ store_outcome(t))
  /\ WF_vars(store_window \/ store_analyses \/ store_candidates \/ store_signals)
  /\ WF_vars(poll_signals) /\ SF_vars(mark_resolved)
  /\ WF_vars(tick_record)
FairSpec == Spec /\ Fairness

-----------------------------------------------------------------------------
TypeOK ==
  /\ recorded \in 0 .. MaxRows
  /\ submitted \in [Stores -> SUBSET Row]
  /\ buffers \in [Stores -> Seq(Row)]
  /\ \A th \in Threads : /\ flight[th].stage \in {"none", "write", "count"}
                         /\ flight[th].store \in Stores
                         /\ flight[th].rows \in Seq(Row)
  /\ table \in [Stores -> SUBSET Stored]
  /\ pending \in [Tickers -> -1 .. MaxAttempts - 1]
  /\ market \in [Tickers -> Market]
  /\ rows \in [GradeStores -> [Tickers -> Grades]]

Events == INSTANCE RowLedger WITH Rows <- Row, waiting <- Waiting("rejection_events"),
  stored <- StoredRows("rejection_events"),
  gone <- submitted["rejection_events"] \ (Waiting("rejection_events") \cup StoredRows("rejection_events"))
Candidates == INSTANCE RowLedger WITH Rows <- Row, waiting <- Waiting("rejected_candidates"),
  stored <- StoredRows("rejected_candidates"),
  gone <- submitted["rejected_candidates"] \ (Waiting("rejected_candidates") \cup StoredRows("rejected_candidates"))

(* capture_writer's _flush_store and _retain move a row forward only: each   *)
(* store implements the row ledger, whatever fails, retries or overlaps.     *)
LedgerIsKept == Events!Spec /\ Candidates!Spec

(* settlement_resolver: a ticker queued was resolved, dropped, or is queued. *)
QueueConserved == stats.enqueued = stats.resolved + stats.dropped + Cardinality(Queued)

(* The finalized gate of the resolver, the signal poll and the tick: once a  *)
(* market is final no row graded by them disagrees with its result, and a    *)
(* signal is never graded before that.                                       *)
GradedByTerminalResult ==
  \A t \in Tickers :
    /\ market[t].status = "finalized" =>
         /\ \A st \in {"outcomes", "analyses"} : graded(st, t) => rows[st][t] = market[t].result
         /\ \A st \in Stores : \A e \in table[st] :
              e.row.ticker = t /\ e.result # "none" => e.result = market[t].result
    /\ graded("signals", t) => market[t].status = "finalized" /\ rows["signals"][t] = market[t].result

(* A settlement window's grade is the market's final result                  *)
(* (_resolve_settlement_windows).                                            *)
WindowGradedByTerminalResult ==
  \A t \in Tickers : market[t].status = "finalized" /\ graded("windows", t) => rows["windows"][t] = market[t].result

(* The upsert's WHERE resolved = 0 and the two UPDATEs': a resolved row keeps *)
(* its grade and its contents until a step that only deletes removes it.     *)
ResolvedIsFrozen ==
  [][\A st \in Stores : \A e \in table[st] :
       e.result # "none" => e \in table'[st] \/ table'[st] \subseteq table[st]]_vars

(* What is queued leaves the queue.                                          *)
QueueDrains == \A t \in Tickers : t \in Queued ~> t \notin Queued

(* A signal of a market with a final yes or no is graded in the end, also    *)
(* when the settled message was lost or the queue gave up.                   *)
SignalsGraded ==
  \A t \in Tickers :
    (rows["signals"][t] = "open" /\ market[t].status = "finalized" /\ market[t].result \in Binary) ~> graded("signals", t)

(* Grading ends: queued tickers leave the queue, and signals of markets that  *)
(* ended are graded.                                                          *)
GradingEnds == QueueDrains /\ SignalsGraded
=============================================================================
