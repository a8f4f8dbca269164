-------------------------- MODULE SettlementProofs --------------------------
(***************************************************************************)
(* Proofs about Settlement, for any number of markets, workers, flushes,   *)
(* failures and restarts: the counters of the queue add up, a resolved row *)
(* is never rewritten, whatever grades a market agrees with its final      *)
(* result, and the store of rejection events implements the row ledger.    *)
(***************************************************************************)
EXTENDS Settlement, FiniteSetTheorems, SequenceTheorems, TLAPS

Statuses == {"active", "determined", "finalized"}
SeenState == [status : Statuses \cup {"missing"}, result : {"none", "yes", "no", "void"}]
Storings == {"window", "analyses", "candidates", "signals"}
Phases == {"idle", "await", "drain"} \cup Storings
Calls == [op : {"none", "resolve", "clear", "prune"}, todo : Seq(Stores),
          results : [Tickers -> Results], upto : Int]

(***************************************************************************)
(* The types of what the two invariants below are about.  The buffers of   *)
(* the capture stores are left out: no grade is read from them.            *)
(***************************************************************************)
GradingType ==
    /\ budget \in Budget
    /\ market \in [Tickers -> Market]
    /\ rows \in [GradeStores -> [Tickers -> Grades]]
    /\ pending \in [Tickers -> -1 .. MaxAttempts - 1]
    /\ stats \in [enqueued : Nat, resolved : Nat, dropped : Nat]
    /\ job \in [phase : Phases, todo : SUBSET Tickers, seen : [Tickers -> SeenState],
                ticker : Tickers, worker : Callers \cup {NoCaller}]
    /\ tick \in [phase : {"idle", "candidates"}, worker : Callers \cup {NoCaller},
                 results : [Tickers -> Results]]
    /\ call \in [Callers -> Calls]
    /\ DOMAIN table = Stores

(***************************************************************************)
(* A ticker that run_pending is working on is queued, and the one whose    *)
(* stores it is writing was answered final and has not left its batch.     *)
(***************************************************************************)
JobHoldsItsTickers ==
    /\ job.phase # "idle" => job.todo \subseteq Queued
    /\ job.phase \in Storings => job.ticker \in job.todo /\ final(job.seen[job.ticker])
    /\ job.phase = "candidates" => job.worker \in Callers
    /\ tick.phase = "candidates" => tick.worker \in Callers

QueueInv == GradingType /\ JobHoldsItsTickers /\ QueueConserved

-----------------------------------------------------------------------------
(***************************************************************************)
(* The initial state.                                                      *)
(***************************************************************************)
LEMMA NothingDone ==
    /\ NoJob \in [phase : Phases, todo : SUBSET Tickers, seen : [Tickers -> SeenState],
                  ticker : Tickers, worker : Callers \cup {NoCaller}]
    /\ NoJob.phase = "idle" /\ NoJob.seen = NoView
    /\ NoTick \in [phase : {"idle", "candidates"}, worker : Callers \cup {NoCaller},
                   results : [Tickers -> Results]]
    /\ NoTick.phase = "idle" /\ NoTick.results = NoResults
    /\ NoResults \in [Tickers -> Results]
    /\ Idle \in Calls /\ Idle.results = NoResults
<1>1. NoView \in [Tickers -> SeenState]
  BY DEF NoView, Missing, SeenState, Statuses
<1>2. (CHOOSE t \in Tickers : TRUE) \in Tickers
  BY TickersAssumption
<1>3. << >> \in Seq(Stores)
  OBVIOUS
<1>4. NoResults \in [Tickers -> Results]
  BY DEF NoResults, Results
<1> QED
  BY <1>1, <1>2, <1>3, <1>4 DEF NoJob, NoTick, Idle, Calls, Phases

LEMMA QueueInit == Init => QueueInv
<1> SUFFICES ASSUME Init PROVE QueueInv
  OBVIOUS
<1>1. GradingType
  BY NothingDone, ScenarioAssumption, AttemptsAssumption
     DEF Init, CaptureInit, GradingType, Market, Results, Grades, Unqueued
<1>2. JobHoldsItsTickers
  BY NothingDone DEF Init, JobHoldsItsTickers, Storings
<1>3. Queued = {}
  BY DEF Init, Queued, Unqueued
<1>4. QueueConserved
  BY <1>3, FS_EmptySet DEF Init, QueueConserved
<1> QED
  BY <1>1, <1>2, <1>4 DEF QueueInv

-----------------------------------------------------------------------------
(***************************************************************************)
(* What the steps of the capture stores do to the calls, the tables and    *)
(* the bounds.                                                             *)
(***************************************************************************)
LEMMA BeginKeepsCalls ==
    ASSUME call \in [Callers -> Calls], NEW c \in Callers,
           NEW op \in {"resolve", "clear", "prune"}, NEW results \in [Tickers -> Results],
           NEW upto \in Int, begin(c, op, results, upto)
    PROVE  call' \in [Callers -> Calls]
<1>1. <<"rejection_events">> \in Seq(Stores) /\ <<"rejected_candidates", "rejection_events">> \in Seq(Stores)
  BY DEF Stores
<1> QED
  BY <1>1 DEF begin, Calls

LEMMA FlushedCall ==
    ASSUME NEW x \in Calls, NEW todo \in Seq(Stores)
    PROVE  [x EXCEPT !.todo = todo] \in Calls
BY DEF Calls

LEMMA FaultKeepsBudget == budget \in Budget /\ fault => budget' \in Budget
BY DEF fault, Budget

LEMMA ResolveKeepsCalls ==
    ASSUME GradingType, NEW c \in Callers, resolve_rows(c) \/ resolve_raises(c)
    PROVE  /\ call' \in [Callers -> Calls]
           /\ DOMAIN table' = Stores
           /\ budget' \in Budget
BY NothingDone, FaultKeepsBudget DEF GradingType, resolve_rows, resolve_raises

LEMMA CaptureStepKeepsType ==
    ASSUME GradingType, CaptureStep
    PROVE  GradingType'
<1> USE DEF GradingType, settlementVars, resolverVars
<1>1. CASE \E t \in budget.tickers : record_rejection(t)
  BY <1>1 DEF CaptureStep, record_rejection
<1>2. CASE \E st \in Stores : daemon_flush(st)
  BY <1>2 DEF CaptureStep, daemon_flush
<1>3. ASSUME NEW th \in Threads, Flush(th)
      PROVE  GradingType'
  <2>1. budget' \in Budget /\ call' = call
    BY <1>3, FaultKeepsBudget DEF Flush, flush_committed, flush_retained, flush_dropped, count_dropped
  <2>2. DOMAIN table' = Stores
    BY <1>3 DEF Flush, flush_committed, flush_retained, flush_dropped, count_dropped
  <2> QED
    BY <2>1, <2>2 DEF CaptureStep
<1>4. ASSUME NEW c \in Callers, caller_flush(c)
      PROVE  GradingType'
  <2>1. Tail(call[c].todo) \in Seq(Stores)
    BY <1>4 DEF caller_flush, Calls
  <2>2. [call[c] EXCEPT !.todo = Tail(call[c].todo)] \in Calls
    BY <2>1, FlushedCall
  <2>3. call' = [call EXCEPT ![c] = [call[c] EXCEPT !.todo = Tail(call[c].todo)]]
    BY <1>4 DEF caller_flush
  <2>4. call' \in [Callers -> Calls]
    BY <2>2, <2>3
  <2> QED
    BY <1>4, <2>4 DEF caller_flush, CaptureStep
<1>5. ASSUME NEW c \in Callers, start_delete(c)
      PROVE  GradingType'
  <2>1. PICK op \in {"clear", "prune"}, n \in 1 .. recorded : begin(c, op, NoResults, n)
    BY <1>5 DEF start_delete
  <2>2. call' \in [Callers -> Calls]
    BY <2>1, BeginKeepsCalls, NothingDone
  <2>3. budget' \in Budget
    BY <1>5, SMTT(20) DEF start_delete, Budget
  <2> QED
    BY <1>5, <2>2, <2>3 DEF start_delete, CaptureStep
<1>6. ASSUME NEW c \in Callers, delete_rows(c)
      PROVE  GradingType'
  BY <1>6, NothingDone DEF delete_rows, CaptureStep
<1> QED
  BY <1>1, <1>2, <1>3, <1>4, <1>5, <1>6 DEF CaptureStep, Delete

-----------------------------------------------------------------------------
(***************************************************************************)
(* What the steps of the queue do to it.  A ticker leaves it once, and is  *)
(* counted then; the job forgets a ticker that it is done with.            *)
(***************************************************************************)
JobType == job \in [phase : Phases, todo : SUBSET Tickers, seen : [Tickers -> SeenState],
                    ticker : Tickers, worker : Callers \cup {NoCaller}]
JobIsQueued ==
    /\ job.phase # "idle" => job.todo \subseteq Queued
    /\ job.phase \in Storings => job.ticker \in job.todo /\ final(job.seen[job.ticker])
    /\ job.phase = "candidates" => job.worker \in Callers
QueueType ==
    /\ pending \in [Tickers -> -1 .. MaxAttempts - 1]
    /\ stats \in [enqueued : Nat, resolved : Nat, dropped : Nat]

LEMMA QueueIsFinite == IsFiniteSet(Queued) /\ Cardinality(Queued) \in Nat
<1>1. Queued \subseteq Tickers
  BY DEF Queued
<1> QED
  BY <1>1, FS_Subset, FS_CardinalityType, TickersAssumption

LEMMA LeavingIsCounted ==
    ASSUME QueueInv, NEW t \in Queued,
           pending' = [pending EXCEPT ![t] = Unqueued],
           \/ stats' = [stats EXCEPT !.dropped = @ + 1]
           \/ stats' = [stats EXCEPT !.resolved = @ + 1]
    PROVE  QueueType' /\ QueueConserved' /\ Queued' = Queued \ {t}
<1>1. t \in Tickers
  BY DEF Queued
<1>2. QueueType'
  <2>1. Unqueued \in -1 .. MaxAttempts - 1
    BY AttemptsAssumption DEF Unqueued
  <2>2. pending' \in [Tickers -> -1 .. MaxAttempts - 1]
    BY <1>1, <2>1 DEF QueueInv, GradingType
  <2>3. stats' \in [enqueued : Nat, resolved : Nat, dropped : Nat]
    BY DEF QueueInv, GradingType
  <2> QED
    BY <2>2, <2>3 DEF QueueType
<1>3. Queued' = Queued \ {t}
  BY <1>1 DEF QueueInv, GradingType, Queued, Unqueued
<1>4. Cardinality(Queued') = Cardinality(Queued) - 1
  BY <1>3, QueueIsFinite, FS_RemoveElement
<1>5. /\ stats'.enqueued = stats.enqueued
      /\ stats'.resolved + stats'.dropped = stats.resolved + stats.dropped + 1
  BY DEF QueueInv, GradingType
<1>6. QueueConserved'
  BY <1>4, <1>5, QueueIsFinite DEF QueueInv, GradingType, QueueConserved
<1> QED
  BY <1>2, <1>3, <1>6

LEMMA RetryOrDrop ==
    ASSUME QueueInv, NEW t \in Queued, retry_or_drop(t)
    PROVE  QueueType' /\ QueueConserved' /\ Queued \ {t} \subseteq Queued'
<1>1. CASE pending[t] + 1 >= MaxAttempts
  <2>1. pending' = [pending EXCEPT ![t] = Unqueued] /\ stats' = [stats EXCEPT !.dropped = @ + 1]
    BY <1>1 DEF retry_or_drop
  <2> QED
    BY <2>1, LeavingIsCounted
<1>2. CASE ~(pending[t] + 1 >= MaxAttempts)
  <2>1. pending' = [pending EXCEPT ![t] = @ + 1] /\ stats' = stats
    BY <1>2 DEF retry_or_drop
  <2>2. t \in Tickers /\ pending[t] \in 0 .. MaxAttempts - 1
    BY DEF Queued, QueueInv, GradingType, Unqueued
  <2>3. QueueType'
    BY <1>2, <2>1, <2>2, AttemptsAssumption DEF QueueInv, GradingType, QueueType
  <2>4. Queued' = Queued
    BY <2>1, <2>2 DEF QueueInv, GradingType, Queued, Unqueued
  <2> QED
    BY <2>1, <2>3, <2>4 DEF QueueInv, QueueConserved
<1> QED
  BY <1>1, <1>2

LEMMA LeavingTheJob ==
    ASSUME QueueInv, job.phase # "idle", NEW t \in job.todo, leave(t),
           Queued \ {t} \subseteq Queued'
    PROVE  JobType' /\ JobIsQueued'
<1> USE DEF QueueInv, GradingType, JobHoldsItsTickers, JobType, JobIsQueued
<1>1. CASE job.todo = {t}
  <2>1. job' = NoJob
    BY <1>1 DEF leave
  <2> QED
    BY <2>1, NothingDone DEF Storings
<1>2. CASE job.todo # {t}
  <2>1. job' = [job EXCEPT !.phase = "drain", !.todo = @ \ {t}, !.worker = NoCaller]
    BY <1>2 DEF leave
  <2>2. JobType'
    BY <2>1 DEF Phases
  <2>3. job'.phase = "drain" /\ job'.todo = job.todo \ {t}
    BY <2>1
  <2> QED
    BY <2>2, <2>3 DEF Storings
<1> QED
  BY <1>1, <1>2

-----------------------------------------------------------------------------
(***************************************************************************)
(* The queue's invariant is kept: first by the steps that leave the queue  *)
(* and its job alone, then by those of the job.                            *)
(***************************************************************************)
TickIsHeld == tick.phase = "candidates" => tick.worker \in Callers
OtherType ==
    /\ budget \in Budget
    /\ market \in [Tickers -> Market]
    /\ rows \in [GradeStores -> [Tickers -> Grades]]
    /\ tick \in [phase : {"idle", "candidates"}, worker : Callers \cup {NoCaller},
                 results : [Tickers -> Results]]
    /\ call \in [Callers -> Calls]
    /\ DOMAIN table = Stores

LEMMA QueueLeftAlone ==
    ASSUME QueueInv, UNCHANGED resolverVars, OtherType', TickIsHeld'
    PROVE  QueueInv'
BY DEF QueueInv, resolverVars, OtherType, TickIsHeld, GradingType, JobHoldsItsTickers,
       QueueConserved, Queued, final

LEMMA JobMoved ==
    ASSUME QueueInv, UNCHANGED <<pending, stats>>, OtherType', TickIsHeld', JobType', JobIsQueued'
    PROVE  QueueInv'
BY DEF QueueInv, OtherType, TickIsHeld, GradingType, JobHoldsItsTickers, JobType, JobIsQueued,
       QueueConserved, Queued

LEMMA QueueMoved ==
    ASSUME QueueType', QueueConserved', OtherType', TickIsHeld', JobType', JobIsQueued'
    PROVE  QueueInv'
BY DEF QueueInv, OtherType, TickIsHeld, GradingType, JobHoldsItsTickers, JobType, JobIsQueued,
       QueueType

LEMMA OthersNow == QueueInv => OtherType /\ TickIsHeld
BY DEF QueueInv, GradingType, JobHoldsItsTickers, OtherType, TickIsHeld

LEMMA GradeIsTyped ==
    ASSUME rows \in [GradeStores -> [Tickers -> Grades]], NEW st \in GradeStores,
           NEW t \in Tickers, NEW r \in Grades
    PROVE  grade(st, t, r) \in [GradeStores -> [Tickers -> Grades]]
BY DEF grade

LEMMA MarketMoves ==
    ASSUME NEW m \in Market, NEW r \in Binary
    PROVE  /\ [m EXCEPT !.result = r, !.amended = TRUE] \in Market
           /\ [m EXCEPT !.winner = r] \in Market
BY DEF Market, Binary, Results

LEMMA ExchangeKeepsQueue ==
    ASSUME QueueInv, Exchange
    PROVE  QueueInv'
<1> PICK t \in budget.tickers :
        \/ determine(t) \/ amend(t) \/ finalize(t) \/ declare_winner(t)
        \/ \E st \in GradeStores : log_row(st, t)
  BY DEF Exchange
<1>0. t \in Tickers
  BY DEF QueueInv, GradingType, Budget
<1>1. CASE determine(t) \/ amend(t) \/ finalize(t) \/ declare_winner(t)
  <2>1. market' \in [Tickers -> Market]
    <3>1. market[t] \in Market
      BY <1>0 DEF QueueInv, GradingType
    <3>2. CASE determine(t)
      <4>1. PICK r \in {"yes", "no", "void"} : market' = [market EXCEPT ![t].status = "determined", ![t].result = r]
        BY <3>2 DEF determine
      <4>2. [market[t] EXCEPT !.status = "determined", !.result = r] \in Market
        BY <3>1 DEF Market, Results
      <4>3. market' = [market EXCEPT ![t] = [market[t] EXCEPT !.status = "determined", !.result = r]]
        BY <1>0, <4>1 DEF QueueInv, GradingType
      <4> QED
        BY <1>0, <4>2, <4>3 DEF QueueInv, GradingType
    <3>3. CASE amend(t)
      <4>1. PICK r \in Binary : market' = [market EXCEPT ![t] = [market[t] EXCEPT !.result = r, !.amended = TRUE]]
        BY <3>3 DEF amend
      <4> QED
        BY <1>0, <3>1, <4>1, MarketMoves DEF QueueInv, GradingType
    <3>4. CASE finalize(t)
      BY <1>0, <3>1, <3>4 DEF finalize, QueueInv, GradingType, Market
    <3>5. CASE declare_winner(t)
      <4>1. PICK r \in Binary : market' = [market EXCEPT ![t] = [market[t] EXCEPT !.winner = r]]
        BY <3>5 DEF declare_winner
      <4> QED
        BY <1>0, <3>1, <4>1, MarketMoves DEF QueueInv, GradingType
    <3> QED
      BY <1>1, <3>2, <3>3, <3>4, <3>5
  <2>2. UNCHANGED <<captureVars, rows, resolverVars, poll, tick>>
    BY <1>1 DEF determine, amend, finalize, declare_winner, exchange
  <2> QED
    BY <2>1, <2>2, OthersNow, QueueLeftAlone DEF OtherType, TickIsHeld, captureVars
<1>2. ASSUME NEW st \in GradeStores, log_row(st, t)
      PROVE  QueueInv'
  <2>1. rows' \in [GradeStores -> [Tickers -> Grades]]
    BY <1>0, <1>2, GradeIsTyped DEF log_row, QueueInv, GradingType, Grades
  <2> QED
    BY <1>2, <2>1, OthersNow, QueueLeftAlone DEF log_row, OtherType, TickIsHeld, captureVars
<1> QED
  BY <1>1, <1>2

LEMMA PollKeepsQueue ==
    ASSUME QueueInv, Poll
    PROVE  QueueInv'
<1>1. CASE poll_signals \/ poll_fails
  BY <1>1, OthersNow, QueueLeftAlone DEF poll_signals, poll_fails, OtherType, TickIsHeld, captureVars
<1>2. CASE mark_resolved
  <2>1. [t \in Tickers |-> IF t \in poll /\ final(signal_view(t)) THEN signal_view(t).result
                           ELSE rows["signals"][t]] \in [Tickers -> Grades]
    BY DEF QueueInv, GradingType, GradeStores, final, Binary, Grades
  <2>2. rows' \in [GradeStores -> [Tickers -> Grades]]
    BY <1>2, <2>1 DEF mark_resolved, QueueInv, GradingType
  <2> QED
    BY <1>2, <2>2, OthersNow, QueueLeftAlone DEF mark_resolved, OtherType, TickIsHeld, captureVars
<1> QED
  BY <1>1, <1>2 DEF Poll

LEMMA TickResults ==
    ASSUME GradingType
    PROVE  /\ [t \in Tickers |-> tick_result(t)] \in [Tickers -> Results]
           /\ [t \in Tickers |-> IF final(View(t)) THEN market[t].result ELSE "none"] \in [Tickers -> Results]
<1> SUFFICES ASSUME NEW t \in Tickers
             PROVE  /\ tick_result(t) \in Results
                    /\ (IF final(View(t)) THEN market[t].result ELSE "none") \in Results
  OBVIOUS
<1>1. market[t].winner \in Results
  BY DEF GradingType, Market
<1>2. final(View(t)) => market[t].result \in Results
  BY DEF final, View, Binary, Results
<1> QED
  BY <1>1, <1>2 DEF tick_result, Results

LEMMA TickKeepsQueue ==
    ASSUME QueueInv, Tick
    PROVE  QueueInv'
<1> USE DEF QueueInv
<1>1. CASE tick_resolve
  <2> DEFINE results == [t \in Tickers |-> tick_result(t)]
             finals == [t \in Tickers |-> IF final(View(t)) THEN market[t].result ELSE "none"]
             outcomes == [t \in Tickers |-> IF market[t].winner # "none" /\ rows["outcomes"][t] \notin Binary
                                            THEN market[t].winner ELSE rows["outcomes"][t]]
             analyses == [t \in Tickers |-> IF rows["analyses"][t] = "open" /\ results[t] # "none"
                                            THEN results[t] ELSE rows["analyses"][t]]
  <2>1. results \in [Tickers -> Results] /\ finals \in [Tickers -> Results]
    BY TickResults
  <2>2. outcomes \in [Tickers -> Grades] /\ analyses \in [Tickers -> Grades]
    <3>1. SUFFICES ASSUME NEW t \in Tickers PROVE outcomes[t] \in Grades /\ analyses[t] \in Grades
      OBVIOUS
    <3>2. market[t].winner \in Results /\ results[t] \in Results
      BY <2>1 DEF GradingType, Market
    <3>3. rows["outcomes"][t] \in Grades /\ rows["analyses"][t] \in Grades
      BY DEF GradingType, GradeStores
    <3>4. (market[t].winner # "none" => market[t].winner \in Grades) /\ (results[t] # "none" => results[t] \in Grades)
      BY <3>2 DEF Results, Grades
    <3> QED
      BY <3>3, <3>4
  <2> HIDE DEF results, finals, outcomes, analyses
  <2>3. PICK c \in Callers :
          /\ begin(c, "resolve", results, 0)
          /\ tick' = [phase |-> "candidates", worker |-> c, results |-> finals]
          /\ rows' = [rows EXCEPT !["outcomes"] = outcomes, !["analyses"] = analyses]
    BY <1>1 DEF tick_resolve, results, finals, outcomes, analyses
  <2>4. call' \in [Callers -> Calls]
    <3>1. call \in [Callers -> Calls]
      BY DEF GradingType
    <3>2. "resolve" \in {"resolve", "clear", "prune"} /\ 0 \in Int
      OBVIOUS
    <3> QED
      BY <2>1, <2>3, <3>1, <3>2, BeginKeepsCalls
  <2>5. rows' \in [GradeStores -> [Tickers -> Grades]]
    BY <2>2, <2>3 DEF GradingType
  <2>6. tick' \in [phase : {"idle", "candidates"}, worker : Callers \cup {NoCaller}, results : [Tickers -> Results]]
    BY <2>1, <2>3
  <2>7. TickIsHeld'
    BY <2>3 DEF TickIsHeld
  <2>8. UNCHANGED <<table, budget, market, resolverVars>>
    BY <1>1 DEF tick_resolve
  <2> QED
    BY <2>4, <2>5, <2>6, <2>7, <2>8, OthersNow, QueueLeftAlone DEF OtherType
<1>2. CASE tick_record
  <2>1. tick.phase = "candidates" /\ tick.worker \in Callers
    BY <1>2 DEF tick_record, JobHoldsItsTickers
  <2>2. resolve_rows(tick.worker) \/ resolve_raises(tick.worker)
    BY <1>2 DEF tick_record
  <2>3. call' \in [Callers -> Calls] /\ DOMAIN table' = Stores /\ budget' \in Budget
    BY <2>1, <2>2, ResolveKeepsCalls
  <2>4. rows' \in [GradeStores -> [Tickers -> Grades]]
    <3> DEFINE to(t) == tick.results[t] # "none"
               outcomes == [t \in Tickers |-> IF to(t) /\ rows["outcomes"][t] \notin Binary
                                              THEN tick.results[t] ELSE rows["outcomes"][t]]
               windows == [t \in Tickers |-> IF to(t) /\ rows["windows"][t] = "open"
                                             THEN tick.results[t] ELSE rows["windows"][t]]
    <3>1. outcomes \in [Tickers -> Grades] /\ windows \in [Tickers -> Grades]
      BY DEF GradingType, GradeStores, Results, Grades
    <3> HIDE DEF outcomes, windows
    <3>2. rows' = rows \/ rows' = [rows EXCEPT !["outcomes"] = outcomes, !["windows"] = windows]
      BY <1>2 DEF tick_record, outcomes, windows
    <3> QED
      BY <3>1, <3>2 DEF GradingType
  <2>5. tick' = NoTick /\ UNCHANGED <<market, resolverVars>>
    BY <1>2 DEF tick_record
  <2> QED
    BY <2>3, <2>4, <2>5, NothingDone, OthersNow, QueueLeftAlone DEF OtherType, TickIsHeld
<1>3. CASE _resolve_settlement_windows
  <2> DEFINE windows == [t \in Tickers |-> IF rows["windows"][t] = "open" /\ market[t].result \in Binary
                                           THEN market[t].result ELSE rows["windows"][t]]
  <2>1. windows \in [Tickers -> Grades]
    BY DEF GradingType, GradeStores, Binary, Grades
  <2> HIDE DEF windows
  <2>2. rows' = [rows EXCEPT !["windows"] = windows] /\ UNCHANGED <<captureVars, market, resolverVars, poll, tick>>
    BY <1>3 DEF _resolve_settlement_windows, windows
  <2>3. rows' \in [GradeStores -> [Tickers -> Grades]]
    BY <2>1, <2>2 DEF GradingType
  <2> QED
    BY <2>2, <2>3, OthersNow, QueueLeftAlone DEF OtherType, TickIsHeld, captureVars
<1> QED
  BY <1>1, <1>2, <1>3 DEF Tick

LEMMA RestartKeepsQueue ==
    ASSUME QueueInv, crash_restart
    PROVE  QueueInv'
<1>1. budget' \in Budget /\ call' \in [Callers -> Calls] /\ table' = table
  <2>1. budget' \in Budget
    <3>1. budget \in Budget /\ budget.crashes > 0 /\ budget' = [budget EXCEPT !.crashes = @ - 1]
      BY DEF crash_restart, capture_restart, QueueInv, GradingType
    <3> QED
      BY <3>1 DEF Budget
  <2>2. call' = [c \in Callers |-> Idle] /\ table' = table
    BY DEF crash_restart, capture_restart
  <2> QED
    BY <2>1, <2>2, NothingDone
<1>2. QueueType' /\ Queued' = {} /\ QueueConserved'
  BY AttemptsAssumption, FS_EmptySet DEF crash_restart, QueueType, Queued, QueueConserved, Unqueued
<1>3. job' = NoJob /\ tick' = NoTick /\ UNCHANGED <<market, rows>>
  BY DEF crash_restart
<1>4. JobType' /\ JobIsQueued' /\ TickIsHeld' /\ OtherType'
  BY <1>1, <1>3, NothingDone DEF JobType, JobIsQueued, TickIsHeld, OtherType, Storings, QueueInv, GradingType
<1> QED
  BY <1>2, <1>4, QueueMoved

(***************************************************************************)
(* The steps of run_pending.                                               *)
(***************************************************************************)
LEMMA SeenIsTyped ==
    ASSUME GradingType, NEW D \in SUBSET Tickers, NEW v \in Views(D)
    PROVE  v \in [Tickers -> SeenState]
<1>1. Missing \in SeenState
  BY DEF Missing, SeenState
<1>2. \A t \in Tickers : View(t) \in SeenState
  BY DEF GradingType, Market, View, SeenState, Statuses
<1> QED
  BY <1>1, <1>2 DEF Views

LEMMA RequestKeepsQueue ==
    ASSUME QueueInv, run_pending \/ request_fails \/ request_answered
    PROVE  QueueInv'
<1> USE DEF QueueInv
<1>1. CASE run_pending
  <2>1. PICK D \in SUBSET Queued : job' = [NoJob EXCEPT !.phase = "await", !.todo = D]
    BY <1>1 DEF run_pending
  <2>2. D \in SUBSET Tickers
    BY DEF Queued
  <2>3. JobType'
    BY <2>1, <2>2, NothingDone DEF JobType, Phases
  <2>4. job'.phase = "await" /\ job'.todo = D
    BY <2>1, NothingDone
  <2>5. UNCHANGED <<captureVars, market, rows, pending, stats, poll, tick>>
    BY <1>1 DEF run_pending
  <2>6. JobIsQueued'
    BY <2>4, <2>5 DEF JobIsQueued, Storings, Queued
  <2> QED
    BY <2>3, <2>5, <2>6, OthersNow, JobMoved DEF OtherType, TickIsHeld, captureVars
<1>2. CASE request_fails
  <2>1. job' = NoJob /\ UNCHANGED <<captureVars, market, rows, pending, stats, poll, tick>>
    BY <1>2 DEF request_fails
  <2>2. JobType' /\ JobIsQueued'
    BY <2>1, NothingDone DEF JobType, JobIsQueued, Storings
  <2> QED
    BY <2>1, <2>2, OthersNow, JobMoved DEF OtherType, TickIsHeld, captureVars
<1>3. CASE request_answered
  <2>1. PICK v \in Views(job.todo) : job' = [job EXCEPT !.phase = "drain", !.seen = v]
    BY <1>3 DEF request_answered
  <2>2. v \in [Tickers -> SeenState]
    BY <2>1, SeenIsTyped DEF GradingType
  <2>3. JobType'
    BY <2>1, <2>2 DEF GradingType, JobType, Phases
  <2>4. job'.phase = "drain" /\ job'.todo = job.todo
    BY <2>1 DEF GradingType
  <2>5. UNCHANGED <<captureVars, market, rows, pending, stats, poll, tick>> /\ job.phase = "await"
    BY <1>3 DEF request_answered
  <2>6. JobIsQueued'
    BY <2>4, <2>5 DEF JobIsQueued, JobHoldsItsTickers, Storings, Queued
  <2> QED
    BY <2>3, <2>5, <2>6, OthersNow, JobMoved DEF OtherType, TickIsHeld, captureVars
<1> QED
  BY <1>1, <1>2, <1>3

LEMMA EnqueueKeepsQueue ==
    ASSUME QueueInv, NEW t \in budget.tickers, enqueue(t)
    PROVE  QueueInv'
<1> USE DEF QueueInv
<1>0. t \in Tickers
  BY DEF GradingType, Budget
<1>1. /\ t \notin Queued
      /\ pending' = [pending EXCEPT ![t] = 0]
      /\ stats' = [stats EXCEPT !.enqueued = @ + 1]
      /\ UNCHANGED <<captureVars, market, rows, job, poll, tick>>
  BY DEF enqueue, Queued
<1>2. QueueType'
  <2>1. pending' \in [Tickers -> -1 .. MaxAttempts - 1]
    <3>1. 0 \in -1 .. MaxAttempts - 1
      BY AttemptsAssumption
    <3> QED
      BY <1>0, <1>1, <3>1 DEF GradingType
  <2>2. stats' \in [enqueued : Nat, resolved : Nat, dropped : Nat]
    BY <1>1 DEF GradingType
  <2> QED
    BY <2>1, <2>2 DEF QueueType
<1>3. Queued' = Queued \cup {t}
  BY <1>0, <1>1 DEF GradingType, Queued, Unqueued
<1>4. Cardinality(Queued') = Cardinality(Queued) + 1
  BY <1>1, <1>3, QueueIsFinite, FS_AddElement
<1>5. QueueConserved'
  BY <1>1, <1>4, QueueIsFinite DEF GradingType, QueueConserved
<1>6. JobType' /\ JobIsQueued'
  BY <1>1, <1>3 DEF GradingType, JobHoldsItsTickers, JobType, JobIsQueued, final
<1> QED
  BY <1>1, <1>2, <1>5, <1>6, OthersNow, QueueMoved DEF OtherType, TickIsHeld, captureVars

LEMMA JobKeepsQueue ==
    ASSUME QueueInv,
           \/ \E t \in Tickers : not_final(t) \/ non_binary(t) \/ store_outcome(t) \/ outcome_raises(t)
           \/ store_window \/ store_analyses \/ store_candidates \/ store_signals \/ store_raises
    PROVE  QueueInv'
<1> USE DEF QueueInv
<1>0. /\ rows \in [GradeStores -> [Tickers -> Grades]] /\ call \in [Callers -> Calls]
      /\ "windows" \in GradeStores /\ "analyses" \in GradeStores /\ "signals" \in GradeStores
  BY DEF GradingType, GradeStores
<1>1. ASSUME NEW t \in Tickers, not_final(t)
      PROVE  QueueInv'
  <2>1. t \in Queued /\ job.phase # "idle" /\ t \in job.todo
    BY <1>1 DEF not_final, JobHoldsItsTickers
  <2>2. retry_or_drop(t) /\ leave(t) /\ UNCHANGED <<captureVars, market, rows, poll, tick>>
    BY <1>1 DEF not_final
  <2> QED
    BY <2>1, <2>2, RetryOrDrop, LeavingTheJob, OthersNow, QueueMoved DEF OtherType, TickIsHeld, captureVars
<1>2. ASSUME NEW t \in Tickers, non_binary(t)
      PROVE  QueueInv'
  <2>1. t \in Queued /\ job.phase # "idle" /\ t \in job.todo
    BY <1>2 DEF non_binary, JobHoldsItsTickers
  <2>2. /\ pending' = [pending EXCEPT ![t] = Unqueued]
        /\ stats' = [stats EXCEPT !.dropped = @ + 1]
        /\ leave(t) /\ UNCHANGED <<captureVars, market, rows, poll, tick>>
    BY <1>2 DEF non_binary
  <2> QED
    BY <2>1, <2>2, LeavingIsCounted, LeavingTheJob, OthersNow, QueueMoved DEF OtherType, TickIsHeld, captureVars
<1>3. ASSUME NEW t \in Tickers, store_outcome(t)
      PROVE  QueueInv'
  <2>1. rows' \in [GradeStores -> [Tickers -> Grades]]
    <3>1. job.seen[t].result \in Grades
      BY <1>3 DEF store_outcome, final, Binary, Grades
    <3> QED
      BY <1>3, <3>1, GradeIsTyped DEF store_outcome, GradingType, GradeStores
  <2>2. /\ job' = [job EXCEPT !.phase = "window", !.ticker = t]
        /\ job.phase = "drain" /\ t \in job.todo /\ final(job.seen[t])
        /\ UNCHANGED <<captureVars, market, pending, stats, poll, tick>>
    BY <1>3 DEF store_outcome
  <2>3. JobType' /\ job'.phase = "window" /\ job'.ticker = t /\ job'.todo = job.todo /\ job'.seen = job.seen
    BY <2>2 DEF GradingType, JobType, Phases, Storings
  <2>4. JobIsQueued'
    BY <2>2, <2>3 DEF JobHoldsItsTickers, JobIsQueued, Queued, final
  <2> QED
    BY <2>1, <2>2, <2>3, <2>4, OthersNow, JobMoved DEF OtherType, TickIsHeld, captureVars
<1>4. ASSUME NEW t \in Tickers, outcome_raises(t)
      PROVE  QueueInv'
  <2>1. t \in Queued /\ job.phase # "idle" /\ t \in job.todo
    BY <1>4 DEF outcome_raises, JobHoldsItsTickers
  <2>2. retry_or_drop(t) /\ leave(t) /\ UNCHANGED <<call, table, market, rows, tick>> /\ fault
    BY <1>4 DEF outcome_raises
  <2> QED
    BY <2>1, <2>2, RetryOrDrop, LeavingTheJob, FaultKeepsBudget, OthersNow, QueueMoved DEF OtherType, TickIsHeld
<1>5. CASE store_window
  <2>1. job.phase = "window" /\ job.ticker \in Tickers /\ Result \in Grades
    BY <1>5 DEF store_window, Storing, Storings, JobHoldsItsTickers, GradingType, final, Binary, Grades, Result
  <2>2. rows' = rows \/ rows' = grade("windows", job.ticker, Result)
    BY <1>5 DEF store_window
  <2>3. rows' \in [GradeStores -> [Tickers -> Grades]]
    BY <1>0, <2>1, <2>2, GradeIsTyped
  <2>4. budget' \in Budget /\ UNCHANGED <<call, table, market, pending, stats, poll, tick>>
    BY <1>5, FaultKeepsBudget DEF store_window, captureVars, GradingType
  <2>5. job' = [job EXCEPT !.phase = "analyses"]
    BY <1>5 DEF store_window
  <2>6. JobType' /\ job'.phase = "analyses" /\ job'.ticker = job.ticker /\ job'.todo = job.todo /\ job'.seen = job.seen
    BY <2>5 DEF GradingType, JobType, Phases, Storings
  <2>7. JobIsQueued'
    BY <2>1, <2>4, <2>6 DEF JobHoldsItsTickers, JobIsQueued, Queued, Storings, final
  <2> QED
    BY <2>3, <2>4, <2>6, <2>7, OthersNow, JobMoved DEF OtherType, TickIsHeld
<1>6. CASE store_analyses
  <2>1. job.phase = "analyses" /\ job.ticker \in Tickers /\ Result \in Grades /\ Result \in Results
    BY <1>6 DEF store_analyses, Storing, Storings, JobHoldsItsTickers, GradingType, final, Binary, Grades, Result, Results
  <2>2. rows' = rows \/ rows' = grade("analyses", job.ticker, Result)
    BY <1>6 DEF store_analyses
  <2>3. rows' \in [GradeStores -> [Tickers -> Grades]]
    <3>1. grade("analyses", job.ticker, Result) \in [GradeStores -> [Tickers -> Grades]]
      BY <1>0, <2>1, GradeIsTyped
    <3> QED
      BY <1>0, <2>2, <3>1
  <2>4. PICK c \in Callers :
          /\ begin(c, "resolve", [NoResults EXCEPT ![job.ticker] = Result], 0)
          /\ job' = [job EXCEPT !.phase = "candidates", !.worker = c]
    BY <1>6 DEF store_analyses
  <2>5. [NoResults EXCEPT ![job.ticker] = Result] \in [Tickers -> Results]
    BY <2>1, NothingDone
  <2>6. call' \in [Callers -> Calls]
    <3> DEFINE one == [NoResults EXCEPT ![job.ticker] = Result]
    <3>1. one \in [Tickers -> Results] /\ begin(c, "resolve", one, 0) /\ 0 \in Int
      BY <2>4, <2>5
    <3> HIDE DEF one
    <3> QED
      BY <1>0, <3>1, BeginKeepsCalls
  <2>7. UNCHANGED <<table, budget, market, pending, stats, poll, tick>>
    BY <1>6 DEF store_analyses
  <2>8. /\ JobType' /\ job'.phase = "candidates" /\ job'.ticker = job.ticker
        /\ job'.todo = job.todo /\ job'.seen = job.seen /\ job'.worker = c
    BY <2>4 DEF GradingType, JobType, Phases, Storings
  <2>9. JobIsQueued'
    BY <2>1, <2>7, <2>8 DEF JobHoldsItsTickers, JobIsQueued, Queued, Storings, final
  <2> QED
    BY <2>3, <2>6, <2>7, <2>8, <2>9, OthersNow, JobMoved DEF OtherType, TickIsHeld
<1>7. CASE store_candidates
  <2>1. job.phase = "candidates" /\ job.worker \in Callers
    BY <1>7 DEF store_candidates, Storing, JobHoldsItsTickers
  <2>2. budget' \in Budget /\ call' \in [Callers -> Calls] /\ DOMAIN table' = Stores
    BY <1>7, <2>1, ResolveKeepsCalls DEF store_candidates
  <2>3. job' = [job EXCEPT !.phase = "signals"] /\ UNCHANGED <<market, rows, pending, stats, poll, tick>>
    BY <1>7 DEF store_candidates
  <2>4. JobType' /\ job'.phase = "signals" /\ job'.ticker = job.ticker /\ job'.todo = job.todo /\ job'.seen = job.seen
    BY <2>3 DEF GradingType, JobType, Phases, Storings
  <2>5. JobIsQueued'
    BY <2>1, <2>3, <2>4 DEF JobHoldsItsTickers, JobIsQueued, Queued, Storings, final
  <2> QED
    BY <2>2, <2>3, <2>4, <2>5, OthersNow, JobMoved DEF OtherType, TickIsHeld
<1>8. CASE store_signals
  <2>1. job.phase = "signals" /\ job.ticker \in job.todo /\ job.ticker \in Queued /\ job.ticker \in Tickers /\ Result \in Grades
    BY <1>8 DEF store_signals, Storing, Storings, JobHoldsItsTickers, GradingType, final, Binary, Grades, Result
  <2>2. /\ pending' = [pending EXCEPT ![job.ticker] = Unqueued]
        /\ stats' = [stats EXCEPT !.resolved = @ + 1]
        /\ leave(job.ticker) /\ UNCHANGED <<captureVars, market, poll, tick>>
        /\ (rows' = rows \/ rows' = grade("signals", job.ticker, Result))
    BY <1>8 DEF store_signals
  <2>3. rows' \in [GradeStores -> [Tickers -> Grades]]
    BY <1>0, <2>1, <2>2, GradeIsTyped
  <2> QED
    BY <2>1, <2>2, <2>3, LeavingIsCounted, LeavingTheJob, OthersNow, QueueMoved DEF OtherType, TickIsHeld, captureVars
<1>9. CASE store_raises
  <2>1. job.phase \in Storings /\ job.ticker \in job.todo /\ job.ticker \in Queued
    BY <1>9 DEF store_raises, Storing, Storings, JobHoldsItsTickers
  <2>2. budget' \in Budget /\ call' \in [Callers -> Calls] /\ DOMAIN table' = Stores
    <3>1. CASE Storing("candidates") /\ resolve_raises(job.worker)
      BY <3>1, ResolveKeepsCalls DEF Storing, JobHoldsItsTickers
    <3>2. CASE fault /\ UNCHANGED <<table, call>>
      BY <3>2, FaultKeepsBudget DEF GradingType
    <3> QED
      BY <1>9, <3>1, <3>2 DEF store_raises
  <2>3. retry_or_drop(job.ticker) /\ leave(job.ticker) /\ UNCHANGED <<market, rows, poll, tick>>
    BY <1>9 DEF store_raises
  <2>4. job.phase # "idle"
    BY <2>1 DEF Storings
  <2> QED
    BY <2>1, <2>2, <2>3, <2>4, RetryOrDrop, LeavingTheJob, OthersNow, QueueMoved DEF OtherType, TickIsHeld
<1> QED
  BY <1>1, <1>2, <1>3, <1>4, <1>5, <1>6, <1>7, <1>8, <1>9

LEMMA QueueStep == QueueInv /\ [Next]_vars => QueueInv'
<1> SUFFICES ASSUME QueueInv, [Next]_vars PROVE QueueInv'
  OBVIOUS
<1>1. CASE CaptureStep
  <2>1. GradingType'
    BY <1>1, CaptureStepKeepsType DEF QueueInv
  <2>2. UNCHANGED settlementVars
    BY <1>1 DEF CaptureStep
  <2> QED
    BY <2>1, <2>2, QueueLeftAlone DEF QueueInv, GradingType, OtherType, TickIsHeld, settlementVars, JobHoldsItsTickers
<1>2. CASE Exchange
  BY <1>2, ExchangeKeepsQueue
<1>3. CASE Resolve
  BY <1>3, RequestKeepsQueue, EnqueueKeepsQueue, JobKeepsQueue DEF Resolve
<1>4. CASE Poll
  BY <1>4, PollKeepsQueue
<1>5. CASE Tick
  BY <1>5, TickKeepsQueue
<1>6. CASE crash_restart
  BY <1>6, RestartKeepsQueue
<1>7. CASE UNCHANGED vars
  BY <1>7, OthersNow, QueueLeftAlone DEF vars, resolverVars, captureVars, OtherType, TickIsHeld
<1> QED
  BY <1>1, <1>2, <1>3, <1>4, <1>5, <1>6, <1>7 DEF Next

(***************************************************************************)
(* settlement_resolver's counters: whatever was queued was resolved, was   *)
(* dropped, or is queued still, through failing requests and stores, late  *)
(* answers, tickers queued meanwhile, and restarts.                        *)
(***************************************************************************)
THEOREM QueueTheorem == Spec => []QueueConserved
<1>1. Init => QueueInv
  BY QueueInit
<1>2. QueueInv /\ [Next]_vars => QueueInv'
  BY QueueStep
<1>3. QueueInv => QueueConserved
  BY DEF QueueInv
<1> QED
  BY <1>1, <1>2, <1>3, PTL DEF Spec

-----------------------------------------------------------------------------
(***************************************************************************)
(* A resolved row of the two capture stores is never rewritten.            *)
(***************************************************************************)
Frozen == \A st \in Stores : \A e \in table[st] :
            e.result # "none" => e \in table'[st] \/ table'[st] \subseteq table[st]

LEMMA WrittenKeepsResolved ==
    ASSUME NEW st \in Stores, NEW batch, NEW e \in table[st], e.result # "none"
    PROVE  e \in Written(st, batch)
BY DEF Written

LEMMA FlushFreezes ==
    ASSUME DOMAIN table = Stores, NEW th \in Threads, Flush(th)
    PROVE  Frozen
<1>1. CASE flush_committed(th)
  <2> SUFFICES ASSUME NEW st \in Stores, NEW e \in table[st], e.result # "none"
               PROVE  e \in table'[st]
    BY DEF Frozen
  <2>1. table' = [table EXCEPT ![flight[th].store] = Written(flight[th].store, flight[th].rows)]
    BY <1>1 DEF flush_committed
  <2>2. CASE st = flight[th].store
    BY <2>1, <2>2, WrittenKeepsResolved
  <2>3. CASE st # flight[th].store
    BY <2>1, <2>3
  <2> QED
    BY <2>2, <2>3
<1>2. CASE flush_retained(th) \/ flush_dropped(th) \/ count_dropped(th)
  BY <1>2 DEF flush_retained, flush_dropped, count_dropped, Frozen
<1> QED
  BY <1>1, <1>2 DEF Flush

LEMMA GradingFreezes ==
    ASSUME DOMAIN table = Stores, NEW c, resolve_rows(c) \/ resolve_raises(c) \/ delete_rows(c)
    PROVE  Frozen
<1> SUFFICES ASSUME NEW st \in Stores, NEW e \in table[st], e.result # "none"
             PROVE  e \in table'[st] \/ table'[st] \subseteq table[st]
  BY DEF Frozen
<1>1. CASE resolve_rows(c)
  <2>1. table'[st] = Graded(table[st], call[c].results)
    BY <1>1 DEF resolve_rows
  <2> QED
    BY <2>1 DEF Graded
<1>2. CASE resolve_raises(c)
  BY <1>2 DEF resolve_raises
<1>3. CASE delete_rows(c)
  BY <1>3 DEF delete_rows
<1> QED
  BY <1>1, <1>2, <1>3

LEMMA FrozenStep == QueueInv /\ [Next]_vars => Frozen
<1> SUFFICES ASSUME QueueInv, [Next]_vars PROVE Frozen
  OBVIOUS
<1>0. DOMAIN table = Stores
  BY DEF QueueInv, GradingType
<1>1. CASE table' = table
  BY <1>1 DEF Frozen
<1>2. CASE CaptureStep
  <2>1. ASSUME NEW t, record_rejection(t) PROVE table' = table
    BY <2>1 DEF record_rejection
  <2>2. ASSUME NEW st, daemon_flush(st) PROVE table' = table
    BY <2>2 DEF daemon_flush
  <2>3. ASSUME NEW c, caller_flush(c) \/ start_delete(c) PROVE table' = table
    BY <2>3 DEF caller_flush, start_delete
  <2> QED
    BY <1>0, <1>1, <1>2, <2>1, <2>2, <2>3, FlushFreezes, GradingFreezes DEF CaptureStep, Delete
<1>3. CASE Exchange
  <2>1. table' = table
    BY <1>3 DEF Exchange, determine, amend, finalize, declare_winner, log_row, exchange, captureVars
  <2> QED
    BY <1>1, <2>1
<1>4. CASE Resolve
  <2>1. CASE store_candidates
    BY <1>0, <2>1, GradingFreezes DEF store_candidates
  <2>2. CASE store_raises
    BY <1>0, <1>1, <2>2, GradingFreezes DEF store_raises
  <2>3. CASE run_pending \/ request_fails \/ request_answered \/ \E t \in budget.tickers : enqueue(t)
    <3>1. table' = table
      BY <2>3 DEF run_pending, request_fails, request_answered, enqueue, captureVars
    <3> QED
      BY <1>1, <3>1
  <2>4. CASE \E t \in Tickers : not_final(t) \/ non_binary(t) \/ store_outcome(t) \/ outcome_raises(t)
    <3>1. table' = table
      BY <2>4 DEF not_final, non_binary, store_outcome, outcome_raises, captureVars
    <3> QED
      BY <1>1, <3>1
  <2>5. CASE store_window \/ store_analyses \/ store_signals
    <3>1. table' = table
      BY <2>5 DEF store_window, store_analyses, store_signals, captureVars
    <3> QED
      BY <1>1, <3>1
  <2> QED
    BY <1>4, <2>1, <2>2, <2>3, <2>4, <2>5 DEF Resolve
<1>5. CASE Poll \/ _resolve_settlement_windows \/ tick_resolve \/ crash_restart
  <2>1. table' = table
    BY <1>5 DEF Poll, poll_signals, poll_fails, mark_resolved, _resolve_settlement_windows, tick_resolve,
       crash_restart, capture_restart, captureVars
  <2> QED
    BY <1>1, <2>1
<1>6. CASE tick_record
  BY <1>0, <1>6, GradingFreezes DEF tick_record
<1>7. CASE UNCHANGED vars
  BY <1>1, <1>7 DEF vars, captureVars
<1> QED
  BY <1>2, <1>3, <1>4, <1>5, <1>6, <1>7 DEF Next, Tick

(***************************************************************************)
(* The upsert's WHERE resolved = 0 and the UPDATEs': a resolved row keeps  *)
(* its grade and contents until a step that only deletes removes it.       *)
(***************************************************************************)
THEOREM FrozenTheorem == Spec => ResolvedIsFrozen
<1>1. Init => QueueInv
  BY QueueInit
<1>2. QueueInv /\ [Next]_vars => QueueInv'
  BY QueueStep
<1>3. QueueInv /\ [Next]_vars => [Frozen]_vars
  BY FrozenStep
<1>4. Spec => [][Frozen]_vars
  BY <1>1, <1>2, <1>3, PTL DEF Spec
<1> QED
  BY <1>4 DEF Frozen, ResolvedIsFrozen

-----------------------------------------------------------------------------
(***************************************************************************)
(* Grades agree with the final result.  A grade may be taken before a      *)
(* market is final only from a declared winner; every result held by a     *)
(* call, the tick or the job, and every grade written, agrees with what    *)
(* the market will end as.                                                 *)
(***************************************************************************)
Agrees(t, r) ==
    /\ r \in Binary
    /\ IF market[t].status = "finalized" THEN r = market[t].result ELSE r = market[t].winner
IsFinal(t, r) == r \in Binary /\ market[t].status = "finalized" /\ market[t].result = r

WinnersAgree ==
    \A t \in Tickers :
        market[t].status = "finalized" => market[t].winner \in {"none", market[t].result}
HeldResultsAgree ==
    /\ \A c \in Callers, t \in Tickers : call[c].results[t] # "none" => Agrees(t, call[c].results[t])
    /\ \A t \in Tickers : tick.results[t] # "none" => IsFinal(t, tick.results[t])
    /\ \A t \in Tickers : final(job.seen[t]) => IsFinal(t, job.seen[t].result)
RowsAgree ==
    /\ \A st \in {"outcomes", "analyses"}, t \in Tickers : graded(st, t) => Agrees(t, rows[st][t])
    /\ \A t \in Tickers : graded("signals", t) => IsFinal(t, rows["signals"][t])
TablesAgree ==
    \A st \in Stores : \A e \in table[st] :
        /\ e = [row |-> e.row, result |-> e.result]
        /\ \A t \in Tickers : e.row.ticker = t /\ e.result # "none" => Agrees(t, e.result)
GradeInv == QueueInv /\ WinnersAgree /\ HeldResultsAgree /\ RowsAgree /\ TablesAgree

LEMMA GradeInit == Init => GradeInv
<1> SUFFICES ASSUME Init PROVE GradeInv
  OBVIOUS
<1>1. WinnersAgree
  BY DEF Init, WinnersAgree
<1>2. \A t \in Tickers : NoResults[t] = "none" /\ NoView[t] = Missing
  BY DEF NoResults, NoView
<1>3. HeldResultsAgree
  BY <1>2, NothingDone DEF Init, CaptureInit, HeldResultsAgree, Missing, final
<1>4. RowsAgree
  BY DEF Init, RowsAgree, graded, GradeStores, Binary
<1>5. TablesAgree
  BY DEF Init, CaptureInit, TablesAgree
<1> QED
  BY <1>1, <1>3, <1>4, <1>5, QueueInit DEF GradeInv

(***************************************************************************)
(* No move of the exchange makes an agreement wrong: once a winner is      *)
(* declared it stays, and the market is finalized as it says.              *)
(***************************************************************************)
LEMMA AgreementsLast ==
    ASSUME MilestonesAgree, GradeInv, Exchange
    PROVE  /\ WinnersAgree'
           /\ \A t \in Tickers, r \in Binary : (Agrees(t, r) => Agrees(t, r)') /\ (IsFinal(t, r) => IsFinal(t, r)')
<1> PICK u \in budget.tickers :
        \/ determine(u) \/ amend(u) \/ finalize(u) \/ declare_winner(u)
        \/ \E st \in GradeStores : log_row(st, u)
  BY DEF Exchange
<1>0. market \in [Tickers -> Market] /\ WinnersAgree
  BY DEF GradeInv, QueueInv, GradingType
<1>1. CASE determine(u)
  <2>1. market[u].status = "active"
    BY <1>1 DEF determine
  <2>2. PICK x \in {"yes", "no", "void"} : market' = [market EXCEPT ![u].status = "determined", ![u].result = x]
    BY <1>1 DEF determine
  <2> QED
    BY <1>0, <2>1, <2>2 DEF WinnersAgree, Agrees, IsFinal, Market
<1>2. CASE amend(u)
  <2>1. market[u].status = "determined"
    BY <1>2 DEF amend
  <2>2. PICK x \in Binary : market' = [market EXCEPT ![u].result = x, ![u].amended = TRUE]
    BY <1>2 DEF amend
  <2> QED
    BY <1>0, <2>1, <2>2 DEF WinnersAgree, Agrees, IsFinal, Market
<1>3. CASE finalize(u)
  <2>1. market[u].status = "determined" /\ market[u].winner \in {"none", market[u].result}
    BY <1>3 DEF finalize
  <2>2. market' = [market EXCEPT ![u].status = "finalized"]
    BY <1>3 DEF finalize
  <2>3. "none" \notin Binary
    BY DEF Binary
  <2> QED
    BY <1>0, <2>1, <2>2, <2>3 DEF WinnersAgree, Agrees, IsFinal, Market
<1>4. CASE declare_winner(u)
  <2>1. market[u].status # "finalized" /\ market[u].winner = "none"
    BY <1>4 DEF declare_winner
  <2>2. PICK x \in Binary : market' = [market EXCEPT ![u].winner = x]
    BY <1>4 DEF declare_winner
  <2>3. "none" \notin Binary
    BY DEF Binary
  <2> QED
    BY <1>0, <2>1, <2>2, <2>3 DEF WinnersAgree, Agrees, IsFinal, Market
<1>5. CASE \E st \in GradeStores : log_row(st, u)
  BY <1>0, <1>5 DEF log_row, WinnersAgree, Agrees, IsFinal
<1> QED
  BY <1>1, <1>2, <1>3, <1>4, <1>5

LEMMA NothingHeld == \A t \in Tickers : NoResults[t] = "none" /\ ~final(NoView[t])
BY DEF NoResults, NoView, Missing, final

(***************************************************************************)
(* The tables: new rows carry no grade, a call writes the results it       *)
(* holds, a deletion writes none.                                          *)
(***************************************************************************)
LEMMA TablesKept ==
    ASSUME GradeInv, UNCHANGED market,
           \/ table' = table
           \/ \E th \in Threads : Flush(th)
           \/ \E c \in Callers : delete_rows(c) \/ resolve_rows(c) \/ resolve_raises(c)
    PROVE  TablesAgree'
<1>0. DOMAIN table = Stores /\ TablesAgree /\ \A t, r : Agrees(t, r)' <=> Agrees(t, r)
  BY DEF GradeInv, QueueInv, GradingType, Agrees
<1> SUFFICES ASSUME NEW st \in Stores, NEW e \in table'[st]
             PROVE  /\ e = [row |-> e.row, result |-> e.result]
                    /\ \A t \in Tickers : e.row.ticker = t /\ e.result # "none" => Agrees(t, e.result)
  BY <1>0 DEF TablesAgree
<1>1. CASE e \in table[st]
  BY <1>0, <1>1 DEF TablesAgree
<1>2. ASSUME NEW th \in Threads, flush_committed(th), e \notin table[st]
      PROVE  \E r : e = [row |-> r, result |-> "none"]
  <2>1. e \in Written(flight[th].store, flight[th].rows) /\ st = flight[th].store
    BY <1>0, <1>2 DEF flush_committed
  <2> QED
    BY <1>2, <2>1 DEF Written
<1>3. ASSUME NEW c \in Callers, resolve_rows(c), e \notin table[st]
      PROVE  /\ e = [row |-> e.row, result |-> e.result]
             /\ \A t \in Tickers : e.row.ticker = t /\ e.result # "none" => Agrees(t, e.result)
  <2>1. PICK d \in table[st] : e = [d EXCEPT !.result = call[c].results[d.row.ticker]]
    BY <1>3 DEF resolve_rows, Graded
  <2>2. d = [row |-> d.row, result |-> d.result]
    BY <1>0 DEF TablesAgree
  <2>3. e = [row |-> d.row, result |-> call[c].results[d.row.ticker]]
    BY <2>1, <2>2
  <2> QED
    BY <2>3 DEF GradeInv, HeldResultsAgree
<1>4. e \in table[st] \/ (\E th \in Threads : flush_committed(th)) \/ (\E c \in Callers : resolve_rows(c))
  BY DEF Flush, flush_retained, flush_dropped, count_dropped, delete_rows, resolve_raises
<1> QED
  BY <1>1, <1>2, <1>3, <1>4

(***************************************************************************)
(* The calls: a step of a call keeps its results or ends it; a new one     *)
(* starts with the results it was given.                                   *)
(***************************************************************************)
CallsAgree == \A c \in Callers, t \in Tickers : call[c].results[t] # "none" => Agrees(t, call[c].results[t])

LEMMA CallsKept ==
    ASSUME GradeInv, UNCHANGED market,
           \/ call' = call
           \/ \E c \in Callers : caller_flush(c) \/ start_delete(c) \/ delete_rows(c)
                                 \/ resolve_rows(c) \/ resolve_raises(c)
    PROVE  CallsAgree'
<1>0. call \in [Callers -> Calls] /\ CallsAgree /\ \A t, r : Agrees(t, r)' <=> Agrees(t, r)
  BY DEF GradeInv, QueueInv, GradingType, HeldResultsAgree, CallsAgree, Agrees
<1>1. \A c \in Callers : call'[c].results = call[c].results \/ call'[c].results = NoResults
  <2>1. CASE call' = call
    BY <2>1
  <2>2. ASSUME NEW c \in Callers, caller_flush(c) PROVE \A d \in Callers : call'[d].results = call[d].results
    BY <1>0, <2>2 DEF caller_flush, Calls
  <2>3. ASSUME NEW c \in Callers, start_delete(c)
        PROVE  \A d \in Callers : call'[d].results = call[d].results \/ call'[d].results = NoResults
    BY <1>0, <2>3 DEF start_delete, begin
  <2>4. ASSUME NEW c \in Callers, call' = [call EXCEPT ![c] = Idle]
        PROVE  \A d \in Callers : call'[d].results = call[d].results \/ call'[d].results = NoResults
    BY <1>0, <2>4, NothingDone
  <2> QED
    BY <2>1, <2>2, <2>3, <2>4 DEF delete_rows, resolve_rows, resolve_raises
<1> QED
  BY <1>0, <1>1, NothingHeld DEF CallsAgree

LEMMA BegunAgrees ==
    ASSUME GradeInv, UNCHANGED market, NEW c \in Callers, NEW results \in [Tickers -> Results],
           begin(c, "resolve", results, 0),
           \A t \in Tickers : results[t] # "none" => Agrees(t, results[t])
    PROVE  CallsAgree'
<1>0. call \in [Callers -> Calls] /\ CallsAgree /\ \A t, r : Agrees(t, r)' <=> Agrees(t, r)
  BY DEF GradeInv, QueueInv, GradingType, HeldResultsAgree, CallsAgree, Agrees
<1>1. \A d \in Callers : call'[d].results = IF d = c THEN results ELSE call[d].results
  BY <1>0 DEF begin
<1> QED
  BY <1>0, <1>1 DEF CallsAgree

(***************************************************************************)
(* The pieces of the invariant, put together again after a step that       *)
(* leaves the market alone.                                                *)
(***************************************************************************)
TickAgrees == \A t \in Tickers : tick.results[t] # "none" => IsFinal(t, tick.results[t])
JobAgrees == \A t \in Tickers : final(job.seen[t]) => IsFinal(t, job.seen[t].result)

LEMMA Pieces ==
    GradeInv <=> QueueInv /\ WinnersAgree /\ CallsAgree /\ TickAgrees /\ JobAgrees /\ RowsAgree /\ TablesAgree
BY DEF GradeInv, HeldResultsAgree, CallsAgree, TickAgrees, JobAgrees

LEMMA SameMarket ==
    ASSUME GradeInv, UNCHANGED market
    PROVE  /\ WinnersAgree'
           /\ \A t, r : (Agrees(t, r)' <=> Agrees(t, r)) /\ (IsFinal(t, r)' <=> IsFinal(t, r))
           /\ tick' = tick \/ tick' = NoTick => TickAgrees'
           /\ job'.seen = job.seen \/ job' = NoJob => JobAgrees'
           /\ rows' = rows => RowsAgree'
<1>1. WinnersAgree' /\ \A t, r : (Agrees(t, r)' <=> Agrees(t, r)) /\ (IsFinal(t, r)' <=> IsFinal(t, r))
  BY DEF GradeInv, WinnersAgree, Agrees, IsFinal
<1>2. ASSUME tick' = tick \/ tick' = NoTick PROVE TickAgrees'
  BY <1>1, <1>2, Pieces, NothingDone, NothingHeld DEF TickAgrees
<1>3. ASSUME job'.seen = job.seen \/ job' = NoJob PROVE JobAgrees'
  BY <1>1, <1>3, Pieces, NothingDone, NothingHeld DEF JobAgrees, final
<1>4. ASSUME rows' = rows PROVE RowsAgree'
  BY <1>1, <1>4, Pieces DEF RowsAgree, graded
<1> QED
  BY <1>1, <1>2, <1>3, <1>4

(***************************************************************************)
(* A store that takes the result of a final market agrees with it.         *)
(***************************************************************************)
LEMMA FinalAgrees ==
    ASSUME WinnersAgree, NEW t \in Tickers, NEW r, IsFinal(t, r)
    PROVE  Agrees(t, r)
BY DEF IsFinal, Agrees

LEMMA GradeKeepsRows ==
    ASSUME GradeInv, UNCHANGED market, NEW st \in GradeStores, NEW t \in Tickers, NEW r,
           r = "open" \/ IsFinal(t, r), rows' = rows \/ rows' = grade(st, t, r)
    PROVE  RowsAgree'
<1>0. RowsAgree /\ \A u, x : (Agrees(u, x)' <=> Agrees(u, x)) /\ (IsFinal(u, x)' <=> IsFinal(u, x))
  BY SameMarket, Pieces
<1>1. CASE rows' = rows
  BY <1>1, SameMarket
<1>2. CASE rows' = grade(st, t, r)
  <2>1. \A s \in GradeStores, u \in Tickers : rows'[s][u] = IF s = st /\ u = t THEN r ELSE rows[s][u]
    BY <1>2 DEF grade, GradeInv, QueueInv, GradingType
  <2>2. r \in Binary => IsFinal(t, r) /\ Agrees(t, r)
    BY FinalAgrees DEF GradeInv, Binary
  <2> QED
    BY <1>0, <2>1, <2>2 DEF RowsAgree, graded, GradeStores
<1> QED
  BY <1>1, <1>2

LEMMA ExchangeKeepsGrades ==
    ASSUME MilestonesAgree, GradeInv, Exchange
    PROVE  GradeInv'
<1>1. QueueInv'
  BY ExchangeKeepsQueue DEF GradeInv
<1>2. /\ WinnersAgree'
      /\ \A t \in Tickers, r \in Binary : (Agrees(t, r) => Agrees(t, r)') /\ (IsFinal(t, r) => IsFinal(t, r)')
  BY AgreementsLast
<1>3. UNCHANGED <<call, table, job, tick>>
  BY DEF Exchange, determine, amend, finalize, declare_winner, log_row, exchange, captureVars, resolverVars
<1>4. /\ \A t, r : Agrees(t, r) => r \in Binary
      /\ \A t, r : IsFinal(t, r) => r \in Binary
  BY DEF Agrees, IsFinal
<1>5. CallsAgree' /\ TickAgrees' /\ JobAgrees' /\ TablesAgree'
  BY <1>2, <1>3, <1>4, Pieces DEF CallsAgree, TickAgrees, JobAgrees, TablesAgree, final
<1>6. RowsAgree'
  <2>1. \A st \in GradeStores, t \in Tickers : rows'[st][t] = rows[st][t] \/ rows'[st][t] = "open"
    BY DEF Exchange, determine, amend, finalize, declare_winner, log_row, exchange, grade, GradeInv, QueueInv, GradingType
  <2>2. "open" \notin Binary
    BY DEF Binary
  <2> QED
    BY <1>2, <1>4, <2>1, <2>2 DEF GradeInv, RowsAgree, graded, GradeStores
<1> QED
  BY <1>1, <1>2, <1>5, <1>6, Pieces DEF GradeInv, HeldResultsAgree, CallsAgree, TickAgrees, JobAgrees

LEMMA CaptureKeepsGrades ==
    ASSUME GradeInv, QueueInv', CaptureStep
    PROVE  GradeInv'
<1>1. UNCHANGED <<market, rows, job, tick>>
  BY DEF CaptureStep, settlementVars, resolverVars
<1>2. TablesAgree' /\ CallsAgree'
  <2>1. ASSUME NEW t, record_rejection(t) PROVE table' = table /\ call' = call
    BY <2>1 DEF record_rejection
  <2>2. ASSUME NEW st, daemon_flush(st) PROVE table' = table /\ call' = call
    BY <2>2 DEF daemon_flush
  <2>3. ASSUME NEW th, Flush(th) PROVE call' = call
    BY <2>3 DEF Flush, flush_committed, flush_retained, flush_dropped, count_dropped
  <2>4. ASSUME NEW c, caller_flush(c) \/ start_delete(c) PROVE table' = table
    BY <2>4 DEF caller_flush, start_delete
  <2> QED
    BY <1>1, <2>1, <2>2, <2>3, <2>4, TablesKept, CallsKept DEF CaptureStep, Delete
<1> QED
  BY <1>1, <1>2, SameMarket, Pieces DEF GradeInv, HeldResultsAgree, CallsAgree, TickAgrees, JobAgrees

LEMMA PiecesPrime ==
    ASSUME QueueInv', WinnersAgree', CallsAgree', TickAgrees', JobAgrees', RowsAgree', TablesAgree'
    PROVE  GradeInv'
BY DEF GradeInv, HeldResultsAgree, CallsAgree, TickAgrees, JobAgrees

LEMMA PollKeepsGrades ==
    ASSUME GradeInv, QueueInv', Poll
    PROVE  GradeInv'
<1>1. UNCHANGED <<market, call, table, job, tick>>
  BY DEF Poll, poll_signals, poll_fails, mark_resolved, captureVars, resolverVars
<1>2. TablesAgree' /\ CallsAgree'
  BY <1>1, TablesKept, CallsKept
<1>3. RowsAgree'
  <2>1. CASE mark_resolved
    <3>1. \A st \in GradeStores, t \in Tickers :
            rows'[st][t] = rows[st][t] \/ (st = "signals" /\ IsFinal(t, rows'[st][t]))
      BY <1>1, <2>1 DEF mark_resolved, GradeInv, QueueInv, GradingType, signal_view, View, final, IsFinal, GradeStores
    <3> QED
      BY <1>1, <3>1, SameMarket DEF GradeInv, RowsAgree, graded, GradeStores
  <2>2. CASE poll_signals \/ poll_fails
    BY <1>1, <2>2, SameMarket DEF poll_signals, poll_fails
  <2> QED
    BY <2>1, <2>2 DEF Poll
<1> QED
  BY <1>1, <1>2, <1>3, SameMarket, PiecesPrime

LEMMA SeenAgrees ==
    ASSUME GradeInv, NEW v \in Views(job.todo), NEW t \in Tickers, final(v[t])
    PROVE  IsFinal(t, v[t].result)
<1>1. v[t] = View(t)
  BY DEF Views, final, Missing
<1> QED
  BY <1>1 DEF View, final, IsFinal

LEMMA ResultIsFinal ==
    ASSUME GradeInv, job.phase \in Storings
    PROVE  job.ticker \in Tickers /\ IsFinal(job.ticker, Result)
BY DEF GradeInv, QueueInv, GradingType, JobHoldsItsTickers, HeldResultsAgree, Result

LEMMA ResolveKeepsGrades ==
    ASSUME GradeInv, QueueInv', Resolve
    PROVE  GradeInv'
<1>1. UNCHANGED <<market, tick>>
  BY DEF Resolve, run_pending, request_fails, request_answered, enqueue, not_final, non_binary, store_outcome,
     outcome_raises, store_window, store_analyses, store_candidates, store_signals, store_raises
<1>2. WinnersAgree' /\ TickAgrees'
  BY <1>1, SameMarket
<1>3. job.phase = "candidates" => job.worker \in Callers
  BY DEF GradeInv, QueueInv, JobHoldsItsTickers
<1>4. ASSUME UNCHANGED <<call, table>> PROVE CallsAgree' /\ TablesAgree'
  BY <1>1, <1>4, TablesKept, CallsKept
<1>5. ASSUME NEW t \in Tickers, leave(t) PROVE JobAgrees'
  <2>1. job'.seen = job.seen \/ job' = NoJob
    BY <1>5 DEF leave, GradeInv, QueueInv, GradingType
  <2> QED
    BY <1>1, <2>1, SameMarket
<1>6. CASE run_pending
  <2>1. job'.seen = NoView /\ UNCHANGED <<rows, call, table>>
    BY <1>6, NothingDone DEF run_pending, captureVars
  <2>2. JobAgrees'
    BY <2>1, NothingHeld DEF JobAgrees, final
  <2> QED
    BY <1>1, <1>2, <1>4, <2>1, <2>2, SameMarket, PiecesPrime
<1>7. CASE request_fails
  <2>1. job' = NoJob /\ UNCHANGED <<rows, call, table>>
    BY <1>7 DEF request_fails, captureVars
  <2> QED
    BY <1>1, <1>2, <1>4, <2>1, SameMarket, PiecesPrime
<1>8. CASE request_answered
  <2>1. PICK v \in Views(job.todo) : job' = [job EXCEPT !.phase = "drain", !.seen = v]
    BY <1>8 DEF request_answered
  <2>2. job'.seen = v /\ UNCHANGED <<rows, call, table>>
    BY <1>8, <2>1 DEF request_answered, captureVars, GradeInv, QueueInv, GradingType
  <2>3. JobAgrees'
    BY <1>1, <2>2, SeenAgrees, SameMarket DEF JobAgrees, final
  <2> QED
    BY <1>1, <1>2, <1>4, <2>2, <2>3, SameMarket, PiecesPrime
<1>9. ASSUME NEW t \in budget.tickers, enqueue(t) PROVE GradeInv'
  <2>1. UNCHANGED <<rows, call, table, job>>
    BY <1>9 DEF enqueue, captureVars
  <2> QED
    BY <1>1, <1>2, <1>4, <2>1, SameMarket, PiecesPrime
<1>10. ASSUME NEW t \in Tickers, not_final(t) \/ non_binary(t) \/ outcome_raises(t) PROVE GradeInv'
  <2>1. leave(t) /\ UNCHANGED <<rows, call, table>>
    BY <1>10 DEF not_final, non_binary, outcome_raises, captureVars
  <2> QED
    BY <1>1, <1>2, <1>4, <1>5, <2>1, SameMarket, PiecesPrime
<1>11. ASSUME NEW t \in Tickers, store_outcome(t) PROVE GradeInv'
  <2>1. IsFinal(t, job.seen[t].result)
    BY <1>11 DEF store_outcome, GradeInv, HeldResultsAgree
  <2>2. rows' = rows \/ rows' = grade("outcomes", t, job.seen[t].result)
    BY <1>11 DEF store_outcome
  <2>3. RowsAgree'
    BY <1>1, <2>1, <2>2, GradeKeepsRows DEF GradeStores
  <2>4. job'.seen = job.seen /\ UNCHANGED <<call, table>>
    BY <1>11 DEF store_outcome, captureVars, GradeInv, QueueInv, GradingType
  <2> QED
    BY <1>1, <1>2, <1>4, <2>3, <2>4, SameMarket, PiecesPrime
<1>12. CASE store_window
  <2>1. job.ticker \in Tickers /\ IsFinal(job.ticker, Result)
    BY <1>12, ResultIsFinal DEF store_window, Storing, Storings
  <2>2. rows' = rows \/ rows' = grade("windows", job.ticker, Result)
    BY <1>12 DEF store_window
  <2>3. RowsAgree'
    BY <1>1, <2>1, <2>2, GradeKeepsRows DEF GradeStores
  <2>4. job'.seen = job.seen /\ UNCHANGED <<call, table>>
    BY <1>12 DEF store_window, captureVars, GradeInv, QueueInv, GradingType
  <2> QED
    BY <1>1, <1>2, <1>4, <2>3, <2>4, SameMarket, PiecesPrime
<1>13. CASE store_analyses
  <2> DEFINE one == [NoResults EXCEPT ![job.ticker] = Result]
  <2>1. job.ticker \in Tickers /\ IsFinal(job.ticker, Result)
    BY <1>13, ResultIsFinal DEF store_analyses, Storing, Storings
  <2>2. rows' = rows \/ rows' = grade("analyses", job.ticker, Result)
    BY <1>13 DEF store_analyses
  <2>3. RowsAgree'
    BY <1>1, <2>1, <2>2, GradeKeepsRows DEF GradeStores
  <2>4. one \in [Tickers -> Results] /\ \A t \in Tickers : one[t] # "none" => t = job.ticker /\ one[t] = Result
    BY <2>1, NothingDone, NothingHeld DEF IsFinal, Binary, Results
  <2>5. \A t \in Tickers : one[t] # "none" => Agrees(t, one[t])
    BY <2>1, <2>4, FinalAgrees DEF GradeInv
  <2> HIDE DEF one
  <2>6. PICK c \in Callers : begin(c, "resolve", one, 0)
    BY <1>13 DEF store_analyses, one
  <2>7. CallsAgree'
    BY <1>1, <2>4, <2>5, <2>6, BegunAgrees
  <2>8. job'.seen = job.seen /\ UNCHANGED table
    BY <1>13 DEF store_analyses, GradeInv, QueueInv, GradingType
  <2> QED
    BY <1>1, <1>2, <2>3, <2>7, <2>8, TablesKept, SameMarket, PiecesPrime
<1>14. CASE store_candidates
  <2>1. job.worker \in Callers /\ resolve_rows(job.worker)
    BY <1>3, <1>14 DEF store_candidates, Storing
  <2>2. CallsAgree' /\ TablesAgree'
    BY <1>1, <2>1, TablesKept, CallsKept
  <2>3. job'.seen = job.seen /\ UNCHANGED rows
    BY <1>14 DEF store_candidates, GradeInv, QueueInv, GradingType
  <2> QED
    BY <1>1, <1>2, <2>2, <2>3, SameMarket, PiecesPrime
<1>15. CASE store_signals
  <2>1. job.ticker \in Tickers /\ IsFinal(job.ticker, Result)
    BY <1>15, ResultIsFinal DEF store_signals, Storing, Storings
  <2>2. rows' = rows \/ rows' = grade("signals", job.ticker, Result)
    BY <1>15 DEF store_signals
  <2>3. RowsAgree'
    BY <1>1, <2>1, <2>2, GradeKeepsRows DEF GradeStores
  <2>4. leave(job.ticker) /\ UNCHANGED <<call, table>>
    BY <1>15 DEF store_signals, captureVars
  <2> QED
    BY <1>1, <1>2, <1>4, <1>5, <2>1, <2>3, <2>4, SameMarket, PiecesPrime
<1>16. CASE store_raises
  <2>1. leave(job.ticker) /\ job.ticker \in Tickers /\ UNCHANGED rows
    BY <1>16 DEF store_raises, GradeInv, QueueInv, GradingType
  <2>2. CallsAgree' /\ TablesAgree'
    <3>1. CASE Storing("candidates") /\ resolve_raises(job.worker)
      BY <1>1, <1>3, <3>1, TablesKept, CallsKept DEF Storing
    <3>2. CASE UNCHANGED <<call, table>>
      BY <1>4, <3>2
    <3> QED
      BY <1>16, <3>1, <3>2 DEF store_raises
  <2> QED
    BY <1>1, <1>2, <1>5, <2>1, <2>2, SameMarket, PiecesPrime
<1> QED
  BY <1>6, <1>7, <1>8, <1>9, <1>10, <1>11, <1>12, <1>13, <1>14, <1>15, <1>16 DEF Resolve

LEMMA TickKeepsGrades ==
    ASSUME GradeInv, QueueInv', Tick
    PROVE  GradeInv'
<1>1. UNCHANGED <<market, job>>
  BY DEF Tick, tick_resolve, tick_record, _resolve_settlement_windows, resolverVars
<1>2. WinnersAgree' /\ JobAgrees'
  BY <1>1, SameMarket
<1>3. "none" \notin Binary /\ "open" \notin Binary
  BY DEF Binary
<1>4. CASE tick_resolve
  <2> DEFINE results == [t \in Tickers |-> tick_result(t)]
             finals == [t \in Tickers |-> IF final(View(t)) THEN market[t].result ELSE "none"]
  <2>1. /\ results \in [Tickers -> Results]
        /\ \A t \in Tickers : results[t] # "none" => Agrees(t, results[t])
    <3>1. \A t \in Tickers : market[t].winner \in {"none"} \cup Binary
      BY DEF GradeInv, QueueInv, GradingType, Market, Results, Binary
    <3>2. ASSUME NEW t \in Tickers, tick_result(t) # "none" PROVE Agrees(t, tick_result(t))
      <4>1. CASE market[t].winner # "none"
        BY <3>1, <4>1 DEF tick_result, Agrees, GradeInv, WinnersAgree
      <4>2. CASE market[t].winner = "none"
        BY <3>2, <4>2 DEF tick_result, final, View, Agrees
      <4> QED
        BY <4>1, <4>2
    <3>3. results \in [Tickers -> Results]
      BY TickResults DEF GradeInv, QueueInv
    <3> QED
      BY <3>2, <3>3
  <2>2. finals \in [Tickers -> Results] /\ \A t \in Tickers : finals[t] # "none" => IsFinal(t, finals[t])
    BY TickResults DEF GradeInv, QueueInv, final, View, IsFinal
  <2> HIDE DEF results, finals
  <2>3. PICK c \in Callers :
          /\ begin(c, "resolve", results, 0)
          /\ tick' = [phase |-> "candidates", worker |-> c, results |-> finals]
    BY <1>4 DEF tick_resolve, results, finals
  <2>4. CallsAgree'
    BY <1>1, <2>1, <2>3, BegunAgrees
  <2>5. TickAgrees'
    BY <1>1, <2>2, <2>3, SameMarket DEF TickAgrees
  <2>6. \A st \in GradeStores, t \in Tickers :
          \/ rows'[st][t] = rows[st][t]
          \/ st \in {"outcomes", "analyses"} /\ Agrees(t, rows'[st][t])
    <3>1. \A t \in Tickers : market[t].winner # "none" => results[t] = market[t].winner
      BY DEF results, tick_result
    <3>2. rows' = [rows EXCEPT
               !["outcomes"] = [t \in Tickers |-> IF market[t].winner # "none" /\ @[t] \notin Binary
                                                  THEN market[t].winner ELSE @[t]],
               !["analyses"] = [t \in Tickers |-> IF @[t] = "open" /\ results[t] # "none" THEN results[t] ELSE @[t]]]
      BY <1>4 DEF tick_resolve, results
    <3> QED
      BY <2>1, <3>1, <3>2 DEF GradeInv, QueueInv, GradingType, GradeStores
  <2>7. RowsAgree'
    BY <1>1, <2>6, SameMarket DEF GradeInv, RowsAgree, graded, GradeStores
  <2>8. TablesAgree'
    BY <1>1, <1>4, TablesKept DEF tick_resolve
  <2> QED
    BY <1>2, <2>4, <2>5, <2>7, <2>8, PiecesPrime
<1>5. CASE tick_record
  <2>1. tick.phase = "candidates" /\ tick.worker \in Callers /\ tick' = NoTick
    BY <1>5 DEF tick_record, GradeInv, QueueInv, JobHoldsItsTickers
  <2>2. resolve_rows(tick.worker) \/ resolve_raises(tick.worker)
    BY <1>5 DEF tick_record
  <2>3. CallsAgree' /\ TablesAgree'
    BY <1>1, <2>1, <2>2, TablesKept, CallsKept
  <2>4. \A st \in GradeStores, t \in Tickers :
          \/ rows'[st][t] = rows[st][t]
          \/ st \in {"outcomes", "windows"} /\ Agrees(t, rows'[st][t])
    <3>1. \A t \in Tickers : tick.results[t] # "none" => Agrees(t, tick.results[t])
      BY FinalAgrees DEF GradeInv, HeldResultsAgree
    <3>2. \/ rows' = rows
          \/ rows' = [rows EXCEPT
                !["outcomes"] = [t \in Tickers |-> IF tick.results[t] # "none" /\ @[t] \notin Binary THEN tick.results[t] ELSE @[t]],
                !["windows"] = [t \in Tickers |-> IF tick.results[t] # "none" /\ @[t] = "open" THEN tick.results[t] ELSE @[t]]]
      BY <1>5 DEF tick_record
    <3> QED
      BY <3>1, <3>2 DEF GradeInv, QueueInv, GradingType, GradeStores
  <2>5. RowsAgree'
    BY <1>1, <2>4, SameMarket DEF GradeInv, RowsAgree, graded, GradeStores
  <2> QED
    BY <1>1, <1>2, <2>1, <2>3, <2>5, SameMarket, PiecesPrime
<1>6. CASE _resolve_settlement_windows
  <2>1. UNCHANGED <<call, table, tick>>
    BY <1>6 DEF _resolve_settlement_windows, captureVars
  <2>2. \A st \in GradeStores, t \in Tickers : rows'[st][t] = rows[st][t] \/ st = "windows"
    BY <1>6 DEF _resolve_settlement_windows, GradeInv, QueueInv, GradingType
  <2>3. RowsAgree'
    BY <1>1, <2>2, SameMarket DEF GradeInv, RowsAgree, graded, GradeStores
  <2> QED
    BY <1>1, <1>2, <2>1, <2>3, TablesKept, CallsKept, SameMarket, PiecesPrime
<1> QED
  BY <1>4, <1>5, <1>6 DEF Tick

LEMMA RestartKeepsGrades ==
    ASSUME GradeInv, QueueInv', crash_restart
    PROVE  GradeInv'
<1>1. UNCHANGED <<market, rows, table>> /\ job' = NoJob /\ tick' = NoTick
  BY DEF crash_restart, capture_restart
<1>2. CallsAgree'
  BY NothingDone, NothingHeld DEF crash_restart, capture_restart, CallsAgree
<1> QED
  BY <1>1, <1>2, TablesKept, SameMarket, PiecesPrime

LEMMA GradeStep == MilestonesAgree /\ GradeInv /\ [Next]_vars => GradeInv'
<1> SUFFICES ASSUME MilestonesAgree, GradeInv, [Next]_vars PROVE GradeInv'
  OBVIOUS
<1>1. QueueInv'
  BY QueueStep DEF GradeInv
<1>2. CASE UNCHANGED vars
  <2>1. UNCHANGED <<market, rows, call, table, job, tick>>
    BY <1>2 DEF vars, captureVars, resolverVars
  <2> QED
    BY <1>1, <2>1, TablesKept, CallsKept, SameMarket, PiecesPrime
<1> QED
  BY <1>1, <1>2, CaptureKeepsGrades, ExchangeKeepsGrades, ResolveKeepsGrades, PollKeepsGrades,
     TickKeepsGrades, RestartKeepsGrades DEF Next

LEMMA GradesAreTerminal == GradeInv => GradedByTerminalResult
BY DEF GradeInv, WinnersAgree, RowsAgree, TablesAgree, Agrees, IsFinal, GradedByTerminalResult

(***************************************************************************)
(* The finalized gates of the resolver, the signal poll and the tick: if a *)
(* declared milestone winner is the market's final result, then no grade   *)
(* of a final market contradicts it, whichever path wrote it first.        *)
(***************************************************************************)
THEOREM TerminalTheorem == MilestonesAgree => (Spec => []GradedByTerminalResult)
<1> SUFFICES ASSUME MilestonesAgree PROVE Spec => []GradedByTerminalResult
  OBVIOUS
<1>1. Init => GradeInv
  BY GradeInit
<1>2. GradeInv /\ [Next]_vars => GradeInv'
  BY GradeStep
<1>3. GradeInv => GradedByTerminalResult
  BY GradesAreTerminal
<1> QED
  BY <1>1, <1>2, <1>3, PTL DEF Spec

-----------------------------------------------------------------------------
(***************************************************************************)
(* The store of rejection events implements the row ledger.  A row waits   *)
(* in the buffer or in the batch of one thread, never in two of them, and  *)
(* never waits once it is stored.                                          *)
(***************************************************************************)
E == "rejection_events"
Buffered == RowsOf(buffers[E])
Held(th) == IF flight[th].stage = "write" /\ flight[th].store = E THEN RowsOf(flight[th].rows) ELSE {}

EventsType ==
    /\ recorded \in Nat
    /\ DOMAIN submitted = Stores /\ DOMAIN buffers = Stores /\ DOMAIN flight = Threads
    /\ \A th \in Threads : DOMAIN flight[th] = {"stage", "store", "rows", "seen"}
    /\ buffers[E] \in Seq(Row)
    /\ \A th \in Threads : flight[th].stage = "write" /\ flight[th].store = E => flight[th].rows \in Seq(Row)
    /\ submitted[E] \subseteq Row /\ \A r \in submitted[E] : r.id <= recorded
    /\ \A e \in table[E] : DOMAIN e = {"row", "result"}

EventsApart ==
    /\ \A th \in Threads : Held(th) \cap Buffered = {}
    /\ \A th, u \in Threads : th # u => Held(th) \cap Held(u) = {}
    /\ Waiting(E) \cap StoredRows(E) = {}
    /\ Waiting(E) \cup StoredRows(E) \subseteq submitted[E]

EventsInv == QueueInv /\ EventsType /\ EventsApart

(***************************************************************************)
(* Facts about the rows of a sequence.                                     *)
(***************************************************************************)
LEMMA RowsOfAppend ==
    ASSUME NEW s \in Seq(Row), NEW r \in Row
    PROVE  Append(s, r) \in Seq(Row) /\ RowsOf(Append(s, r)) = RowsOf(s) \cup {r}
<1>1. DOMAIN s = 1 .. Len(s) /\ DOMAIN Append(s, r) = 1 .. Len(s) + 1 /\ Len(s) \in Nat
  OBVIOUS
<1>2. \A i \in 1 .. Len(s) : Append(s, r)[i] = s[i]
  OBVIOUS
<1>3. Append(s, r)[Len(s) + 1] = r
  OBVIOUS
<1>4. 1 .. Len(s) + 1 = (1 .. Len(s)) \cup {Len(s) + 1}
  BY <1>1
<1>5. RowsOf(Append(s, r)) = RowsOf(s) \cup {r}
  BY <1>1, <1>2, <1>3, <1>4 DEF RowsOf
<1> QED
  BY <1>5

LEMMA RowsOfConcat ==
    ASSUME NEW s \in Seq(Row), NEW t \in Seq(Row)
    PROVE  s \o t \in Seq(Row) /\ RowsOf(s \o t) \subseteq RowsOf(s) \cup RowsOf(t)
<1>1. DOMAIN (s \o t) = 1 .. Len(s) + Len(t) /\ DOMAIN s = 1 .. Len(s) /\ DOMAIN t = 1 .. Len(t)
  OBVIOUS
<1>2. \A i \in 1 .. Len(s) + Len(t) : (s \o t)[i] = IF i <= Len(s) THEN s[i] ELSE t[i - Len(s)]
  OBVIOUS
<1>3. \A i \in 1 .. Len(s) + Len(t) : i <= Len(s) => i \in 1 .. Len(s)
  OBVIOUS
<1>4. \A i \in 1 .. Len(s) + Len(t) : ~(i <= Len(s)) => i - Len(s) \in 1 .. Len(t)
  OBVIOUS
<1> QED
  BY <1>1, <1>2, <1>3, <1>4 DEF RowsOf

LEMMA RowsOfTrimmed ==
    ASSUME NEW s \in Seq(Row)
    PROVE  Trimmed(s) \in Seq(Row) /\ RowsOf(Trimmed(s)) \subseteq RowsOf(s)
<1>1. CASE ~(Len(s) > MaxRetained)
  BY <1>1 DEF Trimmed
<1>2. CASE Len(s) > MaxRetained
  <2> DEFINE from == Len(s) - MaxRetained + 1
  <2>1. from \in 1 .. Len(s) + 1 /\ Len(s) \in Nat /\ Trimmed(s) = SubSeq(s, from, Len(s))
    BY <1>2, BoundAssumption DEF Trimmed
  <2>2. SubSeq(s, from, Len(s)) \in Seq(Row) /\ Len(SubSeq(s, from, Len(s))) = Len(s) - from + 1
    BY <2>1, SubSeqProperties
  <2>3. \A i \in 1 .. Len(s) - from + 1 : SubSeq(s, from, Len(s))[i] = s[from + i - 1]
    BY <2>1, SubSeqProperties
  <2>4. DOMAIN SubSeq(s, from, Len(s)) = 1 .. Len(s) - from + 1 /\ DOMAIN s = 1 .. Len(s)
    BY <2>2
  <2>5. \A i \in 1 .. Len(s) - from + 1 : from + i - 1 \in 1 .. Len(s)
    BY <2>1
  <2> HIDE DEF from
  <2>6. RowsOf(SubSeq(s, from, Len(s))) \subseteq RowsOf(s)
    BY <2>3, <2>4, <2>5 DEF RowsOf
  <2> QED
    BY <2>1, <2>2, <2>6
<1> QED
  BY <1>1, <1>2

-----------------------------------------------------------------------------
(***************************************************************************)
(* What a step does to the rows that wait and to those that are stored,    *)
(* and the step of the ledger it amounts to.                               *)
(***************************************************************************)
LEMMA Waiters ==
    /\ \A r : r \in Waiting(E) <=> r \in Buffered \/ \E th \in Threads : r \in Held(th)
    /\ \A r : r \in Waiting(E)' <=> r \in Buffered' \/ \E th \in Threads : r \in Held(th)'
BY DEF Waiting, Buffered, Held

LEMMA Apart ==
    ASSUME \A th \in Threads : Held(th)' \cap Buffered' = {},
           \A th, u \in Threads : th # u => Held(th)' \cap Held(u)' = {},
           Waiting(E)' \cap StoredRows(E)' = {},
           Waiting(E)' \cup StoredRows(E)' \subseteq submitted'[E]
    PROVE  EventsApart'
BY DEF EventsApart

LEMMA RowAccepted ==
    ASSUME EventsApart, NEW r \in Row, r \notin submitted[E],
           Buffered' = Buffered \cup {r}, \A th \in Threads : Held(th)' = Held(th),
           StoredRows(E)' = StoredRows(E), submitted'[E] = submitted[E] \cup {r}
    PROVE  EventsApart' /\ Events!Step
<1>1. Waiting(E)' = Waiting(E) \cup {r}
  BY Waiters
<1>2. r \notin Waiting(E) \cup StoredRows(E) /\ Waiting(E) \cup StoredRows(E) \subseteq submitted[E]
  BY DEF EventsApart
<1>3. \A th \in Threads : r \notin Held(th)
  BY <1>2, Waiters
<1>4. EventsApart'
  BY <1>1, <1>2, <1>3, Apart DEF EventsApart
<1>5. Events!Accept(r, {})
  BY <1>1, <1>2 DEF Events!Accept, E
<1> QED
  BY <1>4, <1>5 DEF Events!Step, E

LEMMA RowsStored ==
    ASSUME EventsApart, NEW S \in SUBSET Waiting(E),
           NEW D \in SUBSET ((Waiting(E) \cup StoredRows(E)) \ S),
           Waiting(E)' = Waiting(E) \ (S \cup D),
           StoredRows(E)' = (StoredRows(E) \cup S) \ D,
           submitted'[E] = submitted[E]
    PROVE  /\ Events!Step
           /\ Waiting(E)' \cap StoredRows(E)' = {}
           /\ Waiting(E)' \cup StoredRows(E)' \subseteq submitted'[E]
<1>1. Waiting(E) \cup StoredRows(E) \subseteq submitted[E] /\ Waiting(E) \cap StoredRows(E) = {}
  BY DEF EventsApart
<1>2. Events!Store(S, D)
  BY <1>1 DEF Events!Store, E
<1>3. Events!Step
  BY <1>2 DEF Events!Step, E
<1> QED
  BY <1>1, <1>3

LEMMA RowsShifted ==
    ASSUME EventsApart, NEW th \in Threads, NEW S,
           S \subseteq Buffered \cup Held(th),
           Buffered' \cup Held(th)' \subseteq (Buffered \cup Held(th)) \ S,
           Buffered' \cap Held(th)' = {},
           \A u \in Threads \ {th} : Held(u)' = Held(u),
           StoredRows(E)' = StoredRows(E) \cup S,
           submitted'[E] = submitted[E]
    PROVE  EventsApart' /\ Events!Step
<1> DEFINE D == (Buffered \cup Held(th)) \ (S \cup Buffered' \cup Held(th)')
<1>1. S \in SUBSET Waiting(E) /\ D \in SUBSET ((Waiting(E) \cup StoredRows(E)) \ S)
  BY Waiters
<1>2. \A u \in Threads \ {th} : Held(u) \cap (Buffered \cup Held(th)) = {}
  BY DEF EventsApart
<1>3. Waiting(E)' = Waiting(E) \ (S \cup D)
  BY <1>2, Waiters
<1>4. StoredRows(E) \cap Waiting(E) = {}
  BY DEF EventsApart
<1>5. StoredRows(E)' = (StoredRows(E) \cup S) \ D
  <2>1. D \subseteq Waiting(E) /\ D \cap S = {}
    BY Waiters
  <2> QED
    BY <1>4, <2>1
<1>6. /\ Events!Step
      /\ Waiting(E)' \cap StoredRows(E)' = {}
      /\ Waiting(E)' \cup StoredRows(E)' \subseteq submitted'[E]
  BY <1>1, <1>3, <1>5, RowsStored
<1>7. \A u \in Threads : Held(u)' \cap Buffered' = {}
  BY <1>2
<1>8. \A u, v \in Threads : u # v => Held(u)' \cap Held(v)' = {}
  BY <1>2 DEF EventsApart
<1> QED
  BY <1>6, <1>7, <1>8, Apart

LEMMA RowsLeft ==
    ASSUME EventsApart, Buffered' = Buffered, \A th \in Threads : Held(th)' = Held(th),
           StoredRows(E)' \subseteq StoredRows(E), submitted'[E] = submitted[E]
    PROVE  EventsApart' /\ Events!Step
<1> DEFINE D == StoredRows(E) \ StoredRows(E)'
<1>1. Waiting(E)' = Waiting(E)
  BY Waiters
<1>2. Waiting(E) \cap StoredRows(E) = {}
  BY DEF EventsApart
<1>3. /\ Events!Step
      /\ Waiting(E)' \cap StoredRows(E)' = {}
      /\ Waiting(E)' \cup StoredRows(E)' \subseteq submitted'[E]
  <2>1. {} \in SUBSET Waiting(E) /\ D \in SUBSET ((Waiting(E) \cup StoredRows(E)) \ {})
    OBVIOUS
  <2>2. Waiting(E)' = Waiting(E) \ ({} \cup D) /\ StoredRows(E)' = (StoredRows(E) \cup {}) \ D
    BY <1>1, <1>2
  <2> QED
    BY <2>1, <2>2, RowsStored
<1> QED
  BY <1>3, Apart DEF EventsApart

LEMMA RowsLost ==
    ASSUME EventsApart, Buffered' = {}, \A th \in Threads : Held(th)' = {},
           StoredRows(E)' = StoredRows(E), submitted'[E] = submitted[E]
    PROVE  EventsApart' /\ Events!Step
<1>1. Waiting(E)' = {}
  BY Waiters
<1>2. Waiting(E) \cap StoredRows(E) = {}
  BY DEF EventsApart
<1>3. /\ Events!Step
      /\ Waiting(E)' \cap StoredRows(E)' = {}
      /\ Waiting(E)' \cup StoredRows(E)' \subseteq submitted'[E]
  <2>1. {} \in SUBSET Waiting(E) /\ Waiting(E) \in SUBSET ((Waiting(E) \cup StoredRows(E)) \ {})
    OBVIOUS
  <2>2. /\ Waiting(E)' = Waiting(E) \ ({} \cup Waiting(E))
        /\ StoredRows(E)' = (StoredRows(E) \cup {}) \ Waiting(E)
    BY <1>1, <1>2
  <2> QED
    BY <2>1, <2>2, RowsStored
<1> QED
  BY <1>3, Apart

-----------------------------------------------------------------------------
(***************************************************************************)
(* The steps of the capture stores, one lemma each.                        *)
(***************************************************************************)
Kept == EventsType' /\ EventsApart' /\ Events!Step

LEMMA EventIsAStore == E \in Stores /\ E \notin Keyed /\ Daemon \in Threads
BY DEF E, Stores, Keyed, Threads

LEMMA BatchDone ==
    ASSUME DOMAIN flight = Threads, NEW th \in Threads, flight' = [flight EXCEPT ![th] = NoBatch]
    PROVE  Held(th)' = {} /\ \A u \in Threads \ {th} : Held(u)' = Held(u)
BY DEF Held, NoBatch

LEMMA BatchTyped ==
    ASSUME EventsType, NEW th \in Threads, flight' = [flight EXCEPT ![th] = NoBatch]
    PROVE  /\ DOMAIN flight' = Threads
           /\ \A u \in Threads : DOMAIN flight'[u] = {"stage", "store", "rows", "seen"}
           /\ \A u \in Threads : flight'[u].stage = "write" /\ flight'[u].store = E => flight'[u].rows \in Seq(Row)
BY DEF EventsType, NoBatch

LEMMA RecordedRow ==
    ASSUME EventsType, budget \in Budget, NEW t \in budget.tickers, record_rejection(t)
    PROVE  /\ recorded' = recorded + 1 /\ UNCHANGED <<flight, table>>
           /\ DOMAIN submitted' = Stores /\ DOMAIN buffers' = Stores
           /\ \E r \in Row :
                /\ r.id = recorded + 1
                /\ \/ submitted'[E] = submitted[E] \cup {r} /\ buffers'[E] = Append(buffers[E], r)
                   \/ submitted'[E] = submitted[E] /\ buffers'[E] = buffers[E]
<1> DEFINE r == [id |-> recorded + 1, ticker |-> t]
<1>1. r \in Row /\ r.id = recorded + 1
  <2>1. recorded \in Nat /\ recorded < budget.rows /\ budget.rows \in 0 .. MaxRows /\ t \in Tickers
    BY DEF record_rejection, EventsType, Budget
  <2>2. recorded + 1 \in 1 .. MaxRows
    BY <2>1, BoundAssumption
  <2> QED
    BY <2>1, <2>2 DEF Row
<1>2. \/ submitted'[E] = submitted[E] \cup {r} /\ buffers'[E] = Append(buffers[E], r)
      \/ submitted'[E] = submitted[E] /\ buffers'[E] = buffers[E]
  BY EventIsAStore DEF record_rejection, Put
<1> QED
  BY <1>1, <1>2 DEF record_rejection

LEMMA RecordKeeps ==
    ASSUME EventsType, EventsApart, budget \in Budget, NEW t \in budget.tickers, record_rejection(t)
    PROVE  Kept
<1>1. PICK r \in Row :
        /\ r.id = recorded + 1
        /\ \/ submitted'[E] = submitted[E] \cup {r} /\ buffers'[E] = Append(buffers[E], r)
           \/ submitted'[E] = submitted[E] /\ buffers'[E] = buffers[E]
  BY RecordedRow
<1>2. /\ recorded' = recorded + 1 /\ UNCHANGED <<flight, table>>
      /\ DOMAIN submitted' = Stores /\ DOMAIN buffers' = Stores
  BY RecordedRow
<1>3. StoredRows(E)' = StoredRows(E) /\ \A th \in Threads : Held(th)' = Held(th)
  BY <1>2 DEF StoredRows, Held
<1>4. recorded \in Nat /\ submitted[E] \subseteq Row /\ buffers[E] \in Seq(Row)
  BY DEF EventsType
<1>5. \A x \in submitted[E] : x.id \in Int /\ x.id <= recorded
  BY DEF EventsType, Row
<1>6. submitted'[E] \subseteq Row /\ \A x \in submitted'[E] : x.id <= recorded'
  BY <1>1, <1>2, <1>4, <1>5
<1>7. CASE submitted'[E] = submitted[E] \cup {r} /\ buffers'[E] = Append(buffers[E], r)
  <2>1. buffers'[E] \in Seq(Row) /\ Buffered' = Buffered \cup {r}
    BY <1>4, <1>7, RowsOfAppend DEF Buffered, E
  <2>2. r \notin submitted[E]
    BY <1>1, <1>4, <1>5
  <2>3. EventsType'
    BY <1>2, <1>4, <1>6, <2>1 DEF EventsType
  <2> QED
    BY <1>3, <1>7, <2>1, <2>2, <2>3, RowAccepted DEF Kept
<1>8. CASE submitted'[E] = submitted[E] /\ buffers'[E] = buffers[E]
  <2>1. EventsType'
    BY <1>2, <1>4, <1>6, <1>8 DEF EventsType
  <2>2. Buffered' = Buffered
    BY <1>8 DEF Buffered, E
  <2> QED
    BY <1>3, <1>8, <2>1, <2>2, RowsLeft DEF Kept
<1> QED
  BY <1>1, <1>7, <1>8

LEMMA SwapKeeps ==
    ASSUME EventsType, EventsApart, NEW th \in Threads, NEW st \in Stores, swap_out(th, st),
           UNCHANGED <<recorded, submitted, table>>
    PROVE  Kept
<1> DEFINE batch == [stage |-> "write", store |-> st, rows |-> buffers[st], seen |-> 0]
<1>1. flight' = [flight EXCEPT ![th] = batch] /\ buffers' = [buffers EXCEPT ![st] = <<>>] /\ Held(th) = {}
  BY DEF swap_out, Held, NoBatch
<1>2. \A u \in Threads \ {th} : Held(u)' = Held(u)
  BY <1>1 DEF Held, EventsType
<1>3. StoredRows(E)' = StoredRows(E) /\ submitted'[E] = submitted[E]
  BY DEF StoredRows
<1>4. RowsOf(<<>>) = {}
  BY DEF RowsOf
<1>5. EventsType'
  BY <1>1 DEF EventsType
<1>6. CASE st = E
  <2>1. Held(th)' = Buffered /\ Buffered' = {}
    BY <1>1, <1>4, <1>6 DEF Held, Buffered, EventsType
  <2> QED
    BY <1>1, <1>2, <1>3, <1>5, <2>1, RowsShifted DEF Kept
<1>7. CASE st # E
  <2>1. Held(th)' = {} /\ Buffered' = Buffered
    BY <1>1, <1>7 DEF Held, Buffered, EventsType
  <2> QED
    BY <1>1, <1>2, <1>3, <1>5, <2>1, RowsLeft DEF Kept
<1> QED
  BY <1>6, <1>7

LEMMA TableShrinks ==
    ASSUME EventsType, EventsApart, UNCHANGED <<recorded, submitted, flight, buffers>>,
           table'[E] \subseteq table[E]
    PROVE  Kept
<1>1. Buffered' = Buffered /\ (\A th \in Threads : Held(th)' = Held(th)) /\ submitted'[E] = submitted[E]
  BY DEF Buffered, Held
<1>2. StoredRows(E)' \subseteq StoredRows(E)
  BY DEF StoredRows, E
<1>3. EventsType'
  BY DEF EventsType
<1> QED
  BY <1>1, <1>2, <1>3, RowsLeft DEF Kept

LEMMA NothingMoved ==
    ASSUME EventsType, EventsApart, UNCHANGED <<recorded, submitted, flight, buffers, table>>
    PROVE  Kept
BY TableShrinks

LEMMA FlushKeeps ==
    ASSUME EventsType, EventsApart, DOMAIN table = Stores, NEW th \in Threads, Flush(th)
    PROVE  Kept
<1>1. CASE flush_committed(th)
  <2>1. /\ flight' = [flight EXCEPT ![th] = NoBatch]
        /\ table' = [table EXCEPT ![flight[th].store] = Written(flight[th].store, flight[th].rows)]
        /\ UNCHANGED <<recorded, submitted, buffers>>
    BY <1>1 DEF flush_committed
  <2>2. Buffered' = Buffered /\ submitted'[E] = submitted[E]
    BY <2>1 DEF Buffered
  <2>3. CASE flight[th].store = E
    <3>1. table'[E] = table[E] \cup {[row |-> r, result |-> "none"] : r \in RowsOf(flight[th].rows)}
      BY <2>1, <2>3, EventIsAStore DEF Written
    <3>2. Held(th) = RowsOf(flight[th].rows)
      BY <1>1, <2>3 DEF flush_committed, Writing, Held
    <3>3. StoredRows(E)' = StoredRows(E) \cup Held(th)
      <4> DEFINE new == {[row |-> r, result |-> "none"] : r \in Held(th)}
      <4>1. {e.row : e \in new} = Held(th)
        <5> DEFINE entry(r) == [row |-> r, result |-> "none"]
        <5>1. \A r : entry(r).row = r
          OBVIOUS
        <5>2. new = {entry(r) : r \in Held(th)}
          OBVIOUS
        <5> HIDE DEF entry, new
        <5> QED
          BY <5>1, <5>2
      <4>2. table'[E] = table[E] \cup new
        BY <3>1, <3>2
      <4> HIDE DEF new
      <4>3. {e.row : e \in table'[E]} = {e.row : e \in table[E]} \cup {e.row : e \in new}
        BY <4>2
      <4> QED
        BY <4>1, <4>3 DEF StoredRows, E
    <3>4. EventsType'
      <4>1. \A e \in table'[E] : DOMAIN e = {"row", "result"}
        BY <3>1 DEF EventsType
      <4> QED
        BY <2>1, <4>1, BatchTyped DEF EventsType
    <3>5. Held(th) \cap Buffered = {} /\ Held(th)' = {} /\ \A u \in Threads \ {th} : Held(u)' = Held(u)
      BY <2>1, BatchDone DEF EventsApart, EventsType
    <3> QED
      BY <2>2, <3>3, <3>4, <3>5, RowsShifted DEF Kept
  <2>4. CASE flight[th].store # E
    <3>1. Held(th) = {} /\ table'[E] = table[E]
      BY <2>1, <2>4 DEF Held
    <3>2. StoredRows(E)' = StoredRows(E)
      BY <3>1 DEF StoredRows
    <3>3. EventsType'
      BY <2>1, <3>1, BatchTyped DEF EventsType
    <3> QED
      BY <2>1, <2>2, <3>1, <3>2, <3>3, BatchDone, RowsLeft DEF Kept, EventsType
  <2> QED
    BY <2>3, <2>4
<1>2. CASE flush_retained(th)
  <2> DEFINE f == flight[th]
             m == Merged(f.store, f.rows, buffers[f.store])
  <2>1. /\ flight' = [flight EXCEPT ![th] = NoBatch]
        /\ buffers' = [buffers EXCEPT ![f.store] = Trimmed(m)]
        /\ UNCHANGED <<recorded, submitted, table>>
    BY <1>2 DEF flush_retained
  <2>2. StoredRows(E)' = StoredRows(E) /\ submitted'[E] = submitted[E]
    BY <2>1 DEF StoredRows
  <2>3. CASE f.store = E
    <3>1. f.rows \in Seq(Row) /\ buffers[E] \in Seq(Row) /\ Held(th) = RowsOf(f.rows)
      BY <1>2, <2>3 DEF flush_retained, Writing, EventsType, Held
    <3>2. m = f.rows \o buffers[E]
      BY <2>3, EventIsAStore DEF Merged
    <3>3. m \in Seq(Row) /\ RowsOf(m) \subseteq Held(th) \cup Buffered
      BY <3>1, <3>2, RowsOfConcat DEF Buffered
    <3>4. Trimmed(m) \in Seq(Row) /\ RowsOf(Trimmed(m)) \subseteq Held(th) \cup Buffered
      BY <3>3, RowsOfTrimmed
    <3>5. buffers'[E] = Trimmed(m) /\ DOMAIN buffers' = Stores
      BY <2>1, <2>3, EventIsAStore DEF EventsType
    <3>6. Buffered' \subseteq Held(th) \cup Buffered
      BY <3>4, <3>5 DEF Buffered, E
    <3>7. EventsType'
      BY <2>1, <3>4, <3>5, BatchTyped DEF EventsType
    <3>8. Held(th)' = {} /\ \A u \in Threads \ {th} : Held(u)' = Held(u)
      BY <2>1, BatchDone DEF EventsType
    <3> HIDE DEF m, f
    <3>9. StoredRows(E)' = StoredRows(E) \cup {}
      BY <2>2
    <3> QED
      BY <2>2, <3>6, <3>7, <3>8, <3>9, RowsShifted DEF Kept
  <2>4. CASE f.store # E
    <3>1. Held(th) = {} /\ buffers'[E] = buffers[E] /\ DOMAIN buffers' = DOMAIN buffers
      BY <2>1, <2>4 DEF Held
    <3>2. Buffered' = Buffered
      BY <3>1 DEF Buffered, E
    <3>3. EventsType'
      BY <2>1, <3>1, BatchTyped DEF EventsType
    <3>4. \A u \in Threads : Held(u)' = Held(u)
      BY <2>1, <3>1, BatchDone DEF EventsType
    <3> QED
      BY <2>2, <3>2, <3>3, <3>4, RowsLeft DEF Kept
  <2> QED
    BY <2>3, <2>4
<1>3. CASE flush_dropped(th)
  <2>1. /\ flight' = [flight EXCEPT ![th].stage = "count", ![th].seen = counted[flight[th].store].dropped]
        /\ UNCHANGED <<recorded, submitted, buffers, table>>
    BY <1>3 DEF flush_dropped
  <2>2. flight'[th].stage = "count" /\ \A u \in Threads \ {th} : flight'[u] = flight[u]
    BY <2>1 DEF EventsType
  <2>3. Held(th)' = {} /\ \A u \in Threads \ {th} : Held(u)' = Held(u)
    BY <2>2 DEF Held
  <2>4. Buffered' = Buffered /\ StoredRows(E)' = StoredRows(E) \cup {} /\ submitted'[E] = submitted[E]
    BY <2>1 DEF Buffered, StoredRows
  <2>5. EventsType'
    BY <2>1, <2>2 DEF EventsType
  <2> QED
    BY <2>3, <2>4, <2>5, RowsShifted DEF Kept
<1>4. CASE count_dropped(th)
  <2>1. /\ flight' = [flight EXCEPT ![th] = NoBatch] /\ Held(th) = {}
        /\ UNCHANGED <<recorded, submitted, buffers, table>>
    BY <1>4 DEF count_dropped, Held
  <2>2. Buffered' = Buffered /\ StoredRows(E)' = StoredRows(E) /\ submitted'[E] = submitted[E]
    BY <2>1 DEF Buffered, StoredRows
  <2>3. EventsType'
    BY <2>1, BatchTyped DEF EventsType
  <2>4. \A u \in Threads : Held(u)' = Held(u)
    BY <2>1, BatchDone DEF EventsType
  <2> QED
    BY <2>2, <2>3, <2>4, RowsLeft DEF Kept
<1> QED
  BY <1>1, <1>2, <1>3, <1>4 DEF Flush

LEMMA CallersKeep ==
    ASSUME EventsType, EventsApart, call \in [Callers -> Calls], NEW c \in Callers,
           caller_flush(c) \/ Delete(c)
    PROVE  Kept
<1>1. CASE caller_flush(c)
  <2> DEFINE st == Head(call[c].todo)
  <2>1. UNCHANGED <<recorded, submitted, table>> /\ c \in Threads
    BY <1>1 DEF caller_flush, Threads
  <2>2. CASE UNCHANGED <<flight, buffers>>
    BY <2>1, <2>2, NothingMoved
  <2>3. CASE ~UNCHANGED <<flight, buffers>>
    <3>1. swap_out(c, st)
      BY <1>1, <2>3 DEF caller_flush
    <3>2. st \in Stores
      BY <1>1 DEF caller_flush, Calls
    <3> QED
      BY <2>1, <3>1, <3>2, SwapKeeps
  <2> QED
    BY <2>2, <2>3
<1>2. CASE Delete(c)
  <2>1. UNCHANGED <<recorded, submitted, flight, buffers>>
    BY <1>2 DEF Delete, start_delete, delete_rows
  <2>2. table'[E] \subseteq table[E]
    BY <1>2, EventIsAStore DEF Delete, start_delete, delete_rows
  <2> QED
    BY <2>1, <2>2, TableShrinks
<1> QED
  BY <1>1, <1>2

LEMMA CaptureKeepsEvents ==
    ASSUME EventsInv, CaptureStep
    PROVE  Kept
<1>1. /\ EventsType /\ EventsApart /\ budget \in Budget /\ call \in [Callers -> Calls]
      /\ DOMAIN table = Stores
  BY DEF EventsInv, QueueInv, GradingType
<1>2. ASSUME NEW st \in Stores, daemon_flush(st) PROVE Kept
  BY <1>1, <1>2, EventIsAStore, SwapKeeps DEF daemon_flush
<1> QED
  BY <1>1, <1>2, RecordKeeps, FlushKeeps, CallersKeep DEF CaptureStep

(***************************************************************************)
(* The resolver and the tick grade stored rows and keep their contents; a  *)
(* restart loses the rows that wait.                                       *)
(***************************************************************************)
LEMMA GradingKeepsEvents ==
    ASSUME EventsType, EventsApart, NEW c \in Callers, resolve_rows(c)
    PROVE  Kept
<1>1. UNCHANGED <<recorded, submitted, flight, buffers>> /\ table'[E] = Graded(table[E], call[c].results)
  BY EventIsAStore DEF resolve_rows
<1>2. \A e \in table[E] :
        /\ [e EXCEPT !.result = call[c].results[e.row.ticker]].row = e.row
        /\ DOMAIN [e EXCEPT !.result = call[c].results[e.row.ticker]] = {"row", "result"}
  BY DEF EventsType
<1>3. \A e \in table'[E] : DOMAIN e = {"row", "result"}
  BY <1>1, <1>2 DEF Graded, EventsType
<1>4. StoredRows(E)' = StoredRows(E)
  <2> DEFINE regraded(e) == IF e.result = "none" THEN [e EXCEPT !.result = call[c].results[e.row.ticker]] ELSE e
  <2>1. table'[E] = {regraded(e) : e \in table[E]}
    BY <1>1 DEF Graded
  <2>2. \A e \in table[E] : regraded(e).row = e.row
    BY <1>2
  <2> HIDE DEF regraded
  <2> QED
    BY <2>1, <2>2 DEF StoredRows, E
<1>5. Buffered' = Buffered /\ (\A th \in Threads : Held(th)' = Held(th)) /\ submitted'[E] = submitted[E]
  BY <1>1 DEF Buffered, Held
<1>6. EventsType'
  BY <1>1, <1>3 DEF EventsType
<1> QED
  BY <1>4, <1>5, <1>6, RowsLeft DEF Kept

LEMMA RestartKeepsEvents ==
    ASSUME EventsType, EventsApart, capture_restart
    PROVE  Kept
<1>1. /\ buffers' = [st \in Stores |-> <<>>] /\ flight' = [th \in Threads |-> NoBatch]
      /\ UNCHANGED <<recorded, submitted, table>>
  BY DEF capture_restart
<1>2. Buffered' = {} /\ \A th \in Threads : Held(th)' = {}
  BY <1>1, EventIsAStore DEF Buffered, Held, NoBatch, RowsOf
<1>3. StoredRows(E)' = StoredRows(E) /\ submitted'[E] = submitted[E]
  BY <1>1 DEF StoredRows
<1>4. EventsType'
  BY <1>1, EventIsAStore DEF EventsType, NoBatch
<1> QED
  BY <1>2, <1>3, <1>4, RowsLost DEF Kept

LEMMA EventsInit == Init => EventsInv /\ Events!Init
<1> SUFFICES ASSUME Init PROVE EventsInv /\ Events!Init
  OBVIOUS
<1>1. /\ recorded = 0 /\ submitted = [st \in Stores |-> {}] /\ buffers = [st \in Stores |-> <<>>]
      /\ flight = [th \in Threads |-> NoBatch] /\ table = [st \in Stores |-> {}]
  BY DEF Init, CaptureInit
<1>2. Buffered = {} /\ (\A th \in Threads : Held(th) = {}) /\ StoredRows(E) = {} /\ submitted[E] = {}
  BY <1>1, EventIsAStore DEF Buffered, Held, NoBatch, RowsOf, StoredRows
<1>3. Waiting(E) = {}
  BY <1>2, Waiters
<1>4. EventsType
  BY <1>1, EventIsAStore DEF EventsType, NoBatch
<1>5. EventsApart
  BY <1>2, <1>3 DEF EventsApart
<1>6. Events!Init
  BY <1>2, <1>3 DEF Events!Init, E
<1> QED
  BY <1>4, <1>5, <1>6, QueueInit DEF EventsInv

LEMMA EventsStep == EventsInv /\ [Next]_vars => EventsInv' /\ [Events!Step]_(Events!ledger)
<1> SUFFICES ASSUME EventsInv, [Next]_vars PROVE EventsInv' /\ [Events!Step]_(Events!ledger)
  OBVIOUS
<1>1. QueueInv'
  BY QueueStep DEF EventsInv
<1>2. EventsType /\ EventsApart
  BY DEF EventsInv
<1>3. Kept => EventsInv' /\ [Events!Step]_(Events!ledger)
  BY <1>1 DEF Kept, EventsInv
<1>4. CASE UNCHANGED <<recorded, submitted, buffers, flight, table>>
  BY <1>2, <1>3, <1>4, NothingMoved
<1>5. ASSUME NEW c \in Callers, resolve_rows(c) PROVE Kept
  BY <1>2, <1>5, GradingKeepsEvents
<1>6. CASE UNCHANGED vars \/ Exchange \/ Poll
  <2>1. UNCHANGED captureVars
    BY <1>6 DEF vars, Exchange, Poll, determine, amend, finalize, declare_winner, log_row, exchange,
       poll_signals, poll_fails, mark_resolved
  <2> QED
    BY <1>4, <2>1 DEF captureVars
<1>7. CASE CaptureStep
  BY <1>3, <1>7, CaptureKeepsEvents
<1>8. CASE crash_restart
  BY <1>2, <1>3, <1>8, RestartKeepsEvents DEF crash_restart
<1>9. CASE Tick
  <2>1. CASE tick_record /\ resolve_rows(tick.worker)
    <3>1. tick.worker \in Callers
      BY <2>1 DEF EventsInv, QueueInv, JobHoldsItsTickers, tick_record
    <3> QED
      BY <1>3, <1>5, <2>1, <3>1
  <2>2. CASE ~(tick_record /\ resolve_rows(tick.worker))
    BY <1>4, <1>9, <2>2 DEF Tick, tick_resolve, tick_record, resolve_raises, _resolve_settlement_windows, captureVars
  <2> QED
    BY <2>1, <2>2
<1>10. CASE Resolve
  <2>1. CASE store_candidates
    <3>1. job.worker \in Callers
      BY <2>1 DEF EventsInv, QueueInv, JobHoldsItsTickers, store_candidates, Storing
    <3> QED
      BY <1>3, <1>5, <2>1, <3>1 DEF store_candidates
  <2>2. CASE ~store_candidates
    BY <1>4, <1>10, <2>2 DEF Resolve, run_pending, request_fails, request_answered, enqueue, not_final, non_binary,
       store_outcome, outcome_raises, store_window, store_analyses, store_signals, store_raises,
       resolve_raises, captureVars
  <2> QED
    BY <2>1, <2>2
<1> QED
  BY <1>6, <1>7, <1>8, <1>9, <1>10 DEF Next

(***************************************************************************)
(* capture_writer's _flush_store and _retain: a rejection event moves      *)
(* forward only, it waits, is stored or is gone, whatever fails, overlaps, *)
(* is retried or restarted.                                                *)
(***************************************************************************)
THEOREM EventsTheorem == Spec => Events!Spec
<1>1. Init => EventsInv /\ Events!Init
  BY EventsInit
<1>2. EventsInv /\ [Next]_vars => EventsInv' /\ [Events!Step]_(Events!ledger)
  BY EventsStep
<1> QED
  BY <1>1, <1>2, PTL DEF Spec, Events!Spec
=============================================================================
