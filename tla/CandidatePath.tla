--------------------------- MODULE CandidatePath ----------------------------
(***************************************************************************)
(* From a printed trade to one trading decision.                           *)
(*                                                                         *)
(* A whale-sized print reaches services/whalewatchers/kalshi_trade_tape.py *)
(* over the stream (up to StreamWorkers at once, and the same trade_id may *)
(* be delivered again); its market is looked up, it is scored under the    *)
(* seen ring, and a signal goes to decision_bridge._handle_signal, which   *)
(* claims the trade_id in candidate_ledger.db before it evaluates it.  A   *)
(* print whose lookup failed waits in services/candidate_retry.py, whose   *)
(* loop (RetryWorker) looks it up again with a bounded backoff.            *)
(*                                                                         *)
(* Every await of these handlers is a step boundary.  The seen ring, the   *)
(* retry queue and state["stats"] live in the process; the ledger is on    *)
(* disk.                                                                   *)
(***************************************************************************)
EXTENDS Integers, Sequences, SequencesExt

CONSTANTS
    Trades,             \* trade_ids
    NoTrade,
    StreamWorkers,      \* concurrent stream handlers (Option B dispatches several)
    RetryWorker,        \* the single candidate-retry loop
    MaxAttempts,        \* len(_BACKOFF_SCHEDULE_SEC)
    MaxSeen,            \* _MAX_SEEN_TRADE_IDS
    MaxCrashes,         \* bound: process restarts
    MaxResets,          \* bound: paper resets
    Decisions           \* outcomes strategy.evaluate may return

ASSUME CandidateAssumption ==
    /\ NoTrade \notin Trades
    /\ RetryWorker \notin StreamWorkers
    /\ MaxAttempts \in Nat /\ MaxAttempts >= 1
    /\ MaxSeen \in Nat /\ MaxSeen >= 1
    /\ MaxCrashes \in Nat /\ MaxResets \in Nat
    /\ Decisions \subseteq {"trade", "limit_order_placed", "skip"}

Workers == StreamWorkers \cup {RetryWorker}

VARIABLES
    seen,               \* _seen_order, the dedupe ring, oldest first
    pending,            \* candidate_retry._pending: trade -> attempts so far, or NotQueued
    ledger,             \* candidates table: trade -> "unclaimed", "claimed" or a decision
    worker,             \* what each handler is doing: [at, trade]
    stat_keys,          \* the counters state["stats"] has
    crashes, resets,
    evaluations,        \* history: times strategy.evaluate ran on the trade
    definite            \* history: trades whose lookup had a definite outcome

vars == <<seen, pending, ledger, worker, stat_keys, crashes, resets, evaluations, definite>>

NotQueued == -1
Resting == [at |-> "resting", trade |-> NoTrade]
AllStats == {"signals_seen", "trades_placed", "skipped", "limit_orders_placed"}

Stages == {"resting", "lookup", "found", "negative", "failed", "signal",
           "claimed", "evaluated"}

is_seen(t) == t \in Range(seen)

at(w, stage) == worker[w].at = stage
go(w, stage) == worker' = [worker EXCEPT ![w] = [at |-> stage, trade |-> worker[w].trade]]
rest(w) == worker' = [worker EXCEPT ![w] = Resting]

Init ==
    /\ seen = <<>>
    /\ pending = [t \in Trades |-> NotQueued]
    /\ ledger = [t \in Trades |-> "unclaimed"]
    /\ worker = [w \in Workers |-> Resting]
    /\ stat_keys = AllStats
    /\ crashes = 0 /\ resets = 0
    /\ evaluations = [t \in Trades |-> 0]
    /\ definite = {}

(***************************************************************************)
(* fetch_signals for one streamed print.  The market of an already seen    *)
(* trade is not looked up: it is known only if it is on the watchlist.     *)
(***************************************************************************)
deliver(w, t, stage) ==
    /\ w \in StreamWorkers /\ at(w, "resting")
    /\ stage \in IF is_seen(t) THEN {"found", "negative"} ELSE {"lookup"}
    /\ worker' = [worker EXCEPT ![w] = [at |-> stage, trade |-> t]]
    /\ UNCHANGED <<seen, pending, ledger, stat_keys, crashes, resets, evaluations, definite>>

\* The market is known or is fetched, or there is definitely none to score with
\* (a print below the contract gate, or a market Kalshi does not return).
resolve_definite(w, outcome) ==
    /\ w \in StreamWorkers /\ at(w, "lookup")
    /\ go(w, outcome)
    /\ definite' = definite \cup {worker[w].trade}
    /\ UNCHANGED <<seen, pending, ledger, stat_keys, crashes, resets, evaluations>>

enqueue(t) ==
    pending' = IF pending[t] = NotQueued THEN [pending EXCEPT ![t] = 0] ELSE pending

\* The lookup raised, or the batch had no room for it: queued for the retry loop.
resolve_failed(w) ==
    /\ w \in StreamWorkers /\ at(w, "lookup")
    /\ go(w, "failed")
    /\ enqueue(worker[w].trade)
    /\ UNCHANGED <<seen, ledger, stat_keys, crashes, resets, evaluations, definite>>

(***************************************************************************)
(* _process_trades_sync for one trade, under _seen_lock: a trade already   *)
(* seen is dropped; one with a definite lookup is marked seen (a full ring *)
(* evicts its oldest) and, if its market is known and it passes the gates, *)
(* becomes a signal; one whose lookup failed is left unseen.               *)
(***************************************************************************)
mark_seen(t) ==
    seen' = IF Len(seen) < MaxSeen THEN Append(seen, t) ELSE Append(Tail(seen), t)

score_already_seen(w) ==
    /\ worker[w].at \in {"found", "negative", "failed"}
    /\ is_seen(worker[w].trade)
    /\ rest(w)
    /\ UNCHANGED <<seen, pending, ledger, stat_keys, crashes, resets, evaluations, definite>>

score(w, qualifies) ==
    /\ worker[w].at \in {"found", "negative"}
    /\ ~is_seen(worker[w].trade)
    /\ mark_seen(worker[w].trade)
    /\ IF at(w, "found") /\ qualifies THEN go(w, "signal") ELSE rest(w)
    /\ UNCHANGED <<pending, ledger, stat_keys, crashes, resets, evaluations, definite>>

score_failed(w) ==
    /\ at(w, "failed") /\ ~is_seen(worker[w].trade)
    /\ rest(w)
    /\ UNCHANGED <<seen, pending, ledger, stat_keys, crashes, resets, evaluations, definite>>

(***************************************************************************)
(* candidate_retry.run_pending: the loop alone removes entries.            *)
(***************************************************************************)
retry_start(t) ==
    /\ at(RetryWorker, "resting")
    /\ pending[t] # NotQueued
    /\ worker' = [worker EXCEPT ![RetryWorker] = [at |-> "lookup", trade |-> t]]
    /\ UNCHANGED <<seen, pending, ledger, stat_keys, crashes, resets, evaluations, definite>>

\* Faulty form of retry_missing: a queue that never gives up.
retry_missing_forever ==
    /\ at(RetryWorker, "lookup")
    /\ rest(RetryWorker)
    /\ UNCHANGED <<seen, pending, ledger, stat_keys, crashes, resets, evaluations, definite>>

retry_missing ==
    /\ at(RetryWorker, "lookup")
    /\ LET t == worker[RetryWorker].trade
       IN  pending' = [pending EXCEPT ![t] = IF @ + 1 >= MaxAttempts THEN NotQueued ELSE @ + 1]
    /\ rest(RetryWorker)
    /\ UNCHANGED <<seen, ledger, stat_keys, crashes, resets, evaluations, definite>>

retry_recovered ==
    /\ at(RetryWorker, "lookup")
    /\ pending' = [pending EXCEPT ![worker[RetryWorker].trade] = NotQueued]
    /\ definite' = definite \cup {worker[RetryWorker].trade}
    /\ go(RetryWorker, "found")
    /\ UNCHANGED <<seen, ledger, stat_keys, crashes, resets, evaluations>>

(***************************************************************************)
(* _handle_signal.  The claim is an INSERT OR IGNORE committed on an       *)
(* executor thread; back on the loop the signal is logged and evaluated;   *)
(* the decision is then recorded on the executor and counted.  The claim,  *)
(* the log and the record are database writes that may raise, which ends   *)
(* the handler.                                                            *)
(***************************************************************************)
\* Faulty forms of claim: the seen ring alone decides; a read in place of the insert.
claim_always(w) ==
    /\ at(w, "signal")
    /\ ledger' = [ledger EXCEPT ![worker[w].trade] = "claimed"]
    /\ go(w, "claimed")
    /\ UNCHANGED <<seen, pending, stat_keys, crashes, resets, evaluations, definite>>

claim_reads_only(w) ==
    /\ at(w, "signal")
    /\ IF ledger[worker[w].trade] = "unclaimed" THEN go(w, "claimed") ELSE rest(w)
    /\ UNCHANGED <<seen, pending, ledger, stat_keys, crashes, resets, evaluations, definite>>

claim(w) ==
    /\ at(w, "signal")
    /\ LET t == worker[w].trade
       IN  IF ledger[t] = "unclaimed"
           THEN ledger' = [ledger EXCEPT ![t] = "claimed"] /\ go(w, "claimed")
           ELSE UNCHANGED ledger /\ rest(w)
    /\ UNCHANGED <<seen, pending, stat_keys, crashes, resets, evaluations, definite>>

write_raises(w) ==
    /\ worker[w].at \in {"signal", "claimed", "evaluated"}
    /\ rest(w)
    /\ UNCHANGED <<seen, pending, ledger, stat_keys, crashes, resets, evaluations, definite>>

evaluate(w) ==
    /\ at(w, "claimed")
    /\ evaluations' = [evaluations EXCEPT ![worker[w].trade] = @ + 1]
    /\ go(w, "evaluated")
    /\ UNCHANGED <<seen, pending, ledger, stat_keys, crashes, resets, definite>>

counter_of(decision) ==
    CASE decision = "trade" -> "trades_placed"
      [] decision = "limit_order_placed" -> "limit_orders_placed"
      [] OTHER -> "skipped"

record_decision(w, decision) ==
    /\ at(w, "evaluated")
    /\ ledger' = [ledger EXCEPT ![worker[w].trade] = decision]
    /\ rest(w)
    /\ UNCHANGED <<seen, pending, stat_keys, crashes, resets, evaluations, definite>>

(***************************************************************************)
(* POST /api/reset rebuilds state["stats"]; the process may die.           *)
(***************************************************************************)
reset_stats ==
    /\ resets < MaxResets
    /\ resets' = resets + 1
    /\ stat_keys' = {"signals_seen", "trades_placed", "skipped"}
    /\ UNCHANGED <<seen, pending, ledger, worker, crashes, evaluations, definite>>

crash_restart ==
    /\ crashes < MaxCrashes
    /\ crashes' = crashes + 1
    /\ seen' = <<>>
    /\ pending' = [t \in Trades |-> NotQueued]
    /\ worker' = [w \in Workers |-> Resting]
    /\ stat_keys' = AllStats
    /\ UNCHANGED <<ledger, resets, evaluations, definite>>

StreamStep(w) ==
    \/ \E t \in Trades, stage \in {"lookup", "found", "negative"} : deliver(w, t, stage)
    \/ \E outcome \in {"found", "negative"} : resolve_definite(w, outcome)
    \/ resolve_failed(w)
    \/ score_failed(w)

ScoreStep(w) ==
    \/ score_already_seen(w)
    \/ \E qualifies \in BOOLEAN : score(w, qualifies)

SignalStep(w) ==
    \/ claim(w)
    \/ write_raises(w)
    \/ evaluate(w)
    \/ \E decision \in Decisions : record_decision(w, decision)

RetryStep ==
    \/ \E t \in Trades : retry_start(t)
    \/ retry_missing
    \/ retry_recovered

Next ==
    \/ \E w \in StreamWorkers : StreamStep(w)
    \/ RetryStep
    \/ \E w \in Workers : ScoreStep(w) \/ SignalStep(w)
    \/ reset_stats
    \/ crash_restart

Spec == Init /\ [][Next]_vars

(***************************************************************************)
(* The retry loop is a supervised task that is restarted if it dies, and   *)
(* its awaits return or time out: each of its steps is eventually taken.   *)
(***************************************************************************)
FairSpec ==
    /\ Spec
    /\ \A t \in Trades : SF_vars(retry_start(t))
    /\ WF_vars(retry_missing \/ retry_recovered)
    /\ WF_vars(ScoreStep(RetryWorker))
    /\ WF_vars(SignalStep(RetryWorker))

TypeOK ==
    /\ seen \in Seq(Trades) /\ Len(seen) <= MaxSeen /\ IsInjective(seen)
    /\ pending \in [Trades -> NotQueued .. MaxAttempts - 1]
    /\ ledger \in [Trades -> {"unclaimed", "claimed"} \cup Decisions]
    /\ worker \in [Workers -> [at : Stages, trade : Trades \cup {NoTrade}]]
    /\ stat_keys \subseteq AllStats
    /\ crashes \in 0 .. MaxCrashes /\ resets \in 0 .. MaxResets
    /\ evaluations \in [Trades -> Nat]
    /\ definite \subseteq Trades

\* A trade is evaluated at most once in the life of the ledger, whatever is
\* delivered twice, evicted from the seen ring, retried while the stream
\* presents it again, or replayed after a restart.
EvaluatedAtMostOnce == \A t \in Trades : evaluations[t] <= 1

\* The ledger names a decision only for a trade that was evaluated, and a trade
\* that was evaluated is claimed for good.
LedgerTellsTheTruth ==
    \A t \in Trades :
        /\ ledger[t] \in Decisions => evaluations[t] = 1
        /\ evaluations[t] > 0 => ledger[t] # "unclaimed"

\* A trade that only ever met a failing lookup is not in the seen ring, so a
\* later delivery of it is not thrown away (the H4 fix in _process_trades_sync).
FailedLookupStaysUnseen == Range(seen) \subseteq definite

\* A claim and its evaluation come together, "never one without the other"
\* (candidate_retry.py): once no handler holds the trade, claimed is evaluated.
ClaimedIsEvaluated ==
    \A t \in Trades :
        ledger[t] = "claimed" /\ (\A w \in Workers : worker[w].trade # t)
            => evaluations[t] = 1

\* The counter a decision is about to be added to exists: state["stats"] keeps
\* the four counters it was created with (app_state.py).
CountersExist ==
    \A w \in Workers, decision \in Decisions :
        at(w, "evaluated") => counter_of(decision) \in stat_keys

\* Every queued retry ends, recovered or abandoned after its attempts.
RetriesEnd ==
    \A t \in Trades : pending[t] # NotQueued ~> pending[t] = NotQueued

\* What the lookups could not tell is asked again until it ends, and a later
\* delivery of it still counts.
LookupsAreRetried == []FailedLookupStaysUnseen /\ RetriesEnd
=============================================================================
