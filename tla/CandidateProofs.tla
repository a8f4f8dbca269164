-------------------------- MODULE CandidateProofs ---------------------------
(***************************************************************************)
(* Proofs about CandidatePath: no trade is evaluated twice, for any number *)
(* of trades, handlers, retries, resets and restarts.                      *)
(***************************************************************************)
EXTENDS CandidatePath, TLAPS

(***************************************************************************)
(* The inductive invariant.  A handler between its claim and its           *)
(* evaluation is alone in holding that trade, and the trade has not been   *)
(* evaluated; a trade without a claim has not been evaluated at all.       *)
(***************************************************************************)
HandlerType ==
    /\ worker \in [Workers -> [at : Stages, trade : Trades \cup {NoTrade}]]
    /\ \A w \in Workers : worker[w].at # "resting" => worker[w].trade \in Trades
    /\ ledger \in [Trades -> {"unclaimed", "claimed"} \cup Decisions]
    /\ evaluations \in [Trades -> Nat]

ClaimIsExclusive ==
    \A w \in Workers :
        worker[w].at = "claimed" =>
            /\ ledger[worker[w].trade] = "claimed"
            /\ evaluations[worker[w].trade] = 0
            /\ \A v \in Workers :
                  worker[v].at = "claimed" /\ worker[v].trade = worker[w].trade => v = w

EvaluatedIsCounted ==
    \A w \in Workers : worker[w].at = "evaluated" => evaluations[worker[w].trade] = 1

UnclaimedIsUntouched ==
    \A t \in Trades :
        ledger[t] = "unclaimed" =>
            \A w \in Workers :
                worker[w].trade = t => worker[w].at \notin {"claimed", "evaluated"}

OnceInv ==
    /\ HandlerType
    /\ ClaimIsExclusive
    /\ EvaluatedIsCounted
    /\ UnclaimedIsUntouched
    /\ LedgerTellsTheTruth
    /\ EvaluatedAtMostOnce

\* The initial state satisfies the invariant.
LEMMA OnceInit == Init => OnceInv
BY CandidateAssumption
   DEF Init, OnceInv, HandlerType, ClaimIsExclusive, EvaluatedIsCounted,
       UnclaimedIsUntouched, LedgerTellsTheTruth, EvaluatedAtMostOnce,
       Resting, Stages, Workers

\* A step that moves one handler to a stage outside the claim, or to rest, and
\* leaves the ledger and the evaluations alone, keeps the invariant.
LEMMA QuietMoveKeepsOnce ==
    ASSUME OnceInv, NEW w \in Workers, NEW stage \in Stages \ {"claimed", "evaluated"},
           NEW t \in Trades \cup {NoTrade}, stage # "resting" => t \in Trades,
           worker' = [worker EXCEPT ![w] = [at |-> stage, trade |-> t]],
           UNCHANGED <<ledger, evaluations>>
    PROVE  OnceInv'
<1>1. HandlerType'
  BY DEF OnceInv, HandlerType
<1>2. ClaimIsExclusive' /\ EvaluatedIsCounted'
  BY DEF OnceInv, HandlerType, ClaimIsExclusive, EvaluatedIsCounted
<1>3. UnclaimedIsUntouched'
  BY DEF OnceInv, HandlerType, UnclaimedIsUntouched
<1>4. LedgerTellsTheTruth' /\ EvaluatedAtMostOnce'
  BY DEF OnceInv, LedgerTellsTheTruth, EvaluatedAtMostOnce
<1> QED BY <1>1, <1>2, <1>3, <1>4 DEF OnceInv

\* Every step of every handler, the retry loop, a reset and a restart keep it.
LEMMA OnceStep == OnceInv /\ [Next]_vars => OnceInv'
<1> SUFFICES ASSUME OnceInv, [Next]_vars PROVE OnceInv'
  OBVIOUS
<1> USE CandidateAssumption
<1>quiet. ASSUME NEW w \in Workers, NEW stage \in Stages \ {"claimed", "evaluated"},
                 worker[w].at # "resting", go(w, stage), UNCHANGED <<ledger, evaluations>>
          PROVE  OnceInv'
  <2>1. worker' = [worker EXCEPT ![w] = [at |-> stage, trade |-> worker[w].trade]]
    BY <1>quiet DEF go, OnceInv, HandlerType
  <2>2. worker[w].trade \in Trades
    BY <1>quiet DEF OnceInv, HandlerType
  <2> QED BY <1>quiet, <2>1, <2>2, QuietMoveKeepsOnce
<1>rests. ASSUME NEW w \in Workers, rest(w), UNCHANGED <<ledger, evaluations>>
          PROVE  OnceInv'
  <2>1. "resting" \in Stages \ {"claimed", "evaluated"}
    BY DEF Stages
  <2> QED BY <1>rests, <2>1, QuietMoveKeepsOnce DEF rest, Resting
<1>1. CASE UNCHANGED vars
  BY <1>1 DEF vars, OnceInv, HandlerType, ClaimIsExclusive, EvaluatedIsCounted,
              UnclaimedIsUntouched, LedgerTellsTheTruth, EvaluatedAtMostOnce
<1>2. ASSUME NEW w \in StreamWorkers, StreamStep(w) PROVE OnceInv'
  <2> w \in Workers
    BY DEF Workers
  <2>1. ASSUME NEW t \in Trades, NEW stage \in {"lookup", "found", "negative"},
               deliver(w, t, stage)
        PROVE  OnceInv'
    BY <2>1, QuietMoveKeepsOnce DEF deliver, Stages
  <2>2. ASSUME NEW outcome \in {"found", "negative"}, resolve_definite(w, outcome)
        PROVE  OnceInv'
    BY <2>2, <1>quiet DEF resolve_definite, at, Stages
  <2>3. CASE resolve_failed(w)
    BY <2>3, <1>quiet DEF resolve_failed, at, Stages
  <2>4. CASE score_failed(w)
    BY <2>4, <1>rests DEF score_failed
  <2> QED BY <1>2, <2>1, <2>2, <2>3, <2>4 DEF StreamStep
<1>3. CASE RetryStep
  <2> RetryWorker \in Workers
    BY DEF Workers
  <2>1. ASSUME NEW t \in Trades, retry_start(t) PROVE OnceInv'
    BY <2>1, QuietMoveKeepsOnce DEF retry_start, Stages
  <2>2. CASE retry_missing
    BY <2>2, <1>rests DEF retry_missing
  <2>3. CASE retry_recovered
    BY <2>3, <1>quiet DEF retry_recovered, at, Stages
  <2> QED BY <1>3, <2>1, <2>2, <2>3 DEF RetryStep
<1>4. ASSUME NEW w \in Workers, ScoreStep(w) PROVE OnceInv'
  <2>1. CASE score_already_seen(w)
    BY <2>1, <1>rests DEF score_already_seen
  <2>2. ASSUME NEW qualifies \in BOOLEAN, score(w, qualifies) PROVE OnceInv'
    BY <2>2, <1>quiet, <1>rests DEF score, Stages
  <2> QED BY <1>4, <2>1, <2>2 DEF ScoreStep
<1>5. ASSUME NEW w \in Workers, claim(w) PROVE OnceInv'
  <2> DEFINE t == worker[w].trade
  <2>0. worker[w].at = "signal" /\ t \in Trades
    BY <1>5 DEF claim, at, OnceInv, HandlerType
  <2>1. CASE ledger[t] # "unclaimed"
    BY <1>5, <2>1, <1>rests DEF claim
  <2>2. CASE ledger[t] = "unclaimed"
    <3>1. /\ ledger' = [ledger EXCEPT ![t] = "claimed"]
          /\ worker' = [worker EXCEPT ![w] = [at |-> "claimed", trade |-> t]]
          /\ evaluations' = evaluations
      BY <1>5, <2>2 DEF claim, go
    <3>2. evaluations[t] = 0
      BY <2>0, <2>2 DEF OnceInv, LedgerTellsTheTruth, HandlerType
    <3>3. \A v \in Workers : worker[v].trade = t => worker[v].at \notin {"claimed", "evaluated"}
      BY <2>0, <2>2 DEF OnceInv, UnclaimedIsUntouched
    <3>4. HandlerType'
      BY <2>0, <3>1 DEF OnceInv, HandlerType, Stages
    <3>5. ClaimIsExclusive'
      BY <2>0, <3>1, <3>2, <3>3 DEF OnceInv, HandlerType, ClaimIsExclusive
    <3>6. EvaluatedIsCounted' /\ UnclaimedIsUntouched'
      BY <2>0, <3>1, <3>2, <3>3
         DEF OnceInv, HandlerType, EvaluatedIsCounted, UnclaimedIsUntouched
    <3>7. LedgerTellsTheTruth' /\ EvaluatedAtMostOnce'
      BY <2>0, <3>1 DEF OnceInv, HandlerType, LedgerTellsTheTruth, EvaluatedAtMostOnce
    <3> QED BY <3>4, <3>5, <3>6, <3>7 DEF OnceInv
  <2> QED BY <2>1, <2>2
<1>6. ASSUME NEW w \in Workers, write_raises(w) PROVE OnceInv'
  BY <1>6, <1>rests DEF write_raises
<1>7. ASSUME NEW w \in Workers, evaluate(w) PROVE OnceInv'
  <2> DEFINE t == worker[w].trade
  <2>1. /\ worker[w].at = "claimed" /\ t \in Trades
        /\ ledger[t] = "claimed" /\ evaluations[t] = 0
    BY <1>7 DEF evaluate, at, OnceInv, HandlerType, ClaimIsExclusive
  <2>2. /\ evaluations' = [evaluations EXCEPT ![t] = @ + 1]
        /\ worker' = [worker EXCEPT ![w] = [at |-> "evaluated", trade |-> t]]
        /\ ledger' = ledger
    BY <1>7 DEF evaluate, go
  <2>3. HandlerType'
    BY <2>1, <2>2 DEF OnceInv, HandlerType, Stages
  <2>4. ClaimIsExclusive'
    BY <2>1, <2>2 DEF OnceInv, HandlerType, ClaimIsExclusive
  <2>5. EvaluatedIsCounted' /\ UnclaimedIsUntouched'
    BY <2>1, <2>2 DEF OnceInv, HandlerType, EvaluatedIsCounted, UnclaimedIsUntouched
  <2>6. LedgerTellsTheTruth' /\ EvaluatedAtMostOnce'
    BY <2>1, <2>2 DEF OnceInv, HandlerType, LedgerTellsTheTruth, EvaluatedAtMostOnce
  <2> QED BY <2>3, <2>4, <2>5, <2>6 DEF OnceInv
<1>8. ASSUME NEW w \in Workers, NEW decision \in Decisions, record_decision(w, decision)
      PROVE  OnceInv'
  <2> DEFINE t == worker[w].trade
  <2>1. worker[w].at = "evaluated" /\ t \in Trades /\ evaluations[t] = 1
    BY <1>8 DEF record_decision, at, OnceInv, HandlerType, EvaluatedIsCounted
  <2>2. /\ ledger' = [ledger EXCEPT ![t] = decision]
        /\ worker' = [worker EXCEPT ![w] = [at |-> "resting", trade |-> NoTrade]]
        /\ evaluations' = evaluations
        /\ decision # "unclaimed" /\ decision # "claimed"
    BY <1>8 DEF record_decision, rest, Resting
  <2>3. HandlerType'
    BY <2>1, <2>2 DEF OnceInv, HandlerType, Stages
  <2>4. ClaimIsExclusive'
    BY <2>1, <2>2 DEF OnceInv, HandlerType, ClaimIsExclusive
  <2>5. EvaluatedIsCounted' /\ UnclaimedIsUntouched'
    BY <2>1, <2>2 DEF OnceInv, HandlerType, EvaluatedIsCounted, UnclaimedIsUntouched
  <2>6. LedgerTellsTheTruth' /\ EvaluatedAtMostOnce'
    BY <2>1, <2>2 DEF OnceInv, HandlerType, LedgerTellsTheTruth, EvaluatedAtMostOnce
  <2> QED BY <2>3, <2>4, <2>5, <2>6 DEF OnceInv
<1>9. CASE reset_stats
  BY <1>9 DEF reset_stats, OnceInv, HandlerType, ClaimIsExclusive, EvaluatedIsCounted,
              UnclaimedIsUntouched, LedgerTellsTheTruth, EvaluatedAtMostOnce
<1>10. CASE crash_restart
  BY <1>10 DEF crash_restart, Resting, Stages, OnceInv, HandlerType, ClaimIsExclusive,
               EvaluatedIsCounted, UnclaimedIsUntouched, LedgerTellsTheTruth,
               EvaluatedAtMostOnce
<1> QED
  BY <1>1, <1>2, <1>3, <1>4, <1>5, <1>6, <1>7, <1>8, <1>9, <1>10 DEF Next, SignalStep

\* A trade is evaluated at most once, whatever is delivered again, evicted from
\* the ring, retried or replayed after a restart (candidate_ledger.claim).
THEOREM EvaluatedOnceTheorem == Spec => []EvaluatedAtMostOnce
<1>1. OnceInv => EvaluatedAtMostOnce
  BY DEF OnceInv
<1> QED BY OnceInit, OnceStep, <1>1, PTL DEF Spec

\* The ledger names a decision only for a trade that was evaluated, and an
\* evaluated trade stays claimed (candidate_ledger.record_decision).
THEOREM LedgerTruthTheorem == Spec => []LedgerTellsTheTruth
<1>1. OnceInv => LedgerTellsTheTruth
  BY DEF OnceInv
<1> QED BY OnceInit, OnceStep, <1>1, PTL DEF Spec
=============================================================================
