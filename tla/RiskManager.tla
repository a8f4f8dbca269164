---------------------------- MODULE RiskManager -----------------------------
(***************************************************************************)
(* services/risk_manager.py: the daily-loss kill switch, its manual halt,  *)
(* the automatic day rollover and the portfolio exposure cap.              *)
(*                                                                         *)
(* Every method that changes this state writes its one row of risk_meta    *)
(* before it returns, and the constructor reads that row back, so the      *)
(* persisted copy equals the state between any two steps and a restart     *)
(* resumes it: it is not modelled separately.                              *)
(***************************************************************************)
EXTENDS Integers

CONSTANTS
    MaxDailyLossPct,        \* risk.max_daily_loss_pct, in percent
    KillSwitchEnabled,
    MaxTotalExposurePct,    \* risk.max_total_exposure_pct in percent, or NoCap
    DayLength               \* model seconds in one UTC calendar day

NoCap == -1

ASSUME RiskAssumption ==
    /\ MaxDailyLossPct \in Nat
    /\ KillSwitchEnabled \in BOOLEAN
    /\ MaxTotalExposurePct \in Nat \cup {NoCap}
    /\ DayLength \in Nat /\ DayLength >= 1

VARIABLES
    halt,                   \* halted and halt_reason: "none", "loss", "manual"
    day_start_bankroll,
    day_start_date

riskVars == <<halt, day_start_bankroll, day_start_date>>

HaltReasons == {"none", "loss", "manual"}
halted == halt # "none"
_today(now) == now \div DayLength

RiskInit(starting_bankroll, now) ==
    /\ halt = "none"
    /\ day_start_bankroll = starting_bankroll
    /\ day_start_date = _today(now)

max_trade_size(bankroll, pct) == (bankroll * pct) \div 100

check_total_exposure(current_exposure, prospective_cost, bankroll) ==
    \/ MaxTotalExposurePct = NoCap
    \/ (current_exposure + prospective_cost) * 100 <= bankroll * MaxTotalExposurePct

reset_day(current_bankroll, now) ==
    /\ halt' = "none"
    /\ day_start_bankroll' = current_bankroll
    /\ day_start_date' = _today(now)

\* loss_pct >= max_daily_loss_pct, where loss_pct = (baseline - current) / baseline:
\* a negative baseline turns the comparison round.
LossLimitHit(baseline, current) ==
    IF baseline > 0
    THEN (baseline - current) * 100 >= baseline * MaxDailyLossPct
    ELSE (baseline - current) * 100 <= baseline * MaxDailyLossPct

(***************************************************************************)
(* check_daily_loss: the rollover first, which clears any halt and takes   *)
(* the current equity as the baseline; then the loss check, unless a halt  *)
(* is already in force.  Trading may go on exactly when halt' = "none".    *)
(***************************************************************************)
check_daily_loss(current_bankroll, now) ==
    LET rollover == _today(now) # day_start_date
        baseline == IF rollover THEN current_bankroll ELSE day_start_bankroll
        standing == IF rollover THEN "none" ELSE halt
    IN  /\ day_start_bankroll' = baseline
        /\ day_start_date' = _today(now)
        /\ halt' = IF /\ KillSwitchEnabled
                      /\ standing = "none"
                      /\ baseline # 0
                      /\ LossLimitHit(baseline, current_bankroll)
                   THEN "loss" ELSE standing

manual_halt ==
    /\ halt' = "manual"
    /\ UNCHANGED <<day_start_bankroll, day_start_date>>

resume ==
    /\ halt' = "none"
    /\ UNCHANGED <<day_start_bankroll, day_start_date>>
=============================================================================
