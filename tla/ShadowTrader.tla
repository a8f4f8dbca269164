------------------------------ MODULE ShadowTrader ----------------------------
(* services/shadow_mode.py: what the strategy would have traded on the real   *)
(* account's bankroll. The halt of the day is stored, the cooldown is not.    *)
EXTENDS Runtime

CONSTANTS ShadowTickers, Bankrolls, DayLength,
          MaxDailyLoss,   \* max_daily_loss_pct
          ShadowCooldown  \* cooldown_sec

VARIABLES shadow,         \* day start, halt and date, in memory
          stored,         \* the same in shadow_risk
          last_trade_time, shadow_trades,
          shadow_adrift   \* a write of shadow_risk failed

shadowVars == <<shadow, stored, last_trade_time, shadow_trades, shadow_adrift>>

Today == now \div DayLength
NoTrade == -1
Risk(bankroll) == [day_start |-> bankroll, halted |-> FALSE, date |-> Today]
ShadowInit ==
  /\ \E b \in Bankrolls : shadow = Risk(b) /\ stored = Risk(b)
  /\ last_trade_time = [k \in ShadowTickers |-> NoTrade] /\ shadow_trades = << >>
  /\ shadow_adrift = FALSE

(* Memory is set before the row: a write that raises leaves them apart.       *)
persist_risk(risk) ==
  /\ shadow' = risk
  /\ \/ stored' = risk /\ shadow_adrift' = FALSE /\ UNCHANGED budget
     \/ Spends("faults") /\ shadow_adrift' = TRUE /\ UNCHANGED stored
Raised == budget'.faults # budget.faults

rolled_over(risk, bankroll) == IF risk.date # Today THEN Risk(bankroll) ELSE risk
loses(risk, bankroll) == risk.day_start > 0 /\ (risk.day_start - bankroll) * 100 >= MaxDailyLoss * risk.day_start
can_shadow_trade(k) == last_trade_time[k] = NoTrade \/ now - last_trade_time[k] >= ShadowCooldown

(* check_daily_loss: the day first, then the kill switch. Either stores.      *)
checked(bankroll, kill_switch) ==
  LET risk == rolled_over(shadow, bankroll)
  IN  IF kill_switch /\ ~risk.halted /\ loses(risk, bankroll) THEN [risk EXCEPT !.halted = TRUE] ELSE risk
(* Faulty variant: the halt stays in memory. *)
store_if_new_day(risk) ==
  IF risk.date # shadow.date THEN persist_risk(risk) ELSE shadow' = risk /\ UNCHANGED <<stored, shadow_adrift, budget>>
store_check(risk) ==
  IF risk # shadow \/ risk.date # shadow.date THEN persist_risk(risk) ELSE UNCHANGED <<shadow, stored, shadow_adrift, budget>>

evaluate_shadow ==
  \E k \in ShadowTickers, bankroll \in Bankrolls, kill_switch \in BOOLEAN, admitted \in BOOLEAN :
    LET risk == checked(bankroll, kill_switch) IN
    /\ store_check(risk)
    /\ IF ~Raised /\ ~risk.halted /\ admitted /\ can_shadow_trade(k)
       THEN /\ shadow_trades' = Append(shadow_trades, [ticker |-> k, at |-> now])
            /\ last_trade_time' = [last_trade_time EXCEPT ![k] = now]
            /\ Len(shadow_trades) < budget.trades
       ELSE UNCHANGED <<last_trade_time, shadow_trades>>
    /\ UNCHANGED now

resume_shadow ==
  /\ Takes("clicks") /\ shadow.halted
  /\ persist_risk([shadow EXCEPT !.halted = FALSE])
  /\ UNCHANGED <<last_trade_time, shadow_trades, now>>
clear_shadow ==
  \E bankroll \in Bankrolls :
    /\ Takes("clicks") /\ shadow_trades # << >>
    /\ persist_risk(Risk(bankroll))
    /\ shadow_trades' = << >> /\ last_trade_time' = [k \in ShadowTickers |-> NoTrade]
    /\ UNCHANGED now

restart_shadow ==
  /\ shadow' = stored /\ shadow_adrift' = FALSE
  /\ last_trade_time' = [k \in ShadowTickers |-> NoTrade]
  /\ UNCHANGED <<stored, shadow_trades>>

ShadowNext == evaluate_shadow \/ resume_shadow \/ clear_shadow

(* A halt taken or lifted is what the next process finds, unless its write    *)
(* failed: a restart neither frees a halted trader nor halts a free one.      *)
HaltIsStored == ~shadow_adrift => shadow = stored
=============================================================================
