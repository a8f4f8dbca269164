------------------------------- MODULE Operations -----------------------------
(* The services around the trading loop, in one process: they share its clock *)
(* and die with it, and the sampler empties windows the others are using.     *)
EXTENDS RestClient, Backup, ShadowTrader, Telemetry, Coordination

vars == <<now, budget, restVars, alertVars, backupVars, shadowVars, telemetryVars, coordinationVars>>

Init ==
  /\ now = 0 /\ budget \in Scenarios
  /\ RestInit /\ AlertingInit /\ BackupInit /\ ShadowInit /\ TelemetryInit
  /\ CoordinationInit

rest == Takes("rest") /\ RestNext /\ UNCHANGED <<alertVars, backupVars, shadowVars, telemetryVars, coordinationVars>>
alerting == Takes("alerting") /\ AlertingNext /\ UNCHANGED <<restVars, backupVars, shadowVars, telemetryVars, coordinationVars>>
backup == Takes("backup") /\ BackupNext /\ UNCHANGED <<restVars, alertVars, shadowVars, telemetryVars, coordinationVars>>
trade_shadow == Takes("shadow") /\ ShadowNext /\ UNCHANGED <<restVars, alertVars, backupVars, telemetryVars, coordinationVars>>
observe == Takes("telemetry") /\ TelemetryNext /\ UNCHANGED <<restVars, alertVars, backupVars, shadowVars, coordinationVars>>

(* The repository's own tools: scripts that share nothing with the process.   *)
coordinate == CoordinationNext /\ UNCHANGED <<restVars, alertVars, backupVars, shadowVars, telemetryVars>>

(* The tick's sampler: what it stored it also empties, the endpoint window of *)
(* the requests in progress with it.                                          *)
sample ==
  /\ Takes("sampler") /\ maybe_capture
  /\ IF Captured THEN reset_rest_latency_window ELSE UNCHANGED window
  /\ UNCHANGED <<limiter, request, counted, alertVars, backupVars, shadowVars, coordinationVars>>

tick ==
  /\ now < budget.time /\ now' = now + 1
  /\ UNCHANGED <<budget, restVars, alertVars, backupVars, shadowVars, telemetryVars, coordinationVars>>

(* Requests are not taken up again; the rest starts from what it stored.      *)
restart ==
  /\ Takes("restarts") /\ Spends("restarts")
  /\ restart_rest
  /\ restart_alerting /\ restart_backup /\ restart_shadow /\ restart_telemetry
  /\ UNCHANGED <<now, coordinationVars>>

Next == coordinate \/ rest \/ alerting \/ backup \/ trade_shadow \/ observe \/ sample \/ tick \/ restart

Spec == Init /\ [][Next]_vars
(* A sleep ends: supervise's wait is a timer of the event loop.               *)
FairSpec == Spec /\ \A t \in Loops : WF_vars(task_restarts(t) /\ UNCHANGED <<restVars, backupVars, shadowVars, telemetryVars, coordinationVars>>)

(* What is counted anywhere adds up: attempts by class and by endpoint,       *)
(* faults, stalls and observed rows, under failing writes and restarts.       *)
NothingUncounted == AttemptsAddUp /\ FaultsAddUp /\ SamplesAddUp /\ RowsAddUp
(* What guards the account and the copies of it survives a restart: the       *)
(* shadow halt, the spacing of backups and of samples, the recorded copies.   *)
RestartsKeepGuards == HaltIsStored /\ RunsAreSpaced /\ SamplesAreSpaced /\ RecordedIsKept
=============================================================================
