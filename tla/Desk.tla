---------------------------------- MODULE Desk --------------------------------
(* What is done beside trading with its book and its records: netting, the    *)
(* reports and their connections, resets, the index feed, the polled tape,    *)
(* the price history, the signals and the dates of events.                    *)
EXTENDS PositionNetting, Background, SeriesEvidence, ResetArchive, IndexFeed, MarketHistory, Signals

marketVars == << tapeVars, historyVars, signalVars, scheduleVars >>
deskVars == << now, budget, netVars, aioVars, evidenceVars, resetVars, indexVars, marketVars >>

Init ==
  /\ now = 0
  /\ budget \in Scenarios
  /\ NettingInit /\ AioInit /\ EvidenceInit /\ ResetInit /\ IndexInit /\ TapeInit /\ HistoryInit /\ SignalsInit /\ ScheduleInit

netting == NettingNext /\ UNCHANGED << aioVars, evidenceVars, resetVars, indexVars, marketVars >>
reports == AioNext /\ UNCHANGED << netVars, evidenceVars, resetVars, indexVars, marketVars >>
series == SeriesNext /\ UNCHANGED << netVars, aioVars, resetVars, indexVars, marketVars >>
resets == ResetNext /\ UNCHANGED << netVars, aioVars, evidenceVars, indexVars, marketVars >>
index == Takes("index") /\ IndexNext /\ UNCHANGED << netVars, aioVars, evidenceVars, resetVars, marketVars >>
tape == Takes("tape") /\ TapeNext /\ UNCHANGED << netVars, aioVars, evidenceVars, resetVars, indexVars, historyVars, signalVars, scheduleVars >>
history_of_prices == Takes("history") /\ HistoryNext /\ UNCHANGED << netVars, aioVars, evidenceVars, resetVars, indexVars, tapeVars, signalVars, scheduleVars >>
signals == Takes("signals") /\ SignalsNext /\ UNCHANGED << netVars, aioVars, evidenceVars, resetVars, indexVars, tapeVars, scheduleVars >>
event_dates == Takes("schedule") /\ ScheduleNext /\ UNCHANGED << netVars, aioVars, evidenceVars, resetVars, indexVars, tapeVars, historyVars, signalVars >>

tick_clock ==
  /\ now < budget.time /\ IndexPrompt /\ TapePrompt
  /\ now' = now + 1
  /\ UNCHANGED << budget, netVars, aioVars, evidenceVars, resetVars, indexVars, marketVars >>

Next == netting \/ reports \/ series \/ resets \/ index \/ tape \/ history_of_prices \/ signals \/ event_dates \/ tick_clock
Spec == Init /\ [][Next]_deskVars

(* What runs beside the loop can always be used again: a report's connection  *)
(* of every loop that lives, and the batch that resolves schedules.           *)
BackgroundCanGoOn == WorkersAreReachable /\ OneBatchRuns
=============================================================================
