------------------------------ MODULE MCOperations ----------------------------
(* Small instances of Operations. Each initial state is one scenario.         *)
EXTENDS Operations, TLC

MCEndpoint == "r1" :> "get_market" @@ "r2" :> "get_market" @@ "r3" :> "get_market"
MCWatched == << "risk_halt", "storage" >>
MCFiles == "core" :> {"paper_broker", "candidate_log"} @@ "large" :> {"raw_trades"}
MCInterval == "core" :> 2 @@ "large" :> 3
MCRowInterval == "books" :> 2 @@ "games" :> 1
Duplicates == << [key |-> "stall", count |-> 1, last_seen |-> 0], [key |-> "flush", count |-> 1, last_seen |-> 0], [key |-> "stall", count |-> 1, last_seen |-> 0] >>

MCFindings == << "f1", "f2" >>
MCKey == "f1" :> "k1" @@ "f2" :> "k1"
MCSeverity == "f1" :> "warning" @@ "f2" :> "error"
MCEdits == "w1" :> {"k1"} @@ "w2" :> {}
MCFloor == "error" :> 3 @@ "warning" :> 4 @@ "branch" :> 2 @@ "ledger" :> 3

Quiet == [time |-> 0, parts |-> {}, faults |-> 0, limits |-> 0, cancels |-> 0, changes |-> 0, crashes |-> 0, clicks |-> 0,
          trades |-> 0, stalls |-> 0, rows |-> 0, restarts |-> 0, audits |-> 0, worked_on |-> {}, old_faults |-> << >>, requests |-> {}]

Throttled == [Quiet EXCEPT !.time = 4, !.parts = {"rest"}, !.limits = 1, !.cancels = 1, !.requests = {"r1", "r2", "r3"}]
SampledRequests == [Quiet EXCEPT !.time = 3, !.parts = {"rest", "sampler", "refusals", "restarts"}, !.limits = 1, !.restarts = 1, !.requests = {"r1", "r2"}]
Alarms == [Quiet EXCEPT !.time = 1, !.parts = {"alerting", "clicks", "restarts"}, !.changes = 3, !.faults = 1, !.crashes = 1, !.restarts = 1]
Crashes == [Quiet EXCEPT !.time = 3, !.parts = {"alerting"}, !.crashes = 3, !.faults = 0]
LargeCopies == [Quiet EXCEPT !.time = 4, !.parts = {"backup", "large", "core", "restarts"}, !.restarts = 1]
Copies == [Quiet EXCEPT !.time = 6, !.parts = {"backup", "core", "restarts"}, !.clicks = 1, !.faults = 1, !.restarts = 1]
Halts == [Quiet EXCEPT !.time = 4, !.parts = {"shadow", "clicks", "restarts"}, !.trades = 2, !.faults = 1, !.restarts = 1]
Stalls == [Quiet EXCEPT !.time = 4, !.parts = {"telemetry", "sampler", "restarts"}, !.stalls = 3, !.faults = 2, !.restarts = 1]
OldFaults == [Quiet EXCEPT !.time = 4, !.parts = {"telemetry", "faulty", "sampler"}, !.stalls = 1, !.faults = 1, !.old_faults = Duplicates]
Games == [Quiet EXCEPT !.time = 2, !.parts = {"telemetry", "games", "restarts"}, !.rows = 3, !.faults = 1, !.restarts = 1]
Buffers == [Quiet EXCEPT !.time = 2, !.parts = {"telemetry", "books", "restarts"}, !.rows = 4, !.faults = 1, !.restarts = 1]
LostAlert == [Quiet EXCEPT !.time = 1, !.parts = {"alerting"}, !.changes = 1, !.faults = 1, !.crashes = 2]
Audits == [Quiet EXCEPT !.time = 4, !.parts = {"audit"}, !.changes = 3, !.audits = 3, !.faults = 1]
WorkedOn == [Quiet EXCEPT !.time = 4, !.parts = {"audit"}, !.worked_on = {"w1"}, !.changes = 2, !.audits = 3, !.faults = 1]
Cycles == [Quiet EXCEPT !.time = 3, !.parts = {"cycles"}, !.worked_on = {"w1", "w2"}, !.changes = 3, !.audits = 3, !.faults = 1]
Overdue == [Quiet EXCEPT !.time = 4, !.parts = {"cycles", "plans"}, !.changes = 2, !.audits = 4]

OperationsScenarios == { Throttled, SampledRequests, Alarms, Crashes, Copies, LargeCopies, Halts, Stalls, OldFaults, Buffers, Games, Audits, WorkedOn, Cycles, Overdue }
LoopScenarios == { LostAlert }
=============================================================================
