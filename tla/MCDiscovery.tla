------------------------------- MODULE MCDiscovery ----------------------------
(* Small instances of Discovery. Each initial state is one scenario.          *)
EXTENDS Discovery, TLC

MCSeriesOf == "k1" :> "s1" @@ "k2" :> "s1" @@ "k3" :> "s2" @@ "k4" :> "s3"
MCKind == "e1" :> "game" @@ "e2" :> "report" @@ "e3" :> "plain"

Quiet == [time |-> 0, parts |-> {}, listed |-> {}, known |-> {}, closes |-> [k \in Markets |-> 9], cached |-> {}, changing |-> {},
          faults |-> 0, allowed |-> 0, omits |-> 0, omissions |-> 0, lists |-> 0, settles |-> 0, revisions |-> 0, restarts |-> 0, reboots |-> 0,
          held |-> {}, mode |-> "discovery", live |-> {}, quotes |-> 0, fills |-> {}, updates |-> 0, games |-> 0,
          window |-> {}, event_closes |-> [e \in Events |-> 9], event_starts |-> [e \in Events |-> 2], mapped |-> {}, combos |-> {}]

(* The batch is kept full by two series whose only markets closed long ago.   *)
DeadSeries == [Quiet EXCEPT !.time = 7, !.parts = {"scan"}, !.listed = {"k1"}, !.known = {"k1", "k3", "k4"}, !.lists = 1,
                 !.closes = "k1" :> 9 @@ "k2" :> 9 @@ "k3" :> 0 @@ "k4" :> 0, !.cached = {"s1", "s2", "s3"}]
SeriesList == [Quiet EXCEPT !.time = 12, !.parts = {"scan", "restarts"}, !.cached = {"s1"}, !.changing = {"s2"}, !.restarts = 1, !.reboots = 1]
FailingScans == [Quiet EXCEPT !.time = 5, !.parts = {"scan"}, !.listed = {"k1"}, !.cached = {"s1", "s2"}, !.faults = 2, !.allowed = 2]
LateAnswers == [Quiet EXCEPT !.time = 4, !.parts = {"scan", "discovery"}, !.listed = {"k1", "k3"}, !.known = {"k1", "k3"}, !.cached = {"s1"}, !.settles = 1]
EarlyCloses == [LateAnswers EXCEPT !.listed = {"k1"}, !.known = {"k1", "k4"}, !.settles = 0, !.revisions = 1, !.closes = [k \in Markets |-> 4]]
LostMessages == [LateAnswers EXCEPT !.listed = {"k1"}, !.known = {"k1"}, !.faults = 1, !.allowed = 1, !.restarts = 1, !.reboots = 1,
                   !.parts = {"scan", "discovery", "restarts"}]
MissedConfirmations == [LateAnswers EXCEPT !.parts = {"discovery"}, !.omits = 1, !.omissions = 1]
QuietPositions == [Quiet EXCEPT !.time = 14, !.parts = {"prices"}, !.held = {"k3"}, !.quotes = 1]
ShownPositions == [Quiet EXCEPT !.time = 6, !.parts = {"prices", "discovery"}, !.listed = {"k3", "k4"}, !.known = {"k3", "k4"}, !.held = {"k3"}, !.quotes = 1]
LivePositions == [Quiet EXCEPT !.time = 5, !.parts = {"prices"}, !.listed = {"k3", "k4"}, !.known = {"k3", "k4"}, !.mode = "live", !.live = {"k4"},
                    !.held = {"k3", "k4"}, !.quotes = 1, !.faults = 1, !.allowed = 1]
MissedAnswers == [QuietPositions EXCEPT !.time = 8, !.held = {"k3", "k4"}, !.omits = 1, !.omissions = 1, !.quotes = 1]
AccountFills == [Quiet EXCEPT !.time = 11, !.parts = {"prices", "account", "restarts"}, !.fills = {"f1", "f2"}, !.restarts = 1, !.reboots = 1]
Milestones == [Quiet EXCEPT !.time = 6, !.parts = {"milestones", "restarts"}, !.updates = 2, !.faults = 1, !.allowed = 1, !.restarts = 1, !.reboots = 1]
Rotation == [Quiet EXCEPT !.time = 5, !.parts = {"live"}, !.window = {"e1", "e2", "e3"}, !.games = 2, !.updates = 1, !.faults = 1, !.allowed = 1,
               !.event_closes = [e \in Events |-> 3]]
Winners == [Quiet EXCEPT !.time = 3, !.parts = {"winners"}, !.window = {"e1", "e3"}, !.games = 2, !.mapped = {"e1"}, !.faults = 1, !.allowed = 1]
Details == [Quiet EXCEPT !.time = 3, !.parts = {"details", "restarts"}, !.window = {"e1", "e3"}, !.combos = {"e2"}, !.faults = 2, !.allowed = 2, !.restarts = 1, !.reboots = 1]
PinnedPositions == [Quiet EXCEPT !.time = 12, !.parts = {"prices"}, !.listed = {"k1"}, !.known = {"k1"}, !.mode = "exclusive", !.held = {"k1"}, !.quotes = 1,
                      !.closes = [k \in Markets |-> 20]]
FailingFees == [SeriesList EXCEPT !.time = 22, !.faults = 1, !.allowed = 1, !.restarts = 0, !.reboots = 0]

DiscoveryScenarios == { DeadSeries, SeriesList, FailingScans, LateAnswers, EarlyCloses, LostMessages, MissedConfirmations, QuietPositions, ShownPositions, LivePositions, MissedAnswers,
                        AccountFills, Milestones, Rotation, Winners, Details }
PriceScenarios == { PinnedPositions }
StampScenarios == { QuietPositions }
FeeScenarios == { FailingFees }
=============================================================================
