------------------------------- MODULE MCControl ------------------------------
(* Small instances of AutoApply. Each initial state is one scenario.          *)
EXTENDS AutoApply

Fields ==
  [entry_threshold |-> 5000, longshot_price_threshold |-> 1500, longshot_entry_threshold_bonus |-> 4500,
   take_profit_pct |-> 8000, stop_loss_pct |-> 2000, auto_exit_threshold |-> 9300, exit_sentiment_lean_pct |-> 930000,
   exit_sentiment_min_signals |-> 20000, min_unit_cost |-> 5000, min_whale_winrate_pct |-> 450000,
   close_window_sec |-> 600000, special_market_min_seconds_to_close |-> 300000, excluded_series |-> {}]
FieldNames == << "auto_exit_threshold", "close_window_sec", "entry_threshold", "excluded_series", "exit_sentiment_lean_pct",
                 "exit_sentiment_min_signals", "longshot_entry_threshold_bonus", "longshot_price_threshold",
                 "min_unit_cost", "min_whale_winrate_pct", "special_market_min_seconds_to_close", "stop_loss_pct", "take_profit_pct" >>
CategoryNames == << "Sports", "Crypto" >>
SeriesNames == << "KXA", "KXB" >>
NoOverride(names) == [k \in {names[i] : i \in 1..Len(names)} |-> 0]
FactorNames == {"depth", "trend", "cluster"}

Config ==
  [calibration_enabled |-> TRUE, calibration_auto |-> TRUE, advisory_enabled |-> TRUE, advisory_auto |-> TRUE,
   weights |-> [f \in FactorNames |-> CASE f = "depth" -> 4000 [] f = "trend" -> 3500 [] OTHER -> 2500],
   by_category |-> NoOverride(CategoryNames), by_series |-> NoOverride(SeriesNames), strategy |-> Fields]
EditedConfigs == { [Config EXCEPT !.advisory_auto = FALSE, !.calibration_auto = FALSE], [Config EXCEPT !.strategy["stop_loss_pct"] = 3000], Unreadable }

(* Closed trades that move one rule each. *)
Closing(conf, price, close, pnl, left, n) ==
  [conf |-> conf, price |-> price, close |-> close, pnl |-> pnl, left |-> left, n |-> n, category |-> "Sports", subcategory |-> "nba", series |-> "KXA"]
Losers == Closing(6000, 5000, "settled_loss", -10000, 0, 12)
Winners == [Closing(8000, 5000, "take_profit", 4000, 1500, 16) EXCEPT !.category = "Crypto", !.series = "KXB"]
Stopped == Closing(6000, 1000, "stop_loss", -6000, 0, 30)
AutoExits == Closing(6000, 5000, "auto_exit", 500, 0, 30)
Reversals == Closing(6000, 5000, "sentiment_reversal", -500, 0, 30)

Signal(depth, trend, correct) == [factors |-> [f \in FactorNames |-> CASE f = "depth" -> depth [] f = "trend" -> trend [] OTHER -> Absent], correct |-> correct]
Discriminating == << Signal(1, 3, FALSE), Signal(2, 1, FALSE), Signal(3, 2, TRUE), Signal(4, 3, FALSE), Signal(5, 1, TRUE), Signal(6, 2, TRUE) >>
Flat == << Signal(1, 1, FALSE), Signal(1, 1, TRUE), Signal(1, 1, FALSE), Signal(2, 1, TRUE), Signal(2, 2, TRUE), Signal(2, 2, FALSE) >>
SignalHistories == { Discriminating, Flat, << Signal(1, 1, TRUE) >> }

NoGates == [g \in {} |-> 0]
Bounds(time, closes, applies, toggles, edits, faults, groups, parts) ==
  [time |-> time, closes |-> closes, applies |-> applies, toggles |-> toggles, edits |-> edits, faults |-> faults,
   groups |-> groups, patches |-> {}, gates |-> NoGates, series_rows |-> << >>, parts |-> parts]

(* The rules, one after the other. *)
TuneExits == Bounds(3, 2, 2, 0, 0, 0, {Stopped, AutoExits}, {})
TuneEntries == Bounds(2, 2, 2, 0, 0, 0, {Losers, Winners}, {"manual"})
TuneTwice == Bounds(1, 1, 2, 0, 0, 0, {AutoExits}, {"manual"})
TuneSentiment == Bounds(2, 1, 2, 0, 0, 0, {Reversals}, {"decline"})
TuneGates == [Bounds(2, 1, 2, 0, 0, 0, {Winners}, {"degraded", "manual"}) EXCEPT !.gates = ("close_window" :> Sample(20, 100)),
                !.series_rows = << [series |-> "KXA", rejected |-> TRUE, below_winrate_floor |-> FALSE, resolved |-> 30] >>]
(* The store, under edits of the file, failures and crashes. *)
Switches == Bounds(2, 1, 1, 1, 1, 1, {AutoExits}, {"edits", "faults", "toggle"})
EditedPass == Bounds(1, 0, 1, 1, 2, 0, {}, {"calibration", "edits", "toggle"})
TwoPasses == Bounds(3, 0, 1, 0, 0, 1, {}, {"calibration", "faults", "manual"})
Reweighting == Bounds(4, 0, 0, 0, 1, 0, {}, {"calibration", "edits"})
Analyst == [Bounds(1, 1, 1, 0, 1, 0, {AutoExits}, {"analyst", "edits"}) EXCEPT !.patches = {<<"stop_loss_pct", 4000>>}]
Editor == Bounds(1, 1, 2, 0, 0, 1, {AutoExits}, {"overrides", "faults"})

ControlScenarios == { TuneExits, TuneEntries, TuneTwice, TuneSentiment, TuneGates, Switches, EditedPass, TwoPasses, Reweighting, Analyst, Editor }
OverrideScenarios == { Bounds(0, 0, 2, 0, 0, 0, {}, {"overrides"}), Bounds(0, 1, 2, 0, 0, 0, {AutoExits}, {"overrides", "analyst"}) }
AuditScenarios == { Bounds(1, 1, 1, 0, 0, 0, {AutoExits}, {"calibration"}) }
=============================================================================
