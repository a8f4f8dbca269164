---------------------------- MODULE MCSettlement -----------------------------
(* Small instances of Settlement. Each initial state is one scenario: the    *)
(* bounds of a behaviour and the parts of the program that take part in it.  *)
EXTENDS Settlement

CONSTANTS k1, k2

Scenario(rows_, faults, clears, crashes, enqueued, tickers, parts) ==
  [rows |-> rows_, faults |-> faults, clears |-> clears, crashes |-> crashes, enqueued |-> enqueued, tickers |-> tickers, parts |-> parts]

(* The capture stores under overlapping flushes, and the queue, the poll and *)
(* the tick grading the other stores.                                        *)
PassScenarios ==
  { Scenario(2, 2, 0, 0, 0, {k1}, {"tick"}),
    Scenario(1, 1, 1, 0, 0, {k1}, {"tick"}),
    Scenario(1, 0, 1, 1, 0, {k1}, {"tick"}),
    Scenario(1, 0, 0, 0, 1, {k1}, {"exchange"}),
    Scenario(0, 1, 0, 0, 2, Tickers, {}),
    Scenario(0, 1, 0, 0, 1, {k1}, {"exchange", "signals", "analyses"}),
    Scenario(0, 0, 0, 1, 1, {k1}, {"exchange", "signals"}),
    Scenario(0, 0, 0, 0, 1, {k1}, {"exchange", "tick", "analyses", "milestones", "windows"}) }
WindowScenarios == { Scenario(0, 0, 0, 0, 1, {k1}, {"exchange", "windows", "tick"}) }
=============================================================================
