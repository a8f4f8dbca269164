SPECIFICATION FairSpec
CONSTANTS
  k1 = k1
  k2 = k2
  Tickers = {k1, k2}
  Daemon = daemon
  Callers = {c1, c2}
  NoCaller = nocaller
  MaxRows = 2
  MaxRetained = 1
  Scenarios <- PassScenarios
  MaxAttempts = 2
  BatchSize = 2
  MilestonesAgree = TRUE
INVARIANTS
  QueueConserved
  GradedByTerminalResult
PROPERTIES
  ResolvedIsFrozen
  LedgerIsKept
  GradingEnds
CHECK_DEADLOCK FALSE
