SPECIFICATION FairSpec
CONSTANTS
  NoTrade = NoTrade
  Trades = {t1, t2}
  StreamWorkers = {w1}
  RetryWorker = rw
  MaxAttempts = 2
  MaxSeen = 1
  MaxCrashes = 1
  MaxResets = 1
  Decisions = {"limit_order_placed", "skip"}
INVARIANTS
  EvaluatedAtMostOnce
  LedgerTellsTheTruth
PROPERTIES
  LookupsAreRetried
