SPECIFICATION Spec
CHECK_DEADLOCK FALSE
CONSTANTS
  Tickers = {a, b}
  MaxConnects = 3
  MaxChanges = 4
INVARIANTS
  SubscribedOnce
  ServedWhenAddressed
  SidsAreOfThisConnection
