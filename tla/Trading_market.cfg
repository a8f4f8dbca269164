SPECIFICATION Spec
CONSTANTS
  a = a
  b = b
  Nothing = Nothing
  Tickers = {a, b}
  Dollar = 4
  TakerRate = 1
  MakerRate = 0
  RateScale = 4
  MaxDailyLossPct = 25
  KillSwitchEnabled = TRUE
  MaxTotalExposurePct = 100
  DayLength = 2
  StartingBankroll = 6
  MaxContracts = 1
  MaxTrades = 4
  MaxTime = 1
  MaxDbFaults = 0
  EdgeTickers = {}
  LimitModes = {FALSE}
  Prices = {1, 3}
  OperatorActs = {"close", "correct", "purge"}
  EntryThreshold = 1
  MinUnitCost = 1
  MaxUnitCost = 3
  MaxPositionPct = 50
  MaxOpenPerSeries = 0
  CooldownSec = 1
  LimitOrderTimeoutSec = 1
  TakeProfitPct = 50
  StopLossPct = 50
  MaxDeviation = 1
  SoftExits = FALSE
  series_of <- MCSeries
  me_complement <- MCComplement
  Quotes <- MCQuotes
  MarkPrices <- MCNoMarks
INVARIANTS
  MoneyAddsUp
  NoFabricatedPayout
  OneSidePerMatchup
PROPERTIES
  NoSilentReplacement
SYMMETRY MCSymmetry
