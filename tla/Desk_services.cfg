SPECIFICATION Spec
CONSTANTS
  Scenarios <- DeskScenarios
  EventOf <- MCEventOf
  MinDwell = 1
  MinEdge = 1
  Dollar = 10
  TakerRate = 7
  MakerRate = 2
  RateScale = 100
  Readers = {"r1", "r2", "r3"}
  LoopOf <- MCLoopOf
  FileOf <- MCFileOf
  SeriesTickers = {"k1"}
  Window = 2
  Lookback = 1
  StoreDomains = {"signal_log", "candidate_log", "shadow"}
  WindowTicks = 2
  QuarterHour = 3
  CloseTolerance = 1
  Bucket = 2
  MaxBuckets = 3
  Retention = 2
  CloseOf <- MCCloseOf
  RuleOf <- MCRuleOf
  TapeTickers = {"k1", "k2"}
  Overlap = 1
  PageLimit = 1
  MaxPages = 2
  MaxSeen = 2
  HistoryTickers = {"k1"}
  MinInterval = 1
  CaptureInterval = 2
  Offsets <- MCOffsets
  Close = 99
  HistoryRetention = 3
  PruneBatch = 1
  LongEvents <- MCLongEvents
  ResolveInterval = 1
  FoundRetry = 3
  NoneRetry = 2
  MaxResolutions = 1
  SignalTickers = {"k1", "k2"}
  SeriesOf <- MCSeriesOf
  Watched = {"k1", "k2"}
  Volume <- MCVolume
  CloseTime <- MCCloseTime
  Weights <- MCWeights
  MinContracts = 1
  AgreementLookback = 2
  ClusterLookback = 1
  TrendLookback = 2
  ProximityWindow = 4
  LeanFreshness = 1
  PrintOffset = 1
  PrePrintMaxAge = 4
  StatsWindow = 2
  ClusterWindow = 2
  FeedSize = 2
  SampleWeight = 100
  MinSamples = 1
  CostBands <- MCCostBands
  CategoryOf <- MCCategoryOf
  PriceBands = {0, 3}
  MinBucket = 1
  FlatFeeSeries = {"s2"}
  FeeBuffer = 1
  MinEdgeOfGate = 24
  UsualMove = 1
  StaleAfter = 2
  GainReference = 50
  LossReference = 30
  MinResolved = 1
INVARIANTS
  ExecutedAsDecided
  BackgroundCanGoOn
  EvidenceIsJoined
  ResetsAreAccounted
  IndexIsOnRecord
  TapeIsJudged
  MarkoutsAreOfTheirMoment
  SignalsAreEvidence
CHECK_DEADLOCK FALSE
