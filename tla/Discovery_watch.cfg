SPECIFICATION DiscoverySpec
CONSTANTS
  Scenarios <- DiscoveryScenarios
  Series = {"s1", "s2", "s3"}
  Markets = {"k1", "k2", "k3", "k4"}
  SeriesOf <- MCSeriesOf
  Dated = {"k1", "k3", "k4"}
  Watchlist = {"s1"}
  ScanBatch = 2
  ScanInterval = 1
  PinStale = 1
  SeriesTTL = 2
  FullResync = 3
  DiscoveryRefresh = 1
  TopSeries = 2
  AnswerTime = 1
  PinnedRefresh = 2
  MaxObjects = 1
  TickEvery = 1
  StaleSec = 1
  SnapshotRefresh = 3
  Events = {"e1", "e2", "e3"}
  Kind <- MCKind
  ScanEvery = 1
  Overlap = 2
  Repoll = 2
  MaxPoll = 1
  WinnerRepoll = 1
  DataRepoll = 1
  MveEvery = 1
INVARIANTS
  MarketDataIsCurrent
  FillsAreReconciled
  MilestonesAreFound
PROPERTIES
  PinsAreScanned
CHECK_DEADLOCK FALSE
