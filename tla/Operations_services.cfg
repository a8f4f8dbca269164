SPECIFICATION Spec
CONSTANTS
  Scenarios <- OperationsScenarios
  Requests = {"r1", "r2", "r3"}
  Endpoint <- MCEndpoint
  Unit = 2
  Burst = 4
  MaxRetries = 1
  BaseDelay = 1
  Watched <- MCWatched
  Tasks = {"trading_loop", "one_shot"}
  Loops = {"trading_loop"}
  CrashAge = 1
  Tiers = {"core", "large"}
  Files <- MCFiles
  Interval <- MCInterval
  Retention = 2
  ShadowTickers = {"k1", "k2"}
  Bankrolls = {100, 80}
  DayLength = 2
  MaxDailyLoss = 10
  ShadowCooldown = 2
  FaultKeys = {"stall", "flush"}
  StallFault = "stall"
  FlushFault = "flush"
  FaultRetention = 2
  SampleInterval = 2
  Stores = {"books", "games"}
  RowInterval <- MCRowInterval
  Markets = {"k1", "k2"}
  Flushers = {"w1", "w2"}
  Findings <- MCFindings
  AutomationKey <- MCKey
  Severity <- MCSeverity
  Branches = {"w1", "w2"}
  Edits <- MCEdits
  Plans = {"p1"}
  FloorHours <- MCFloor
  DeburstGap = 2
  DeburstCount = 2
  StalenessIdle = 2
  ClusterWindow = 0
INVARIANTS
  RateKept
  AlertsTellTheState
  NothingUncounted
  RestartsKeepGuards
  OnlyRaisesWhatPersists
CHECK_DEADLOCK FALSE
