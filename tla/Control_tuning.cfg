SPECIFICATION Spec
CONSTANTS
  Unreadable = unreadable
  Absent = absent
  Tables = {"by_category", "by_series"}
  Initial <- Config
  Edits <- EditedConfigs
  Signals <- SignalHistories
  Factors <- FactorNames
  TieFloor = 3
  MinResolved = 10
  GroupMinN = 3
  CategoryMinN = 5
  FieldOrder <- FieldNames
  Categories <- CategoryNames
  SeriesOrder <- SeriesNames
  Scenarios <- ControlScenarios
  Cooldown = 2
  SnapshotInterval = 1
  MinSignals = 3
  AutoMinSignals = 6
  AutoMinN = 25
INVARIANTS
  MemoryFollowsFile
  TunedWithinBounds
PROPERTIES
  AutoTuningIsGuarded
CHECK_DEADLOCK FALSE
