SPECIFICATION Spec
CONSTANTS
  RequiredSamples = 1
  TriggerStep = 2
  ThresholdNum = 1
  ThresholdDen = 2
  ServerSlots = 2
  TotalRolloutSteps = 8
  PendingCapacity = 1
  None = None
  TestFreq = 3
  SaveFreq = 2
  MaxFailures = 1
INVARIANTS
  BudgetBound
  NothingLeftBehind
  DropBound
  SentinelKept
  IInv
  CheckpointLabel
  StopSavesVersion
  ResumeLossBound
