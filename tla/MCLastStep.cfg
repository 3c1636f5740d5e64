SPECIFICATION Spec
CONSTANTS
  RequiredSamples = 1
  TriggerStep = 2
  ThresholdNum = 1
  ThresholdDen = 2
  ServerSlots = 1
  TotalRolloutSteps = 3
  PendingCapacity = 1
  None = None
  TestFreq = 1
  SaveFreq = 1
  MaxFailures = 0
INVARIANTS
  LastStepSaved
