SPECIFICATION Spec
CONSTANTS
  RequiredSamples = 1
  TriggerStep = 1
  ThresholdNum = 1
  ThresholdDen = 1
  ServerSlots = 1
  TotalRolloutSteps = 6
  PendingCapacity = 1
  None = None
  TestFreq = 2
  SaveFreq = 0
  MaxFailures = 1
PROPERTIES
  CarryOverBound
  ContinuesToConsume
  Termination
