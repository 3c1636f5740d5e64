SPECIFICATION Spec
CONSTANTS
  RequiredSamples = 1
  TriggerStep = 1
  ThresholdNum = 0
  ThresholdDen = 1
  ServerSlots = 1
  TotalRolloutSteps = 2
  PendingCapacity = 1
  None = None
  TestFreq = 1
  SaveFreq = 0
  MaxFailures = 0
PROPERTIES
  ContinuesToConsume
