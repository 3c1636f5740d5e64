SPECIFICATION Spec
CONSTANTS
  RequiredSamples = 2
  TriggerStep = 2
  ThresholdNum = 0
  ThresholdDen = 1
  ServerSlots = 4
  TotalRolloutSteps = 6
  PendingCapacity = 2
  None = None
  TestFreq = 1
  SaveFreq = 0
  MaxFailures = 0
PROPERTIES
  OnPolicy
