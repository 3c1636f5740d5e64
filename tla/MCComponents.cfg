SPECIFICATION ComponentsSpec
CONSTANTS
  Subjects = {"resume", "replay", "transfer", "tools", "limiter"}
  Programs = {"ppo", "sync", "sft"}
  StepsPerEpoch = 3
  Epochs = 2
  CkptFreq = 2
  MaxToKeep = 2
  NoStep = NoStep
  Torn = Torn
  MaxCrashes = 2
  TrainSteps = 2
  ValBatches = 1
  PromptsPerRound = 1
  Sessions = 2
  MaxRaised = 1
  Models <- MCModels
  EngineBucket = 2
  IpcBuckets = {1, 2, 3, 4}
  NoOp = NoOp
  Blank = Blank
  PromptLength = 2
  ResponseLength = 5
  MaxAssistantTurns = 0
  MaxUserTurns = 3
  MaxParallelCalls = 1
  MaxCalls = 2
  MaxToolTokens = 2
  MinTokens = 1
  LastVersion = 2
  PromptToken = PromptToken
  ToolToken = ToolToken
  Calls = {c1, c2, c3}
  Demands = {1, 2, 3}
  MaxTokens = 2
  Unset = Unset
  MaxTime = 5
INVARIANTS
  EveryBatchOnce
  LatestComplete
  SampleComplete
  SampleReadable
  WeightsIntact
  ResponseAligned
  TurnWindow
  RateHeld
PROPERTIES
  TrainingCompletes
  SampleReturns
  TransferCompletes
