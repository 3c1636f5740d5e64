SPECIFICATION LiveSpec
CONSTANTS
  Short = a
  Long = b
  Requests = {a, b}
  Servers = {s1, s2}
  PromptLength = 2
  ResponseLength = 2
  MaxModelLen = 5
  Prompt <- MCPrompt
  Limit = Unknown
  Resume = TRUE
  Pausing = TRUE
  MaxVersion = 2
  Unknown = Unknown
  Mixed = Mixed
INVARIANTS
  VersionWindow
  ResumedOutput
  ServesOneVersion
PROPERTIES
  ImplementsGeneration
  EveryRequestReturns
