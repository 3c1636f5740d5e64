SPECIFICATION HSpec
CONSTANTS
  Requests = {r1, r2, r3}
  Standalone = {s1}
  Hybrid = {h1, h2}
  NoServer = NoServer
  CacheSize = 2
  MaxInTransit = 1
SYMMETRY Symmetry
INVARIANTS
  TypeOK
  NeverOvercounted
  ExactWhenClean
  RoutedAwake
PROPERTIES
  StickySession
  SleepsIdle
