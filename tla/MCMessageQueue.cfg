SPECIFICATION Spec
CONSTANTS
  Consumers = {c1, c2}
  Samples = {a, b}
  MaxQueueSize = 2
  Closed = Closed
  NoReply = NoReply
  MaxProduced = 4
  MaxValidate = 1
INVARIANTS
  TypeOK
  NoLostWakeup
  Conservation
PROPERTIES
  ImplementsSampleQueue
  ShutdownReleases
  BlockedIsServed
