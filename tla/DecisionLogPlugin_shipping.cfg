SPECIFICATION Spec
CHECK_DEADLOCK FALSE
CONSTANTS
  Decisions <- MCDecisions
  MaxBuffer = 2
  InitConfig = "remote"
  MaxReconfigs = 1
  d1 = d1
  d2 = d2
  d3 = d3
INVARIANT TypeOK
INVARIANT BufferBounded
INVARIANT HeldOnce
INVARIANT OnePeriodicTask
PROPERTY LostOnlyWhen
PROPERTY EventuallyDelivered
