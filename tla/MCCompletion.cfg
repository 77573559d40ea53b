CONSTANTS
  Tasks = {"t1", "t2"}
  UINT_MAX = 7
SPECIFICATION FairSpec
INVARIANTS NoLostWakeup QueueExact
PROPERTIES EventTaken TimeoutReturns ImplementsEventCount
