SPECIFICATION FairSpec
CONSTANTS
  QueueSize = 2
  Attempts = 3
  BreakerAfter = 2
  MaxEvents = 4
INVARIANTS TypeOK BreakerLimitsAttempts
PROPERTIES DeliveredInOrder ClosesOnceHealthy EveryEventSettles StopEndsDelivery
