SPECIFICATION FairSpec
CONSTANTS
  Events = {e1, e2}
  Consumers = {c1, c2}
  NoEvent = NoEvent
  MaxAttempts = 2
  MaxDeliveries = 3
  MaxFaults = 1
  MaxRebalances = 2
INVARIANT TypeOK
INVARIANT ProcessedWasSubmitted
INVARIANT ResubmissionHasCause
INVARIANT LossIsBounded
PROPERTY ImplementsRelay
PROPERTY DeliveredIsProcessed
