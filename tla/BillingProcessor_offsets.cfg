SPECIFICATION Spec
CONSTANTS
  Events = {e1, e2}
  Consumers = {c1, c2}
  NoEvent = NoEvent
  MaxAttempts = 2
  MaxDeliveries = 3
  MaxFaults = 0
  MaxRebalances = 2
INVARIANT OffsetsFollowProcessing
