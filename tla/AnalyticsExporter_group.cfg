SPECIFICATION FairSpec
CONSTANTS
  Events = {e}
  Consumers = {c1, c2}
  MaxDeliveries = 3
  MaxFaults = 2
  MaxRebalances = 2
INVARIANT TypeOK
INVARIANT ReexportHasCause
INVARIANT LossIsBounded
PROPERTY MessageIsReached
\* every consumer may have stopped for good
CHECK_DEADLOCK FALSE
