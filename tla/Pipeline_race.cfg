SPECIFICATION PipelineSpec
CONSTANTS
  Sessions = {1}
  Scanners = {s1, s2}
  Finishers = {finisher}
  Hosts = {{s1, finisher}, {s2}}
  Interval = 1
  ScanBatch = 1
  FinishBatch = 2
  StartAges = {2}
  Failing = {}
  Slow = {s2}
  Drift = 1
  Null = Null
  MaxTime = 2
  MaxFaults = 1
INVARIANT UnracedIdsUnique
INVARIANT UnracedChargedOnce
INVARIANT UnracedEndIsKept
INVARIANT UnracedIsDelivered
INVARIANT UnchargedIsCollision
PROPERTY ImplementsLedger
PROPERTY UnracedIsCharged
