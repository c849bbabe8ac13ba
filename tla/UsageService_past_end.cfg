SPECIFICATION Spec
CONSTANTS
  Sessions = {1, 2}
  Scanners = {scanner}
  Finishers = {finisher}
  Hosts = {{scanner, finisher}}
  Interval = 1
  ScanBatch = 1
  FinishBatch = 1
  StartAges = {2}
  Failing = {}
  Slow = {}
  Drift = 0
  Null = Null
  MaxTime = 3
  MaxFaults = 0
INVARIANT NothingBilledPastEnd
