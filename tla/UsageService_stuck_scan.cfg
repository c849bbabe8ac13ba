SPECIFICATION ScannerFairSpec
CONSTANTS
  Sessions = {1, 2}
  Scanners = {scanner}
  Finishers = {}
  Hosts = {{scanner}}
  Interval = 1
  ScanBatch = 2
  FinishBatch = 2
  StartAges = {2}
  Failing = {2}
  Slow = {}
  Drift = 0
  Null = Null
  MaxTime = 3
  MaxFaults = 0
PROPERTY UnbilledIsBilled
