SPECIFICATION ScannerFairSpec
CONSTANTS
  Sessions = {1, 2, 3}
  Scanners = {s1}
  Finishers = {finisher}
  Hosts = {{s1}, {finisher}}
  Interval = 1
  ScanBatch = 2
  FinishBatch = 2
  StartAges = {2}
  Failing = {1}
  Slow = {s1}
  Drift = 1
  Null = Null
  MaxTime = 2
  MaxFaults = 1
INVARIANT TypeOK
INVARIANT NoUsageGap
INVARIANT NoSequenceHole
PROPERTY EndIsFinal
PROPERTY UnbilledIsBilled
PROPERTY ActiveIsFinished
