SPECIFICATION InOrderSpec
CONSTANTS
  Events = {1, 2, 3}
  Invalid = {}
  Workers = {w1, w2}
  Replayers = {}
  Hosts = {{w1, w2}}
  BatchSize = 1
  ResetBatch = 1
  ReplayBatch = 1
  MaxAttempts = 1
  MaxFaults = 0
  MaxResets = 0
  MaxReplays = 0
INVARIANT SandboxOrder
