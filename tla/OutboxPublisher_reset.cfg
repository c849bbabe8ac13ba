SPECIFICATION FairSpec
CONSTANTS
  Events = {1, 2}
  Invalid = {}
  Workers = {w1}
  Replayers = {}
  Hosts = {{w1}}
  BatchSize = 1
  ResetBatch = 1
  ReplayBatch = 1
  MaxAttempts = 1
  MaxFaults = 0
  MaxResets = 1
  MaxReplays = 0
PROPERTY ResetIsReemitted
