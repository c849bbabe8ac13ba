SPECIFICATION FairSpec
CONSTANTS
  Events = {1, 2, 3}
  Invalid = {2}
  Workers = {w1, w2}
  Replayers = {r}
  Hosts = {{w1, r}, {w2}}
  BatchSize = 2
  ResetBatch = 1
  ReplayBatch = 1
  MaxAttempts = 2
  MaxFaults = 2
  MaxResets = 1
  MaxReplays = 1
INVARIANT TypeOK
INVARIANT PublishedWasDelivered
INVARIANT ClaimIsFresh
INVARIANT DuplicatesHaveCause
PROPERTY ResetIsSilent
PROPERTY ImplementsRelay
PROPERTY ValidIsPublished
