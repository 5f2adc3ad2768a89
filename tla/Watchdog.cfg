SPECIFICATION FairSpec
CONSTANTS
  Interval = 2
  Buckets = 3
  Threshold = 2
  Backoff = 7
  MaxErrors = 2
PROPERTIES
  RebuildEarned
  CoolDownEnds
  StormRebuilds
