SPECIFICATION FairPluginSpec
CONSTANTS
  d1 = d1
  d2 = d2
  Procs = {old, d1, d2}
  Legacy = {old}
  None = None
  MayCrash = TRUE
  MayLeave = TRUE
  Attempts = 2
  Polls = 2
  Grace = 1
  Waits = 1
CONSTRAINT
  TwoOrCalm
INVARIANTS
  RetiredLockIsFree
  SweepInterlock
PROPERTIES
  LaunchFindsOwner
  LaunchSettles
  StopsAfterQuit
  FailedPurgeSwept
