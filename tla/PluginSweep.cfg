SPECIFICATION PluginSpec
CONSTANTS
  d1 = d1
  d2 = d2
  Procs = {d1, d2}
  Legacy = {}
  None = None
  MayCrash = FALSE
  MayLeave = FALSE
  Attempts = 2
  Polls = 3
  Grace = 1
  Waits = 1
PROPERTIES
  SweepSparesLive
