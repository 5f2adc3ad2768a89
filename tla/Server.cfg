SPECIFICATION FairServerSpec
CONSTANTS
  d1 = d1
  d2 = d2
  r1 = r1
  r2 = r2
  Procs = {d1, d2}
  None = None
  MayCrash = TRUE
  MayLeave = TRUE
  Reqs = {r1, r2}
  IdleTimeout = 2
INVARIANTS
  OneOwner
  ServingIsPublished
  CacheIsOwn
  HandlersSeeOpenEngine
  ServedFromOwnCache
PROPERTIES
  StopCompletes
  IdleStops
CONSTRAINT
  OneOrPair
CHECK_DEADLOCK FALSE
