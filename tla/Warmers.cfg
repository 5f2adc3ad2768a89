SPECIFICATION FairSpec
CONSTANTS
  PieceLen = 3
  Layouts <- MCLayouts
  MaxFiles = 3
  TailBytes = 2
  HeadBytes = 2
  Threshold = 1
  Positions = {0, 1}
  Player = {p1}
  Asker = {a1}
  Worker = {w1, w2}
  MaxContext = 2
CONSTRAINT MCPlayed
CHECK_DEADLOCK FALSE
INVARIANTS
  WarmInv
  NoWarmerOutlives
  ReadaheadFollowsPause
  
  AheadRight
PROPERTIES
  WarmthSpec
  LatchReleased
  CloseEnds
