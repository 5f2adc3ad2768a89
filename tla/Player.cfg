SPECIFICATION FairPlayerSpec
CONSTANTS
  a = a
  b = b
  w1 = w1
  w2 = w2
  Ops = {a, b}
  Windows = {w1, w2}
  None = None
  MaxQueue = 3
CONSTRAINT MetAlone
INVARIANTS
  HudInv
  ScreenRight
  ClosedTracksNothing
PROPERTIES
  HudEnds
  TracksWhatPlays
