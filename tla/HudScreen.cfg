SPECIFICATION PlayerSpec
CONSTANTS
  a = a
  b = b
  w1 = w1
  w2 = w2
  Ops = {a, b}
  Windows = {w1}
  None = None
  MaxQueue = 3
INVARIANTS
  HudOnScreen
