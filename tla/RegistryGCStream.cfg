SPECIFICATION Spec
CONSTANTS
  Hash = {h1}
  Private = {}
  Caller = {c1}
  Viewer = {v1, v2}
  MaxHandle = 1
  MaxTorrent = 2
  NoHash = NoHash
SYMMETRY Symmetric
INVARIANTS
  GCSparesPlayback
