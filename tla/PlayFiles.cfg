SPECIFICATION PlaySpec
SYMMETRY Symmetric
CONSTANTS
  Hash = {h1}
  Private = {}
  Caller = {c1}
  Viewer = {}
  MaxHandle = 2
  MaxTorrent = 1
  NoHash = NoHash
PROPERTIES
  FilesKnown
