SPECIFICATION Spec
CONSTANTS
  Hash = {h1, h2}
  Private = {h1, h2}
  Caller = {c1, c2}
  Viewer = {}
  MaxHandle = 2
  MaxTorrent = 2
  NoHash = NoHash
SYMMETRY Symmetric
CONSTRAINT OneOrPair
INVARIANTS
  IInv
  ForgottenIsCancelled
  NothingAfterClose
  NoStaleAttach
  NoStrandedTorrent
PROPERTIES
  BindingSpec
  OrphanOnlyByRacedAdd
