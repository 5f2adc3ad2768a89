SPECIFICATION FairPlaySpec
CONSTANTS
  Hash = {h1}
  Private = {}
  Caller = {c1}
  Viewer = {v1, v2}
  MaxHandle = 2
  MaxTorrent = 1
  NoHash = NoHash
CONSTRAINT WaitOrRead
PROPERTIES
  CloseCompletes
  TrackersAttached
  CollectorSparesViewers
  PlayEnds
