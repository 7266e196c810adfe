CONSTANTS
  SeqSpan = 4
  MicDepth = 1
  RenderDepth = 1
  Paths = {}
  PeerPaths = {}
  Receivers = {r1}
  PeerStart = 0
  Bounds <- RolloverBounds
SPECIFICATION FairSpec
PROPERTIES
  RolloverCounted
CHECK_DEADLOCK FALSE
