CONSTANTS
  SeqSpan = 3
  MicDepth = 1
  RenderDepth = 1
  Paths = {x1}
  PeerPaths = {x1, x2}
  Receivers = {r1, r2}
  PeerStart = 2
  Bounds <- MCBounds
SPECIFICATION FairSpec
INVARIANTS
  KeystreamOnce
  MuteTakesEffect
PROPERTIES
  SealedIsHeard
  SpokenIsPlayed
CHECK_DEADLOCK FALSE
