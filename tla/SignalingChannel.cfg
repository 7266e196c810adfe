CONSTANTS
  IsOutgoing = TRUE
  Users = {u1}
  Handlers = {h1, h2}
  PeerBatches = {"pings", "setup"}
  PeerBatch <- Batch
  MaxMutes = 2
  MaxPeer = 1
  MaxFaults = 1
SPECIFICATION FairSpec
INVARIANTS
  HandledAsSent
  NumbersDistinct
PROPERTIES
  PingIsAnswered
  MuteIsShown
CHECK_DEADLOCK FALSE
