CONSTANTS
  Calls = {placed, incoming}
  Placed = {placed}
  Starts = {x1, x2}
  Signalers = {g1}
  Stoppers = {stopper}
  MaxPackets = 2
  Size <- PacketSizes
  QueueLimit = 1
  ByteLimit = 2
  MaxEndpoints = 1
  NoCall = NoCall
  NoSession = NoSession
  NoStart = NoStart
SPECIFICATION Spec
INVARIANTS
  TypeOK
  SignalingReachesOwnCall
  InstalledIsLive
PROPERTIES
  LossIsExplained
  RelaysSignaling
SYMMETRY ThreadSymmetry
CHECK_DEADLOCK FALSE
