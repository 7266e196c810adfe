\* Retries of 1, 2, 2, ... slots for 6: the deadline ends the handshake before
\* the attempts run out, as it does with the constants of the program.
CONSTANTS
  Sides = {a, b}
  InitialRetry = 1
  MaxRetry = 2
  HandshakeTime = 6
  MaxInitAttempts = 5
  Endpoints = 2
  MaxSkew = 0
  MaxFrames = 1
  MaxFaults = 2
SPECIFICATION FairSpec
INVARIANTS
  ReceivedInOrder
  AcksAreReal
  ConnectedIsHeard
  ReuseIsARace
PROPERTIES
  QueuedIsReceived
  StartedConnects
CHECK_DEADLOCK FALSE
