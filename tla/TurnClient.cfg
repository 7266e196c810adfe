\* Two signaling threads that want the same address, one callback.
CONSTANTS
  Opener = opener
  Callers = {c1, c2}
  Handlers = {h1}
  Peers = {p1}
  MaxTxn = 4
  MaxFaults = 2
  None = None
SPECIFICATION FairSpec
INVARIANTS
  AnswerIsOwn
  GrantsAreReal
PROPERTIES
  CallsReturn
  UndisturbedSucceeds
CHECK_DEADLOCK FALSE
