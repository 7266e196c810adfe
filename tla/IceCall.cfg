CONSTANTS
  Candidates = {reflector, host}
  Reflector0 = reflector
  MaxAttempts = 2
SPECIFICATION IceFairSpec
INVARIANTS
  SelectionIsEarned
  NominationsAreEarned
PROPERTIES
  EachEndDecides
CHECK_DEADLOCK FALSE
