CONSTANTS
  Candidates = {reflector, host}
  Reflector0 = reflector
  MaxAttempts = 2
SPECIFICATION IceFairSpec
PROPERTY SelectedIsNominated
CHECK_DEADLOCK FALSE
