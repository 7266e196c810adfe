CONSTANTS
  Signalers = {s1, s2}
  Receivers = {r1}
  Stoppers = {t1}
  Captures = {c1}
  Role = "Controlled"
  Candidates = {reflector}
  Reflector0 = reflector
  MaxAttempts = 1
  NoThread = none
SPECIFICATION FairSpec
INVARIANT IceOnce
PROPERTIES
  IceDecides
  TimerDies
CHECK_DEADLOCK FALSE
