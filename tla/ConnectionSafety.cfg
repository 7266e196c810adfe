CONSTANTS
  Signalers = {s1}
  Receivers = {r1, r2}
  Stoppers = {t1}
  Captures = {c1}
  Role = "Controlling"
  Candidates = {reflector}
  Reflector0 = reflector
  MaxAttempts = 1
  NoThread = none
SPECIFICATION Spec
SYMMETRY ThreadSymmetry
INVARIANTS
  OneDtlsSession
PROPERTY FollowsPhases
CHECK_DEADLOCK FALSE
