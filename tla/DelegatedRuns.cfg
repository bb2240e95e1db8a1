SPECIFICATION DelegatedFairSpec
CONSTANTS
  Entries = {first}
  TailCap = 3
  MaxLog = 5
  MaxRuns = 2
  MaxMishaps = 3
  MaxReviews = 1
INVARIANTS
  DelegatedTypeOK
  OneCliAtATime
  VerdictOnce
PROPERTIES
  TurnsEnd
CHECK_DEADLOCK FALSE
