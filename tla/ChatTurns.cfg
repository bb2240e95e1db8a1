\* Two requests race for one session: three turns, a failed append or a kill.
SPECIFICATION FairSpec
CONSTANTS
  c1 = c1
  c2 = c2
  Requests = {c1, c2}
  NoRequest = NoRequest
  MaxTurns = 3
  MaxText = 1
  MaxFaults = 1
INVARIANTS
  TypeOK
  LogTellsEachTurn
  ContextLosesNothing
PROPERTY SlotFrees
CHECK_DEADLOCK FALSE
