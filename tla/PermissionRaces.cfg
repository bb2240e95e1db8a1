SPECIFICATION Spec
CONSTANTS
  Sessions = {"chat", "attended", "unattended"}
  Askers = {a1, a2}
  Calls = {edit, push}
  Subjects = {edit, push}
  Subject <- SameSubject
  Destructive = {push}
  MaxPrompts = 2
  MaxTurns = 2
  MaxFaults = 1
  None = None
INVARIANTS
  TypeOK
  AnswersCountOnce
  AnswersReachWaiters
  OnePromptPerSubject
  TurnNeverStuck
SYMMETRY Alike
CHECK_DEADLOCK FALSE
