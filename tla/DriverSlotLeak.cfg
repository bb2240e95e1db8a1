\* A cancelled mission that is answered.
SPECIFICATION FairSpec
CONSTANTS
  PlanSize = 0
  ReviewKeys = {}
  Located = {}
  Undeclared = {}
  r1 = r1
  Routes = {r1}
  AnyRoute = r1
  MaxIterations = 2
  BackoffFailures = 2
  StallRounds = 2
  HarnessRetryCap = 2
  NumMissions = 1
  l1 = l1
  l2 = l2
  l3 = l3
  c1 = c1
  c2 = c2
  Loops = {l1, l2}
  Clients = {c1}
  Kind = "general"
  Flow = "light"
  AutoApprove = TRUE
  TurnKinds = {"review_approve", "result_complete"}
  AskBudget = 1
  MaxSlots = 1
  MaxSignals = 0
  MaxRestarts = 0
PROPERTY WorkingMovesOn
CHECK_DEADLOCK FALSE
