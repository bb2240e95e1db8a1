\* A mission whose plan the operator decides: two loops, two racing requests,
\* a question and a restart.
SPECIFICATION Spec
CONSTANTS
  PlanSize = 1
  ReviewKeys = {}
  Located = {}
  Undeclared = {}
  r1 = r1
  Routes = {r1}
  AnyRoute = r1
  MaxIterations = 2
  BackoffFailures = 2
  StallRounds = 2
  HarnessRetryCap = 2
  NumMissions = 1
  l1 = l1
  l2 = l2
  l3 = l3
  c1 = c1
  c2 = c2
  Loops = {l1, l2}
  Clients = {c1, c2}
  Kind = "general"
  Flow = "full"
  AutoApprove = FALSE
  TurnKinds = {"phase_complete", "plan_defect", "review_approve", "result_complete", "result_failed"}
  AskBudget = 1
  MaxSlots = 1
  MaxSignals = 2
  MaxRestarts = 1
SYMMETRY Interchangeable
INVARIANTS
  OneLoopPerMission
  TerminalEventOnce
  NoBuildBeforeApproval
PROPERTY TerminalPhaseStays
CHECK_DEADLOCK FALSE
