\* A full-flow mission of at most three units (only the third undeclared), general or coding.
SPECIFICATION Spec
CONSTANTS
  PlanSize = 3
  f1 = f1
  f2 = f2
  r1 = r1
  r2 = r2
  ReviewKeys = {f1}
  Located <- MCLocated
  Undeclared <- MCUndeclared
  Routes = {r1}
  AnyRoute = r1
  MaxIterations = 2
  BackoffFailures = 2
  StallRounds = 2
  HarnessRetryCap = 2
  Kinds0 = {"coding", "general"}
  Flows0 = {"full", "no_prove"}
  Approvals0 = {TRUE}
  Spends0 = {"under"}
  AskBudget = 0
  BackoffMax = 2
  InfraMax = 2
  MaxHumanActs = 1
INVARIANTS
  TypeOK
  ResultHasEvidence
  BrakesHold
PROPERTIES
  ReviewNotSkipped
CHECK_DEADLOCK FALSE
