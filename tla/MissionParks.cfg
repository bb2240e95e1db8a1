\* Every flow and every park: asks, budgets, approvals, two routes; a mission of at most one unit.
SPECIFICATION FairSpec
CONSTANTS
  PlanSize = 1
  f1 = f1
  f2 = f2
  r1 = r1
  r2 = r2
  ReviewKeys = {f1}
  Located <- MCLocated
  Undeclared = {}
  Routes = {r1, r2}
  AnyRoute = r1
  MaxIterations = 2
  BackoffFailures = 2
  StallRounds = 2
  HarnessRetryCap = 2
  Kinds0 = {"coding","general"}
  Flows0 = {"full", "no_prove", "discover_build", "light"}
  Approvals0 = {FALSE}
  Spends0 = {"under","over","mixed"}
  AskBudget = 1
  BackoffMax = 2
  InfraMax = 2
  MaxHumanActs = 2
INVARIANTS
  NeverStuck
PROPERTIES
  EventuallyRests
  RunsDown
CHECK_DEADLOCK FALSE
