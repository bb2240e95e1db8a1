SPECIFICATION AutomationFairSpec
CONSTANTS
  EventKeys = {now, tick1, tick2}
  Manual = {now}
  Policies = {"skip", "queue", "parallel"}
  MaxConcurrent = 2
  MaxRunsPerHour = 2
  BreakerFailures = 2
  MaxStartAttempts = 2
  MaxMissions = 2
  MaxDisturbances = 1
INVARIANTS
  RunsAwaitMissions
  SlotsAgree
  OneMissionPerRun
PROPERTIES
  DisabledStartsNothing
  RunsSettle
CHECK_DEADLOCK FALSE
