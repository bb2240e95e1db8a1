SPECIFICATION FairSpec
CONSTANTS
  Steps = {"A", "B"}
  Entry = "A"
  End = "end"
  Edges <- ReworkEdges
  Unresolved = {"A"}
  MaxAttempts = 3
  MaxMissions = 9
  MaxFaults = 2
  MaxCrashes = 1
  MaxDeletes = 1
INVARIANTS
  NeverStranded
  OneMissionPerStep
  TrailIsPath
PROPERTIES
  RunSettles
CHECK_DEADLOCK FALSE
