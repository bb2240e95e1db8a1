SPECIFICATION FairSpec
CONSTANTS
  Repos = {repo}
  Messages = {mail, hook}
  Named = {repo}
  MaxTries = 3
  MaxPauses = 4
  MaxFaults = 3
  MaxCrashes = 2
INVARIANTS
  DoneIsDelivered
  RepeatsOnlyInDoubt
PROPERTIES
  MessagesFollowRepos
  FailuresAreRiddenOut
CHECK_DEADLOCK FALSE
