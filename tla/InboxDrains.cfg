SPECIFICATION FairSpec
CONSTANTS
  k1 = k1
  k2 = k2
  i1 = i1
  i2 = i2
  NoOne = NoOne
  Keys = {k1, k2}
  Instances = {i1, i2}
  MaxAttempts = 2
  BatchSize = 2
  ConsumerTimeout = 5
  IdleTimeout = 6
  MaxInserts = 2
  MaxLosses = 1
  MaxSlow = 2
PROPERTIES
  ImplementsOutbox
  EventuallySettled
CHECK_DEADLOCK FALSE
