\* A refresh interval of 2 units, and one of 3 that is not plausible.
SPECIFICATION Spec
CONSTANTS
  None = None
  MinInterval = 1
  MaxInterval = 2
  MinSamples = 1
  CountLimit = 7
  Margin = 1
  MinFrametime = 2
  QueueDepth = 1
  MaxPollFailures = 2
  Refresh <- MCRefresh
  Work <- MCWork
  Skew <- MCSkew
  MaxTime = 3
  MaxPresent = 2
  MaxModes = 2
INVARIANTS
  TypeOK
  HoldIsBounded
  AimsAtFirstReachableRefresh
  IntervalIsFresh
  MeasurementsArePaced
