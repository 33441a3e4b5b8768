SPECIFICATION Spec
CONSTANTS
  Faults = {"stop"}
  RequireStableObservationCount = 2
  ActivationDelay = 0
  RejectVersionRollback = TRUE
  MaxVersion = 3
  CreationTimes = {1}
  WallTimes = {1}
  MaxGeneration = 6
  MaxStaleness = 1
  MaxProbeTicks = 0
  FailureThreshold = 1
  OpenDuration = 1
  RefreshInterval = 1
  Events = {"operator"}
PROPERTIES
  RetirementNeedsSettledRotation
