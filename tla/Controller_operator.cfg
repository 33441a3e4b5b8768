SPECIFICATION Spec
CONSTANTS
  Faults = {"stop"}
  RequireStableObservationCount = 1
  ActivationDelay = 0
  RejectVersionRollback = TRUE
  MaxVersion = 3
  CreationTimes = {1}
  WallTimes = {1}
  MaxGeneration = 4
  MaxStaleness = 1
  MaxProbeTicks = 0
  FailureThreshold = 1
  OpenDuration = 1
  RefreshInterval = 1
  Events = {"operator", "trim"}
INVARIANTS
  IntactKeyNeverRefused
PROPERTIES
  AppliesReviewedState
  ImplementsLifecycle
