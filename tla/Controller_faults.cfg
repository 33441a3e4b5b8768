SPECIFICATION Spec
CONSTANTS
  Faults = {"write", "stop"}
  RequireStableObservationCount = 2
  ActivationDelay = 1
  RejectVersionRollback = TRUE
  MaxVersion = 2
  CreationTimes = {1}
  WallTimes = {1, 2}
  MaxGeneration = 0
  MaxStaleness = 1
  MaxProbeTicks = 1
  FailureThreshold = 1
  OpenDuration = 1
  RefreshInterval = 1
  Events = {"time", "discover", "wall"}
INVARIANTS
  HealthyIsChecked
  KeyIDNeverFlipsBack
  IntactKeyNeverRefused
PROPERTIES
  FullDelayBeforePromotion
