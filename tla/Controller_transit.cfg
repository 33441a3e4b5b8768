SPECIFICATION Spec
CONSTANTS
  Faults = {"stop"}
  RequireStableObservationCount = 2
  ActivationDelay = 0
  RejectVersionRollback = FALSE
  MaxVersion = 2
  CreationTimes = {1, 2}
  WallTimes = {1}
  MaxGeneration = 0
  MaxStaleness = 1
  MaxProbeTicks = 0
  FailureThreshold = 1
  OpenDuration = 1
  RefreshInterval = 1
  Events = {"restore", "minimums", "settings"}
INVARIANTS
  
  ReportedStaysKnown
PROPERTIES
  HealthyMatchesTransit
