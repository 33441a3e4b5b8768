SPECIFICATION Spec
CONSTANTS
  Faults = {"write"}
  RequireStableObservationCount = 2
  ActivationDelay = 1
  RejectVersionRollback = TRUE
  MaxVersion = 2
  CreationTimes = {1}
  WallTimes = {1}
  MaxGeneration = 0
  MaxStaleness = 1
  MaxProbeTicks = 0
  FailureThreshold = 1
  OpenDuration = 1
  RefreshInterval = 1
  Events = {"time", "discover"}
PROPERTIES
  DiscoveryNeverPromotes
