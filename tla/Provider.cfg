SPECIFICATION HostSpec
CONSTANTS
  p1 = p1
  p2 = p2
  Processes = {p1, p2}
  Settings <- MCSettings
  r1 = r1
  r2 = r2
  Runs = {r1, r2}
  Plans <- MCPlans
  MaxAge = 2
  MaxReplacements = 1
  MaxRequests = 1
  UnsupportedSPIFFECertAuthAllowed = TRUE
  RequireStableObservationCount = 2
  ActivationDelay = 1
  RejectVersionRollback = TRUE
INVARIANTS
  ServingOwnsPath
  EndedHoldsNothing
  PresentsSafeFile
  OneInstallation
  GeneratedIsAccepted
PROPERTIES
  PreflightPredictsServe
  GeneratedKeepsSettings
  StartsWhatWasChecked
  StartSettles
  StopCompletes
