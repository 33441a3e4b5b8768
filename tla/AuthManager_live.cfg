SPECIFICATION AuthFairSpec
CONSTANTS
  Callers = {c1, c2}
  LoginBeforeTokenExpiry = 1
  RenewalEnabled = TRUE
  baseRetryBackoff = 1
  maxRetryBackoff = 1
  tokenRecoveryInterval = 1
  maxTokenRecoveryInterval = 1
  Leases = {2}
  WallOffsets = {0, 1}
  MaxFailures = 1
  MaxTokens = 1
  Events = {"refuse", "fault", "wall", "refresh"}
PROPERTIES
  LeaseNeverYounger
  CallersReturn
