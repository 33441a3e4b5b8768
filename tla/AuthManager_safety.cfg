SPECIFICATION AuthSpec
CONSTANTS
  Callers = {c1, c2}
  LoginBeforeTokenExpiry = 1
  RenewalEnabled = TRUE
  baseRetryBackoff = 1
  maxRetryBackoff = 1
  tokenRecoveryInterval = 1
  maxTokenRecoveryInterval = 1
  Leases = {2}
  WallOffsets = {0}
  MaxFailures = 1
  MaxTokens = 3
  Events = {"refuse", "fault", "refresh", "cancel", "stop"}
SYMMETRY CallerSymmetry
INVARIANTS
  RejectedNeverRestored
  ExecutedAtMostOnce
PROPERTIES
  RecoveryLoginsSpaced
  OnlyRefusedIsDiscarded
