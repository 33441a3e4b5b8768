SPECIFICATION Spec
CONSTANTS
  Requests = {r1, r2}
  MaxConcurrent <- MCMaxConcurrent
  OwnScope <- MCOwnScope
  OtherScopes <- MCOtherScopes
  MaxVersion = 2
  Exchanges <- MCExchanges
  Events = {"read", "restart", "context", "panic", "minimums", "malformed"}
  RequireStableObservationCount = 1
  ActivationDelay = 0
  RejectVersionRollback = TRUE
SYMMETRY RequestSymmetry
INVARIANTS
  PlaintextOnlyForItsKey
  StoredIsReadable
  PeerValueNotRefused
  NoOlderKeyLater
  SlotsHeld
