SPECIFICATION Spec
CONSTANTS
  Faults = {"stop", "power"}
  Contents = {a, b}
  MaxGeneration = 3
INVARIANTS
  ConfirmedDurable
