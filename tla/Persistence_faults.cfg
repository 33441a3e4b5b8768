SPECIFICATION FairSpec
CONSTANTS
  Faults = {"write", "sync", "stop", "power"}
  Contents = {a, b}
  MaxGeneration = 3
INVARIANTS
  
  ReloadAccepts
  RecoverNeverWedges
  ConfirmedOnDisk
PROPERTIES
  HashChain
  CommitDurable
  CommitResolves
