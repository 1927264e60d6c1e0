\* All options; three signals at any step; the process ends
CONSTANTS
  Registered <- SomeMonitors
  Names <- SomeNames
  MaxBatches = 2
SPECIFICATION FairSpec
INVARIANTS
  TypeOK
  DeletedOnce
  CleanExit
PROPERTIES
  EndAdvances
  SignalEnds
  OneEventEnds
CHECK_DEADLOCK FALSE
