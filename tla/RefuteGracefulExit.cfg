\* A signal interrupts the handler of another
CONSTANTS
  Registered <- SomeMonitors
  Names <- SomeNames
  MaxBatches = 2
SPECIFICATION Spec
INVARIANT GracefulExit
CHECK_DEADLOCK FALSE
