CONSTANTS
  Kinds = {"critical", "high", "normal", "invalid", "garbled"}
  HeapReadings = {50, 96}
  LagAt <- Lags
  BatchSize = 2
  MaxAttempts = 2
  MaxMessages = 3
  MaxFaults = 2
SPECIFICATION Spec
INVARIANTS
  CommittedIsSettled
  CopiesTakeFaults
PROPERTIES
  CriticalSettles
CHECK_DEADLOCK FALSE
