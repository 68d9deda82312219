SPECIFICATION FairSpec
CONSTANTS
  Rate = 1
  Durations = {0, 1}
  MaxTime = 1
  CountThreshold = 2
  MaxAttempts = 1
PROPERTIES
  KeepsContract
  KeepsShutdownOrder
  SignalStops
  DurationStops
