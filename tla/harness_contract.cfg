SPECIFICATION Spec
CONSTANTS
  Rate = 1
  Durations = {1}
  MaxTime = 1
  CountThreshold = 2
  MaxAttempts = 1
INVARIANT CallerContract
