SPECIFICATION Spec
CONSTANTS
  Rate = 1
  Durations = {0, 2}
  MaxTime = 2
  CountThreshold = 2
  MaxAttempts = 1
INVARIANTS
  TypeOK
  NothingLost
  DrainedMeansQuiet
  HeartbeatSound
  DrainedCloseIsSafe
  FinalCountsExact
