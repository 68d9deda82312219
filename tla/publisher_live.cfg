SPECIFICATION LiveSpec
CONSTANTS
  Calls = {c1, c2}
  CountThreshold = 2
  MaxAttempts = 2
PROPERTIES
  EveryCallReturns
  EveryMessageResolves
  CloseReturns
