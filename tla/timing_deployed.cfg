SPECIFICATION Spec
CONSTANTS
  Calls = {c1}
  FlushTimeout = 300
  PublishTimeout = 300
  DelayThreshold = 1
  Timeout = 300
  Senders = {1}
  Graces = {300}
  LastStart = 1
INVARIANT GraceAllowsFlush
