SPECIFICATION Spec
CONSTANTS
  Calls = {c1, c2, c3, c4}
  FlushTimeout = 4
  PublishTimeout = 3
  DelayThreshold = 1
  Timeout = 1
  Senders = {1, 2, 4}
  Graces = {2, 5}
  LastStart = 2
SYMMETRY Symmetry
INVARIANTS
  ShutdownBounded
  DrainCompletes
  GraceSuffices
PROPERTIES
  KeepsShutdownOrder
