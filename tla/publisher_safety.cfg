SPECIFICATION Spec
CONSTANTS
  Calls = {c1, c2, c3}
  CountThreshold = 2
  MaxAttempts = 2
SYMMETRY Symmetry
INVARIANTS
  TypeOK
  BatchesPartition
  MetricsAgree
  CloseFlushes
PROPERTIES
  ImplementsContract
