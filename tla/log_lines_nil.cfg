SPECIFICATION Spec
CONSTANTS
  Main = m
  Callers = {m, g}
  MaxPasses = 2
INVARIANT NilMeansPrinted
