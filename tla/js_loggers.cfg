SPECIFICATION Spec
CONSTANTS
  Modules = {accounts, events}
  Apps = {a1}
  Objects = {o1, o2}
  MaxInstances = 2
  MaxSuffixes = 3
INVARIANTS
  TypeOK
  PrintedOnce
  ReusedOptionsStayApart
