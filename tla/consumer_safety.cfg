SPECIFICATION Spec
CONSTANTS
  Messages = {m1, m2, m3, m4}
  Gzipped = {m1, m2, m3}
  NumOfMessages = 2
INVARIANTS
  TypeOK
  AckedWasShown
