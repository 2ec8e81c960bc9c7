SPECIFICATION FairSpec
CONSTANTS
  Proc = {p1, p2, p3, p4}
  LockTime = 2
  NoFile = NoFile
INVARIANTS TypeOK Exclusive
PROPERTIES TakenOver
