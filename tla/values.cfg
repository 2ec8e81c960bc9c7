SPECIFICATION FairSpec
CONSTANTS
  Thread = {t1, t2}
  Value = {v1, v2}
  Place = {p1, p2}
  Temp = Temp
  None = None
INVARIANTS TypeOK NoDangling Counted
PROPERTIES AllFreed
CHECK_DEADLOCK FALSE
