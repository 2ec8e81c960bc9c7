SPECIFICATION SpecUntilUnseen
CONSTANTS
  Proc = {p1, p2}
  Feed = {a}
  MaxTime = 1
  MaxErr = 2
SYMMETRY Symmetry
INVARIANTS TypeOK ErrorsKept ErrorsOnce ListKept
CHECK_DEADLOCK FALSE
