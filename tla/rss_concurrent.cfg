SPECIFICATION SpecSameHour
CONSTANTS
  Proc = {p1, p2}
  Feed = {a}
  Url = {1}
  Filter = {1}
  Matches <- MCMatches
  Interval <- MCAlways
  MaxStamp = 2
  MaxTry = 0
  MaxCount = 1
  NoFeed = NoFeed
SYMMETRY Symmetry
INVARIANTS TypeOK LoadsRemembered
PROPERTIES NoSecondLoad
CHECK_DEADLOCK FALSE
