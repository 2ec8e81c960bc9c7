SPECIFICATION SpecOneRepublished
CONSTANTS
  Proc = {p1}
  Feed = {a}
  Url = {1, 2}
  Filter = {1}
  Matches <- MCMatches
  Interval <- MCInterval
  MaxStamp = 2
  MaxTry = 0
  MaxCount = 1
  NoFeed = NoFeed
INVARIANTS LoadsRemembered PacingRemembered
PROPERTIES NotTooOften
