SPECIFICATION FairSpecOneRepublished
CONSTANTS
  Proc = {p1}
  Feed = {a}
  Url = {1, 2}
  Filter = {1, 2}
  Matches <- MCFirstOnly
  Interval <- MCInterval
  MaxStamp = 2
  MaxTry = 1
  MaxCount = 0
  NoFeed = NoFeed
PROPERTIES AlwaysServed
