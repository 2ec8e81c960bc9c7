SPECIFICATION SpecOfNights
CONSTANTS
  Proc = {p1, p2}
  Torrent = {t1}
  Hour = {day, night}
CONSTRAINTS Calm TwoSchedules PlainOverlap
INVARIANTS TypeOK ListsExact RateMatchesLists
PROPERTIES Restored StartsOnlyOwn
