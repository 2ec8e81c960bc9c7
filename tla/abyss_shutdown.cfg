SPECIFICATION FairSpec
CONSTANTS
  Conn = {c1}
  MaxConn = 1
  KeepMax = 1
  NoConn = NoConn
PROPERTIES TerminationEnds
