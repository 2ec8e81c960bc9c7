SPECIFICATION ReadersSpec
CONSTANTS
  Conn = {c1, c2}
  MaxConn = 1
  KeepMax = 2
  NoConn = NoConn
INVARIANTS TypeOK ThreadsSound
PROPERTIES TerminationEnds ClientsServed ImplementsPool
