SPECIFICATION Spec
CONSTANTS
  NoConn = NoConn
  Conns = {c1, c2}
  MaxBroadcasts = 0
  MaxStops = 1
  Pieces = 1
  SendRoom = 1
INVARIANTS
  StoppedServerHasNoSessions
CHECK_DEADLOCK FALSE
