SPECIFICATION LoadSpec
CONSTANTS
  NoConn = NoConn
  Conns = {c1, c2}
  MaxBroadcasts = 2
  MaxStops = 1
  Pieces = 3
  SendRoom = 2
INVARIANTS
  TypeOK
  RegistryIsOpenSessions
  CallbacksOnce
  LoopsArmed
  AtMostOneLateSession
  PiecesInOrder
PROPERTIES
  DisconnectNoticed
  ClosedSessionReleased
CHECK_DEADLOCK FALSE
