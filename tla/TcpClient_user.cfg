CONSTANTS
  NEndpoints = 2
  MaxCommands = 3
  MaxDrops = 3
SPECIFICATION FairSpec
INVARIANTS
  TypeOK
  OneRead
  RetriesBounded
PROPERTIES
  ConnectionFollowsUser
  LostRetried
  SettlesWithoutServer
\* The user and the network do nothing more once their bounds are reached.
CHECK_DEADLOCK FALSE
