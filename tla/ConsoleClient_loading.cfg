SPECIFICATION FairSpec
CONSTANTS
  MaxPushes = 0
  MaxCommands = 2
  MaxFailures = 0
PROPERTIES
  LoadingEnds
