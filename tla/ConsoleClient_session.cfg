SPECIFICATION LoadSpec
CONSTANTS
  MaxPushes = 2
  MaxCommands = 3
  MaxFailures = 3
  MaxLoad = 4
INVARIANTS
  TypeOK
  OnlyClearDisturbsPrinting
  HistoryLosesOnlyWiped
PROPERTIES
  LoadingEndsIfHeard
