CONSTANTS
  NEndpoints = 1
  MaxCommands = 3
  MaxDrops = 1
  MaxSignals = 2
  MaxRows = 2
SPECIFICATION PartsSpec
INVARIANTS
  GuiTypeOK
  LabelFollowsLink
  FilterIsBoxes
PROPERTIES
  ExitReturns
\* Nothing is left to do after the exit, or after undefined behaviour.
CHECK_DEADLOCK FALSE
