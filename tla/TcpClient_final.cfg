CONSTANTS
  NEndpoints = 2
  MaxCommands = 2
  MaxDrops = 1
SPECIFICATION Spec
PROPERTY DisconnectIsFinal
\* The user and the network do nothing more once their bounds are reached.
CHECK_DEADLOCK FALSE
