SPECIFICATION BothSpec
CONSTANTS
  Payloads <- SomePayloads
  MaxInserts = 3
  MaxCrashes = 2
  MaxFaults = 2
  Users = {1, 2}
  PushIds = {42}
  EventTypes = {0, 2}
  Times = {1, 2}
  MaxEvents = 2
  MaxInits = 2
  MaxBreaks = 2
INVARIANTS
  StoresTypeOK
  AcknowledgedPushesKept
  InitialisedAtOnceOrNever
  EventsKept
  LastSeenRight
