SPECIFICATION FairSpec
CONSTANTS
  p1 = p1
  p2 = p2
  p3 = p3
  p4 = p4
  p5 = p5
  NoPush = NoPush
  Pushes = {p1, p2, p3, p4, p5}
  NClients = 2
  Priority <- MixedPriority
INVARIANTS
  TypeOK
  PopIsSafe
  NoLostWakeup
  DeliveryBalance
  PriorityFifo
  LossOnlyByOvertaking
PROPERTIES
  StopDrains
  MaxPriorityFirst
  FairImplementsFifoBroadcast
