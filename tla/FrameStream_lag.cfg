CONSTANTS
  Messages <- SomeMessages
  BadFrames <- AllBadFrames
  IntSize = 2
  Radix = 4
  MaxSize = 10
  ChunkSize = 24
  MaxFrames = 2
  MaxBreaks = 0
SPECIFICATION Spec
INVARIANTS
  ArrivedIsReceived
\* The peer stops when it has sent its frames.
CHECK_DEADLOCK FALSE
