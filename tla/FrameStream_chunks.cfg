CONSTANTS
  Messages <- SomeMessages
  BadFrames <- AllBadFrames
  IntSize = 2
  Radix = 4
  MaxSize = 10
  ChunkSize = 12
  MaxFrames = 3
  MaxBreaks = 1
SPECIFICATION Spec
INVARIANTS
  TypeOK
  StreamPreserved
  NoLag
\* The peer stops when it has sent its frames.
CHECK_DEADLOCK FALSE
