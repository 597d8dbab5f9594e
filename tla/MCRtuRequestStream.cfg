SPECIFICATION Spec
CONSTANTS
  Frames <- ShortFrames
  IdentifyLen = 4
  MaxAdu = 7
  Chunks <- ShortChunks
  Endless = FALSE
  MaxWire = 12
  Bursts <- ShortBursts
  MaxBursts = 2
INVARIANTS
  TypeOK
  BufferBounded
  LossHasCause
PROPERTIES
  AcceptedInOrder
CHECK_DEADLOCK FALSE
