SPECIFICATION Spec
CONSTANTS
  Frames <- OneFrame
  IdentifyLen = 4
  MaxAdu = 7
  Chunks <- ShortChunks
  Endless = FALSE
  MaxWire = 12
  Bursts <- NoBursts
  MaxBursts = 0
INVARIANTS
  NothingLost
CHECK_DEADLOCK FALSE
