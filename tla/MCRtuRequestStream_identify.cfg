SPECIFICATION FairSpec
CONSTANTS
  Frames <- IdentifyFirst
  IdentifyLen = 4
  MaxAdu = 8
  Chunks <- FourBytes
  Endless = FALSE
  MaxWire = 8
  Bursts <- NoBursts
  MaxBursts = 0
PROPERTIES
  EveryFrameHandled
CHECK_DEADLOCK FALSE
