SPECIFICATION FairSpec
CONSTANTS
  Frames <- ReadFrame
  IdentifyLen = 7
  MaxAdu = 256
  Chunks <- WholeFrames
  Endless = TRUE
  MaxWire = 12
  Bursts <- HalfFrame
  MaxBursts = 1
PROPERTIES
  Recovers
