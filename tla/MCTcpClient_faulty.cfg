SPECIFICATION FairSpec
CONSTANTS
  read = read
  write = write
  FC = {read, write}
  MaxRequests = 2
  MaxInbox = 1
  IdMod = 2
  Noise <- MCNoise
INVARIANTS
  NoOrphan
PROPERTIES
  EveryPromiseSettles
  EveryRequestDeparts
