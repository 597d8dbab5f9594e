SPECIFICATION Spec
CONSTANTS
  read = read
  write = write
  FC = {read, write}
  MaxRequests = 3
  MaxInbox = 2
  IdMod = 2
  Noise <- NoNoise
INVARIANTS
  IInv
  OneInFlight
  NoStall
  NoOrphan
  OfflineIdle
  OnlineIsConnected
  NoCrossTalk
  LossHasCause
PROPERTIES
  ImplementsRequestLine
