SPECIFICATION FairSpec
CONSTANTS
  read = read
  write = write
  FC = {read, write}
  MaxRequests = 3
  MaxInbox = 1
  Noise <- MCDamage
INVARIANTS
  IInv
  LossHasCause
  CrossTalkHasCause
PROPERTIES
  ImplementsRequestLine
  EveryRequestDeparts
