SPECIFICATION ConversationSpec
CONSTANTS
  read = read
  write = write
  FC = {read, write}
  MaxRequests = 3
  MaxInbox = 2
  IdMod = 4
  MaxConns = 2
  Noise = {}
INVARIANTS
  ConversationTypeOK
  ServedOnce
  WritesLast
  ReadsSeeWrites
CHECK_DEADLOCK FALSE
