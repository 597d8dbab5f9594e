SPECIFICATION Spec
CONSTANTS
  c1 = c1
  c2 = c2
  w0 = w0
  w1 = w1
  Conns = {c1, c2}
  Requests <- MCRequests
  Tables <- MCTables
  Bytes <- MCBytes
  Words <- MCWords
  AppCells <- MCAppCells
  ServerId <- MCServerId
  MaxByteCount = 3
  IdentifyListener = FALSE
  MaxRequests = 3
  MaxChunk = 2
  MaxAppActs = 1
INVARIANTS
  WritesAnswered
CHECK_DEADLOCK FALSE
