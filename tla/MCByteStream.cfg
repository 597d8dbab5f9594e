SPECIFICATION Spec
CONSTANTS
  MaxQuantity = 4
  MaxRegisters = 3
  MaxWriteCount = 10
  MaxPackedCoils = 8
  Crc <- MCCrc
  Readers <- AllReaders
  Messages <- MCMessages
  Memory <- MCMemory
  MaxMessages = 2
  MaxWire = 34
  MaxConns = 2
INVARIANTS
  TypeOK
  ParsedWhole
  ValuesAsAsked
  NothingHeldBack
  ConnectionsSeparate
PROPERTIES
  StuckForGood
CHECK_DEADLOCK FALSE
