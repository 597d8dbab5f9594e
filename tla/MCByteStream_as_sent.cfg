SPECIFICATION Spec
CONSTANTS
  MaxQuantity = 4
  MaxRegisters = 3
  MaxWriteCount = 10
  MaxPackedCoils = 8
  Crc <- MCCrc
  Readers <- AllReaders
  Messages <- Misread
  Memory <- MCMemory
  MaxMessages = 1
  MaxWire = 34
  MaxConns = 1
INVARIANTS
  ArrivesAsSent
CHECK_DEADLOCK FALSE
