------------------------------ MODULE ModbusPdu -----------------------------
(* The encodings: request and response bodies, and the TCP and RTU frames    *)
(* around them, as sequences of bytes.  Each class of the code has a         *)
(* fromBuffer, here an operator that gives the body or Null, and a           *)
(* createPayload.  A fromBuffer that throws gives Null: its caller catches.  *)
(*                                                                           *)
(* Bytes are numbered from 1, so readUInt8(i) is b[i + 1].                   *)
EXTENDS Integers, Sequences, SequencesExt, FiniteSetsExt

CONSTANTS
  MaxQuantity,     \* the most cells a read may ask for, 0x7D0
  MaxRegisters,    \* the most registers a write may bring, 0x7B
  MaxWriteCount,   \* where the byteCount of such a write is cut off, 0xF6
  MaxPackedCoils,  \* how many coils of an array are packed, 1968
  Crc(_)           \* CRC.crc16modbus

ASSUME LimitAssumption ==
  /\ {MaxQuantity, MaxRegisters, MaxWriteCount, MaxPackedCoils} \subseteq Nat
  /\ MaxPackedCoils % 8 = 0
  /\ MaxWriteCount % 2 = 0 /\ MaxWriteCount \in 6..(2 * MaxRegisters + 6)

-----------------------------------------------------------------------------
FC == [READ_COIL |-> 1, READ_DISCRETE_INPUT |-> 2, READ_HOLDING_REGISTERS |-> 3,
       READ_INPUT_REGISTERS |-> 4, WRITE_SINGLE_COIL |-> 5,
       WRITE_SINGLE_HOLDING_REGISTER |-> 6, WRITE_MULTIPLE_COILS |-> 15,
       WRITE_MULTIPLE_HOLDING_REGISTERS |-> 16, READ_DEVICE_IDENTIFICATION |-> 43]
FunctionCodes == {FC[name] : name \in DOMAIN FC}
Null == [fc |-> 0]

\* writeUInt16BE and readUInt16BE; subarray, which stops where the buffer ends.
Word(x) == <<x \div 256, x % 256>>
Uint16(b, i) == 256 * b[i] + b[i + 1]
Part(b, from, n) == SubSeq(b, from, Min({from + n - 1, Len(b)}))

Octets(n) == (n + 7) \div 8
\* The value of each bit of a byte, the powers of two; i is the number of a coil.
Power == <<1, 2, 4, 8, 16, 32, 64, 128>>
Weight(i) == Power[1 + ((i - 1) % 8)]
\* Mutant: the first coil in the highest bit.
Bits_HighFirst(bytes) ==
  [i \in 1..8 * Len(bytes) |-> (bytes[(i + 7) \div 8] \div Weight(9 - i)) % 2 = 1]
\* bufferToArrayStatus and arrayStatusToBuffer: the first coil is the lowest bit.
Bits(bytes) ==
  [i \in 1..8 * Len(bytes) |-> (bytes[(i + 7) \div 8] \div Weight(i)) % 2 = 1]
Packed(bits) ==
  LET bit(i) == IF i \in DOMAIN bits /\ bits[i] THEN Weight(i) ELSE 0
  IN [k \in 1..Octets(Len(bits)) |->
        bit(8 * k - 7) + bit(8 * k - 6) + bit(8 * k - 5) + bit(8 * k - 4) +
        bit(8 * k - 3) + bit(8 * k - 2) + bit(8 * k - 1) + bit(8 * k)]

-----------------------------------------------------------------------------
(* Request bodies.                                                           *)
ReadRequest(b, fc) ==
  IF Len(b) >= 5 /\ b[1] = fc /\ Uint16(b, 4) <= MaxQuantity
  THEN [fc |-> fc, at |-> Uint16(b, 2), n |-> Uint16(b, 4)] ELSE Null
ReadCoilsRequest(b) == ReadRequest(b, FC.READ_COIL)
ReadDiscreteInputsRequest(b) == ReadRequest(b, FC.READ_DISCRETE_INPUT)
ReadHoldingRegistersRequest(b) == ReadRequest(b, FC.READ_HOLDING_REGISTERS)
ReadInputRegistersRequest(b) == ReadRequest(b, FC.READ_INPUT_REGISTERS)

ReadPayload(body) == <<body.fc>> \o Word(body.at) \o Word(body.n)
ReadCoilsPayload(body) == ReadPayload(body)
ReadDiscreteInputsPayload(body) == ReadPayload(body)
ReadHoldingRegistersPayload(body) == ReadPayload(body)
ReadInputRegistersPayload(body) == ReadPayload(body)

On == 65280  \* 0xFF00
WriteSingleCoilRequest(b) ==
  IF Len(b) >= 5
  THEN [fc |-> b[1], at |-> Uint16(b, 2), value |-> IF Uint16(b, 4) = On THEN On ELSE 0]
  ELSE Null
WriteSingleRegisterRequest(b) ==
  IF Len(b) >= 5 THEN [fc |-> b[1], at |-> Uint16(b, 2), value |-> Uint16(b, 4)] ELSE Null
WritePayload(body) == <<body.fc>> \o Word(body.at) \o Word(body.value)
WriteSingleCoilPayload(body) == WritePayload(body)
WriteSingleRegisterPayload(body) == WritePayload(body)

\* A quantity of 0 becomes the number of bytes.
WriteMultipleCoilsRequest(b) ==
  IF Len(b) < 6 THEN Null ELSE
  LET values == Part(b, 7, b[6])
      quantity == IF Uint16(b, 4) = 0 THEN Len(values) ELSE Uint16(b, 4)
  IN IF 8 * Len(values) < Uint16(b, 4) THEN Null
     ELSE [fc |-> b[1], at |-> Uint16(b, 2), coils |-> SubSeq(Bits(values), 1, quantity)]

\* Coils beyond the limit are not packed: their bytes, fresh from allocUnsafe,
\* hold whatever the memory held.
WriteMultipleCoilsPayload(body, memory) ==
  LET size == Octets(Len(body.coils))
      packed == Packed(Part(body.coils, 1, MaxPackedCoils))
  IN <<body.fc>> \o Word(body.at) \o Word(Len(body.coils)) \o <<size>> \o
     [k \in 1..size |-> IF k <= Len(packed) THEN packed[k] ELSE memory]

Registers(bytes) == [i \in 1..Len(bytes) \div 2 |-> Uint16(bytes, 2 * i - 1)]
\* The values are those that have arrived; neither the quantity nor the byte
\* count is compared with them.  An odd number of bytes throws.
WriteMultipleRegistersRequest(b) ==
  IF Len(b) < 6 THEN Null ELSE
  LET values == Part(b, 7, b[6])
  IN IF Len(values) > 2 * MaxRegisters \/ Len(values) % 2 = 1 THEN Null
     ELSE [fc |-> b[1], at |-> Uint16(b, 2), registers |-> Registers(values)]
WriteMultipleRegistersPayload(body) ==
  <<body.fc>> \o Word(body.at) \o Word(Len(body.registers)) \o
  <<2 * Len(body.registers)>> \o FlattenSeq([i \in DOMAIN body.registers |-> Word(body.registers[i])])

ReadDeviceIdentificationRequest(b) ==
  IF Len(b) >= 4 THEN [fc |-> b[1], selector |-> Part(b, 2, 3)] ELSE Null
ReadDeviceIdentificationPayload(body) == <<body.fc>> \o body.selector

\* The constructor refuses every code that is not one of FC.
ExceptionRequest(fc) == IF fc \in FunctionCodes THEN [fc |-> fc, code |-> 1] ELSE Null

\* RequestFactory.fromBuffer.
RequestBody(b) ==
  IF b = <<>> THEN Null ELSE
  CASE b[1] = FC.READ_COIL -> ReadCoilsRequest(b)
    [] b[1] = FC.READ_DISCRETE_INPUT -> ReadDiscreteInputsRequest(b)
    [] b[1] = FC.READ_HOLDING_REGISTERS -> ReadHoldingRegistersRequest(b)
    [] b[1] = FC.READ_INPUT_REGISTERS -> ReadInputRegistersRequest(b)
    [] b[1] = FC.READ_DEVICE_IDENTIFICATION -> ReadDeviceIdentificationRequest(b)
    [] b[1] = FC.WRITE_SINGLE_COIL -> WriteSingleCoilRequest(b)
    [] b[1] = FC.WRITE_SINGLE_HOLDING_REGISTER -> WriteSingleRegisterRequest(b)
    [] b[1] = FC.WRITE_MULTIPLE_COILS -> WriteMultipleCoilsRequest(b)
    [] b[1] = FC.WRITE_MULTIPLE_HOLDING_REGISTERS -> WriteMultipleRegistersRequest(b)
    [] OTHER -> ExceptionRequest(b[1])

\* createPayload of whichever class the body is of.  A body with raw bytes
\* comes from other software.
RequestPayload(body, memory) ==
  IF "raw" \in DOMAIN body THEN <<body.fc>> \o body.raw ELSE
  CASE body.fc = FC.READ_COIL -> ReadCoilsPayload(body)
    [] body.fc = FC.READ_DISCRETE_INPUT -> ReadDiscreteInputsPayload(body)
    [] body.fc = FC.READ_HOLDING_REGISTERS -> ReadHoldingRegistersPayload(body)
    [] body.fc = FC.READ_INPUT_REGISTERS -> ReadInputRegistersPayload(body)
    [] body.fc = FC.READ_DEVICE_IDENTIFICATION -> ReadDeviceIdentificationPayload(body)
    [] body.fc = FC.WRITE_SINGLE_COIL -> WriteSingleCoilPayload(body)
    [] body.fc = FC.WRITE_SINGLE_HOLDING_REGISTER -> WriteSingleRegisterPayload(body)
    [] body.fc = FC.WRITE_MULTIPLE_COILS -> WriteMultipleCoilsPayload(body, memory)
    [] body.fc = FC.WRITE_MULTIPLE_HOLDING_REGISTERS -> WriteMultipleRegistersPayload(body)

\* byteCount: the length of the payload, cut off for a write of many registers.
RequestByteCount(body, payload) ==
  IF "registers" \in DOMAIN body THEN Min({Len(payload), MaxWriteCount}) ELSE Len(payload)

-----------------------------------------------------------------------------
(* Response bodies.  A read response holds the bytes it brings.              *)

\* Mutant: the length is not checked.
BitsResponse_Unchecked(b) ==
  IF Len(b) >= 2 THEN [fc |-> b[1], data |-> Part(b, 3, b[2])] ELSE Null
BitsResponse(b) ==
  IF Len(b) >= 2 /\ Len(b) >= 2 + b[2] THEN [fc |-> b[1], data |-> Part(b, 3, b[2])] ELSE Null
ReadCoilsResponse(b) == BitsResponse(b)
ReadDiscreteInputsResponse(b) == BitsResponse(b)
\* The bytes that have arrived, however many were announced.
ReadHoldingRegistersResponse(b) ==
  IF Len(b) >= 2 THEN [fc |-> b[1], data |-> Part(b, 3, b[2])] ELSE Null
\* Registers are read up to the announced byte count: none may be missing.
ReadInputRegistersResponse(b) ==
  IF Len(b) >= 2 /\ b[2] % 2 = 0 /\ Len(b) >= 2 + b[2]
  THEN [fc |-> b[1], data |-> Part(b, 3, b[2])] ELSE Null

DataPayload(body) == <<body.fc, Len(body.data)>> \o body.data
ReadCoilsResponsePayload(body) == DataPayload(body)
ReadDiscreteInputsResponsePayload(body) == DataPayload(body)
ReadHoldingRegistersResponsePayload(body) == DataPayload(body)
ReadInputRegistersResponsePayload(body) == DataPayload(body)

WriteSingleCoilResponse(b) ==
  IF Len(b) >= 5
  THEN [fc |-> b[1], at |-> Uint16(b, 2), value |-> IF Uint16(b, 4) = On THEN On ELSE 0]
  ELSE Null
WriteSingleRegisterResponse(b) ==
  IF Len(b) >= 5 THEN [fc |-> b[1], at |-> Uint16(b, 2), value |-> Uint16(b, 4)] ELSE Null
WriteMultipleCoilsResponse(b) ==
  IF Len(b) >= 5 THEN [fc |-> b[1], at |-> Uint16(b, 2), n |-> Uint16(b, 4)] ELSE Null
WriteMultipleRegistersResponse(b) ==
  IF Len(b) >= 5 THEN [fc |-> b[1], at |-> Uint16(b, 2), n |-> Uint16(b, 4)] ELSE Null
WriteSingleCoilResponsePayload(body) == WritePayload(body)
WriteSingleRegisterResponsePayload(body) == WritePayload(body)
WriteMultipleCoilsResponsePayload(body) == ReadPayload(body)
WriteMultipleRegistersResponsePayload(body) == ReadPayload(body)

\* Behind seven bytes of header, objects of an id, a length and a value.
\* end[i] is where the i-th object ends, 0 when the buffer does not reach it.
ReadDeviceIdentificationResponse(b) ==
  IF Len(b) < 7 THEN Null ELSE
  LET end[i \in 0..b[7]] ==
        IF i = 0 THEN 7
        ELSE LET from == end[i - 1]
             IN IF from = 0 \/ from + 2 > Len(b) \/ from + 2 + b[from + 2] > Len(b) THEN 0
                ELSE from + 2 + b[from + 2]
  IN IF end[b[7]] = 0 THEN Null
     ELSE [fc |-> b[1], header |-> Part(b, 2, 5),
           objects |-> [i \in 1..b[7] |-> SubSeq(b, end[i - 1] + 1, end[i])]]
IdentificationPayload(body) ==
  <<body.fc>> \o body.header \o <<Len(body.objects)>> \o FlattenSeq(body.objects)

\* A device identification is refused in three bytes (MEI type and code) or in
\* two, like everything else: the number of bytes at hand decides.
ExceptionResponse(b) ==
  LET fc == b[1] - 128
  IN CASE fc \notin FunctionCodes \/ Len(b) < 2 -> Null
       [] fc = FC.READ_DEVICE_IDENTIFICATION /\ Len(b) >= 3 ->
            [fc |-> b[1], meiType |-> b[2], code |-> b[3]]
       [] OTHER -> [fc |-> b[1], code |-> b[2]]
ExceptionPayload(body) ==
  IF "meiType" \in DOMAIN body THEN <<body.fc, body.meiType, body.code>> ELSE <<body.fc, body.code>>

\* ResponseFactory.fromBuffer.
ResponseBody(b) ==
  IF b = <<>> THEN Null ELSE
  CASE b[1] > 128 -> ExceptionResponse(b)
    [] b[1] = FC.READ_COIL -> ReadCoilsResponse(b)
    [] b[1] = FC.READ_DISCRETE_INPUT -> ReadDiscreteInputsResponse(b)
    [] b[1] = FC.READ_HOLDING_REGISTERS -> ReadHoldingRegistersResponse(b)
    [] b[1] = FC.READ_INPUT_REGISTERS -> ReadInputRegistersResponse(b)
    [] b[1] = FC.READ_DEVICE_IDENTIFICATION -> ReadDeviceIdentificationResponse(b)
    [] b[1] = FC.WRITE_SINGLE_COIL -> WriteSingleCoilResponse(b)
    [] b[1] = FC.WRITE_SINGLE_HOLDING_REGISTER -> WriteSingleRegisterResponse(b)
    [] b[1] = FC.WRITE_MULTIPLE_COILS -> WriteMultipleCoilsResponse(b)
    [] b[1] = FC.WRITE_MULTIPLE_HOLDING_REGISTERS -> WriteMultipleRegistersResponse(b)
    [] OTHER -> Null

ResponsePayload(body) ==
  IF "raw" \in DOMAIN body THEN <<body.fc>> \o body.raw ELSE
  CASE body.fc > 128 -> ExceptionPayload(body)
    [] body.fc = FC.READ_COIL -> ReadCoilsResponsePayload(body)
    [] body.fc = FC.READ_DISCRETE_INPUT -> ReadDiscreteInputsResponsePayload(body)
    [] body.fc = FC.READ_HOLDING_REGISTERS -> ReadHoldingRegistersResponsePayload(body)
    [] body.fc = FC.READ_INPUT_REGISTERS -> ReadInputRegistersResponsePayload(body)
    [] body.fc = FC.READ_DEVICE_IDENTIFICATION -> IdentificationPayload(body)
    [] body.fc = FC.WRITE_SINGLE_COIL -> WriteSingleCoilResponsePayload(body)
    [] body.fc = FC.WRITE_SINGLE_HOLDING_REGISTER -> WriteSingleRegisterResponsePayload(body)
    [] body.fc = FC.WRITE_MULTIPLE_COILS -> WriteMultipleCoilsResponsePayload(body)
    [] body.fc = FC.WRITE_MULTIPLE_HOLDING_REGISTERS -> WriteMultipleRegistersResponsePayload(body)

-----------------------------------------------------------------------------
(* Frames.  consumed is what the parser's caller takes off the buffer.       *)

\* ModbusTCPRequest: what does not fit in byteCount is left out.
TcpRequestPayload(id, unit, body, memory) ==
  LET payload == RequestPayload(body, memory)
      size == RequestByteCount(body, payload)
  IN Word(id) \o Word(0) \o Word(size + 1) \o <<unit>> \o Part(payload, 1, size)
TcpResponsePayload(id, unit, body) ==
  LET payload == ResponsePayload(body)
  IN Word(id) \o Word(0) \o Word(Len(payload) + 1) \o <<unit>> \o payload

TcpFrame(b, body) == [id |-> Uint16(b, 1), unit |-> b[7], body |-> body, consumed |-> Uint16(b, 5) + 6]
TcpBody(b) == Part(b, 8, Uint16(b, 5) - 1)
TcpRequest(b) ==
  IF Len(b) < 7 \/ RequestBody(TcpBody(b)) = Null THEN Null ELSE TcpFrame(b, RequestBody(TcpBody(b)))
TcpResponse(b) ==
  IF Len(b) < 7 \/ ResponseBody(TcpBody(b)) = Null THEN Null ELSE TcpFrame(b, ResponseBody(TcpBody(b)))

RtuResponsePayload(unit, body) ==
  LET frame == <<unit>> \o ResponsePayload(body)
  IN frame \o <<Crc(frame) % 256, Crc(frame) \div 256>>
\* Mutant: byteCount leaves the CRC in the buffer.
RtuResponse_CrcLeft(b) ==
  IF b = <<>> THEN Null ELSE
  LET body == ResponseBody(Tail(b))
      size == IF body = Null THEN 0 ELSE 1 + Len(ResponsePayload(body))
  IN IF body = Null \/ Len(b) < size + 2 THEN Null
     ELSE [unit |-> b[1], body |-> body, crc |-> b[size + 1] + 256 * b[size + 2], consumed |-> size]
\* The body takes what it needs of the rest; the CRC must follow it.
RtuResponse(b) ==
  IF b = <<>> THEN Null ELSE
  LET body == ResponseBody(Tail(b))
      size == IF body = Null THEN 0 ELSE 1 + Len(ResponsePayload(body))
  IN IF body = Null \/ Len(b) < size + 2 THEN Null
     ELSE [unit |-> b[1], body |-> body, crc |-> b[size + 1] + 256 * b[size + 2], consumed |-> size + 2]
\* ModbusRTUClientRequestHandler compares the CRC with that of the same body
\* encoded again.
Intact(frame) == frame.crc = Crc(<<frame.unit>> \o ResponsePayload(frame.body))
=============================================================================
