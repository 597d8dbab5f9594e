---------------------------- MODULE MCByteStream ----------------------------
(* ByteStream on a small instance.                                           *)
EXTENDS ByteStream

\* Some function of all bytes and their order.
MCCrc(bytes) == FoldLeft(LAMBDA c, x : (31 * c + x + 7) % 65536, 65535, bytes)
MCMemory == {0, 255}

\* With limits of 4 cells to read, 3 registers to write (2 fit in byteCount)
\* and 8 packed coils, the second write of coils and the second write of
\* registers are too long for their encodings.  The last two never parse.
RequestBodies ==
  {[fc |-> 1, at |-> 258, n |-> 3], [fc |-> 2, at |-> 0, n |-> 4],
   [fc |-> 3, at |-> 65535, n |-> 1], [fc |-> 4, at |-> 1, n |-> 2],
   [fc |-> 5, at |-> 1, value |-> On], [fc |-> 5, at |-> 0, value |-> 255],
   [fc |-> 6, at |-> 1, value |-> 772],
   [fc |-> 15, at |-> 1, coils |-> <<TRUE, FALSE, FALSE>>],
   [fc |-> 15, at |-> 0, coils |-> [i \in 1..9 |-> i % 2 = 1]],
   [fc |-> 16, at |-> 1, registers |-> <<258, 772>>],
   [fc |-> 16, at |-> 0, registers |-> <<1, 2, 3>>],
   [fc |-> 43, selector |-> <<14, 1, 0>>],
   [fc |-> 3, at |-> 0, n |-> 5],
   [fc |-> 7, raw |-> <<>>]}

\* Answers, exceptions in their three layouts, half a register, an unknown
\* function code.
ResponseBodies ==
  {[fc |-> 1, data |-> <<255, 1>>],
   [fc |-> 2, data |-> <<5>>],
   [fc |-> 3, data |-> <<1, 2, 3, 4>>],
   [fc |-> 4, data |-> <<7, 8>>],
   [fc |-> 5, at |-> 1, value |-> On], [fc |-> 5, at |-> 0, value |-> 255],
   [fc |-> 6, at |-> 1, value |-> 772],
   [fc |-> 15, at |-> 1, n |-> 3],
   [fc |-> 16, at |-> 1, n |-> 2],
   [fc |-> 43, header |-> <<14, 1, 1, 0, 0>>, objects |-> << <<0, 1, 65>>, <<1, 0>> >>],
   [fc |-> 131, code |-> 2],
   [fc |-> 171, meiType |-> 14, code |-> 1],
   [fc |-> 171, code |-> 1],
   [fc |-> 4, data |-> <<7>>],
   [fc |-> 7, raw |-> <<0>>]}

AllReaders == {"tcpServer", "tcpClient", "rtuClient"}

\* Bodies that do not arrive as they were sent, though the library makes them.
TooManyRegisters == [fc |-> 16, at |-> 0, registers |-> <<1, 2, 3>>]
TooManyCoils == [fc |-> 15, at |-> 0, coils |-> [i \in 1..9 |-> i % 2 = 1]]
TwoRegisters == [fc |-> 16, at |-> 1, registers |-> <<258, 772>>]
TwoRead == [fc |-> 3, data |-> <<1, 2, 3, 4>>]
LongRefusal == [fc |-> 171, meiType |-> 14, code |-> 1]
ShortRefusal == [fc |-> 171, code |-> 1]
\* And one another master may make.
NeitherOnNorOff == [fc |-> 5, at |-> 0, value |-> 255]
Misread == [r \in AllReaders |->
  CASE r = "tcpServer" -> {TooManyRegisters, TooManyCoils, TwoRegisters, NeitherOnNorOff}
    [] r = "tcpClient" -> {TwoRead, LongRefusal}
    [] r = "rtuClient" -> {ShortRefusal}]

MCMessages == [r \in AllReaders |-> IF r = "tcpServer" THEN RequestBodies ELSE ResponseBodies]
=============================================================================
