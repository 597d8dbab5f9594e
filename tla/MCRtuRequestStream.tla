------------------------- MODULE MCRtuRequestStream -------------------------
(* RtuRequestStream on small instances.                                      *)
EXTENDS RtuRequestStream

\* Five-byte frames: address, function code, one data byte, CRC.  The address
\* is a legal function code too (device 1 to 6, say).  A device identification
\* has four bytes here, and its address is the code 0x2B itself.
ShortFrame == <<5, 5, 0, 0, 0>>
ShortIdentify == <<4, 4, 0, 0>>
ShortFrames == <<ShortFrame, ShortFrame, ShortIdentify, ShortFrame>>
OneFrame == <<ShortFrame>>
ShortBursts == {<<0>>, <<5>>, <<0, 9>>, <<4>>}
ShortChunks == 1..6

\* A device identification, then two other requests, which come in two pieces.
EightBytes == <<8, 8, 0, 0, 0, 0, 0, 0>>
IdentifyFirst == <<ShortIdentify, EightBytes, EightBytes>>
FourBytes == {4}

\* Read one holding register at address 1 of device 1: 01 03 00 01 00 01 D5 CA.
\* 01 and 03 are function codes of eight-byte requests.  The burst is the first
\* half of such a frame, broken off on the line.
ReadFrame == << <<8, 8, 0, 8, 0, 8, 0, 0>> >>
HalfFrame == {<<8, 8, 0, 8>>}
NoBursts == {}
WholeFrames == {8, 12}
=============================================================================
