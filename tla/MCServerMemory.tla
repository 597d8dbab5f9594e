--------------------------- MODULE MCServerMemory ---------------------------
(* ServerMemory on a small instance.                                         *)
EXTENDS ServerMemory

CONSTANTS
  c1, c2,  \* two connections
  w0, w1   \* two register values
\* Their servers have ids 1 and 2 and share the default tables.
MCServerId == c1 :> 1 @@ c2 :> 2
\* One byte of coils; five bytes of registers, so that register 2 is cut in
\* half.  The other two tables are null.  Two registers do not fit into a
\* response: MaxByteCount is 3.
MCTables == {"coils", "holding"}
MCBytes == [coils |-> 1, holding |-> 5]
MCWords == {w0, w1}
MCAppCells == {<<"coils", 6>>}

To1(kind, at, n, vals) == [kind |-> kind, at |-> at, n |-> n, vals |-> vals, unit |-> 1]
\* Reads and writes inside the tables, across their end and beyond it, one coil
\* to be set to a value that is neither on nor off, one
\* read too long for a response, one request without a table, device
\* identification, and one for the other server.
MCRequests ==
  {To1("readCoils", 6, 4, <<>>), To1("readHolding", 0, 2, <<>>), To1("readHolding", 1, 1, <<>>),
   To1("readDiscrete", 0, 1, <<>>),
   To1("writeCoil", 7, 1, <<"FF00">>), To1("writeCoil", 7, 1, <<"00FF">>),
   To1("writeCoils", 7, 2, <<TRUE, TRUE>>),
   To1("writeRegister", 1, 1, <<w1>>), To1("writeRegister", 2, 1, <<w1>>),
   To1("writeRegisters", 1, 2, <<w1, w1>>),
   To1("identify", 0, 1, <<>>), To1("badReadCode", 0, 1, <<>>)}
  \cup {[To1("writeRegisters", 0, 2, <<w1, w0>>) EXCEPT !.unit = 2]}
=============================================================================
