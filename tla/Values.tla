------------------------------- MODULE Values -------------------------------
(***************************************************************************)
(* How values cross the driver: the data types, the functions records may   *)
(* name, and what the handlers do with the bytes of a variable.  A record   *)
(* is read in two ways, by the handler registered for its function when it  *)
(* is polled and by the dispatch in performIOIntr with SCAN=I/O Intr, and    *)
(* both choose a C type for the bytes.                                      *)
(*                                                                         *)
(* The contents of a variable are its bytes as one number, the first byte   *)
(* the lowest; a byte has Byte values.  REAL and LREAL have the same type   *)
(* on every path and are left out.                                          *)
(***************************************************************************)
EXTENDS Integers

CONSTANT Byte  \* number of values of a byte

ASSUME ByteAssumption == Byte \in Nat /\ Byte > 1

OneByte   == {"BOOL", "SINT", "BYTE", "USINT"}
TwoBytes  == {"INT", "WORD", "UINT"}
FourBytes == {"DWORD", "DINT", "UDINT"}
IntegerTypes == OneByte \cup TwoBytes \cup FourBytes \cup {"LINT"}

\* ads_datatype_sizes.
Size == [t \in IntegerTypes \cup {"STRING"} |->
           CASE t \in TwoBytes -> 2 [] t \in FourBytes -> 4
             [] t = "LINT" -> 8 [] OTHER -> 1]

\* The integer types of C.
Signed(n)   == [size |-> n, signed |-> TRUE]
Unsigned(n) == [size |-> n, signed |-> FALSE]

\* The functions with a handler: the type alone, with _digi or with [].
Function ==
  [type : IntegerTypes, form : {"value"}]
    \cup [type : {"BOOL", "BYTE", "USINT", "WORD", "UINT", "DWORD", "UDINT"},
          form : {"digi"}]
    \cup [type : IntegerTypes \ {"DWORD"}, form : {"array"}]
    \cup [type : {"STRING"}, form : {"string"}]

-----------------------------------------------------------------------------
\* (wrong) A signed handler for WORD.
HandledSigned(t) ==
  CASE t \in {"BOOL", "SINT", "BYTE"} -> Signed(1)  [] t = "USINT" -> Unsigned(1)
    [] t \in {"INT", "WORD"}          -> Signed(2)  [] t = "UINT"  -> Unsigned(2)
    [] t = "DINT"                     -> Signed(4)  [] t = "LINT"  -> Signed(8)
    [] OTHER                          -> Unsigned(4)

\* The PLCDataType of integerRead and integerWrite as they are registered.
Handled(t) ==
  CASE t \in {"BOOL", "SINT", "BYTE"} -> Signed(1)  [] t = "USINT" -> Unsigned(1)
    [] t = "INT"                      -> Signed(2)
    [] t \in {"WORD", "UINT"}         -> Unsigned(2)
    [] t = "DINT"                     -> Signed(4)  [] t = "LINT"  -> Signed(8)
    [] t \in {"DWORD", "UDINT"}       -> Unsigned(4)

\* That of integerRead in performIOIntr.
Published(t) ==
  CASE t \in {"BOOL", "BYTE", "SINT"} -> Signed(1)  [] t = "USINT" -> Unsigned(1)
    [] t = "INT"                      -> Signed(2)
    [] t \in {"WORD", "UINT"}         -> Unsigned(2)
    [] t = "DINT"                     -> Signed(4)  [] t = "LINT"  -> Signed(8)
    [] t \in {"DWORD", "UDINT"}       -> Unsigned(8)

\* That of digitalRead and digitalWrite, registered and in performIOIntr.
Digital(t) ==
  CASE t \in {"BOOL", "BYTE", "USINT"} -> Unsigned(1)
    [] t \in {"WORD", "UINT"}          -> Unsigned(2)
    [] t \in {"DWORD", "UDINT"}        -> Unsigned(4)

\* The epicsDataType of the registered handler, and of performIOIntr.
Epics(t) == IF t \in {"DWORD", "UDINT", "LINT"} THEN Signed(8) ELSE Signed(4)

-----------------------------------------------------------------------------
\* The number of values of n bytes.
Power[n \in Nat] == IF n = 0 THEN 1 ELSE Byte * Power[n - 1]

Low(content, bytes) == content % Power[bytes]

\* A number of a C type, from its bytes.
Number(c, content) ==
  IF c.signed /\ 2 * content >= Power[c.size] THEN content - Power[c.size]
                                              ELSE content

\* read_from_buffer fills a local variable of type c with the bytes there are;
\* what the others hold (junk) was not initialised.
LocalBytes(c, content, bytes, junk) ==
  LET n == IF bytes < c.size THEN bytes ELSE c.size
  IN Low(content, n) + Power[n] * Low(junk, c.size - n)

\* integerRead: the local variable, converted to the type of the record.
IntegerRead(c, e, content, bytes, junk) ==
  Number(e, Low(Number(c, LocalBytes(c, content, bytes, junk)), e.size))

\* digitalRead with a mask that keeps the lowest bytes.
DigitalRead(c, kept, content, bytes, junk) ==
  Low(LocalBytes(c, content, bytes, junk), kept)

\* integerWrite, digitalWrite with the mask 0xFFFFFFFF: the low bytes of the value.
IntegerWrite(c, val) == Low(val, c.size)

\* arrayRead with room for all elements, stringRead: the bytes of the variable.
ArrayRead(content, bytes)  == Low(content, bytes)
StringRead(content, bytes) == Low(content, bytes)

-----------------------------------------------------------------------------
\* (wrong) Every mask is 0xFFFF.
PolledMasked(f, content, bytes) ==
  CASE f.form = "value"  -> IntegerRead(Handled(f.type), Epics(f.type), content, bytes, 0)
    [] f.form = "digi"   -> DigitalRead(Digital(f.type), 2, content, bytes, 0)
    [] f.form = "array"  -> ArrayRead(content, bytes)
    [] f.form = "string" -> StringRead(content, bytes)

\* A record of function f that is polled.
PolledValue(f, content, bytes) ==
  CASE f.form = "value"  -> IntegerRead(Handled(f.type), Epics(f.type), content, bytes, 0)
    [] f.form = "digi"   -> DigitalRead(Digital(f.type), 4, content, bytes, 0)
    [] f.form = "array"  -> ArrayRead(content, bytes)
    [] f.form = "string" -> StringRead(content, bytes)

\* What performIOIntr publishes of it, unless it is an array; the mask is 0xFFFF
\* whatever the record's.
PublishedValue(f, content, bytes, junk) ==
  CASE f.form = "value"  -> IntegerRead(Published(f.type), Epics(f.type), content, bytes, junk)
    [] f.form = "digi"   -> DigitalRead(Digital(f.type), 2, content, bytes, junk)
    [] f.form = "string" -> StringRead(content, bytes)

\* What a write handler makes of a value.
WrittenAs(f) == IF f.form = "digi" THEN Digital(f.type) ELSE Handled(f.type)

=============================================================================
