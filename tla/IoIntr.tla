------------------------------- MODULE IoIntr -------------------------------
(***************************************************************************)
(* What performIOIntr publishes of a variable of the PLC to a record with   *)
(* SCAN=I/O Intr, for every function a record can name, and what an output  *)
(* record of the same function writes to it.  Scalars and strings go        *)
(* through the parameters of asyn, which call back when value or status     *)
(* change; arrays are called back by performArrayCallbacks when the hash of *)
(* the data does.  Of the life of the variable there are the sweeps of the  *)
(* scan thread, and the program of the PLC, which changes it, removes it or *)
(* brings it back at any time.                                              *)
(***************************************************************************)
EXTENDS Values

CONSTANTS
  Functions,  \* the functions the record may have
  NElem,      \* N= of an array or a string
  Samples,    \* contents of the variable: the three of Sample
  HashSize    \* number of values of epicsMemHash

ASSUME FunctionsAssumption == Functions \subseteq Function
ASSUME SamplesAssumption == Samples \subseteq {"zero", "half", "top"}
ASSUME SizesAssumption == NElem \in Nat \ {0} /\ HashSize \in Nat \ {0}

VARIABLES
  func,    \* the function of the record
  plc,     \* the variable in the PLC, and whether it can be read
  buf,     \* its data and the result of its read in the sum-read buffer
  hash,    \* ADSVariable::array_data_hash
  called,  \* the record has been called back
  shown,   \* what it shows, and whether it is free of an alarm
  asked,   \* the value last written by a record, or NoValue
  scan     \* the scan thread: "sweep", "publish"

vars == <<func, plc, buf, hash, called, shown, asked, scan>>

\* epicsMemHash stands for any function that maps different contents to one hash.
Hash(content) == content % HashSize
Hashes == 0 .. HashSize - 1

IsArray == func.form = "array"

\* ADSVariable::size, a product in 32 bits.
Bytes(f) == Low(Size[f.type] * (IF f.form \in {"array", "string"} THEN NElem ELSE 1), 4)

\* Zero, the smallest negative number and -1 of a signed type of that size.
Sample(f, i) == CASE i = "zero" -> 0
                  [] i = "half" -> Power[Bytes(f)] \div 2
                  [] i = "top"  -> Power[Bytes(f)] - 1

Contents == {Sample(func, i) : i \in Samples}

Reading(contents) == [data : contents, ok : BOOLEAN]

\* No value of a record is a single 0 of no bytes.
NoValue == [data |-> 0, bytes |-> 0]

\* array_data_hash is not initialised.
Init ==
  /\ func \in Functions
  /\ plc \in Reading(Contents) /\ buf = plc
  /\ hash \in IF IsArray THEN Hashes ELSE {Hash(0)}
  /\ called = FALSE /\ shown = [data |-> 0, ok |-> FALSE]
  /\ asked = NoValue /\ scan = "sweep"

\* The program changes the variable, a download removes it or brings it back.
ProgramStep ==
  /\ plc' \in Reading(Contents)
  /\ asked' = NoValue
  /\ UNCHANGED <<func, buf, hash, called, shown, scan>>

\* An output record writes val.  (ADSVariable::write refuses what is too long.)
WriteScalar(val) ==
  /\ plc.ok /\ func.form \in {"value", "digi"}
  /\ WrittenAs(func).size <= Bytes(func)
  /\ plc' = [plc EXCEPT !.data = IntegerWrite(WrittenAs(func), val)]
  /\ asked' = [data |-> val, bytes |-> Bytes(func)]
  /\ UNCHANGED <<func, buf, hash, called, shown, scan>>

\* arrayWrite and stringWrite send NElem elements, as many bytes as size() says, from
\* where the record keeps its data.  Those beyond the elements the record has (tail)
\* are what is there.
WriteElements(n, val, tail) ==
  /\ plc.ok /\ func.form \in {"array", "string"}
  /\ LET bytes == n * Size[func.type]
         taken == IF bytes < Bytes(func) THEN bytes ELSE Bytes(func)
     IN /\ plc' = [plc EXCEPT !.data =
                     Low(Low(val, bytes) + Power[bytes] * tail, Bytes(func))]
        /\ asked' = [data |-> Low(val, taken), bytes |-> taken]
  /\ UNCHANGED <<func, buf, hash, called, shown, scan>>

\* The sum-read succeeds; for a variable that cannot be read, the device puts an
\* error code into the results and anything into the data.
SumRead ==
  /\ scan = "sweep"
  /\ buf' \in {plc} \cup {b \in Reading(Contents) : ~plc.ok /\ ~b.ok}
  /\ scan' = "publish"
  /\ UNCHANGED <<func, plc, hash, called, shown, asked>>

-----------------------------------------------------------------------------
\* (wrong) A failed read resets the hash.
HashIfRead == IF buf.ok THEN Hash(buf.data) ELSE -1

\* updateDataHash. read_from_buffer has copied the data before it looks at the
\* result: the hash is that of the data in the buffer in any case.
NewHash == Hash(buf.data)

HashChanged == NewHash # hash

\* (wrong) Data of a failed read are not worth a callback.
PublishIfRead ==
  /\ hash' = NewHash
  /\ called' = (called \/ (HashChanged /\ buf.ok))
  /\ shown' = IF HashChanged /\ buf.ok THEN buf ELSE shown

\* (wrong) The hash is stored with the first data only.
PublishOnce ==
  /\ hash' = IF called THEN hash ELSE NewHash
  /\ called' = (called \/ HashChanged)
  /\ shown' = IF HashChanged THEN buf ELSE shown

\* performArrayCallbacks.
PublishArray ==
  /\ hash' = NewHash
  /\ called' = (called \/ HashChanged)
  /\ shown' = IF HashChanged THEN buf ELSE shown

\* setParam and callParamCallbacks: value and status arrive whenever they change.
\* (The value that goes with a failed read does not matter here.)
PublishScalar(junk) ==
  /\ shown' = IF buf.ok
                THEN [data |-> PublishedValue(func, buf.data, Bytes(func), junk), ok |-> TRUE]
                ELSE [shown EXCEPT !.ok = FALSE]
  /\ called' = TRUE
  /\ UNCHANGED hash

\* performIOIntr for the record.
Publish(junk) ==
  /\ scan = "publish"
  /\ IF IsArray THEN PublishArray ELSE PublishScalar(junk)
  /\ scan' = "sweep"
  /\ UNCHANGED <<func, plc, buf, asked>>

\* Values of records, as unsigned and signed numbers, and some that do not fit.
RecordValues ==
  Contents \cup {d - Power[Bytes(func)] : d \in Contents} \cup {Power[Bytes(func)]}

Junk == {0, 1, Power[4] - 1}

DoPublish == \E junk \in Junk : Publish(junk)

Next ==
  \/ ProgramStep \/ SumRead \/ DoPublish
  \/ \E val \in RecordValues : WriteScalar(val)
  \/ \E n \in 0 .. NElem, val \in Contents, tail \in Contents : WriteElements(n, val, tail)

Spec == Init /\ [][Next]_vars

\* The scan thread goes on.
FairSpec == Spec /\ WF_vars(SumRead) /\ WF_vars(DoPublish)

-----------------------------------------------------------------------------
\* Types of the state.
TypeOK ==
  /\ func \in Functions
  /\ plc \in Reading(Nat) /\ buf \in Reading(Nat) /\ shown \in Reading(Int)
  /\ hash \in Hashes /\ called \in BOOLEAN /\ scan \in {"sweep", "publish"}
  /\ asked \in [data : Int, bytes : Nat]

\* (performArrayCallbacks, updateDataHash) Once it was called back, an array record
\* shows data with the hash that was stored last, read successfully or not: no
\* sequence of failing and successful reads makes it miss a change of the hash.
ArrayShowsTheHash == IsArray /\ called => Hash(shown.data) = hash

\* Of a number published as 8 bytes the 4 of the variable are right, and of a
\* number masked with 0xFFFF its 2.
RightBytes(f) == IF f.type \notin {"DWORD", "UDINT"} THEN 8
                 ELSE IF f.form = "digi" THEN 2 ELSE 4

\* The record shows the contents d as a polled record would, up to those bytes.
ShowsLikePolled(d) ==
  shown.ok /\ Low(shown.data, RightBytes(func))
                = Low(PolledValue(func, d, Bytes(func)), RightBytes(func))

\* (performIOIntr, registerHandlers) With SCAN=I/O Intr a scalar or a string shows what
\* the same record would show if it were polled: the types performIOIntr dispatches
\* to agree with those of the registered handlers, for DWORD and UDINT in the bytes
\* above.
ScalarsShowTheVariable ==
  scan = "sweep" /\ called /\ ~IsArray /\ buf.ok => ShowsLikePolled(buf.data)

\* (adsScan, performIOIntr) When the variable stays as it is and can be read, the record
\* comes to show it: an array, once it was called back, up to its hash.
RecordCatchesUp ==
  \A i \in Samples :
    LET d == Sample(func, i)
    IN <>[](plc = [data |-> d, ok |-> TRUE])
         => <>[](IF IsArray THEN called => Hash(shown.data) = Hash(d)
                            ELSE ShowsLikePolled(d))

\* The numbers a write handler does not wrap.
Fits(f, val) == Number(WrittenAs(f), IntegerWrite(WrittenAs(f), val)) = val

\* (integerWrite, digitalWrite, arrayWrite, stringWrite and their reads) What a record
\* writes is what a polled record of the function shows until somebody changes it, if
\* the C type of the handlers holds it; of an array, the elements it supplied, as far as
\* size() has room for them.
WriteReadsBack ==
  asked # NoValue =>
    IF func.form \in {"value", "digi"}
      THEN Fits(func, asked.data) => PolledValue(func, plc.data, Bytes(func)) = asked.data
      ELSE Low(plc.data, asked.bytes) = asked.data

\* (performArrayCallbacks, callParamCallbacks) An array record that was called back is
\* in alarm when a scalar record of the variable is.
ArrayLikeScalar == scan = "sweep" /\ called /\ IsArray => shown.ok = buf.ok

\* (performIOIntr) "Input records with SCAN=I/O Intr have their VAL field populated"
\* with their variable's value: the one a polled record shows.
IntrShowsTheValue ==
  scan = "sweep" /\ called /\ ~IsArray /\ buf.ok =>
    shown.data = PolledValue(func, buf.data, Bytes(func))

=============================================================================
