---------------------------- MODULE IoIntrProofs ----------------------------
(***************************************************************************)
(* For any functions, bytes, elements and hash: what a record with           *)
(* SCAN=I/O Intr shows, and what a record that writes reads back.  The       *)
(* arithmetic is in ValuesProofs.                                           *)
(***************************************************************************)
EXTENDS IoIntr, ValuesProofs

\* performArrayCallbacks leaves the hash of what was sent last, failed read or not.
LEMMA PublishKeepsTheHash ==
  ASSUME ArrayShowsTheHash, NEW junk, Publish(junk)
  PROVE  ArrayShowsTheHash'
<1>1. func' = func /\ buf' = buf
  BY DEF Publish
<1>2. CASE IsArray
  <2>1. /\ hash' = Hash(buf.data)
        /\ called' = (called \/ HashChanged)
        /\ shown' = IF HashChanged THEN buf ELSE shown
    BY <1>2 DEF Publish, PublishArray, NewHash
  <2>2. CASE HashChanged
    BY <2>1, <2>2 DEF ArrayShowsTheHash, Hash
  <2>3. CASE ~HashChanged
    <3>1. hash' = hash /\ shown' = shown /\ (called' => called)
      BY <2>1, <2>3 DEF HashChanged, NewHash
    <3>2. QED
      BY <1>1, <3>1 DEF ArrayShowsTheHash, IsArray, Hash
  <2>4. QED
    BY <2>2, <2>3
<1>3. CASE ~IsArray
  BY <1>1, <1>3 DEF ArrayShowsTheHash, IsArray
<1>4. QED
  BY <1>2, <1>3

\* No sequence of failing and successful reads makes an array record miss a change of
\* the hash, whatever the hash is.
THEOREM ArraysFollowTheHash == Spec => []ArrayShowsTheHash
<1>1. Init => ArrayShowsTheHash
  BY DEF Init, ArrayShowsTheHash
<1>2. ArrayShowsTheHash /\ [Next]_vars => ArrayShowsTheHash'
  <2> SUFFICES ASSUME ArrayShowsTheHash, [Next]_vars PROVE ArrayShowsTheHash'
    OBVIOUS
  <2>1. CASE DoPublish
    BY <2>1, PublishKeepsTheHash DEF DoPublish
  <2>2. CASE UNCHANGED <<func, hash, called, shown>>
    BY <2>2 DEF ArrayShowsTheHash, IsArray, Hash
  <2>3. ProgramStep \/ SumRead \/ UNCHANGED vars => UNCHANGED <<func, hash, called, shown>>
    BY DEF ProgramStep, SumRead, vars
  <2>4. \A val : WriteScalar(val) => UNCHANGED <<func, hash, called, shown>>
    BY DEF WriteScalar
  <2>5. \A n, val, tail :
          WriteElements(n, val, tail) => UNCHANGED <<func, hash, called, shown>>
    BY DEF WriteElements
  <2>6. QED
    BY <2>1, <2>2, <2>3, <2>4, <2>5 DEF Next
<1>3. QED
  BY <1>1, <1>2, PTL DEF Spec

-----------------------------------------------------------------------------
\* The size of a variable: that of a scalar is not cut to 32 bits.
LEMMA BytesAre ==
  ASSUME NEW f \in Function
  PROVE  /\ Size[f.type] \in Nat /\ Bytes(f) \in Nat
         /\ f.form \notin {"array", "string"} => Bytes(f) = Size[f.type]
<1> DEFINE z == Size[f.type]
           elements == IF f.form \in {"array", "string"} THEN NElem ELSE 1
<1>1. z \in {1, 2, 4, 8}
  <2>1. f.type \in IntegerTypes \cup {"STRING"}
    BY FunctionIs, DigitalIs
  <2>2. QED
    BY <2>1 DEF Size
<1>2. Bytes(f) = Low(z * elements, 4)
  BY DEF Bytes
<1> HIDE DEF z
<1>3. z \in Nat /\ elements \in Nat
  BY <1>1, SizesAssumption
<1> HIDE DEF elements
<1>4. Bytes(f) \in Nat
  <2>1. z * elements \in Nat
    BY <1>3
  <2>2. QED
    BY <1>2, <2>1, LowBounds
<1>5. ASSUME f.form \notin {"array", "string"} PROVE Bytes(f) = z
  <2>1. z * elements = z
    BY <1>3, <1>5 DEF elements
  <2>2. z < Power[4]
    <3>1. /\ 2 * Power[0] <= Power[1] /\ 2 * Power[1] <= Power[2]
          /\ 2 * Power[2] <= Power[3] /\ 2 * Power[3] <= Power[4]
      BY PowerGrows
    <3>2. Power[0] = 1 /\ \A n \in {1, 2, 3, 4} : Power[n] \in Nat
      BY PowerIs, PowerPositive
    <3>3. QED
      BY <1>1, <3>1, <3>2
  <2>3. QED
    BY <1>2, <1>3, <2>1, <2>2, LowKeeps
<1>6. QED
  BY <1>3, <1>4, <1>5 DEF z

\* The elements a record sends, cut to the size of its variable.
LEMMA TakenIs ==
  ASSUME TypeOK, NEW n \in 0 .. NElem
  PROVE  LET bytes == n * Size[func.type]
             taken == IF bytes < Bytes(func) THEN bytes ELSE Bytes(func)
         IN /\ bytes \in Nat /\ taken \in Nat
            /\ taken <= bytes /\ taken <= Bytes(func)
<1> DEFINE bytes == n * Size[func.type]
<1>1. n \in Nat /\ Size[func.type] \in Nat /\ Bytes(func) \in Nat
  BY FunctionsAssumption, BytesAre, SizesAssumption DEF TypeOK
<1>2. \A a, b \in Nat : a * b \in Nat
  OBVIOUS
<1>3. bytes \in Nat
  BY <1>1, <1>2
<1> HIDE DEF bytes
<1>4. QED
  BY <1>1, <1>3 DEF bytes

\* The program of the PLC and the records write numbers.
LEMMA NumbersAre ==
  ASSUME func \in Functions
  PROVE  Contents \subseteq Nat /\ RecordValues \subseteq Int /\ Junk \subseteq Int
<1>1. Bytes(func) \in Nat
  BY BytesAre, FunctionsAssumption
<1>2. /\ Power[Bytes(func)] \in Nat /\ Power[Bytes(func)] > 0
      /\ Power[4] \in Nat
  BY <1>1, PowerPositive
<1>3. \A p \in Nat : p > 0 => p \div 2 \in Nat /\ p - 1 \in Nat
  OBVIOUS
<1>4. \A i \in Samples : Sample(func, i) \in Nat
  BY <1>2, <1>3, SamplesAssumption DEF Sample
<1>5. Contents \subseteq Nat
  BY <1>4 DEF Contents
<1>6. RecordValues \subseteq Int
  <2>1. \A d \in Contents : d \in Int /\ d - Power[Bytes(func)] \in Int
    BY <1>2, <1>5
  <2>2. QED
    BY <1>2, <2>1 DEF RecordValues
<1>7. QED
  BY <1>2, <1>5, <1>6 DEF Junk

LEMMA ReadingGrows ==
  ASSUME NEW S, S \subseteq Nat
  PROVE  Reading(S) \subseteq Reading(Nat)
  BY DEF Reading

\* Every action writes numbers into the variable, and keeps the rest of the types.
LEMMA TypeNext ==
  ASSUME TypeOK, [Next]_vars
  PROVE  TypeOK'
<1> USE DEF TypeOK, Reading
<1>1. func \in Function /\ Contents \subseteq Nat /\ RecordValues \subseteq Int
      /\ Junk \subseteq Int
  BY FunctionsAssumption, NumbersAre
<1>2. Bytes(func) \in Nat
  BY <1>1, BytesAre
<1>3. \A x \in Nat : Hash(x) \in Hashes
  BY SizesAssumption DEF Hash, Hashes
<1>4. CASE ProgramStep
  <2>1. plc' \in Reading(Contents) /\ asked' = NoValue
    BY <1>4 DEF ProgramStep
  <2>2. plc' \in Reading(Nat)
    BY <1>1, <2>1, ReadingGrows
  <2>3. NoValue \in [data : Int, bytes : Nat]
    BY DEF NoValue
  <2>4. QED
    BY <1>4, <2>1, <2>2, <2>3 DEF ProgramStep
<1>5. CASE SumRead
  BY <1>1, <1>5 DEF SumRead
<1>6. ASSUME NEW val \in RecordValues, WriteScalar(val) PROVE TypeOK'
  <2>1. Low(val, WrittenAs(func).size) \in Nat
    <3>1. WrittenAs(func) \in CType
      BY <1>1, <1>6, FunctionIs, HandledIs, DigitalIs DEF WrittenAs, WriteScalar
    <3>2. WrittenAs(func).size \in Nat
      BY <3>1 DEF CType
    <3>3. QED
      BY <1>1, <3>2, LowBounds
  <2>2. plc' \in Reading(Nat)
    BY <1>6, <2>1 DEF WriteScalar, IntegerWrite
  <2>3. asked' \in [data : Int, bytes : Nat]
    BY <1>1, <1>2, <1>6 DEF WriteScalar
  <2>4. QED
    BY <1>6, <2>2, <2>3 DEF WriteScalar
<1>7. ASSUME NEW n \in 0 .. NElem, NEW val \in Contents, NEW tail \in Contents,
             WriteElements(n, val, tail)
      PROVE  TypeOK'
  <2> DEFINE bytes == n * Size[func.type]
             taken == IF bytes < Bytes(func) THEN bytes ELSE Bytes(func)
             sent  == Low(val, bytes) + Power[bytes] * tail
  <2>1. bytes \in Nat /\ taken \in Nat
    BY TakenIs
  <2>2. /\ plc' = [plc EXCEPT !.data = Low(sent, Bytes(func))]
        /\ asked' = [data |-> Low(val, taken), bytes |-> taken]
    BY <1>7 DEF WriteElements
  <2> HIDE DEF bytes, taken
  <2>3. sent \in Int
    <3>1. val \in Int /\ tail \in Int
      BY <1>1
    <3>2. Low(val, bytes) \in Nat /\ Power[bytes] \in Nat
      <4>1. Low(val, bytes) \in Nat
        BY <2>1, <3>1, LowBounds
      <4>2. QED
        BY <2>1, <4>1, PowerPositive
    <3>3. \A a, b \in Nat, c \in Int : a + b * c \in Int
      OBVIOUS
    <3>4. QED
      BY <3>1, <3>2, <3>3
  <2> HIDE DEF sent
  <2>4. Low(sent, Bytes(func)) \in Nat /\ Low(val, taken) \in Nat
    <3>1. Low(sent, Bytes(func)) \in Nat
      BY <1>2, <2>3, LowBounds
    <3>2. Low(val, taken) \in Nat
      <4>1. val \in Int
        BY <1>1
      <4>2. QED
        BY <2>1, <4>1, LowBounds
    <3>3. QED
      BY <3>1, <3>2
  <2>5. plc' \in Reading(Nat) /\ asked' \in [data : Int, bytes : Nat]
    BY <2>1, <2>2, <2>4
  <2>6. QED
    BY <1>7, <2>5 DEF WriteElements
<1>8. ASSUME NEW junk \in Junk, Publish(junk) PROVE TypeOK'
  <2>1. CASE IsArray
    BY <1>3, <1>8, <2>1 DEF Publish, PublishArray, NewHash
  <2>2. CASE ~IsArray
    <3>1. PublishedValue(func, buf.data, Bytes(func), junk) \in Int
      BY <1>1, <1>2, <1>8, <2>2, PublishedIsNumber DEF IsArray
    <3>2. shown' = IF buf.ok
                     THEN [data |-> PublishedValue(func, buf.data, Bytes(func), junk),
                           ok |-> TRUE]
                     ELSE [shown EXCEPT !.ok = FALSE]
      BY <1>8, <2>2 DEF Publish, PublishScalar
    <3> DEFINE x == PublishedValue(func, buf.data, Bytes(func), junk)
    <3> HIDE DEF x
    <3>3. shown' \in Reading(Int)
      BY <3>1, <3>2 DEF x
    <3>4. QED
      BY <1>8, <2>2, <3>3 DEF Publish, PublishScalar
  <2>3. QED
    BY <2>1, <2>2
<1>9. CASE UNCHANGED vars
  BY <1>9 DEF vars
<1>10. QED
  BY <1>4, <1>5, <1>6, <1>7, <1>8, <1>9 DEF Next, DoPublish

\* Variable, buffer and records hold numbers, whatever the functions and the sizes.
THEOREM TypeCorrect == Spec => []TypeOK
<1>1. Init => TypeOK
  <2> SUFFICES ASSUME Init PROVE TypeOK
    OBVIOUS
  <2>1. func \in Functions /\ Contents \subseteq Nat
    BY NumbersAre DEF Init
  <2>2. plc \in Reading(Nat) /\ buf \in Reading(Nat)
    BY <2>1, ReadingGrows DEF Init
  <2>3. Hash(0) \in Hashes
    BY SizesAssumption DEF Hash, Hashes
  <2>4. hash \in Hashes
    BY <2>3 DEF Init
  <2>5. shown \in Reading(Int) /\ asked \in [data : Int, bytes : Nat]
    BY DEF Init, Reading, NoValue
  <2>6. QED
    BY <2>1, <2>2, <2>4, <2>5 DEF Init, TypeOK
<1>2. QED
  BY <1>1, TypeNext, PTL DEF Spec

-----------------------------------------------------------------------------
\* Publishing a scalar or a string that was read shows what polling shows.
LEMMA PublishShows ==
  ASSUME TypeOK, NEW junk \in Junk, Publish(junk), ~IsArray, buf.ok
  PROVE  ShowsLikePolled(buf.data)'
<1>1. func \in Function /\ func.form # "array" /\ junk \in Int
  BY FunctionsAssumption, NumbersAre DEF TypeOK, IsArray
<1>2. /\ Bytes(func) \in Nat
      /\ func.form # "string" => Bytes(func) = Size[func.type]
  BY <1>1, BytesAre
<1>3. buf.data \in Int
  BY DEF TypeOK, Reading
<1> DEFINE x == PublishedValue(func, buf.data, Bytes(func), junk)
           y == PolledValue(func, buf.data, Bytes(func))
<1>4. shown' = [data |-> x, ok |-> TRUE] /\ func' = func /\ buf' = buf
  BY DEF Publish, PublishScalar
<1>5. Low(x, RightBytes(func)) = Low(y, RightBytes(func))
  BY <1>1, <1>2, <1>3, PublishedIsPolled DEF RightBytes
<1>6. QED
  BY <1>4, <1>5 DEF ShowsLikePolled

\* For any contents, sizes and stack: an I/O Intr record of a scalar or a string shows
\* what the same record would if it were polled.
THEOREM ScalarsAreRight == Spec => []ScalarsShowTheVariable
<1>1. Init => ScalarsShowTheVariable
  BY DEF Init, ScalarsShowTheVariable
<1>2. TypeOK /\ ScalarsShowTheVariable /\ [Next]_vars => ScalarsShowTheVariable'
  <2> SUFFICES ASSUME TypeOK, ScalarsShowTheVariable, [Next]_vars
               PROVE  ScalarsShowTheVariable'
    OBVIOUS
  <2>1. ASSUME NEW junk \in Junk, Publish(junk) PROVE ScalarsShowTheVariable'
    <3>1. func' = func /\ buf' = buf
      BY <2>1 DEF Publish
    <3>2. CASE ~IsArray /\ buf.ok
      BY <2>1, <3>2, PublishShows DEF ScalarsShowTheVariable
    <3>3. CASE ~(~IsArray /\ buf.ok)
      BY <3>1, <3>3 DEF ScalarsShowTheVariable, IsArray
    <3>4. QED
      BY <3>2, <3>3
  <2>2. CASE SumRead
    BY <2>2 DEF SumRead, ScalarsShowTheVariable
  <2>3. CASE UNCHANGED <<func, buf, called, shown, scan>>
    BY <2>3 DEF ScalarsShowTheVariable, ShowsLikePolled, IsArray
  <2>4. ProgramStep \/ UNCHANGED vars => UNCHANGED <<func, buf, called, shown, scan>>
    BY DEF ProgramStep, vars
  <2>5. \A val : WriteScalar(val) => UNCHANGED <<func, buf, called, shown, scan>>
    BY DEF WriteScalar
  <2>6. \A n, val, tail :
          WriteElements(n, val, tail) => UNCHANGED <<func, buf, called, shown, scan>>
    BY DEF WriteElements
  <2>7. QED
    BY <2>1, <2>2, <2>3, <2>4, <2>5, <2>6 DEF Next, DoPublish
<1>3. QED
  BY <1>1, <1>2, TypeCorrect, PTL DEF Spec

\* What the run intr_width finds is confined to DWORD and UDINT: where a driver has no
\* records of these types, a record shows the very value that a polled one shows.
THEOREM OnlyWideTypesDiffer ==
  ASSUME \A f \in Functions : f.type \notin {"DWORD", "UDINT"}
  PROVE  Spec => []IntrShowsTheValue
<1>1. Init => IntrShowsTheValue
  BY DEF Init, IntrShowsTheValue
<1>2. TypeOK /\ IntrShowsTheValue /\ [Next]_vars => IntrShowsTheValue'
  <2> SUFFICES ASSUME TypeOK, IntrShowsTheValue, [Next]_vars
               PROVE  IntrShowsTheValue'
    OBVIOUS
  <2>1. ASSUME NEW junk \in Junk, Publish(junk) PROVE IntrShowsTheValue'
    <3>1. func' = func /\ buf' = buf
      BY <2>1 DEF Publish
    <3>2. CASE ~IsArray /\ buf.ok
      <4>1. /\ func \in Function /\ func.form # "array" /\ junk \in Int
            /\ func.type \notin {"DWORD", "UDINT"}
        BY <3>2, FunctionsAssumption, NumbersAre DEF TypeOK, IsArray
      <4>2. /\ Bytes(func) \in Nat
            /\ func.form # "string" => Bytes(func) = Size[func.type]
        BY <4>1, BytesAre
      <4>3. buf.data \in Int
        BY DEF TypeOK, Reading
      <4>4. shown'.data = PublishedValue(func, buf.data, Bytes(func), junk)
        BY <2>1, <3>2 DEF Publish, PublishScalar
      <4>5. shown'.data = PolledValue(func, buf.data, Bytes(func))
        BY <4>1, <4>2, <4>3, <4>4, PublishedIsPolled
      <4>6. QED
        BY <3>1, <4>5 DEF IntrShowsTheValue
    <3>3. CASE ~(~IsArray /\ buf.ok)
      BY <3>1, <3>3 DEF IntrShowsTheValue, IsArray
    <3>4. QED
      BY <3>2, <3>3
  <2>2. CASE SumRead
    BY <2>2 DEF SumRead, IntrShowsTheValue
  <2>3. CASE UNCHANGED <<func, buf, called, shown, scan>>
    BY <2>3 DEF IntrShowsTheValue, IsArray
  <2>4. ProgramStep \/ UNCHANGED vars => UNCHANGED <<func, buf, called, shown, scan>>
    BY DEF ProgramStep, vars
  <2>5. \A val : WriteScalar(val) => UNCHANGED <<func, buf, called, shown, scan>>
    BY DEF WriteScalar
  <2>6. \A n, val, tail :
          WriteElements(n, val, tail) => UNCHANGED <<func, buf, called, shown, scan>>
    BY DEF WriteElements
  <2>7. QED
    BY <2>1, <2>2, <2>3, <2>4, <2>5, <2>6 DEF Next, DoPublish
<1>3. QED
  BY <1>1, <1>2, TypeCorrect, PTL DEF Spec

-----------------------------------------------------------------------------
\* A scalar that is written reads back.
LEMMA ScalarReadsBack ==
  ASSUME TypeOK, NEW val \in RecordValues, WriteScalar(val)
  PROVE  WriteReadsBack'
<1>1. func \in Function /\ val \in Int /\ func.form \in {"value", "digi"}
  BY FunctionsAssumption, NumbersAre DEF TypeOK, WriteScalar
<1>2. Bytes(func) = Size[func.type] /\ WrittenAs(func) \in CType
  BY <1>1, BytesAre, FunctionIs, HandledIs, DigitalIs DEF WrittenAs
<1>3. /\ func' = func /\ plc'.data = IntegerWrite(WrittenAs(func), val)
      /\ asked'.data = val
  BY DEF WriteScalar, TypeOK, Reading
<1>4. Fits(func, val) => PolledValue(func, plc'.data, Bytes(func)) = val
  BY <1>1, <1>2, <1>3, FitsIs, WrittenIsRead DEF Fits
<1>5. QED
  BY <1>1, <1>3, <1>4 DEF WriteReadsBack

\* The elements an array record supplies are those of the variable, as far as they have
\* room.
LEMMA ElementsReadBack ==
  ASSUME TypeOK, NEW n \in 0 .. NElem, NEW val \in Contents, NEW tail \in Contents,
         WriteElements(n, val, tail)
  PROVE  WriteReadsBack'
<1> DEFINE bytes == n * Size[func.type]
           taken == IF bytes < Bytes(func) THEN bytes ELSE Bytes(func)
           sent  == Low(val, bytes) + Power[bytes] * tail
<1>1. val \in Int /\ tail \in Int /\ Bytes(func) \in Nat
  BY FunctionsAssumption, NumbersAre, BytesAre DEF TypeOK
<1>2. /\ bytes \in Nat /\ taken \in Nat
      /\ taken <= bytes /\ taken <= Bytes(func)
  BY TakenIs
<1>3. /\ func' = func /\ func.form \in {"array", "string"}
      /\ plc'.data = Low(sent, Bytes(func))
      /\ asked' = [data |-> Low(val, taken), bytes |-> taken]
  BY DEF WriteElements, TypeOK, Reading
<1> HIDE DEF bytes, taken
<1>4. Low(val, bytes) \in Nat /\ Power[bytes] \in Nat
  <2>1. Low(val, bytes) \in Nat
    BY <1>1, <1>2, LowBounds
  <2>2. QED
    BY <1>2, <2>1, PowerPositive
<1>5. sent \in Int
  <2>1. \A a, b \in Nat, c \in Int : a + b * c \in Int
    OBVIOUS
  <2>2. QED
    BY <1>1, <1>4, <2>1
<1>6. Low(sent, taken) = Low(val, taken)
  BY <1>1, <1>2, <1>4, LowOfSum, LowOfLow
<1> HIDE DEF sent
<1>7. Low(plc'.data, taken) = Low(val, taken)
  BY <1>1, <1>2, <1>3, <1>5, <1>6, LowOfLow
<1>8. QED
  BY <1>3, <1>7 DEF WriteReadsBack

\* For any type, size and value: what a record writes and its handlers' type holds is
\* what a polled record shows until the program of the PLC or another record writes.
THEOREM WritesReadBack == Spec => []WriteReadsBack
<1>1. Init => WriteReadsBack
  BY DEF Init, WriteReadsBack
<1>2. TypeOK /\ WriteReadsBack /\ [Next]_vars => WriteReadsBack'
  <2> SUFFICES ASSUME TypeOK, WriteReadsBack, [Next]_vars PROVE WriteReadsBack'
    OBVIOUS
  <2>1. CASE ProgramStep
    BY <2>1 DEF ProgramStep, WriteReadsBack, NoValue
  <2>2. CASE UNCHANGED <<func, plc, asked>>
    BY <2>2 DEF WriteReadsBack
  <2>3. SumRead \/ DoPublish \/ UNCHANGED vars => UNCHANGED <<func, plc, asked>>
    BY DEF SumRead, DoPublish, Publish, vars
  <2>4. QED
    BY <2>1, <2>2, <2>3, ScalarReadsBack, ElementsReadBack DEF Next
<1>3. QED
  BY <1>1, <1>2, TypeCorrect, PTL DEF Spec

=============================================================================
