---------------------------- MODULE ReadBackProofs ----------------------------
(***************************************************************************)
(* For any bits, masks and records and any number of changes and failing    *)
(* calls: which bits a masked write keeps, that records do not go back to   *)
(* older values, and which steps make one miss the changes of the variable. *)
(***************************************************************************)
EXTENDS ReadBack, TLAPS

\* A handler that runs is that of a record; what it has read is the variable as
\* long as the ghost says so.
HandlerInv ==
  /\ handler # Idle => handler.rec \in Records
  /\ handler.sampled => handler # Idle /\ handler.cur = plc.bits

\* A masked write that could not read finds no session, or one that ends now.
WindowInv ==
  handler # Idle /\ handler.rec \notin Unmasked /\ Readback /\ ~handler.read =>
    ~connected \/ scan = "disconnect"

\* The number of changes tells values apart; last_written is the variable as long as
\* nothing happens to it, and is only used for read-back.
VersionInv ==
  /\ buf.n = plc.n => buf = plc
  /\ buf.n <= plc.n /\ last.n <= plc.n
  /\ last # Cleared /\ by = "record" => last = plc
  /\ last # Cleared => Readback

\* Records show nothing newer than what the next performIOIntr will show them.
ShownInv ==
  /\ \A r \in Records : shown[r].n <= plc.n
  /\ last # Cleared => \A r \in Records : shown[r].n <= last.n
  /\ last = Cleared /\ scan = "publish" /\ ~taken /\ Readback =>
       \A r \in Records : shown[r].n <= buf.n

IInv == TypeOK /\ HandlerInv /\ WindowInv /\ VersionInv /\ ShownInv

-----------------------------------------------------------------------------
LEMMA InitInvariant == Init => IInv
<1> USE MaskAssumption
<1>1. ASSUME Init PROVE TypeOK
  <2>1. plc \in Value /\ buf \in Value
    BY <1>1 DEF Init, Value
  <2>2. shown \in [Records -> Value]
    BY <1>1, <2>1 DEF Init
  <2>3. handler \in [rec : Records \cup {"none"}, val : SUBSET Bits,
                     cur : SUBSET Bits, read : BOOLEAN, sampled : BOOLEAN]
    BY <1>1 DEF Init, Idle
  <2>4. QED
    <3>1. /\ last \in Value \cup {Cleared} /\ param \in SUBSET Bits
          /\ scan \in {"sweep", "publish", "disconnect"} /\ connected \in BOOLEAN
          /\ by \in {"record", "failed", "program"} /\ taken \in BOOLEAN
      BY <1>1 DEF Init
    <3>2. faults \in 0 .. MaxFaults
      BY <1>1, MaskAssumption DEF Init
    <3>3. QED
      BY <2>1, <2>2, <2>3, <3>1, <3>2 DEF TypeOK
<1>2. Init => HandlerInv /\ WindowInv /\ VersionInv /\ ShownInv
  BY DEF Init, HandlerInv, WindowInv, VersionInv, ShownInv, Idle, Cleared
<1>3. QED
  BY <1>1, <1>2 DEF IInv

\* What read_from_buffer returns is a value.
LEMMA ReadingIsValue ==
  ASSUME TypeOK
  PROVE  BufferReading \in Value /\ LastAfterRead \in Value \cup {Cleared}
BY DEF TypeOK, BufferReading, LastAfterRead

\* The numbers of changes are numbers.
LEMMA Versions ==
  ASSUME TypeOK
  PROVE  /\ plc.n \in Nat /\ buf.n \in Nat /\ last.n \in Int /\ Cleared.n = -1
         /\ \A r \in Records : shown[r].n \in Nat
BY DEF TypeOK, Value, Cleared

\* The merged value is one of the variable's.
LEMMA WrittenIsValue ==
  ASSUME TypeOK, HandlerInv, ~Unlocked
  PROVE  /\ Written \in Value /\ Written.n = plc.n + 1
         /\ handler.rec \in Records
<1>1. Merged(handler.rec, handler.val, handler.cur) \in SUBSET Bits
  BY DEF TypeOK, Merged
<1>2. QED
  BY <1>1 DEF TypeOK, HandlerInv, Written, Value, Unlocked

\* No name of a version is that of an empty last_written.
LEMMA ValueNotCleared == ASSUME NEW v \in Value PROVE v # Cleared
BY DEF Value, Cleared

\* Whatever was read: the bits of the mask are those asked for, and the others
\* those read.
LEMMA MergedBits ==
  ASSUME NEW M \in SUBSET Bits, NEW r, Mask[r] = M,
         NEW val \in SUBSET Bits, NEW cur \in SUBSET Bits
  PROVE  /\ Merged(r, val, cur) \cap M = val \cap M
         /\ Merged(r, val, cur) \ M = cur \ M
BY DEF Merged

-----------------------------------------------------------------------------
(* The steps of the scan thread.                                           *)

LEMMA SumReadPreserves == ASSUME IInv, SumRead PROVE IInv'
<1>1. TypeOK'
  BY DEF IInv, TypeOK, SumRead
<1>2. HandlerInv' /\ WindowInv'
  BY DEF IInv, HandlerInv, WindowInv, SumRead
<1>3. VersionInv' /\ ShownInv'
  BY Versions DEF IInv, VersionInv, ShownInv, SumRead
<1>4. QED
  BY <1>1, <1>2, <1>3 DEF IInv

LEMMA SumReadFailsPreserves == ASSUME IInv, SumReadFails PROVE IInv'
<1>1. faults' \in 0 .. MaxFaults
  BY MaskAssumption DEF IInv, TypeOK, SumReadFails
<1>2. TypeOK'
  BY <1>1 DEF IInv, TypeOK, SumReadFails, ghosts
<1>3. HandlerInv' /\ WindowInv' /\ VersionInv' /\ ShownInv'
  BY DEF IInv, HandlerInv, WindowInv, VersionInv, ShownInv, SumReadFails, ghosts
<1>4. QED
  BY <1>2, <1>3 DEF IInv

LEMMA DisconnectPreserves == ASSUME IInv, Disconnect PROVE IInv'
<1>1. TypeOK'
  BY DEF IInv, TypeOK, Disconnect, ghosts
<1>2. HandlerInv' /\ WindowInv' /\ VersionInv' /\ ShownInv'
  BY DEF IInv, HandlerInv, WindowInv, VersionInv, ShownInv, Disconnect, ghosts
<1>3. QED
  BY <1>1, <1>2 DEF IInv

LEMMA ReconnectPreserves == ASSUME IInv, Reconnect PROVE IInv'
<1>1. TypeOK'
  BY DEF IInv, TypeOK, Reconnect
<1>2. HandlerInv' /\ WindowInv'
  BY DEF IInv, HandlerInv, WindowInv, Reconnect, Unlocked
<1>3. VersionInv' /\ ShownInv'
  BY Versions DEF IInv, VersionInv, ShownInv, Reconnect
<1>4. QED
  BY <1>1, <1>2, <1>3 DEF IInv

\* performIOIntr gives a record what read_from_buffer returns, or leaves it alone.
LEMMA PublishShows ==
  ASSUME TypeOK, Publish
  PROVE  /\ param' \in SUBSET Bits /\ shown' \in [Records -> Value]
         /\ \A r \in Records : shown'[r].n \in {shown[r].n, BufferReading.n}
<1>1. BufferReading \in Value
  BY ReadingIsValue
<1>2. ASSUME NEW r \in Records
      PROVE  /\ Shows(r, BufferReading) \in Value
             /\ Shows(r, BufferReading).n = BufferReading.n
  BY <1>1 DEF Shows, Value
<1>3. CASE Readback
  BY <1>1, <1>2, <1>3 DEF Publish, TypeOK, Value
<1>4. CASE ~Readback
  BY <1>4 DEF Publish, TypeOK
<1>5. QED
  BY <1>3, <1>4

LEMMA PublishPreserves == ASSUME IInv, Publish PROVE IInv'
<1>1. /\ last' = LastAfterRead /\ scan = "publish" /\ scan' = "sweep" /\ Unlocked
      /\ UNCHANGED <<plc, buf, connected, handler, faults, by, taken>>
  BY DEF Publish, ghosts
<1>2. TypeOK'
  BY <1>1, ReadingIsValue, PublishShows DEF IInv, TypeOK
<1>3. HandlerInv' /\ WindowInv'
  BY <1>1 DEF IInv, HandlerInv, WindowInv, Unlocked
<1>4. VersionInv'
  BY <1>1, Versions DEF IInv, VersionInv, LastAfterRead
<1>5. BufferReading.n <= plc.n
  BY DEF IInv, VersionInv, BufferReading
<1>6. last' = Cleared
  BY <1>1 DEF IInv, LastAfterRead, VersionInv
<1>7. ShownInv'
  <2>1. \A r \in Records : shown'[r].n <= plc'.n
    BY <1>1, <1>5, PublishShows DEF IInv, ShownInv
  <2>2. QED
    BY <1>1, <1>6, <2>1 DEF ShownInv
<1>8. QED
  BY <1>2, <1>3, <1>4, <1>7 DEF IInv

-----------------------------------------------------------------------------
(* The steps of a write handler, and of the program of the PLC.            *)

\* What a handler reads is the variable when the ghost is set.
LEMMA SampleIsCurrent ==
  ASSUME IInv, Readback, Current
  PROVE  BufferReading = plc
BY DEF IInv, VersionInv, Current, BufferReading

LEMMA BeginWritePreserves ==
  ASSUME IInv, NEW r \in Records, NEW val \in SUBSET Bits, BeginWrite(r, val)
  PROVE  IInv'
<1> DEFINE masked == r \notin Unmasked
           read == masked /\ Readback /\ connected /\ scan # "disconnect"
<1>1. PICK cur \in IF read THEN {BufferReading.bits}
                   ELSE IF masked THEN SUBSET Bits ELSE {{}} :
        handler' = [rec |-> r, val |-> val, cur |-> cur, read |-> read,
                     sampled |-> read /\ Current]
  BY DEF BeginWrite
<1>2. cur \in SUBSET Bits
  BY <1>1, ReadingIsValue DEF IInv, Value
<1>3. /\ last' = IF read THEN LastAfterRead ELSE last
      /\ taken' = (taken \/ (read /\ last # Cleared))
      /\ UNCHANGED <<plc, buf, param, shown, connected, scan, faults, by>>
  BY DEF BeginWrite
<1>4. TypeOK'
  <2>1. handler' \in [rec : Records \cup {"none"}, val : SUBSET Bits,
                      cur : SUBSET Bits, read : BOOLEAN, sampled : BOOLEAN]
    <3>1. read \in BOOLEAN /\ (read /\ Current) \in BOOLEAN
      OBVIOUS
    <3>2. QED
      BY <1>1, <1>2, <3>1
  <2>2. last' \in Value \cup {Cleared} /\ taken' \in BOOLEAN
    BY <1>3, ReadingIsValue DEF IInv, TypeOK
  <2>3. QED
    BY <1>3, <2>1, <2>2 DEF IInv, TypeOK
<1>5. HandlerInv'
  <2>1. handler'.rec \in Records
    BY <1>1
  <2>2. ASSUME handler'.sampled PROVE handler' # Idle /\ handler'.cur = plc'.bits
    <3>1. read /\ Current
      BY <1>1, <2>2
    <3>2. cur = plc.bits
      BY <1>1, <3>1, SampleIsCurrent
    <3>3. QED
      BY <1>1, <1>3, <2>2, <3>2 DEF Idle
  <2>3. QED
    BY <2>1, <2>2 DEF HandlerInv
<1>5w. WindowInv'
  <2>1. ASSUME handler'.rec \notin Unmasked, Readback, ~handler'.read
        PROVE  ~connected \/ scan = "disconnect"
    BY <1>1, <2>1
  <2>2. QED
    BY <1>3, <2>1 DEF WindowInv
<1>6. VersionInv'
  BY <1>3, Versions DEF IInv, VersionInv, LastAfterRead
<1>7. ShownInv'
  BY <1>3 DEF IInv, ShownInv, LastAfterRead
<1>8. QED
  BY <1>4, <1>5, <1>5w, <1>6, <1>7 DEF IInv

LEMMA WritePreserves == ASSUME IInv, Write PROVE IInv'
<1>1. /\ Written \in Value /\ Written.n = plc.n + 1 /\ handler.rec \in Records
      /\ Written # Cleared
  BY WrittenIsValue, ValueNotCleared DEF IInv, Write
<1>2. /\ plc' = Written
      /\ shown' = [shown EXCEPT ![handler.rec] = Shows(handler.rec, Written)]
      /\ last' = (IF Readback THEN Written ELSE last)
      /\ handler' = Idle /\ by' = "record" /\ taken' = FALSE
      /\ UNCHANGED <<buf, param, connected, scan, faults>>
  BY DEF Write
<1>3. Shows(handler.rec, Written) \in Value /\ Shows(handler.rec, Written).n = plc.n + 1
  BY <1>1 DEF Shows, Value
<1>4. TypeOK'
  BY <1>1, <1>2, <1>3 DEF IInv, TypeOK, Idle
<1>5. HandlerInv' /\ WindowInv'
  BY <1>2 DEF HandlerInv, WindowInv, Idle
<1>6. /\ plc.n \in Nat /\ buf.n \in Nat /\ last.n \in Int
      /\ \A r \in Records : shown[r].n \in Nat
  BY Versions DEF IInv
<1>7. VersionInv'
  BY <1>1, <1>2, <1>6 DEF IInv, VersionInv
<1>8. \A r \in Records : shown'[r].n <= plc'.n
  BY <1>1, <1>2, <1>3, <1>6 DEF IInv, ShownInv, TypeOK
<1>9. ShownInv'
  BY <1>1, <1>2, <1>8 DEF IInv, ShownInv, VersionInv
<1>10. QED
  BY <1>4, <1>5, <1>7, <1>9 DEF IInv

\* A write that does not succeed does not give its record another version.
LEMMA AttemptedShows ==
  ASSUME TypeOK
  PROVE  /\ Attempted \in [Records -> Value]
         /\ \A r \in Records : Attempted[r].n = shown[r].n
         /\ \A r \in Records : r # handler.rec => Attempted[r] = shown[r]
<1>1. handler.val \cap Mask[handler.rec] \in SUBSET Bits
  BY DEF TypeOK
<1>2. ASSUME NEW r \in Records
      PROVE  Attempted[r] = IF r = handler.rec
                              THEN [shown[r] EXCEPT
                                      !.bits = handler.val \cap Mask[handler.rec]]
                              ELSE shown[r]
  BY DEF Attempted, TypeOK
<1>3. ASSUME NEW r \in Records
      PROVE  Attempted[r] \in Value /\ Attempted[r].n = shown[r].n
  BY <1>1, <1>2 DEF TypeOK, Value
<1>4. QED
  BY <1>2, <1>3 DEF Attempted, TypeOK

LEMMA WriteFailsPreserves == ASSUME IInv, WriteFails PROVE IInv'
<1>1. plc' \in Value /\ (plc' = plc \/ plc'.n = plc.n + 1)
  BY WrittenIsValue DEF IInv, TypeOK, WriteFails
<1>2. /\ faults' = faults + 1 /\ faults < MaxFaults /\ handler' = Idle
      /\ shown' = Attempted /\ by' = "failed"
      /\ UNCHANGED <<buf, last, param, connected, scan, taken>>
  BY DEF WriteFails
<1>3. TypeOK'
  <2>1. faults' \in 0 .. MaxFaults
    BY <1>2, MaskAssumption DEF IInv, TypeOK
  <2>2. handler' \in [rec : Records \cup {"none"}, val : SUBSET Bits,
                      cur : SUBSET Bits, read : BOOLEAN, sampled : BOOLEAN]
    BY <1>2 DEF Idle
  <2>3. QED
    BY <1>1, <1>2, <2>1, <2>2, AttemptedShows DEF IInv, TypeOK
<1>4. /\ plc.n \in Nat /\ buf.n \in Nat /\ last.n \in Int
      /\ \A r \in Records : shown[r].n \in Nat
  BY Versions DEF IInv
<1>5. \A r \in Records : shown'[r].n = shown[r].n
  BY <1>2, AttemptedShows DEF IInv
<1>6. HandlerInv' /\ WindowInv' /\ VersionInv' /\ ShownInv'
  BY <1>1, <1>2, <1>4, <1>5
     DEF IInv, HandlerInv, WindowInv, VersionInv, ShownInv, Idle
<1>7. QED
  BY <1>3, <1>6 DEF IInv

LEMMA WriteRefusedPreserves == ASSUME IInv, WriteRefused PROVE IInv'
<1>1. /\ handler' = Idle /\ shown' = Attempted /\ by' = "failed"
      /\ UNCHANGED <<plc, buf, last, param, connected, scan, faults, taken>>
  BY DEF WriteRefused
<1>2. TypeOK'
  BY <1>1, AttemptedShows DEF IInv, TypeOK, Idle
<1>3. \A r \in Records : shown'[r].n = shown[r].n
  BY <1>1, AttemptedShows DEF IInv
<1>4. HandlerInv' /\ WindowInv' /\ VersionInv' /\ ShownInv'
  BY <1>1, <1>3 DEF IInv, HandlerInv, WindowInv, VersionInv, ShownInv, Idle
<1>5. QED
  BY <1>2, <1>4 DEF IInv

LEMMA ProgramPreserves == ASSUME IInv, ProgramStep PROVE IInv'
<1>1. plc' \in Value /\ plc'.n = plc.n + 1 /\ plc.n \in Nat
  BY DEF IInv, TypeOK, Value, ProgramStep
<1>2. /\ by' = "program" /\ handler' = [handler EXCEPT !.sampled = FALSE]
      /\ UNCHANGED <<buf, last, param, shown, connected, scan, faults, taken>>
  BY DEF ProgramStep
<1>3. /\ handler' \in [rec : Records \cup {"none"}, val : SUBSET Bits,
                       cur : SUBSET Bits, read : BOOLEAN, sampled : BOOLEAN]
      /\ handler'.rec = handler.rec /\ handler'.sampled = FALSE
      /\ handler'.read = handler.read
  BY <1>2 DEF IInv, TypeOK
<1>4. TypeOK'
  BY <1>1, <1>2, <1>3 DEF IInv, TypeOK
<1>5. handler = Idle => handler' = Idle
  <2>1. handler' = [rec |-> handler.rec, val |-> handler.val, cur |-> handler.cur,
                    read |-> handler.read, sampled |-> FALSE]
    BY <1>2 DEF IInv, TypeOK
  <2>2. QED
    BY <2>1 DEF Idle
<1>6. HandlerInv' /\ WindowInv'
  BY <1>2, <1>3, <1>5 DEF IInv, HandlerInv, WindowInv
<1>7. /\ buf.n \in Nat /\ last.n \in Int
      /\ \A r \in Records : shown[r].n \in Nat
  BY Versions DEF IInv
<1>8. VersionInv' /\ ShownInv'
  BY <1>1, <1>2, <1>7 DEF IInv, VersionInv, ShownInv
<1>9. QED
  BY <1>4, <1>6, <1>8 DEF IInv

LEMMA Preserved == ASSUME IInv, [Next]_vars PROVE IInv'
<1>1. CASE UNCHANGED vars
  BY <1>1 DEF vars, IInv, TypeOK, HandlerInv, WindowInv, VersionInv, ShownInv
<1>2. CASE Next
  BY <1>2, SumReadPreserves, SumReadFailsPreserves, DisconnectPreserves,
     ReconnectPreserves, PublishPreserves, BeginWritePreserves, WritePreserves, WriteFailsPreserves,
     WriteRefusedPreserves, ProgramPreserves DEF Next, ScanStep, HandlerStep
<1>3. QED
  BY <1>1, <1>2

\* The handler, the versions and what is shown, as above, in every reachable state.
THEOREM Invariance == Spec => []IInv
BY InitInvariant, Preserved, PTL DEF Spec

-----------------------------------------------------------------------------
\* The types of the state, for any bits, masks and records.
THEOREM TypeCorrect == Spec => []TypeOK
<1>1. IInv => TypeOK
  BY DEF IInv
<1>2. QED
  BY <1>1, Invariance, PTL

\* digitalWrite gives the bits of its mask the value that was asked for, whatever
\* digitalRead returned, and for any masks, overlapping ones included.
THEOREM MaskedWritesWrite == Spec => OwnBitsWritten
<1>1. ASSUME IInv, Write
      PROVE  plc'.bits \cap Mask[handler.rec] = handler.val \cap Mask[handler.rec]
  <2>1. /\ handler.rec \in Records /\ handler.val \in SUBSET Bits
        /\ handler.cur \in SUBSET Bits
    BY <1>1 DEF IInv, HandlerInv, TypeOK, Write, Unlocked
  <2>2. Mask[handler.rec] \in SUBSET Bits
    BY <2>1, MaskAssumption
  <2>3. plc'.bits = Merged(handler.rec, handler.val, handler.cur)
    BY <1>1 DEF Write, Written
  <2>4. QED
    BY <2>1, <2>2, <2>3, MergedBits
<1>2. QED
  BY <1>1, Invariance, PTL DEF OwnBitsWritten

\* digitalWrite keeps the other bits when what it read was current: nobody gets
\* between its read and its write with another record.
THEOREM MaskedWritesKeep == Spec => SampledBitsKept
<1>1. ASSUME IInv, Write, handler.sampled
      PROVE  plc'.bits \ Mask[handler.rec] = plc.bits \ Mask[handler.rec]
  <2>1. /\ handler.rec \in Records /\ handler.val \in SUBSET Bits
        /\ handler.cur \in SUBSET Bits /\ handler.cur = plc.bits
    BY <1>1 DEF IInv, HandlerInv, TypeOK, Write, Unlocked
  <2>2. Mask[handler.rec] \in SUBSET Bits
    BY <2>1, MaskAssumption
  <2>3. plc'.bits = Merged(handler.rec, handler.val, handler.cur)
    BY <1>1 DEF Write, Written
  <2>4. QED
    BY <2>1, <2>2, <2>3, MergedBits
<1>2. QED
  BY <1>1, Invariance, PTL DEF SampledBitsKept

\* What records show does not go back to an older value, for any number of failing
\* calls, sweeps and reconnects, unless a failed masked write has read last_written.
THEOREM ShownMovesForward == Spec => NoJumpBack
<1>1. ASSUME IInv, [Next]_vars, ~taken, NEW r \in Records
      PROVE  shown'[r].n >= shown[r].n
  <2>1. shown[r].n \in Nat /\ plc.n \in Nat /\ buf.n \in Nat
    BY <1>1 DEF IInv, TypeOK, Value
  <2>2. CASE Publish /\ Readback
    <3>1. shown[r].n <= BufferReading.n
      BY <1>1, <2>1, <2>2 DEF Publish, BufferReading, IInv, ShownInv, TypeOK, Value
    <3>2. BufferReading.n \in Nat
      BY <1>1, ReadingIsValue DEF IInv, Value
    <3>3. QED
      BY <1>1, <2>1, <2>2, <3>1, <3>2, PublishShows DEF IInv
  <2>3. CASE Write
    <3>1. Shows(handler.rec, Written).n = plc.n + 1
      BY <1>1, <2>3, WrittenIsValue DEF IInv, Write, Shows
    <3>2. shown'[r] = Shows(handler.rec, Written) \/ shown'[r] = shown[r]
      BY <1>1, <2>3 DEF Write, IInv, TypeOK
    <3>3. QED
      BY <1>1, <2>1, <3>1, <3>2 DEF IInv, ShownInv
  <2>4. CASE WriteFails \/ WriteRefused
    <3>1. shown' = Attempted
      BY <2>4 DEF WriteFails, WriteRefused
    <3>2. QED
      BY <1>1, <2>1, <3>1, AttemptedShows DEF IInv
  <2>5. CASE shown' = shown \/ (Publish /\ ~Readback)
    BY <2>1, <2>5 DEF Publish
  <2>6. QED
    BY <1>1, <2>2, <2>3, <2>4, <2>5
       DEF Next, ScanStep, HandlerStep, SumRead, SumReadFails, Disconnect, Reconnect,
           BeginWrite, ProgramStep, vars
<1>2. ASSUME IInv, [Next]_vars
      PROVE  ~taken => \A r \in Records : shown'[r].n >= shown[r].n
  BY <1>1, <1>2
<1>3. QED
  BY <1>2, Invariance, PTL DEF Spec, NoJumpBack

\* digitalWrite gives the device bits it could not read only between a call of the scan
\* thread that failed and the disconnect that follows it, for any number of faults.
THEOREM MadeUpBitsOnlyBeforeDisconnect == Spec => MadeUpBitsWindow
<1>1. ASSUME IInv, Write, Readback, handler.rec \notin Unmasked, ~handler.read
      PROVE  scan = "disconnect"
  BY <1>1 DEF IInv, WindowInv, Write, Unlocked
<1>2. IInv => (Write /\ Readback /\ handler.rec \notin Unmasked /\ ~handler.read =>
                 scan = "disconnect")
  BY <1>1
<1>3. QED
  BY <1>2, Invariance, PTL DEF MadeUpBitsWindow

-----------------------------------------------------------------------------
(* Records that miss the changes of the variable.                          *)

\* performIOIntr leaves a record that is in step in step: when it is not called back,
\* its bits of the parameter did not change.
LEMMA PublishKeepsInStep ==
  ASSUME TypeOK, Readback, Publish, NEW r \in Records, InStep(r)
  PROVE  shown'[r].bits = param' \cap Mask[r]
<1> DEFINE reading == BufferReading
<1>1. /\ param' = reading.bits
      /\ shown'[r] = IF r \in CalledBack(reading.bits) THEN Shows(r, reading) ELSE shown[r]
  BY DEF Publish
<1>2. CASE r \in CalledBack(reading.bits)
  BY <1>1, <1>2 DEF Shows
<1>3. CASE r \notin CalledBack(reading.bits)
  <2>1. param \cap Mask[r] = reading.bits \cap Mask[r]
    BY <1>3 DEF CalledBack, Changed
  <2>2. shown[r].bits = param \cap Mask[r] \/ shown[r].bits = reading.bits \cap Mask[r]
    BY DEF InStep, BufferReading
  <2>3. QED
    BY <1>1, <1>3, <2>1, <2>2
<1>4. QED
  BY <1>2, <1>3

\* A write of the record, successful, puts it in step.
LEMMA OwnWriteInStep ==
  ASSUME IInv, Readback, Write
  PROVE  /\ shown'[handler.rec].bits = last'.bits \cap Mask[handler.rec]
         /\ last' # Cleared
<1>1. Written \in Value /\ handler.rec \in Records /\ Written # Cleared
  BY WrittenIsValue, ValueNotCleared DEF IInv, Write
<1>2. shown'[handler.rec] = Shows(handler.rec, Written) /\ last' = Written
  BY <1>1 DEF Write, IInv, TypeOK
<1>3. QED
  BY <1>1, <1>2 DEF Shows

\* Only the publication of the scan thread changes last_written, and it moves on then.
LEMMA ScanStepLast ==
  ASSUME ScanStep, last' # last
  PROVE  scan' # scan
BY DEF ScanStep, SumRead, SumReadFails, Disconnect, Reconnect, Publish

\* A record misses a change of the variable only after a write of its own that did not
\* succeed, or one of another record that used up last_written before performIOIntr.
THEOREM LeftBehind == Spec => LeftBehindByWritesOnly
<1>1. ASSUME IInv, [Next]_vars, NEW r \in Records, Readback, InStep(r), ~InStep(r)'
      PROVE  \/ handler.rec = r /\ (WriteFails \/ WriteRefused)
             \/ last # Cleared /\ last' # last /\ ~ScanStep
  <2>1. ASSUME shown'[r] = shown[r], param' = param
        PROVE  last # Cleared /\ last' # last
    BY <1>1, <2>1 DEF InStep
  <2>2. ASSUME scan' = scan, shown'[r] = shown[r], param' = param
        PROVE  last # Cleared /\ last' # last /\ ~ScanStep
    BY <2>1, <2>2, ScanStepLast
  <2>3. CASE Publish
    BY <1>1, <2>3, PublishKeepsInStep DEF IInv, InStep
  <2>4. CASE SumRead \/ SumReadFails \/ Disconnect \/ Reconnect
    BY <2>1, <2>4 DEF SumRead, SumReadFails, Disconnect, Reconnect
  <2>5. CASE Write
    <3>1. handler.rec # r
      BY <1>1, <2>5, OwnWriteInStep DEF InStep
    <3>2. handler.rec \in Records
      BY <1>1, <2>5, WrittenIsValue DEF IInv, Write
    <3>3. shown'[r] = shown[r] /\ param' = param /\ scan' = scan
      BY <1>1, <2>5, <3>1, <3>2 DEF Write, IInv, TypeOK
    <3>4. QED
      BY <2>2, <3>3
  <2>6. CASE WriteFails \/ WriteRefused
    <3>1. shown' = Attempted /\ param' = param /\ last' = last
      BY <2>6 DEF WriteFails, WriteRefused
    <3>2. CASE handler.rec = r
      BY <2>6, <3>2
    <3>3. CASE handler.rec # r
      BY <1>1, <2>1, <3>1, <3>3, AttemptedShows DEF IInv
    <3>4. QED
      BY <3>2, <3>3
  <2>7. CASE ProgramStep \/ UNCHANGED vars
    BY <2>1, <2>7 DEF ProgramStep, vars
  <2>8. CASE \E q \in Records, val \in SUBSET Bits : BeginWrite(q, val)
    BY <2>2, <2>8 DEF BeginWrite
  <2>9. QED
    BY <1>1, <2>3, <2>4, <2>5, <2>6, <2>7, <2>8 DEF Next, ScanStep, HandlerStep
<1>2. ASSUME IInv, [Next]_vars
      PROVE  \A r \in Records : Readback /\ InStep(r) /\ ~InStep(r)' =>
               \/ handler.rec = r /\ (WriteFails \/ WriteRefused)
               \/ last # Cleared /\ last' # last /\ ~ScanStep
  BY <1>1, <1>2
<1>3. QED
  BY <1>2, Invariance, PTL DEF Spec, LeftBehindByWritesOnly

=============================================================================
