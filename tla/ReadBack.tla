------------------------------ MODULE ReadBack ------------------------------
(***************************************************************************)
(* Writes to one variable of the PLC through records with masks, and what   *)
(* its records show: digitalWrite reads the variable from the sum-read      *)
(* buffer, merges the bits of the record and writes all of it; the read     *)
(* back gives the written value once, then the buffer. A record shows what  *)
(* it tried to write until the asyn parameter changes in the bits of its    *)
(* mask, and writes do not set the parameter.                              *)
(* The records have the same function and address and share an ADSVariable  *)
(* and the parameter; others that write the variable have their own, like   *)
(* anybody else.                                                           *)
(*                                                                         *)
(* A value is its set of bits and the number of changes of the variable     *)
(* that had happened when it was the variable's (a ghost).                  *)
(***************************************************************************)
EXTENDS Integers

CONSTANTS
  Bits,           \* the bits of the variable
  Records,        \* the output records with one function and address
  Mask,           \* the bits a record writes
  Unmasked,       \* records with mask 0xFFFFFFFF, or, unless it is _digi, all
  Readback,       \* ADSVariable::write_readback (asyn:READBACK is set)
  ProgramWrites,  \* the program of the PLC changes the variable, too
  MaxChanges,     \* no record writes and no program changes beyond this
  MaxFaults       \* number of ADS calls that may fail

ASSUME MaskAssumption ==
  /\ Mask \in [Records -> SUBSET Bits] /\ Unmasked \subseteq Records
  /\ \A r \in Unmasked : Mask[r] = Bits
  /\ Readback \in BOOLEAN /\ ProgramWrites \in BOOLEAN
  /\ MaxChanges \in Nat /\ MaxFaults \in Nat

VARIABLES
  plc,        \* the variable in the PLC
  buf,        \* the variable in the sum-read buffer
  last,       \* ADSVariable::last_written
  param,      \* the asyn parameter of the variable, which performIOIntr sets
  shown,      \* what each record shows of its bits
  connected,  \* whether there is a session
  scan,       \* the scan thread: "sweep", "publish", "disconnect"
  handler,    \* the write handler that runs
  faults,     \* ADS calls that failed
  by,         \* (ghost) who wrote last: "record", "failed" (a record's write that
              \* did not succeed), "program"
  taken       \* (ghost) a masked write read last_written and has not succeeded,
              \* and no sweep came since

vars == <<plc, buf, last, param, shown, connected, scan, handler, faults, by, taken>>
ghosts == <<by, taken>>

Cleared == [bits |-> {}, n |-> -1]  \* last_written.clear()

Idle == [rec |-> "none", val |-> {}, cur |-> {}, read |-> FALSE, sampled |-> FALSE]

\* Nobody has the driver lock.
Unlocked == handler = Idle

\* The records show the variable after the first performIOIntr.
Init ==
  /\ plc = [bits |-> {}, n |-> 0] /\ buf = plc
  /\ param = plc.bits /\ shown = [r \in Records |-> plc]
  /\ last = Cleared /\ connected = TRUE /\ scan = "sweep"
  /\ handler = Idle /\ faults = 0
  /\ by = "program" /\ taken = FALSE

-----------------------------------------------------------------------------
\* (wrong) The value written last is not looked at.
BufferOnly == buf

\* (wrong) ... is returned even if it was read already.
ReadingUnchecked == IF Readback THEN last ELSE buf

\* read_from_buffer: the written value for the first read after a write.
BufferReading == IF Readback /\ last # Cleared THEN last ELSE buf

\* (wrong) The written value stays.
LastKept == last

LastAfterRead == IF Readback THEN Cleared ELSE last

SumRead ==
  /\ scan = "sweep" /\ connected
  /\ buf' = plc /\ scan' = "publish" /\ taken' = FALSE
  /\ UNCHANGED <<plc, last, param, shown, connected, handler, faults, by>>

\* The sum-read, or the reading of the device's info or state, fails; the buffer is
\* invalid from here on.
SumReadFails ==
  /\ scan = "sweep" /\ connected /\ faults < MaxFaults
  /\ scan' = "disconnect" /\ faults' = faults + 1
  /\ UNCHANGED <<plc, buf, last, param, shown, connected, handler, ghosts>>

\* ADSDisconnect, without the driver lock.
Disconnect ==
  /\ scan = "disconnect"
  /\ connected' = FALSE /\ scan' = "sweep"
  /\ UNCHANGED <<plc, buf, last, param, shown, handler, faults, ghosts>>

\* (wrong) ADSConnect without the driver lock.
ReconnectUnlocked ==
  /\ scan = "sweep" /\ ~connected
  /\ connected' = TRUE /\ buf' = plc /\ taken' = FALSE
  /\ UNCHANGED <<plc, last, param, shown, scan, handler, faults, by>>

\* ADSConnect with its initial sum-read, under the driver lock.
Reconnect ==
  /\ scan = "sweep" /\ ~connected /\ Unlocked
  /\ connected' = TRUE /\ buf' = plc /\ taken' = FALSE
  /\ UNCHANGED <<plc, last, param, shown, scan, handler, faults, by>>

\* What a record shows of a value.
Shows(r, v) == [bits |-> v.bits \cap Mask[r], n |-> v.n]

\* The bits in which two values differ.
Changed(a, b) == (a \ b) \cup (b \ a)

\* callParamCallbacks: the records that have one of the changed bits.
CalledBack(new) == {r \in Records : Mask[r] \cap Changed(param, new) # {}}

\* performIOIntr, under the driver lock.
Publish ==
  /\ scan = "publish" /\ Unlocked
  /\ IF Readback
       THEN /\ param' = BufferReading.bits
            /\ shown' = [r \in Records |-> IF r \in CalledBack(BufferReading.bits)
                                            THEN Shows(r, BufferReading)
                                            ELSE shown[r]]
       ELSE UNCHANGED <<param, shown>>
  /\ last' = LastAfterRead
  /\ scan' = "sweep"
  /\ UNCHANGED <<plc, buf, connected, handler, faults, ghosts>>

-----------------------------------------------------------------------------
\* What a read returns is the variable.
Current == IF last # Cleared THEN by = "record" ELSE buf.n = plc.n

\* digitalWrite, first half: it reads the variable if there is a mask. A read that
\* fails (no read-back, no session, an invalid buffer) leaves in the result what its
\* constructor, which is external, has put there, and digitalWrite goes on with it.
\* (read and sampled are ghosts: the read succeeded; and the last write was not read
\* back yet and nothing happened since, or the last sweep came after the last change.)
BeginWrite(r, val) ==
  /\ Unlocked /\ plc.n < MaxChanges
  /\ LET masked == r \notin Unmasked
         read == masked /\ Readback /\ connected /\ scan # "disconnect"
     IN /\ \E cur \in IF read THEN {BufferReading.bits}
                     ELSE IF masked THEN SUBSET Bits ELSE {{}} :
          handler' = [rec |-> r, val |-> val, cur |-> cur, read |-> read,
                       sampled |-> read /\ Current]
        /\ last' = IF read THEN LastAfterRead ELSE last
        /\ taken' = (taken \/ (read /\ last # Cleared))
  /\ UNCHANGED <<plc, buf, param, shown, connected, scan, faults, by>>

\* (wrong) The bits are set, but not reset.
MergedOr(r, val, cur) == cur \cup (val \cap Mask[r])

\* The value that is written.
Merged(r, val, cur) ==
  (cur \cup (val \cap Mask[r])) \cap (val \cup (Bits \ Mask[r]))

Written == [bits |-> Merged(handler.rec, handler.val, handler.cur), n |-> plc.n + 1]

\* The second half: ADSVariable::write succeeds. The parameter is not set.
Write ==
  /\ ~Unlocked /\ connected
  /\ plc' = Written
  /\ shown' = [shown EXCEPT ![handler.rec] = Shows(handler.rec, Written)]
  /\ last' = IF Readback THEN Written ELSE last
  /\ handler' = Idle
  /\ by' = "record" /\ taken' = FALSE
  /\ UNCHANGED <<buf, param, connected, scan, faults>>

\* The record keeps what it tried to write, and its alarm says that it failed.
Attempted ==
  [shown EXCEPT ![handler.rec].bits = handler.val \cap Mask[handler.rec]]

\* The call fails; the device may have written the value.
WriteFails ==
  /\ ~Unlocked /\ connected /\ faults < MaxFaults
  /\ plc' \in {plc, Written} /\ faults' = faults + 1
  /\ shown' = Attempted /\ handler' = Idle
  /\ by' = "failed"
  /\ UNCHANGED <<buf, last, param, connected, scan, taken>>

\* The name is not resolved without a session.
WriteRefused ==
  /\ ~Unlocked /\ ~connected
  /\ shown' = Attempted /\ handler' = Idle
  /\ by' = "failed"
  /\ UNCHANGED <<plc, buf, last, param, connected, scan, faults, taken>>

\* The program of the PLC, or anybody else, changes the variable.
ProgramStep ==
  /\ ProgramWrites /\ plc.n < MaxChanges
  /\ \E b \in SUBSET Bits : plc' = [bits |-> b, n |-> plc.n + 1]
  /\ by' = "program" /\ handler' = [handler EXCEPT !.sampled = FALSE]
  /\ UNCHANGED <<buf, last, param, shown, connected, scan, faults, taken>>

ScanStep == SumRead \/ SumReadFails \/ Disconnect \/ Reconnect \/ Publish

HandlerStep == Write \/ WriteFails \/ WriteRefused

Next == \/ ScanStep \/ HandlerStep \/ ProgramStep
        \/ \E r \in Records, val \in SUBSET Bits : BeginWrite(r, val)

Spec == Init /\ [][Next]_vars

\* The driver lock lets the scan thread in; a handler that runs returns.
FairSpec == Spec /\ SF_vars(ScanStep) /\ WF_vars(HandlerStep)

-----------------------------------------------------------------------------
Value == [bits : SUBSET Bits, n : Nat]

\* Types of the state.
TypeOK ==
  /\ plc \in Value /\ buf \in Value /\ shown \in [Records -> Value]
  /\ last \in Value \cup {Cleared} /\ param \in SUBSET Bits
  /\ connected \in BOOLEAN /\ scan \in {"sweep", "publish", "disconnect"}
  /\ handler \in [rec : Records \cup {"none"}, val : SUBSET Bits,
                  cur : SUBSET Bits, read : BOOLEAN, sampled : BOOLEAN]
  /\ faults \in 0 .. MaxFaults
  /\ by \in {"record", "failed", "program"} /\ taken \in BOOLEAN

\* (digitalWrite) Bits outside the mask of the record stay as they are.
OtherBitsKept ==
  [][Write => plc'.bits \ Mask[handler.rec] = plc.bits \ Mask[handler.rec]]_vars

\* (digitalWrite, read_from_buffer) They do when the last write was not read back
\* yet and nobody else wrote and no call failed since, or when the last sweep came
\* after the last change: what read_from_buffer returns is the variable then, and the
\* driver lock keeps other records out until the merged value is written.
SampledBitsKept ==
  [][Write /\ handler.sampled =>
       plc'.bits \ Mask[handler.rec] = plc.bits \ Mask[handler.rec]]_vars

\* (digitalWrite) Whatever was read, the bits of the record get the value asked for.
OwnBitsWritten ==
  [][Write => plc'.bits \cap Mask[handler.rec] = handler.val \cap Mask[handler.rec]]_vars

\* (read_from_buffer) What a record shows never goes back to an older value: between
\* a write and the next sweep, last_written hides what the buffer holds from before.
\* Only a masked write that has read last_written and failed leaves a gap.
NoJumpBack ==
  [][~taken => \A r \in Records : shown'[r].n >= shown[r].n]_vars

\* (digitalWrite) With read-back, bits that were never read reach the device only
\* while the scan thread is about to disconnect after a call that failed: a handler
\* that found no session does not find one when it writes, because ADSConnect waits
\* for the driver lock.
MadeUpBitsWindow ==
  [][Write /\ Readback /\ handler.rec \notin Unmasked /\ ~handler.read =>
       scan = "disconnect"]_vars

\* The record shows what the parameter holds, or what it will at the next
\* performIOIntr: then the next change of its bits calls it back.
InStep(r) ==
  \/ shown[r].bits = param \cap Mask[r]
  \/ last # Cleared /\ shown[r].bits = last.bits \cap Mask[r]

\* (read_from_buffer, performIOIntr, callParamCallbacks) A record gets out of step
\* only by a write of its own that does not succeed, or when last_written is read or
\* overwritten for another record before performIOIntr has published it; the scan
\* thread and the program of the PLC leave no record behind.
LeftBehindByWritesOnly ==
  [][\A r \in Records : Readback /\ InStep(r) /\ ~InStep(r)' =>
       \/ handler.rec = r /\ (WriteFails \/ WriteRefused)
       \/ last # Cleared /\ last' # last /\ ~ScanStep]_vars

\* (read_from_buffer, performIOIntr) When nobody changes the variable any more, the
\* records in step show its value in the end: the written value is not shown for
\* ever, and no change of the program is missed.
ShownSettles ==
  \A r \in Records :
    <>[]InStep(r) => <>[](shown[r].bits = plc.bits \cap Mask[r])

=============================================================================
