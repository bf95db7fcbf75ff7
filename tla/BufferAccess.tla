---------------------------- MODULE BufferAccess ----------------------------
(***************************************************************************)
(* The buffer of one sum-read chunk, shared by the scan thread, which saves *)
(* it and lets the ADS library overwrite it, and by the read handlers, which*)
(* copy a variable out of it.  AdsDriver takes such a copy as one step; here*)
(* it is made cell by cell.                                                 *)
(*                                                                         *)
(* A read handler holds the driver lock and, while it copies, the read side *)
(* of SumReadBuffer::rwlock.  The scan thread holds the write side while it *)
(* saves the buffer, and nothing the handlers respect while the library     *)
(* writes.  A cell is a part of the variable that is copied at once; its    *)
(* content is the sweep (the sum-read) that wrote it, counted modulo Sweeps.*)
(***************************************************************************)
EXTENDS Integers

CONSTANTS Cells, Readers, Scan, Nobody,
          Sweeps  \* bound: sweeps are told apart modulo Sweeps

ASSUME BufferAssumption ==
  /\ Sweeps \in Nat \ 0 .. 3
  /\ Scan \notin Readers /\ Nobody \notin Readers /\ Scan # Nobody

VARIABLES
  buffer,        \* SumReadBuffer::buffer
  buffer_state,  \* Valid
  sweep,         \* the sweep whose data the device sent last
  scan,          \* program counter of the scan thread
  cells,         \* the cells the library still has to write
  rpc,           \* program counters of the read handlers
  copy,          \* what a handler has copied, per cell (0 before)
  left,          \* the cells it still has to copy
  drvLock,       \* owner of the driver lock
  rwReaders,     \* handlers holding the read side of rwlock
  rwWriter       \* the write side: "none", "waiting", "held"

vars == <<buffer, buffer_state, sweep, scan, cells, rpc, copy, left, drvLock,
          rwReaders, rwWriter>>

Init ==
  /\ buffer = [i \in Cells |-> 0] /\ buffer_state = FALSE /\ sweep = 0
  /\ scan = "reconnect" /\ cells = {}
  /\ rpc = [c \in Readers |-> "idle"] /\ copy = [c \in Readers |-> buffer]
  /\ left = [c \in Readers |-> {}]
  /\ drvLock = Nobody /\ rwReaders = {} /\ rwWriter = "none"

-----------------------------------------------------------------------------
(* RWLock, created by SumReadBuffer with prefer_writer.                    *)

\* (wrong) prefer_reader.
ReaderFirst == rwWriter # "held"

\* pthread_rwlock_rdlock of a lock that prefers writers.
MayReadLock == rwWriter = "none"

\* (wrong) save_buffer does not take the lock.
SaveUnlocked ==
  /\ scan = "save"
  /\ scan' = "call"
  /\ UNCHANGED <<rwWriter, rwReaders>>

\* SumReadBuffer::save_buffer: lock_write, copy, unlock_write.  Nobody else
\* writes the saved copy or reads it, so that only the lock matters.
SaveLocked ==
  \/ /\ scan = "save" /\ rwWriter = "none"
     /\ rwWriter' = "waiting" /\ UNCHANGED <<scan, rwReaders>>
  \/ /\ scan = "save" /\ rwWriter = "waiting" /\ rwReaders = {}
     /\ rwWriter' = "held" /\ scan' = "saving" /\ UNCHANGED rwReaders
  \/ /\ scan = "saving"
     /\ rwWriter' = "none" /\ scan' = "call" /\ UNCHANGED rwReaders

SaveBuffer ==
  /\ SaveLocked
  /\ UNCHANGED <<buffer, buffer_state, sweep, cells, rpc, copy, left, drvLock>>

-----------------------------------------------------------------------------
(* The scan thread in SumReadRequest::read.                                *)

\* The device answers: AdsSyncReadWriteReqEx2 begins to fill the buffer.
Answer ==
  /\ scan = "call"
  /\ sweep' = (sweep + 1) % Sweeps
  /\ cells' = Cells /\ scan' = "filling"
  /\ UNCHANGED <<buffer, buffer_state, rpc, copy, left, drvLock, rwReaders,
                 rwWriter>>

Fill(i) ==
  /\ scan = "filling" /\ i \in cells
  /\ buffer' = [buffer EXCEPT ![i] = sweep]
  /\ cells' = cells \ {i}
  /\ UNCHANGED <<buffer_state, sweep, scan, rpc, copy, left, drvLock,
                 rwReaders, rwWriter>>

\* The call returns.  After a reconnect this was the initial sum-read, and
\* adsScan releases the driver lock.
Filled ==
  /\ scan = "filling" /\ cells = {}
  /\ buffer_state' = TRUE
  /\ drvLock' = IF drvLock = Scan THEN Nobody ELSE drvLock
  /\ scan' = "save"
  /\ UNCHANGED <<buffer, sweep, cells, rpc, copy, left, rwReaders, rwWriter>>

\* The call fails; ADSDisconnect, and the lock, if held, is released.
CallFails ==
  /\ scan = "call"
  /\ buffer_state' = FALSE
  /\ drvLock' = IF drvLock = Scan THEN Nobody ELSE drvLock
  /\ scan' = "reconnect"
  /\ UNCHANGED <<buffer, sweep, cells, rpc, copy, left, rwReaders, rwWriter>>

\* ADSConnect under the driver lock, up to the initial sum-read.
Reconnect ==
  /\ scan = "reconnect" /\ drvLock = Nobody
  /\ drvLock' = Scan /\ scan' = "save"
  /\ UNCHANGED <<buffer, buffer_state, sweep, cells, rpc, copy, left,
                 rwReaders, rwWriter>>

-----------------------------------------------------------------------------
(* A read handler.                                                         *)

Enter(c) ==
  /\ rpc[c] = "idle" /\ drvLock = Nobody
  /\ drvLock' = c /\ rpc' = [rpc EXCEPT ![c] = "check"]
  /\ UNCHANGED <<buffer, buffer_state, sweep, scan, cells, copy, left,
                 rwReaders, rwWriter>>

\* ADSVariable::read_from_buffer checks buffer_state without any lock.
Check(c) ==
  /\ rpc[c] = "check"
  /\ IF buffer_state
       THEN rpc' = [rpc EXCEPT ![c] = "lock"] /\ UNCHANGED drvLock
       ELSE rpc' = [rpc EXCEPT ![c] = "idle"] /\ drvLock' = Nobody
  /\ UNCHANGED <<buffer, buffer_state, sweep, scan, cells, copy, left,
                 rwReaders, rwWriter>>

\* SumReadBuffer::read_data: lock_read ...
ReadLock(c) ==
  /\ rpc[c] = "lock" /\ MayReadLock
  /\ rwReaders' = rwReaders \cup {c}
  /\ left' = [left EXCEPT ![c] = Cells]
  /\ rpc' = [rpc EXCEPT ![c] = "copy"]
  /\ UNCHANGED <<buffer, buffer_state, sweep, scan, cells, copy, drvLock,
                 rwWriter>>

\* ... memcpy, in whatever order it moves the bytes ...
CopyCell(c, i) ==
  /\ rpc[c] = "copy" /\ i \in left[c]
  /\ copy' = [copy EXCEPT ![c][i] = buffer[i]]
  /\ left' = [left EXCEPT ![c] = @ \ {i}]
  /\ UNCHANGED <<buffer, buffer_state, sweep, scan, cells, rpc, drvLock,
                 rwReaders, rwWriter>>

\* (wrong) read_data returns without unlock_read.
StillReading(c) == rwReaders

ReadersAfter(c) == rwReaders \ {c}

\* ... unlock_read, and the handler returns.
ReadUnlock(c) ==
  /\ rpc[c] = "copy" /\ left[c] = {}
  /\ rwReaders' = ReadersAfter(c)
  /\ copy' = [copy EXCEPT ![c] = [i \in Cells |-> 0]]
  /\ drvLock' = Nobody
  /\ rpc' = [rpc EXCEPT ![c] = "idle"]
  /\ UNCHANGED <<buffer, buffer_state, sweep, scan, cells, left, rwWriter>>

-----------------------------------------------------------------------------
ScanThread == \/ SaveBuffer \/ Answer \/ Filled \/ CallFails
              \/ \E i \in Cells : Fill(i)

Reader(c) == \/ Check(c) \/ ReadLock(c) \/ ReadUnlock(c)
             \/ \E i \in Cells : CopyCell(c, i)

Next == \/ ScanThread \/ Reconnect
        \/ \E c \in Readers : Enter(c) \/ Reader(c)

Spec == Init /\ [][Next]_vars

\* Every thread runs on.  The driver lock is eventually given to the scan thread;
\* of rwlock only prefer_writer is assumed.  Records may be processed at any
\* rate, but need not be.
FairSpec == /\ Spec
            /\ WF_vars(ScanThread) /\ SF_vars(Reconnect)
            /\ \A c \in Readers : WF_vars(Reader(c))

-----------------------------------------------------------------------------
\* Types of the state; the locks are held where the code holds them.
TypeOK ==
  /\ buffer \in [Cells -> 0 .. Sweeps - 1] /\ buffer_state \in BOOLEAN
  /\ sweep \in 0 .. Sweeps - 1
  /\ scan \in {"save", "saving", "call", "filling", "reconnect"}
  /\ cells \in SUBSET Cells
  /\ rpc \in [Readers -> {"idle", "check", "lock", "copy"}]
  /\ copy \in [Readers -> [Cells -> 0 .. Sweeps - 1]]
  /\ left \in [Readers -> SUBSET Cells]
  /\ drvLock \in Readers \cup {Scan, Nobody}
  /\ rwReaders = {c \in Readers : rpc[c] = "copy"}
  /\ rwWriter \in {"none", "waiting", "held"}

CopyEnds(c) == rpc[c] = "copy" /\ left[c] = {}

\* The library fills the buffer with no lock a reader respects, but it cannot do
\* so twice during one copy: save_buffer has to wait for the reader first.  What
\* a handler returns mixes two consecutive sweeps at most.
AtMostOneSweepApart ==
  \A c \in Readers : CopyEnds(c) =>
    \A i, j \in Cells : (copy[c][i] - copy[c][j]) % Sweeps \in {0, 1, Sweeps - 1}

\* (read_data, save_buffer) rwlock prefers its writer, so that a handler may have to wait
\* for save_buffer while save_buffer waits for a handler: never for this one, and never
\* for one that needs the driver lock of the one that waits.  Who has a lock goes on.
LockHoldersGoOn ==
  /\ \A c \in Readers : drvLock = c =>
       rpc[c] # "idle" /\ (rpc[c] = "lock" => rwReaders = {})
  /\ drvLock = Scan => scan # "reconnect" /\ rwReaders = {}
  /\ rwWriter # "none" => scan \in {"save", "saving"}
  /\ \A c \in rwReaders : rpc[c] = "copy" /\ drvLock = c

\* "The caller should use the rwlock property to acquire a read/write lock before
\* attempting to manipulate the buffer": what a handler returns is of one sweep.
ReadsOneSweep ==
  \A c \in Readers : CopyEnds(c) => \A i, j \in Cells : copy[c][i] = copy[c][j]

\* However fast records are processed, the readers do not keep the scan thread
\* from its next sweep: the sum-read calls go on for ever.
SweepsGoOn == []<>(scan = "call")

=============================================================================
