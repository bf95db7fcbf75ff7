-------------------------- MODULE BufferAccessProofs --------------------------
(***************************************************************************)
(* For any number of handlers and cells: the locks of BufferAccess are held *)
(* where the code holds them, and a copy mixes two consecutive sweeps at    *)
(* most.                                                                    *)
(***************************************************************************)
EXTENDS BufferAccess, TLAPS

\* The sweep before the last, or the last one, counted modulo Sweeps.
Recent(n) == n = sweep \/ (n + 1) % Sweeps = sweep

\* A handler has the driver lock from its entry to its return.
HandlersLocked == \A c \in Readers : (rpc[c] # "idle") <=> (drvLock = c)

\* The write side of rwlock is the scan thread's while it saves the buffer, and
\* nobody reads then.
WriterLocked ==
  /\ rwWriter = "held" <=> scan = "saving"
  /\ rwWriter = "waiting" => scan = "save"
  /\ rwWriter = "held" => rwReaders = {}

\* The buffer holds the last sweep, but for the cells still to be written.
BufferRecent ==
  \A i \in Cells : IF scan = "filling" /\ i \in cells THEN Recent(buffer[i])
                                                      ELSE buffer[i] = sweep

\* What a handler has copied is of the last two sweeps, and of the last one when
\* the next may begin while it copies.
CopyRecent ==
  \A c \in Readers : rpc[c] = "copy" =>
    \A i \in Cells \ left[c] :
      /\ Recent(copy[c][i])
      /\ scan \in {"call", "reconnect"} => copy[c][i] = sweep

\* The initial sum-read of a connection runs under the driver lock.
ScanLocked == drvLock = Scan => scan # "reconnect"

IInv == /\ TypeOK /\ HandlersLocked /\ WriterLocked /\ ScanLocked
        /\ BufferRecent /\ CopyRecent

-----------------------------------------------------------------------------
\* Nothing is locked and nothing copied at the start.
LEMMA InitTypes == Init => TypeOK
<1>1. 0 \in 0 .. Sweeps - 1
  BY BufferAssumption
<1>2. ASSUME Init PROVE buffer \in [Cells -> 0 .. Sweeps - 1] /\ sweep \in 0 .. Sweeps - 1
  BY <1>1, <1>2 DEF Init
<1>3. ASSUME Init PROVE copy \in [Readers -> [Cells -> 0 .. Sweeps - 1]]
  BY <1>2, <1>3 DEF Init
<1>4. ASSUME Init PROVE rwReaders = {c \in Readers : rpc[c] = "copy"}
  BY <1>4 DEF Init
<1>5. QED
  BY <1>2, <1>3, <1>4 DEF Init, TypeOK

\* The sweeps are counted in their range.
LEMMA NextSweep ==
  ASSUME NEW n \in 0 .. Sweeps - 1
  PROVE  (n + 1) % Sweeps \in 0 .. Sweeps - 1
BY BufferAssumption

LEMMA TypesPreserved == ASSUME TypeOK, [Next]_vars PROVE TypeOK'
<1> USE DEF TypeOK
<1>1. CASE SaveBuffer
  BY <1>1 DEF SaveBuffer, SaveLocked
<1>2. CASE Answer
  BY <1>2, NextSweep DEF Answer
<1>3. ASSUME NEW i \in Cells, Fill(i) PROVE TypeOK'
  BY <1>3 DEF Fill
<1>4. CASE Filled
  BY <1>4 DEF Filled
<1>5. CASE CallFails
  BY <1>5 DEF CallFails
<1>6. CASE Reconnect
  BY <1>6 DEF Reconnect
<1>7. ASSUME NEW c \in Readers, Enter(c) PROVE TypeOK'
  BY <1>7 DEF Enter
<1>8. ASSUME NEW c \in Readers, Check(c) PROVE TypeOK'
  BY <1>8 DEF Check
<1>9. ASSUME NEW c \in Readers, ReadLock(c) PROVE TypeOK'
  BY <1>9 DEF ReadLock
<1>10. ASSUME NEW c \in Readers, NEW i \in Cells, CopyCell(c, i) PROVE TypeOK'
  BY <1>10 DEF CopyCell
<1>11. ASSUME NEW c \in Readers, ReadUnlock(c) PROVE TypeOK'
  BY <1>11, BufferAssumption DEF ReadUnlock, ReadersAfter
<1>12. CASE UNCHANGED vars
  BY <1>12 DEF vars
<1>13. QED
  BY <1>1, <1>2, <1>3, <1>4, <1>5, <1>6, <1>7, <1>8, <1>9, <1>10, <1>11, <1>12
     DEF Next, ScanThread, Reader

\* The driver lock and rwlock.
LEMMA LocksPreserved ==
  ASSUME TypeOK, HandlersLocked, WriterLocked, ScanLocked, [Next]_vars
  PROVE  HandlersLocked' /\ WriterLocked' /\ ScanLocked'
<1> USE BufferAssumption DEF TypeOK, HandlersLocked, WriterLocked, ScanLocked
<1>1. CASE SaveBuffer
  BY <1>1 DEF SaveBuffer, SaveLocked
<1>2. CASE Answer
  BY <1>2 DEF Answer
<1>3. ASSUME NEW i \in Cells, Fill(i) PROVE (HandlersLocked /\ WriterLocked /\ ScanLocked)'
  BY <1>3 DEF Fill
<1>4. CASE Filled
  BY <1>4 DEF Filled
<1>5. CASE CallFails
  BY <1>5 DEF CallFails
<1>6. CASE Reconnect
  BY <1>6 DEF Reconnect
<1>7. ASSUME NEW c \in Readers, Enter(c) PROVE (HandlersLocked /\ WriterLocked /\ ScanLocked)'
  BY <1>7 DEF Enter
<1>8. ASSUME NEW c \in Readers, Check(c) PROVE (HandlersLocked /\ WriterLocked /\ ScanLocked)'
  BY <1>8 DEF Check
<1>9. ASSUME NEW c \in Readers, ReadLock(c) PROVE (HandlersLocked /\ WriterLocked /\ ScanLocked)'
  BY <1>9 DEF ReadLock, MayReadLock
<1>10. ASSUME NEW c \in Readers, NEW i \in Cells, CopyCell(c, i)
       PROVE  (HandlersLocked /\ WriterLocked /\ ScanLocked)'
  BY <1>10 DEF CopyCell
<1>11. ASSUME NEW c \in Readers, ReadUnlock(c) PROVE (HandlersLocked /\ WriterLocked /\ ScanLocked)'
  BY <1>11 DEF ReadUnlock, ReadersAfter
<1>12. CASE UNCHANGED vars
  BY <1>12 DEF vars
<1>13. QED
  BY <1>1, <1>2, <1>3, <1>4, <1>5, <1>6, <1>7, <1>8, <1>9, <1>10, <1>11, <1>12
     DEF Next, ScanThread, Reader

\* The contents of the buffer and of the copies, when the scan thread moves.
LEMMA ScanKeepsRecent ==
  ASSUME IInv, ScanThread \/ Reconnect
  PROVE  BufferRecent' /\ CopyRecent'
<1> USE DEF IInv, TypeOK, BufferRecent, CopyRecent, Recent
<1>1. CASE SaveBuffer
  \* No handler copies when the scan thread goes on to the call.
  BY <1>1 DEF SaveBuffer, SaveLocked, WriterLocked
<1>2. CASE Answer
  \* Every cell is of the sweep that is the one before now.
  BY <1>2 DEF Answer
<1>3. ASSUME NEW i \in Cells, Fill(i) PROVE BufferRecent' /\ CopyRecent'
  BY <1>3 DEF Fill
<1>4. CASE Filled
  BY <1>4 DEF Filled
<1>5. CASE CallFails
  BY <1>5 DEF CallFails
<1>6. CASE Reconnect
  BY <1>6 DEF Reconnect
<1>7. QED
  BY <1>1, <1>2, <1>3, <1>4, <1>5, <1>6 DEF ScanThread

\* ... and when a handler does.
LEMMA ReaderKeepsRecent ==
  ASSUME IInv, NEW c \in Readers, Enter(c) \/ Reader(c)
  PROVE  BufferRecent' /\ CopyRecent'
<1> USE DEF IInv, TypeOK, BufferRecent, CopyRecent, Recent
<1>1. CASE Enter(c)
  BY <1>1 DEF Enter
<1>2. CASE Check(c)
  BY <1>2 DEF Check
<1>3. CASE ReadLock(c)
  BY <1>3 DEF ReadLock
<1>4. ASSUME NEW i \in Cells, CopyCell(c, i) PROVE BufferRecent' /\ CopyRecent'
  BY <1>4 DEF CopyCell
<1>5. CASE ReadUnlock(c)
  BY <1>5 DEF ReadUnlock
<1>6. QED
  BY <1>1, <1>2, <1>3, <1>4, <1>5 DEF Reader

LEMMA Preserved == ASSUME IInv, [Next]_vars PROVE IInv'
<1>1. TypeOK' /\ HandlersLocked' /\ WriterLocked' /\ ScanLocked'
  BY TypesPreserved, LocksPreserved DEF IInv
<1>2. BufferRecent' /\ CopyRecent'
  <2>1. CASE UNCHANGED vars
    BY <2>1 DEF vars, IInv, BufferRecent, CopyRecent, Recent
  <2>2. CASE Next
    BY <2>2, ScanKeepsRecent, ReaderKeepsRecent DEF Next
  <2>3. QED
    BY <2>1, <2>2
<1>3. QED
  BY <1>1, <1>2 DEF IInv

LEMMA InitInvariant == Init => IInv
<1>1. Init => HandlersLocked /\ WriterLocked /\ ScanLocked /\ BufferRecent /\ CopyRecent
  BY BufferAssumption
     DEF Init, HandlersLocked, WriterLocked, ScanLocked, BufferRecent, CopyRecent, Recent
<1>2. QED
  BY <1>1, InitTypes DEF IInv

\* The locks, the buffer and the copies, as above, in every reachable state.
THEOREM Invariance == Spec => []IInv
BY InitInvariant, Preserved, PTL DEF Spec

-----------------------------------------------------------------------------
\* Two numbers that stand for the last two sweeps are one apart at most.
LEMMA RecentApart ==
  ASSUME sweep \in 0 .. Sweeps - 1,
         NEW m \in 0 .. Sweeps - 1, NEW n \in 0 .. Sweeps - 1, Recent(m), Recent(n)
  PROVE  (m - n) % Sweeps \in {0, 1, Sweeps - 1}
<1>1. (m + 1) % Sweeps = (IF m = Sweeps - 1 THEN 0 ELSE m + 1)
      /\ (n + 1) % Sweeps = (IF n = Sweeps - 1 THEN 0 ELSE n + 1)
  BY BufferAssumption
<1>2. m - n \in {0, 1, -1, Sweeps - 1, 1 - Sweeps}
  BY <1>1, BufferAssumption DEF Recent
<1>3. /\ 0 % Sweeps = 0 /\ 1 % Sweeps = 1 /\ (-1) % Sweeps = Sweeps - 1
      /\ (Sweeps - 1) % Sweeps = Sweeps - 1 /\ (1 - Sweeps) % Sweeps = 1
  BY BufferAssumption
<1>4. QED
  BY <1>2, <1>3

\* The types of the state are right and the locks are held where the code holds them,
\* for any number of handlers.
THEOREM TypeCorrect == Spec => []TypeOK
<1>1. IInv => TypeOK
  BY DEF IInv
<1>2. QED
  BY <1>1, Invariance, PTL

\* The library fills the buffer under a lock no reader respects, but a copy ends with
\* cells of two consecutive sweeps at most, in any number of cells and handlers.
THEOREM CopiesMixTwoSweeps == Spec => []AtMostOneSweepApart
<1>1. ASSUME IInv PROVE AtMostOneSweepApart
  <2>1. SUFFICES ASSUME NEW c \in Readers, CopyEnds(c), NEW i \in Cells, NEW j \in Cells
                 PROVE  (copy[c][i] - copy[c][j]) % Sweeps \in {0, 1, Sweeps - 1}
    BY DEF AtMostOneSweepApart
  <2>2. Recent(copy[c][i]) /\ Recent(copy[c][j])
    BY <1>1, <2>1 DEF IInv, CopyRecent, CopyEnds
  <2>3. /\ copy[c][i] \in 0 .. Sweeps - 1 /\ copy[c][j] \in 0 .. Sweeps - 1
        /\ sweep \in 0 .. Sweeps - 1
    BY <1>1 DEF IInv, TypeOK
  <2>4. QED
    BY <2>2, <2>3, RecentApart
<1>2. QED
  BY <1>1, Invariance, PTL

\* For any number of handlers: neither the driver lock nor rwlock is held by anybody
\* who waits in a circle for it.
THEOREM HoldersGoOn == Spec => []LockHoldersGoOn
<1>1. ASSUME IInv PROVE LockHoldersGoOn
  <2> USE BufferAssumption DEF IInv
  <2>1. \A c \in rwReaders : rpc[c] = "copy" /\ drvLock = c
    BY <1>1 DEF TypeOK, HandlersLocked
  <2>2. \A c \in Readers : drvLock = c => rpc[c] # "idle"
    BY <1>1 DEF HandlersLocked
  <2>3. \A c \in Readers : drvLock = c /\ rpc[c] = "lock" => rwReaders = {}
    BY <1>1, <2>1 DEF TypeOK
  <2>4. drvLock = Scan => scan # "reconnect" /\ rwReaders = {}
    BY <1>1, <2>1 DEF ScanLocked, TypeOK
  <2>5. rwWriter # "none" => scan \in {"save", "saving"}
    BY <1>1 DEF TypeOK, WriterLocked
  <2>6. QED
    BY <2>1, <2>2, <2>3, <2>4, <2>5 DEF LockHoldersGoOn
<1>2. QED
  BY <1>1, Invariance, PTL

=============================================================================
