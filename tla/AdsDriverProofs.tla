--------------------------- MODULE AdsDriverProofs ---------------------------
(***************************************************************************)
(* Proofs about AdsDriver, for every set of variables, chunks and clients   *)
(* and every bound on the faults.                                           *)
(***************************************************************************)
EXTENDS AdsDriver, FiniteSetTheorems, TLAPS

\* Every step keeps the types.
LEMMA TypeNext ==
  TypeOK /\ [Next]_vars => TypeOK'
<1> SUFFICES ASSUME TypeOK,
                    [Next]_vars
             PROVE  TypeOK'
  OBVIOUS
<1> USE VarsAssumption, ChunksAssumption, ThreadsAssumption, FaultsAssumption
<1> USE DEF TypeOK, ScanPcs, Inside, Idle, Ops,
            vars, sysVars, connVars, nameVars, sumVars, bufVars, loopVars,
            clientVars, outVars
<1>1. ASSUME NEW v \in Vars,
              CreateDeviceVariable(v)
      PROVE  TypeOK'
  BY <1>1 DEF CreateDeviceVariable, Registered
<1>2. ASSUME NEW allocated \in BOOLEAN,
              InitHook(allocated)
      PROVE  TypeOK'
  BY <1>2 DEF InitHook
<1>3. CASE Shutdown
  BY <1>3 DEF Shutdown
<1>4. CASE Joined
  BY <1>4 DEF Joined
<1>5. CASE ScanLoop
  BY <1>5 DEF ScanLoop, NeedsConnect, ChunksRead
<1>6. ASSUME NEW pc \in {"devInfo", "devState"}, NEW answered \in BOOLEAN,
              ReadDevice(pc, answered)
      PROVE  TypeOK'
  BY <1>6 DEF ReadDevice, AdsCall, ChunksRead
<1>7. CASE BeginConnect
  BY <1>7 DEF BeginConnect, LockForConnect
<1>8. CASE Connect
  BY <1>8 DEF Connect, OpenPort
<1>9. CASE LockResolve
  <2>1. failed' \in BOOLEAN
    BY <1>9 DEF LockResolve
  <2>2. QED
    BY <1>9, <2>1 DEF LockResolve, ListVars
<1>10. CASE ResolveEnd
  <2>1. failed' \in BOOLEAN
    BY <1>10 DEF ResolveEnd
  <2>2. QED
    BY <1>10, <2>1 DEF ResolveEnd, AfterResolve, OtherList
<1>11. CASE InitializeRequest
  <2>1. sum_initialized' \in BOOLEAN
    BY <1>11 DEF InitializeRequest
  <2>2. QED
    BY <1>11, <2>1 DEF InitializeRequest, ChunksRead
<1>12. ASSUME NEW v \in Vars, NEW answered \in BOOLEAN,
              ResolveVariable(v, answered)
      PROVE  TypeOK'
  <2>1. failed' \in BOOLEAN
    BY <1>12 DEF ResolveVariable
  <2>2. QED
    BY <1>12, <2>1 DEF ResolveVariable, HandleCall, AdsCall
<1>13. ASSUME NEW c \in Chunks, NEW bad \in SUBSET ads_read_vars,
              ReadChunk(c, bad)
      PROVE  TypeOK'
  BY <1>13 DEF ReadChunk, BufferAfterRead
<1>14. ASSUME NEW c \in Chunks,
              ReadChunkFails(c)
      PROVE  TypeOK'
  BY <1>14 DEF ReadChunkFails, AdsCall, InvalidateBuffers
<1>15. CASE ReadEnd
  BY <1>15 DEF ReadEnd
<1>16. CASE PerformIOIntr
  BY <1>16 DEF PerformIOIntr, Registered, Data, Readable
<1>17. CASE Deinitialize
  <2>1. sum_initialized' \in BOOLEAN
    BY <1>17 DEF Deinitialize
  <2>2. QED
    BY <1>17, <2>1 DEF Deinitialize, RequestZeroed
<1>18. CASE DisconnectCheck
  BY <1>18 DEF DisconnectCheck, DisconnectReturns
<1>19. CASE LockUnresolve
  BY <1>19 DEF LockUnresolve, ListVars
<1>20. CASE UnresolveEnd
  <2>1. reach' \in BOOLEAN
    BY <1>20 DEF UnresolveEnd
  <2>2. QED
    BY <1>20, <2>1 DEF UnresolveEnd, AfterUnresolve, OtherList
<1>21. ASSUME NEW v \in Vars, NEW answered \in BOOLEAN,
              UnresolveVariable(v, answered)
      PROVE  TypeOK'
  <2>1. reach' \in BOOLEAN
    BY <1>21 DEF UnresolveVariable
  <2>2. QED
    BY <1>21, <2>1 DEF UnresolveVariable, HandleCall, AdsCall, Unresolve
<1>22. CASE Disconnect
  BY <1>22 DEF Disconnect, DisconnectReturns
<1>23. CASE UnlockDriver
  BY <1>23 DEF UnlockDriver
<1>24. CASE ScanExit
  BY <1>24 DEF ScanExit
<1>25. ASSUME NEW c \in Clients,
              EnterHandler(c)
      PROVE  TypeOK'
  BY <1>25 DEF EnterHandler
<1>26. ASSUME NEW c \in Clients,
              ReadCheck(c)
      PROVE  TypeOK'
  BY <1>26 DEF ReadCheck, ReadReturns, HandlerAt, HandlerReturns
<1>27. ASSUME NEW c \in Clients,
              ReadBufferState(c)
      PROVE  TypeOK'
  BY <1>27 DEF ReadBufferState, ReadReturns, HandlerAt, HandlerReturns
<1>28. ASSUME NEW c \in Clients,
              ReadCopy(c)
      PROVE  TypeOK'
  BY <1>28 DEF ReadCopy, ReadReturns, HandlerAt, HandlerReturns
<1>29. ASSUME NEW c \in Clients,
              WriteCheck(c)
      PROVE  TypeOK'
  BY <1>29 DEF WriteCheck, HandlerAt, HandlerReturns
<1>30. ASSUME NEW c \in Clients,
              WriteLock(c)
      PROVE  TypeOK'
  BY <1>30 DEF WriteLock, HandlerAt
<1>31. ASSUME NEW c \in Clients, NEW answered \in BOOLEAN,
              WriteCall(c, answered)
      PROVE  TypeOK'
  BY <1>31 DEF WriteCall, AdsCall, ReleaseMutex, HandlerReturns
<1>32. ASSUME NEW c \in Clients, NEW v \in Vars, NEW op \in Ops,
              ProcessRecord(c, v, op)
      PROVE  TypeOK'
  BY <1>32 DEF ProcessRecord, Registered
<1>33. CASE UNCHANGED vars
  BY <1>33
<1> HIDE DEF TypeOK, ScanPcs, Inside, Idle, Ops
<1>34. QED
  BY <1>1, <1>2, <1>3, <1>4, <1>5, <1>6, <1>7, <1>8, <1>9, <1>10, <1>11,
     <1>12, <1>13, <1>14, <1>15, <1>16, <1>17, <1>18, <1>19, <1>20, <1>21,
     <1>22, <1>23, <1>24, <1>25, <1>26, <1>27, <1>28, <1>29, <1>30, <1>31,
     <1>32, <1>33 DEF Next, MainThread, ScanThread, Handler, Destroyed

\* Locks are owned by who holds them: a handler and the scan thread are never
\* both under the driver lock, in whichever branch of ADSConnect or
\* ADSDisconnect the scan thread takes.
LEMMA LockNext ==
  TypeOK /\ LockInv /\ [Next]_vars => LockInv'
<1> SUFFICES ASSUME TypeOK, LockInv,
                    [Next]_vars
             PROVE  LockInv'
  OBVIOUS
<1> USE VarsAssumption, ChunksAssumption, ThreadsAssumption, FaultsAssumption
<1> USE DEF TypeOK, ScanPcs, Inside, Idle, Ops, LockInv, ScanOwnsDriver,
            vars, sysVars, connVars, nameVars, sumVars, bufVars, loopVars,
            clientVars, outVars
<1>1. ASSUME NEW v \in Vars,
              CreateDeviceVariable(v)
      PROVE  LockInv'
  BY <1>1 DEF CreateDeviceVariable, Registered
<1>2. ASSUME NEW allocated \in BOOLEAN,
              InitHook(allocated)
      PROVE  LockInv'
  BY <1>2 DEF InitHook
<1>3. CASE Shutdown
  BY <1>3 DEF Shutdown
<1>4. CASE Joined
  BY <1>4 DEF Joined
<1>5. CASE ScanLoop
  BY <1>5 DEF ScanLoop, NeedsConnect, ChunksRead
<1>6. ASSUME NEW pc \in {"devInfo", "devState"}, NEW answered \in BOOLEAN,
              ReadDevice(pc, answered)
      PROVE  LockInv'
  BY <1>6 DEF ReadDevice, AdsCall, ChunksRead
<1>7. CASE BeginConnect
  BY <1>7 DEF BeginConnect, LockForConnect
<1>8. CASE Connect
  BY <1>8 DEF Connect, OpenPort
<1>9. CASE LockResolve
  BY <1>9 DEF LockResolve, ListVars
<1>10. CASE ResolveEnd
  BY <1>10 DEF ResolveEnd, AfterResolve, OtherList
<1>11. CASE InitializeRequest
  BY <1>11 DEF InitializeRequest, ChunksRead
<1>12. ASSUME NEW v \in Vars, NEW answered \in BOOLEAN,
              ResolveVariable(v, answered)
      PROVE  LockInv'
  BY <1>12 DEF ResolveVariable, HandleCall, AdsCall
<1>13. ASSUME NEW c \in Chunks, NEW bad \in SUBSET ads_read_vars,
              ReadChunk(c, bad)
      PROVE  LockInv'
  BY <1>13 DEF ReadChunk, BufferAfterRead
<1>14. ASSUME NEW c \in Chunks,
              ReadChunkFails(c)
      PROVE  LockInv'
  BY <1>14 DEF ReadChunkFails, AdsCall, InvalidateBuffers
<1>15. CASE ReadEnd
  BY <1>15 DEF ReadEnd
<1>16. CASE PerformIOIntr
  BY <1>16 DEF PerformIOIntr, Registered, Data, Readable
<1>17. CASE Deinitialize
  BY <1>17 DEF Deinitialize, RequestZeroed
<1>18. CASE DisconnectCheck
  BY <1>18 DEF DisconnectCheck, DisconnectReturns
<1>19. CASE LockUnresolve
  BY <1>19 DEF LockUnresolve, ListVars
<1>20. CASE UnresolveEnd
  BY <1>20 DEF UnresolveEnd, AfterUnresolve, OtherList
<1>21. ASSUME NEW v \in Vars, NEW answered \in BOOLEAN,
              UnresolveVariable(v, answered)
      PROVE  LockInv'
  BY <1>21 DEF UnresolveVariable, HandleCall, AdsCall, Unresolve
<1>22. CASE Disconnect
  BY <1>22 DEF Disconnect, DisconnectReturns
<1>23. CASE UnlockDriver
  BY <1>23 DEF UnlockDriver
<1>24. CASE ScanExit
  BY <1>24 DEF ScanExit
<1>25. ASSUME NEW c \in Clients,
              EnterHandler(c)
      PROVE  LockInv'
  BY <1>25 DEF EnterHandler
<1>26. ASSUME NEW c \in Clients,
              ReadCheck(c)
      PROVE  LockInv'
  BY <1>26 DEF ReadCheck, ReadReturns, HandlerAt, HandlerReturns
<1>27. ASSUME NEW c \in Clients,
              ReadBufferState(c)
      PROVE  LockInv'
  BY <1>27 DEF ReadBufferState, ReadReturns, HandlerAt, HandlerReturns
<1>28. ASSUME NEW c \in Clients,
              ReadCopy(c)
      PROVE  LockInv'
  BY <1>28 DEF ReadCopy, ReadReturns, HandlerAt, HandlerReturns
<1>29. ASSUME NEW c \in Clients,
              WriteCheck(c)
      PROVE  LockInv'
  BY <1>29 DEF WriteCheck, HandlerAt, HandlerReturns
<1>30. ASSUME NEW c \in Clients,
              WriteLock(c)
      PROVE  LockInv'
  BY <1>30 DEF WriteLock, HandlerAt
<1>31. ASSUME NEW c \in Clients, NEW answered \in BOOLEAN,
              WriteCall(c, answered)
      PROVE  LockInv'
  BY <1>31 DEF WriteCall, AdsCall, ReleaseMutex, HandlerReturns
<1>32. ASSUME NEW c \in Clients, NEW v \in Vars, NEW op \in Ops,
              ProcessRecord(c, v, op)
      PROVE  LockInv'
  BY <1>32 DEF ProcessRecord, Registered
<1>33. CASE UNCHANGED vars
  BY <1>33
<1> HIDE DEF TypeOK, ScanPcs, Inside, Idle, Ops, LockInv, ScanOwnsDriver
<1>34. QED
  BY <1>1, <1>2, <1>3, <1>4, <1>5, <1>6, <1>7, <1>8, <1>9, <1>10, <1>11,
     <1>12, <1>13, <1>14, <1>15, <1>16, <1>17, <1>18, <1>19, <1>20, <1>21,
     <1>22, <1>23, <1>24, <1>25, <1>26, <1>27, <1>28, <1>29, <1>30, <1>31,
     <1>32, <1>33 DEF Next, MainThread, ScanThread, Handler, Destroyed

\* The scan thread touches nothing before initHook has set initialized.
LEMMA StartNext ==
  TypeOK /\ LockInv /\ StartInv /\ PortInv /\ [Next]_vars => StartInv'
<1> SUFFICES ASSUME TypeOK, LockInv, StartInv, PortInv,
                    [Next]_vars
             PROVE  StartInv'
  OBVIOUS
<1> USE VarsAssumption, ChunksAssumption, ThreadsAssumption, FaultsAssumption
<1> USE DEF TypeOK, ScanPcs, Inside, Idle, Ops, LockInv, ScanOwnsDriver,
            StartInv, PortInv,
            vars, sysVars, connVars, nameVars, sumVars, bufVars, loopVars,
            clientVars, outVars
<1>1. ASSUME NEW v \in Vars,
              CreateDeviceVariable(v)
      PROVE  StartInv'
  BY <1>1 DEF CreateDeviceVariable, Registered
<1>2. ASSUME NEW allocated \in BOOLEAN,
              InitHook(allocated)
      PROVE  StartInv'
  BY <1>2 DEF InitHook
<1>3. CASE Shutdown
  BY <1>3 DEF Shutdown
<1>4. CASE Joined
  BY <1>4 DEF Joined
<1>5. CASE ScanLoop
  BY <1>5 DEF ScanLoop, NeedsConnect, ChunksRead
<1>6. ASSUME NEW pc \in {"devInfo", "devState"}, NEW answered \in BOOLEAN,
              ReadDevice(pc, answered)
      PROVE  StartInv'
  BY <1>6 DEF ReadDevice, AdsCall, ChunksRead
<1>7. CASE BeginConnect
  BY <1>7 DEF BeginConnect, LockForConnect
<1>8. CASE Connect
  BY <1>8 DEF Connect, OpenPort
<1>9. CASE LockResolve
  BY <1>9 DEF LockResolve, ListVars
<1>10. CASE ResolveEnd
  BY <1>10 DEF ResolveEnd, AfterResolve, OtherList
<1>11. CASE InitializeRequest
  BY <1>11 DEF InitializeRequest, ChunksRead
<1>12. ASSUME NEW v \in Vars, NEW answered \in BOOLEAN,
              ResolveVariable(v, answered)
      PROVE  StartInv'
  BY <1>12 DEF ResolveVariable, HandleCall, AdsCall
<1>13. ASSUME NEW c \in Chunks, NEW bad \in SUBSET ads_read_vars,
              ReadChunk(c, bad)
      PROVE  StartInv'
  BY <1>13 DEF ReadChunk, BufferAfterRead
<1>14. ASSUME NEW c \in Chunks,
              ReadChunkFails(c)
      PROVE  StartInv'
  BY <1>14 DEF ReadChunkFails, AdsCall, InvalidateBuffers
<1>15. CASE ReadEnd
  BY <1>15 DEF ReadEnd
<1>16. CASE PerformIOIntr
  BY <1>16 DEF PerformIOIntr, Registered, Data, Readable
<1>17. CASE Deinitialize
  BY <1>17 DEF Deinitialize, RequestZeroed
<1>18. CASE DisconnectCheck
  BY <1>18 DEF DisconnectCheck, DisconnectReturns
<1>19. CASE LockUnresolve
  BY <1>19 DEF LockUnresolve, ListVars
<1>20. CASE UnresolveEnd
  BY <1>20 DEF UnresolveEnd, AfterUnresolve, OtherList
<1>21. ASSUME NEW v \in Vars, NEW answered \in BOOLEAN,
              UnresolveVariable(v, answered)
      PROVE  StartInv'
  BY <1>21 DEF UnresolveVariable, HandleCall, AdsCall, Unresolve
<1>22. CASE Disconnect
  BY <1>22 DEF Disconnect, DisconnectReturns
<1>23. CASE UnlockDriver
  BY <1>23 DEF UnlockDriver
<1>24. CASE ScanExit
  BY <1>24 DEF ScanExit
<1>25. ASSUME NEW c \in Clients,
              EnterHandler(c)
      PROVE  StartInv'
  BY <1>25 DEF EnterHandler
<1>26. ASSUME NEW c \in Clients,
              ReadCheck(c)
      PROVE  StartInv'
  BY <1>26 DEF ReadCheck, ReadReturns, HandlerAt, HandlerReturns
<1>27. ASSUME NEW c \in Clients,
              ReadBufferState(c)
      PROVE  StartInv'
  BY <1>27 DEF ReadBufferState, ReadReturns, HandlerAt, HandlerReturns
<1>28. ASSUME NEW c \in Clients,
              ReadCopy(c)
      PROVE  StartInv'
  BY <1>28 DEF ReadCopy, ReadReturns, HandlerAt, HandlerReturns
<1>29. ASSUME NEW c \in Clients,
              WriteCheck(c)
      PROVE  StartInv'
  BY <1>29 DEF WriteCheck, HandlerAt, HandlerReturns
<1>30. ASSUME NEW c \in Clients,
              WriteLock(c)
      PROVE  StartInv'
  BY <1>30 DEF WriteLock, HandlerAt
<1>31. ASSUME NEW c \in Clients, NEW answered \in BOOLEAN,
              WriteCall(c, answered)
      PROVE  StartInv'
  BY <1>31 DEF WriteCall, AdsCall, ReleaseMutex, HandlerReturns
<1>32. ASSUME NEW c \in Clients, NEW v \in Vars, NEW op \in Ops,
              ProcessRecord(c, v, op)
      PROVE  StartInv'
  BY <1>32 DEF ProcessRecord, Registered
<1>33. CASE UNCHANGED vars
  BY <1>33
<1> HIDE DEF TypeOK, ScanPcs, Inside, Idle, Ops, LockInv, ScanOwnsDriver,
             StartInv, PortInv
<1>34. QED
  BY <1>1, <1>2, <1>3, <1>4, <1>5, <1>6, <1>7, <1>8, <1>9, <1>10, <1>11,
     <1>12, <1>13, <1>14, <1>15, <1>16, <1>17, <1>18, <1>19, <1>20, <1>21,
     <1>22, <1>23, <1>24, <1>25, <1>26, <1>27, <1>28, <1>29, <1>30, <1>31,
     <1>32, <1>33 DEF Next, MainThread, ScanThread, Handler, Destroyed

\* In every branch of adsScan, ADSConnect and ADSDisconnect the port is open, and
\* the request initialised, exactly where the code relies on it.
LEMMA PortNext ==
  TypeOK /\ LockInv /\ PortInv /\ [Next]_vars => PortInv'
<1> SUFFICES ASSUME TypeOK, LockInv, PortInv,
                    [Next]_vars
             PROVE  PortInv'
  OBVIOUS
<1> USE VarsAssumption, ChunksAssumption, ThreadsAssumption, FaultsAssumption
<1> USE DEF TypeOK, ScanPcs, Inside, Idle, Ops, LockInv, ScanOwnsDriver,
            PortInv,
            vars, sysVars, connVars, nameVars, sumVars, bufVars, loopVars,
            clientVars, outVars
<1>1. ASSUME NEW v \in Vars,
              CreateDeviceVariable(v)
      PROVE  PortInv'
  BY <1>1 DEF CreateDeviceVariable, Registered
<1>2. ASSUME NEW allocated \in BOOLEAN,
              InitHook(allocated)
      PROVE  PortInv'
  BY <1>2 DEF InitHook
<1>3. CASE Shutdown
  BY <1>3 DEF Shutdown
<1>4. CASE Joined
  BY <1>4 DEF Joined
<1>5. CASE ScanLoop
  BY <1>5 DEF ScanLoop, NeedsConnect, ChunksRead
<1>6. ASSUME NEW pc \in {"devInfo", "devState"}, NEW answered \in BOOLEAN,
              ReadDevice(pc, answered)
      PROVE  PortInv'
  BY <1>6 DEF ReadDevice, AdsCall, ChunksRead
<1>7. CASE BeginConnect
  BY <1>7 DEF BeginConnect, LockForConnect
<1>8. CASE Connect
  BY <1>8 DEF Connect, OpenPort
<1>9. CASE LockResolve
  BY <1>9 DEF LockResolve, ListVars
<1>10. CASE ResolveEnd
  BY <1>10 DEF ResolveEnd, AfterResolve, OtherList
<1>11. CASE InitializeRequest
  BY <1>11 DEF InitializeRequest, ChunksRead
<1>12. ASSUME NEW v \in Vars, NEW answered \in BOOLEAN,
              ResolveVariable(v, answered)
      PROVE  PortInv'
  BY <1>12 DEF ResolveVariable, HandleCall, AdsCall
<1>13. ASSUME NEW c \in Chunks, NEW bad \in SUBSET ads_read_vars,
              ReadChunk(c, bad)
      PROVE  PortInv'
  BY <1>13 DEF ReadChunk, BufferAfterRead
<1>14. ASSUME NEW c \in Chunks,
              ReadChunkFails(c)
      PROVE  PortInv'
  BY <1>14 DEF ReadChunkFails, AdsCall, InvalidateBuffers
<1>15. CASE ReadEnd
  BY <1>15 DEF ReadEnd
<1>16. CASE PerformIOIntr
  BY <1>16 DEF PerformIOIntr, Registered, Data, Readable
<1>17. CASE Deinitialize
  BY <1>17 DEF Deinitialize, RequestZeroed
<1>18. CASE DisconnectCheck
  BY <1>18 DEF DisconnectCheck, DisconnectReturns
<1>19. CASE LockUnresolve
  BY <1>19 DEF LockUnresolve, ListVars
<1>20. CASE UnresolveEnd
  BY <1>20 DEF UnresolveEnd, AfterUnresolve, OtherList
<1>21. ASSUME NEW v \in Vars, NEW answered \in BOOLEAN,
              UnresolveVariable(v, answered)
      PROVE  PortInv'
  BY <1>21 DEF UnresolveVariable, HandleCall, AdsCall, Unresolve
<1>22. CASE Disconnect
  BY <1>22 DEF Disconnect, DisconnectReturns
<1>23. CASE UnlockDriver
  BY <1>23 DEF UnlockDriver
<1>24. CASE ScanExit
  BY <1>24 DEF ScanExit
<1>25. ASSUME NEW c \in Clients,
              EnterHandler(c)
      PROVE  PortInv'
  BY <1>25 DEF EnterHandler
<1>26. ASSUME NEW c \in Clients,
              ReadCheck(c)
      PROVE  PortInv'
  BY <1>26 DEF ReadCheck, ReadReturns, HandlerAt, HandlerReturns
<1>27. ASSUME NEW c \in Clients,
              ReadBufferState(c)
      PROVE  PortInv'
  BY <1>27 DEF ReadBufferState, ReadReturns, HandlerAt, HandlerReturns
<1>28. ASSUME NEW c \in Clients,
              ReadCopy(c)
      PROVE  PortInv'
  BY <1>28 DEF ReadCopy, ReadReturns, HandlerAt, HandlerReturns
<1>29. ASSUME NEW c \in Clients,
              WriteCheck(c)
      PROVE  PortInv'
  BY <1>29 DEF WriteCheck, HandlerAt, HandlerReturns
<1>30. ASSUME NEW c \in Clients,
              WriteLock(c)
      PROVE  PortInv'
  BY <1>30 DEF WriteLock, HandlerAt
<1>31. ASSUME NEW c \in Clients, NEW answered \in BOOLEAN,
              WriteCall(c, answered)
      PROVE  PortInv'
  BY <1>31 DEF WriteCall, AdsCall, ReleaseMutex, HandlerReturns
<1>32. ASSUME NEW c \in Clients, NEW v \in Vars, NEW op \in Ops,
              ProcessRecord(c, v, op)
      PROVE  PortInv'
  BY <1>32 DEF ProcessRecord, Registered
<1>33. CASE UNCHANGED vars
  BY <1>33
<1> HIDE DEF TypeOK, ScanPcs, Inside, Idle, Ops, LockInv, ScanOwnsDriver,
             PortInv
<1>34. QED
  BY <1>1, <1>2, <1>3, <1>4, <1>5, <1>6, <1>7, <1>8, <1>9, <1>10, <1>11,
     <1>12, <1>13, <1>14, <1>15, <1>16, <1>17, <1>18, <1>19, <1>20, <1>21,
     <1>22, <1>23, <1>24, <1>25, <1>26, <1>27, <1>28, <1>29, <1>30, <1>31,
     <1>32, <1>33 DEF Next, MainThread, ScanThread, Handler, Destroyed

\* resolve_variables and unresolve_variables leave no handle of an older session.
LEMMA HandleNext ==
  TypeOK /\ LockInv /\ StartInv /\ PortInv /\ HandleInv /\ [Next]_vars => HandleInv'
<1> SUFFICES ASSUME TypeOK, LockInv, StartInv, PortInv, HandleInv,
                    [Next]_vars
             PROVE  HandleInv'
  OBVIOUS
<1> USE VarsAssumption, ChunksAssumption, ThreadsAssumption, FaultsAssumption
<1> USE DEF TypeOK, ScanPcs, Inside, Idle, Ops, LockInv, ScanOwnsDriver,
            StartInv, PortInv, HandleInv, ListVars, Registered,
            vars, sysVars, connVars, nameVars, sumVars, bufVars, loopVars,
            clientVars, outVars
<1>1. ASSUME NEW v \in Vars,
              CreateDeviceVariable(v)
      PROVE  HandleInv'
  BY <1>1 DEF CreateDeviceVariable
<1>2. ASSUME NEW allocated \in BOOLEAN,
              InitHook(allocated)
      PROVE  HandleInv'
  BY <1>2 DEF InitHook
<1>3. CASE Shutdown
  BY <1>3 DEF Shutdown
<1>4. CASE Joined
  BY <1>4 DEF Joined
<1>5. CASE ScanLoop
  BY <1>5 DEF ScanLoop, NeedsConnect, ChunksRead
<1>6. ASSUME NEW pc \in {"devInfo", "devState"}, NEW answered \in BOOLEAN,
              ReadDevice(pc, answered)
      PROVE  HandleInv'
  BY <1>6 DEF ReadDevice, AdsCall, ChunksRead
<1>7. CASE BeginConnect
  BY <1>7 DEF BeginConnect, LockForConnect
<1>8. CASE Connect
  BY <1>8 DEF Connect, OpenPort
<1>9. CASE LockResolve
  BY <1>9 DEF LockResolve
<1>10. CASE ResolveEnd
  BY <1>10 DEF ResolveEnd, AfterResolve, OtherList
<1>11. CASE InitializeRequest
  BY <1>11 DEF InitializeRequest, ChunksRead
<1>12. ASSUME NEW v \in Vars, NEW answered \in BOOLEAN,
              ResolveVariable(v, answered)
      PROVE  HandleInv'
  BY <1>12 DEF ResolveVariable, HandleCall, AdsCall
<1>13. ASSUME NEW c \in Chunks, NEW bad \in SUBSET ads_read_vars,
              ReadChunk(c, bad)
      PROVE  HandleInv'
  BY <1>13 DEF ReadChunk, BufferAfterRead
<1>14. ASSUME NEW c \in Chunks,
              ReadChunkFails(c)
      PROVE  HandleInv'
  BY <1>14 DEF ReadChunkFails, AdsCall, InvalidateBuffers
<1>15. CASE ReadEnd
  BY <1>15 DEF ReadEnd
<1>16. CASE PerformIOIntr
  BY <1>16 DEF PerformIOIntr, Data, Readable
<1>17. CASE Deinitialize
  BY <1>17 DEF Deinitialize, RequestZeroed
<1>18. CASE DisconnectCheck
  BY <1>18 DEF DisconnectCheck, DisconnectReturns
<1>19. CASE LockUnresolve
  BY <1>19 DEF LockUnresolve
<1>20. CASE UnresolveEnd
  BY <1>20 DEF UnresolveEnd, AfterUnresolve, OtherList
<1>21. ASSUME NEW v \in Vars, NEW answered \in BOOLEAN,
              UnresolveVariable(v, answered)
      PROVE  HandleInv'
  BY <1>21 DEF UnresolveVariable, HandleCall, AdsCall, Unresolve
<1>22. CASE Disconnect
  BY <1>22 DEF Disconnect, DisconnectReturns
<1>23. CASE UnlockDriver
  BY <1>23 DEF UnlockDriver
<1>24. CASE ScanExit
  BY <1>24 DEF ScanExit
<1>25. ASSUME NEW c \in Clients,
              EnterHandler(c)
      PROVE  HandleInv'
  BY <1>25 DEF EnterHandler
<1>26. ASSUME NEW c \in Clients,
              ReadCheck(c)
      PROVE  HandleInv'
  BY <1>26 DEF ReadCheck, ReadReturns, HandlerAt, HandlerReturns
<1>27. ASSUME NEW c \in Clients,
              ReadBufferState(c)
      PROVE  HandleInv'
  BY <1>27 DEF ReadBufferState, ReadReturns, HandlerAt, HandlerReturns
<1>28. ASSUME NEW c \in Clients,
              ReadCopy(c)
      PROVE  HandleInv'
  BY <1>28 DEF ReadCopy, ReadReturns, HandlerAt, HandlerReturns
<1>29. ASSUME NEW c \in Clients,
              WriteCheck(c)
      PROVE  HandleInv'
  BY <1>29 DEF WriteCheck, HandlerAt, HandlerReturns
<1>30. ASSUME NEW c \in Clients,
              WriteLock(c)
      PROVE  HandleInv'
  BY <1>30 DEF WriteLock, HandlerAt
<1>31. ASSUME NEW c \in Clients, NEW answered \in BOOLEAN,
              WriteCall(c, answered)
      PROVE  HandleInv'
  BY <1>31 DEF WriteCall, AdsCall, ReleaseMutex, HandlerReturns
<1>32. ASSUME NEW c \in Clients, NEW v \in Vars, NEW op \in Ops,
              ProcessRecord(c, v, op)
      PROVE  HandleInv'
  BY <1>32 DEF ProcessRecord
<1>33. CASE UNCHANGED vars
  BY <1>33
<1> HIDE DEF TypeOK, ScanPcs, Inside, Idle, Ops, LockInv, ScanOwnsDriver,
             StartInv, PortInv, HandleInv, ListVars, Registered
<1>34. QED
  BY <1>1, <1>2, <1>3, <1>4, <1>5, <1>6, <1>7, <1>8, <1>9, <1>10, <1>11,
     <1>12, <1>13, <1>14, <1>15, <1>16, <1>17, <1>18, <1>19, <1>20, <1>21,
     <1>22, <1>23, <1>24, <1>25, <1>26, <1>27, <1>28, <1>29, <1>30, <1>31,
     <1>32, <1>33 DEF Next, MainThread, ScanThread, Handler, Destroyed

\* Every path that lets a handler read the buffers of an open connection has read
\* all of them in that session.
LEMMA FreshNext ==
  TypeOK /\ LockInv /\ StartInv /\ PortInv /\ FreshInv /\ [Next]_vars => FreshInv'
<1> SUFFICES ASSUME TypeOK, LockInv, StartInv, PortInv, FreshInv,
                    [Next]_vars
             PROVE  FreshInv'
  OBVIOUS
<1> USE VarsAssumption, ChunksAssumption, ThreadsAssumption, FaultsAssumption
<1> USE DEF TypeOK, ScanPcs, Inside, Idle, Ops, LockInv, ScanOwnsDriver,
            StartInv, PortInv, FreshInv, Fresh,
            vars, sysVars, connVars, nameVars, sumVars, bufVars, loopVars,
            clientVars, outVars
<1>1. ASSUME NEW v \in Vars,
              CreateDeviceVariable(v)
      PROVE  FreshInv'
  BY <1>1 DEF CreateDeviceVariable, Registered
<1>2. ASSUME NEW allocated \in BOOLEAN,
              InitHook(allocated)
      PROVE  FreshInv'
  BY <1>2 DEF InitHook
<1>3. CASE Shutdown
  BY <1>3 DEF Shutdown
<1>4. CASE Joined
  BY <1>4 DEF Joined
<1>5. CASE ScanLoop
  BY <1>5 DEF ScanLoop, NeedsConnect, ChunksRead
<1>6. ASSUME NEW pc \in {"devInfo", "devState"}, NEW answered \in BOOLEAN,
              ReadDevice(pc, answered)
      PROVE  FreshInv'
  BY <1>6 DEF ReadDevice, AdsCall, ChunksRead
<1>7. CASE BeginConnect
  BY <1>7 DEF BeginConnect, LockForConnect
<1>8. CASE Connect
  BY <1>8 DEF Connect, OpenPort
<1>9. CASE LockResolve
  BY <1>9 DEF LockResolve, ListVars
<1>10. CASE ResolveEnd
  BY <1>10 DEF ResolveEnd, AfterResolve, OtherList
<1>11. CASE InitializeRequest
  BY <1>11 DEF InitializeRequest, ChunksRead
<1>12. ASSUME NEW v \in Vars, NEW answered \in BOOLEAN,
              ResolveVariable(v, answered)
      PROVE  FreshInv'
  BY <1>12 DEF ResolveVariable, HandleCall, AdsCall
<1>13. ASSUME NEW c \in Chunks, NEW bad \in SUBSET ads_read_vars,
              ReadChunk(c, bad)
      PROVE  FreshInv'
  BY <1>13 DEF ReadChunk, BufferAfterRead
<1>14. ASSUME NEW c \in Chunks,
              ReadChunkFails(c)
      PROVE  FreshInv'
  BY <1>14 DEF ReadChunkFails, AdsCall, InvalidateBuffers
<1>15. CASE ReadEnd
  BY <1>15 DEF ReadEnd
<1>16. CASE PerformIOIntr
  BY <1>16 DEF PerformIOIntr, Registered, Data, Readable
<1>17. CASE Deinitialize
  BY <1>17 DEF Deinitialize, RequestZeroed
<1>18. CASE DisconnectCheck
  BY <1>18 DEF DisconnectCheck, DisconnectReturns
<1>19. CASE LockUnresolve
  BY <1>19 DEF LockUnresolve, ListVars
<1>20. CASE UnresolveEnd
  BY <1>20 DEF UnresolveEnd, AfterUnresolve, OtherList
<1>21. ASSUME NEW v \in Vars, NEW answered \in BOOLEAN,
              UnresolveVariable(v, answered)
      PROVE  FreshInv'
  BY <1>21 DEF UnresolveVariable, HandleCall, AdsCall, Unresolve
<1>22. CASE Disconnect
  BY <1>22 DEF Disconnect, DisconnectReturns
<1>23. CASE UnlockDriver
  BY <1>23 DEF UnlockDriver
<1>24. CASE ScanExit
  BY <1>24 DEF ScanExit
<1>25. ASSUME NEW c \in Clients,
              EnterHandler(c)
      PROVE  FreshInv'
  BY <1>25 DEF EnterHandler
<1>26. ASSUME NEW c \in Clients,
              ReadCheck(c)
      PROVE  FreshInv'
  BY <1>26 DEF ReadCheck, ReadReturns, HandlerAt, HandlerReturns
<1>27. ASSUME NEW c \in Clients,
              ReadBufferState(c)
      PROVE  FreshInv'
  BY <1>27 DEF ReadBufferState, ReadReturns, HandlerAt, HandlerReturns
<1>28. ASSUME NEW c \in Clients,
              ReadCopy(c)
      PROVE  FreshInv'
  BY <1>28 DEF ReadCopy, ReadReturns, HandlerAt, HandlerReturns
<1>29. ASSUME NEW c \in Clients,
              WriteCheck(c)
      PROVE  FreshInv'
  BY <1>29 DEF WriteCheck, HandlerAt, HandlerReturns
<1>30. ASSUME NEW c \in Clients,
              WriteLock(c)
      PROVE  FreshInv'
  BY <1>30 DEF WriteLock, HandlerAt
<1>31. ASSUME NEW c \in Clients, NEW answered \in BOOLEAN,
              WriteCall(c, answered)
      PROVE  FreshInv'
  BY <1>31 DEF WriteCall, AdsCall, ReleaseMutex, HandlerReturns
<1>32. ASSUME NEW c \in Clients, NEW v \in Vars, NEW op \in Ops,
              ProcessRecord(c, v, op)
      PROVE  FreshInv'
  BY <1>32 DEF ProcessRecord, Registered
<1>33. CASE UNCHANGED vars
  BY <1>33
<1> HIDE DEF TypeOK, ScanPcs, Inside, Idle, Ops, LockInv, ScanOwnsDriver,
             StartInv, PortInv, FreshInv, Fresh
<1>34. QED
  BY <1>1, <1>2, <1>3, <1>4, <1>5, <1>6, <1>7, <1>8, <1>9, <1>10, <1>11,
     <1>12, <1>13, <1>14, <1>15, <1>16, <1>17, <1>18, <1>19, <1>20, <1>21,
     <1>22, <1>23, <1>24, <1>25, <1>26, <1>27, <1>28, <1>29, <1>30, <1>31,
     <1>32, <1>33 DEF Next, MainThread, ScanThread, Handler, Destroyed

\* The device keeps one handle for every resolved variable, and one more at most
\* for every failed call; the router keeps its routes likewise.
LEMMA LeakNext ==
  TypeOK /\ LockInv /\ PortInv /\ LeakInv /\ [Next]_vars => LeakInv'
<1> SUFFICES ASSUME TypeOK, LockInv, PortInv, LeakInv,
                    [Next]_vars
             PROVE  LeakInv'
  OBVIOUS
<1> USE VarsAssumption, ChunksAssumption, ThreadsAssumption, FaultsAssumption
<1> USE DEF TypeOK, ScanPcs, Inside, Idle, Ops, LockInv, ScanOwnsDriver,
            PortInv, LeakInv,
            vars, sysVars, connVars, nameVars, sumVars, bufVars, loopVars,
            clientVars, outVars
<1>1. ASSUME NEW v \in Vars,
              CreateDeviceVariable(v)
      PROVE  LeakInv'
  BY <1>1 DEF CreateDeviceVariable, Registered
<1>2. ASSUME NEW allocated \in BOOLEAN,
              InitHook(allocated)
      PROVE  LeakInv'
  BY <1>2 DEF InitHook
<1>3. CASE Shutdown
  BY <1>3 DEF Shutdown
<1>4. CASE Joined
  BY <1>4 DEF Joined
<1>5. CASE ScanLoop
  BY <1>5 DEF ScanLoop, NeedsConnect, ChunksRead
<1>6. ASSUME NEW pc \in {"devInfo", "devState"}, NEW answered \in BOOLEAN,
              ReadDevice(pc, answered)
      PROVE  LeakInv'
  BY <1>6 DEF ReadDevice, AdsCall, ChunksRead
<1>7. CASE BeginConnect
  BY <1>7 DEF BeginConnect, LockForConnect
<1>8. CASE Connect
  BY <1>8 DEF Connect, OpenPort
<1>9. CASE LockResolve
  BY <1>9 DEF LockResolve, ListVars
<1>10. CASE ResolveEnd
  BY <1>10 DEF ResolveEnd, AfterResolve, OtherList
<1>11. CASE InitializeRequest
  BY <1>11 DEF InitializeRequest, ChunksRead
<1>12. ASSUME NEW v \in Vars, NEW answered \in BOOLEAN,
              ResolveVariable(v, answered)
      PROVE  LeakInv'
  BY <1>12 DEF ResolveVariable, Skipped, HandleCall, AdsCall
<1>13. ASSUME NEW c \in Chunks, NEW bad \in SUBSET ads_read_vars,
              ReadChunk(c, bad)
      PROVE  LeakInv'
  BY <1>13 DEF ReadChunk, BufferAfterRead
<1>14. ASSUME NEW c \in Chunks,
              ReadChunkFails(c)
      PROVE  LeakInv'
  BY <1>14 DEF ReadChunkFails, AdsCall, InvalidateBuffers
<1>15. CASE ReadEnd
  BY <1>15 DEF ReadEnd
<1>16. CASE PerformIOIntr
  BY <1>16 DEF PerformIOIntr, Registered, Data, Readable
<1>17. CASE Deinitialize
  BY <1>17 DEF Deinitialize, RequestZeroed
<1>18. CASE DisconnectCheck
  BY <1>18 DEF DisconnectCheck, DisconnectReturns
<1>19. CASE LockUnresolve
  BY <1>19 DEF LockUnresolve, ListVars
<1>20. CASE UnresolveEnd
  BY <1>20 DEF UnresolveEnd, AfterUnresolve, OtherList
<1>21. ASSUME NEW v \in Vars, NEW answered \in BOOLEAN,
              UnresolveVariable(v, answered)
      PROVE  LeakInv'
  BY <1>21 DEF UnresolveVariable, HandleCall, AdsCall, Unresolve
<1>22. CASE Disconnect
  BY <1>22 DEF Disconnect, DisconnectReturns
<1>23. CASE UnlockDriver
  BY <1>23 DEF UnlockDriver
<1>24. CASE ScanExit
  BY <1>24 DEF ScanExit
<1>25. ASSUME NEW c \in Clients,
              EnterHandler(c)
      PROVE  LeakInv'
  BY <1>25 DEF EnterHandler
<1>26. ASSUME NEW c \in Clients,
              ReadCheck(c)
      PROVE  LeakInv'
  BY <1>26 DEF ReadCheck, ReadReturns, HandlerAt, HandlerReturns
<1>27. ASSUME NEW c \in Clients,
              ReadBufferState(c)
      PROVE  LeakInv'
  BY <1>27 DEF ReadBufferState, ReadReturns, HandlerAt, HandlerReturns
<1>28. ASSUME NEW c \in Clients,
              ReadCopy(c)
      PROVE  LeakInv'
  BY <1>28 DEF ReadCopy, ReadReturns, HandlerAt, HandlerReturns
<1>29. ASSUME NEW c \in Clients,
              WriteCheck(c)
      PROVE  LeakInv'
  BY <1>29 DEF WriteCheck, HandlerAt, HandlerReturns
<1>30. ASSUME NEW c \in Clients,
              WriteLock(c)
      PROVE  LeakInv'
  BY <1>30 DEF WriteLock, HandlerAt
<1>31. ASSUME NEW c \in Clients, NEW answered \in BOOLEAN,
              WriteCall(c, answered)
      PROVE  LeakInv'
  BY <1>31 DEF WriteCall, AdsCall, ReleaseMutex, HandlerReturns
<1>32. ASSUME NEW c \in Clients, NEW v \in Vars, NEW op \in Ops,
              ProcessRecord(c, v, op)
      PROVE  LeakInv'
  BY <1>32 DEF ProcessRecord, Registered
<1>33. CASE UNCHANGED vars
  BY <1>33
<1> HIDE DEF TypeOK, ScanPcs, Inside, Idle, Ops, LockInv, ScanOwnsDriver,
             PortInv, LeakInv
<1>34. QED
  BY <1>1, <1>2, <1>3, <1>4, <1>5, <1>6, <1>7, <1>8, <1>9, <1>10, <1>11,
     <1>12, <1>13, <1>14, <1>15, <1>16, <1>17, <1>18, <1>19, <1>20, <1>21,
     <1>22, <1>23, <1>24, <1>25, <1>26, <1>27, <1>28, <1>29, <1>30, <1>31,
     <1>32, <1>33 DEF Next, MainThread, ScanThread, Handler, Destroyed

\* Nothing published is newer than a value that waits to be read back: publishing
\* the variable takes the value, and a later write is of the newest session.
LEMMA PublishedNext ==
  TypeOK /\ LockInv /\ PortInv /\ FreshInv /\ PublishedInv /\ [Next]_vars
    => PublishedInv'
<1> SUFFICES ASSUME TypeOK, LockInv, PortInv, FreshInv, PublishedInv,
                    [Next]_vars
             PROVE  PublishedInv'
  OBVIOUS
<1> USE VarsAssumption, ChunksAssumption, ThreadsAssumption, FaultsAssumption
<1> USE DEF TypeOK, ScanPcs, Inside, Idle, Ops, LockInv, ScanOwnsDriver,
            PortInv, FreshInv, Fresh, PublishedInv,
            vars, sysVars, connVars, nameVars, sumVars, bufVars, loopVars,
            clientVars, outVars
<1>1. ASSUME NEW v \in Vars,
              CreateDeviceVariable(v)
      PROVE  PublishedInv'
  BY <1>1 DEF CreateDeviceVariable, Registered
<1>2. ASSUME NEW allocated \in BOOLEAN,
              InitHook(allocated)
      PROVE  PublishedInv'
  BY <1>2 DEF InitHook
<1>3. CASE Shutdown
  BY <1>3 DEF Shutdown
<1>4. CASE Joined
  BY <1>4 DEF Joined
<1>5. CASE ScanLoop
  BY <1>5 DEF ScanLoop, NeedsConnect, ChunksRead
<1>6. ASSUME NEW pc \in {"devInfo", "devState"}, NEW answered \in BOOLEAN,
              ReadDevice(pc, answered)
      PROVE  PublishedInv'
  BY <1>6 DEF ReadDevice, AdsCall, ChunksRead
<1>7. CASE BeginConnect
  BY <1>7 DEF BeginConnect, LockForConnect
<1>8. CASE Connect
  BY <1>8 DEF Connect, OpenPort
<1>9. CASE LockResolve
  BY <1>9 DEF LockResolve, ListVars
<1>10. CASE ResolveEnd
  BY <1>10 DEF ResolveEnd, AfterResolve, OtherList
<1>11. CASE InitializeRequest
  BY <1>11 DEF InitializeRequest, ChunksRead
<1>12. ASSUME NEW v \in Vars, NEW answered \in BOOLEAN,
              ResolveVariable(v, answered)
      PROVE  PublishedInv'
  BY <1>12 DEF ResolveVariable, HandleCall, AdsCall
<1>13. ASSUME NEW c \in Chunks, NEW bad \in SUBSET ads_read_vars,
              ReadChunk(c, bad)
      PROVE  PublishedInv'
  BY <1>13 DEF ReadChunk, BufferAfterRead
<1>14. ASSUME NEW c \in Chunks,
              ReadChunkFails(c)
      PROVE  PublishedInv'
  BY <1>14 DEF ReadChunkFails, AdsCall, InvalidateBuffers
<1>15. CASE ReadEnd
  BY <1>15 DEF ReadEnd
<1>16. CASE PerformIOIntr
  <2> DEFINE intr == IntrVars \cap Registered
             read == {v \in intr : ads_port # 0 /\ Readable(v)}
  <2>1. /\ pub' = [v \in Vars |-> IF v \in read THEN Data(v)
                                  ELSE IF v \in intr THEN 0 ELSE pub[v]]
        /\ last_written' = [v \in Vars |-> IF v \in read /\ v \in write_readback
                                            THEN 0 ELSE last_written[v]]
        /\ sessions' = sessions /\ ads_port' = ads_port /\ main' = main
        /\ write_readback' = write_readback
        /\ scan = "intr" /\ scan' = "top" /\ drvLock = Nobody
    BY <1>16 DEF PerformIOIntr
  <2>2. ASSUME NEW v \in Vars, v \in read PROVE buffer[v] = sessions
    BY <2>1, <2>2 DEF Readable
  <2>3. ASSUME NEW v \in Vars
        PROVE  /\ pub'[v] <= sessions' /\ last_written'[v] <= sessions'
               /\ last_written'[v] # 0 => /\ pub'[v] <= last_written'[v]
                                          /\ v \in write_readback'
    <3> HIDE DEF read, intr
    <3>1. CASE v \in read
      BY <2>1, <2>2, <3>1 DEF Data
    <3>2. CASE v \notin read
      BY <2>1, <3>2
    <3>3. QED
      BY <3>1, <3>2
  <2>4. QED
    BY <2>1, <2>3
<1>17. CASE Deinitialize
  BY <1>17 DEF Deinitialize, RequestZeroed
<1>18. CASE DisconnectCheck
  BY <1>18 DEF DisconnectCheck, DisconnectReturns
<1>19. CASE LockUnresolve
  BY <1>19 DEF LockUnresolve, ListVars
<1>20. CASE UnresolveEnd
  BY <1>20 DEF UnresolveEnd, AfterUnresolve, OtherList
<1>21. ASSUME NEW v \in Vars, NEW answered \in BOOLEAN,
              UnresolveVariable(v, answered)
      PROVE  PublishedInv'
  BY <1>21 DEF UnresolveVariable, HandleCall, AdsCall, Unresolve
<1>22. CASE Disconnect
  BY <1>22 DEF Disconnect, DisconnectReturns
<1>23. CASE UnlockDriver
  BY <1>23 DEF UnlockDriver
<1>24. CASE ScanExit
  BY <1>24 DEF ScanExit
<1>25. ASSUME NEW c \in Clients,
              EnterHandler(c)
      PROVE  PublishedInv'
  BY <1>25 DEF EnterHandler
<1>26. ASSUME NEW c \in Clients,
              ReadCheck(c)
      PROVE  PublishedInv'
  BY <1>26 DEF ReadCheck, ReadReturns, HandlerAt, HandlerReturns
<1>27. ASSUME NEW c \in Clients,
              ReadBufferState(c)
      PROVE  PublishedInv'
  BY <1>27 DEF ReadBufferState, ReadReturns, HandlerAt, HandlerReturns
<1>28. ASSUME NEW c \in Clients,
              ReadCopy(c)
      PROVE  PublishedInv'
  BY <1>28 DEF ReadCopy, ReadReturns, HandlerAt, HandlerReturns
<1>29. ASSUME NEW c \in Clients,
              WriteCheck(c)
      PROVE  PublishedInv'
  BY <1>29 DEF WriteCheck, HandlerAt, HandlerReturns
<1>30. ASSUME NEW c \in Clients,
              WriteLock(c)
      PROVE  PublishedInv'
  BY <1>30 DEF WriteLock, HandlerAt
<1>31. ASSUME NEW c \in Clients, NEW answered \in BOOLEAN,
              WriteCall(c, answered)
      PROVE  PublishedInv'
  BY <1>31 DEF WriteCall, AdsCall, ReleaseMutex, HandlerReturns
<1>32. ASSUME NEW c \in Clients, NEW v \in Vars, NEW op \in Ops,
              ProcessRecord(c, v, op)
      PROVE  PublishedInv'
  BY <1>32 DEF ProcessRecord, Registered
<1>33. CASE UNCHANGED vars
  BY <1>33
<1> HIDE DEF TypeOK, ScanPcs, Inside, Idle, Ops, LockInv, ScanOwnsDriver,
             PortInv, FreshInv, Fresh, PublishedInv
<1>34. QED
  BY <1>1, <1>2, <1>3, <1>4, <1>5, <1>6, <1>7, <1>8, <1>9, <1>10, <1>11,
     <1>12, <1>13, <1>14, <1>15, <1>16, <1>17, <1>18, <1>19, <1>20, <1>21,
     <1>22, <1>23, <1>24, <1>25, <1>26, <1>27, <1>28, <1>29, <1>30, <1>31,
     <1>32, <1>33 DEF Next, MainThread, ScanThread, Handler, Destroyed

-----------------------------------------------------------------------------
\* At boot nothing is connected, locked, resolved or read.
LEMMA InitInv == Init => Inv
<1> SUFFICES ASSUME Init PROVE Inv
  OBVIOUS
<1> USE VarsAssumption, ChunksAssumption, ThreadsAssumption, FaultsAssumption
<1> USE DEF Init, Idle, Inside
<1>1. TypeOK
  <2>1. /\ initialized \in BOOLEAN /\ exitCalled \in BOOLEAN
        /\ sum_initialized \in BOOLEAN /\ failed \in BOOLEAN
        /\ reach \in BOOLEAN /\ buffer_state \in [Chunks -> BOOLEAN]
    BY Zenon
  <2>2. QED
    BY <2>1 DEF TypeOK, ScanPcs, Ops
<1>2. LockInv
  BY DEF LockInv, ScanOwnsDriver
<1>3. StartInv /\ PortInv
  BY DEF StartInv, PortInv
<1>4. HandleInv
  BY DEF HandleInv, ListVars
<1>5. FreshInv
  BY DEF FreshInv, Fresh
<1>6. LeakInv /\ PublishedInv
  BY DEF LeakInv, PublishedInv
<1>7. QED
  BY <1>1, <1>2, <1>3, <1>4, <1>5, <1>6 DEF Inv

\* The conjuncts of Inv support each other; together they are inductive.
THEOREM Invariance == Spec => []Inv
<1>1. Inv /\ [Next]_vars => Inv'
  BY TypeNext, LockNext, StartNext, PortNext, HandleNext, FreshNext, LeakNext,
     PublishedNext DEF Inv
<1>2. QED
  BY InitInv, <1>1, PTL DEF Spec

\* The types are right in every reachable state.
THEOREM TypeCorrect == Spec => []TypeOK
<1>1. Inv => TypeOK
  BY DEF Inv
<1>2. QED
  BY Invariance, <1>1, PTL

\* Every turn of adsScan starts with an open port and an initialised request, or
\* with neither: the "Already connected" return of ADSConnect is never taken.
THEOREM NoHalfConnection == Spec => []NeverHalfConnected
<1>1. Inv => NeverHalfConnected
  BY DEF Inv, PortInv, NeverHalfConnected
<1>2. QED
  BY Invariance, <1>1, PTL

\* A read handler copies data of the newest session only, although
\* ADSDisconnect takes no lock that would keep it out.
THEOREM ReadsAreFresh == Spec => []ReadsAreOfTheLatestSession
<1>1. Inv => ReadsAreOfTheLatestSession
  BY DEF Inv, StartInv, FreshInv, Fresh, ReadsAreOfTheLatestSession
<1>2. QED
  BY Invariance, <1>1, PTL

\* No write request carries the handle of an earlier session.
THEOREM WritesAreCurrent == Spec => []WritesUseNoOldHandle
<1>1. ASSUME Inv PROVE WritesUseNoOldHandle
  <2>1. ASSUME NEW c \in Clients, cpc[c] = "wrCall" PROVE cvar[c] \in Vars
    BY <1>1, <2>1 DEF Inv, StartInv, Idle
  <2>2. QED
    BY <1>1, <2>1 DEF Inv, PortInv, HandleInv, WritesUseNoOldHandle
<1>2. QED
  BY Invariance, <1>1, PTL

\* Reconnecting leaks no handle on the device and no route unless a call failed.
THEOREM LeaksAreBounded == Spec => []LeaksCostFaults
<1>1. ASSUME Inv PROVE LeaksCostFaults
  <2>1. ASSUME ~exitCalled, ads_port = 0 PROVE \A v \in Vars : handle[v] = 0
    BY <1>1, <2>1 DEF Inv, HandleInv
  <2>2. QED
    BY <1>1, <2>1 DEF Inv, LeakInv, LeaksCostFaults
<1>2. QED
  BY Invariance, <1>1, PTL

\* The connection a handler looks at is not replaced before the handler returns.
THEOREM HandlersKeepTheirSession == Spec => NoReconnectInHandler
<1> DEFINE Keep == (\E c \in Clients : cpc[c] \in Inside) => sessions' = sessions
<1>1. ASSUME Inv, [Next]_vars PROVE Keep
  <2>1. ASSUME sessions' # sessions PROVE scan = "connect"
    BY <1>1, <2>1 DEF Next, MainThread, ScanThread, Handler, Destroyed, vars,
       connVars, CreateDeviceVariable, InitHook, Shutdown, Joined, ScanLoop,
       ReadDevice, BeginConnect, Connect, LockResolve, ResolveEnd,
       InitializeRequest, ResolveVariable, ReadChunk, ReadChunkFails, ReadEnd,
       PerformIOIntr, Deinitialize, DisconnectCheck, LockUnresolve,
       UnresolveEnd, UnresolveVariable, Disconnect, UnlockDriver, ScanExit,
       EnterHandler, ReadCheck, ReadBufferState, ReadCopy, WriteCheck,
       WriteLock, WriteCall, ProcessRecord
  <2>2. ASSUME scan = "connect", NEW c \in Clients PROVE cpc[c] \notin Inside
    BY <1>1, <2>2, ThreadsAssumption DEF Inv, LockInv, ScanOwnsDriver
  <2>3. QED
    BY <2>1, <2>2
<1>2. QED
  BY Invariance, <1>1, PTL DEF Spec, NoReconnectInHandler

-----------------------------------------------------------------------------
\* In ADSConnect nobody else can have the mutex, and whoever has it goes on.
LEMMA ScanGoesOn ==
  ASSUME TypeOK, LockInv, drvLock = Scan \/ mtx = Scan
  PROVE  GoesOn(Scan)
<1> USE ThreadsAssumption
<1>1. CASE mtx = Scan
  <2>1. scan \in {"resolve", "unresolve"}
    BY <1>1 DEF LockInv
  <2>2. BlockedBy(Scan) = {}
    BY <2>1 DEF BlockedBy, WaitsForDriver, WaitsForMutex
  <2>3. QED
    BY <2>1, <2>2 DEF GoesOn
<1>2. CASE drvLock = Scan /\ mtx # Scan
  <2>1. ScanOwnsDriver
    BY <1>2 DEF LockInv
  <2>2. ~WaitsForDriver(Scan) /\ scan \notin {"top", "done"}
    BY <2>1 DEF ScanOwnsDriver, WaitsForDriver
  <2>3. \A o \in Threads : mtx # o
    BY <1>2 DEF LockInv, Inside, Threads
  <2>4. BlockedBy(Scan) = {}
    BY <2>2, <2>3 DEF BlockedBy
  <2>5. QED
    BY <2>2, <2>4 DEF GoesOn
<1>3. QED
  BY <1>1, <1>2

\* A handler that has the mutex goes on; one that has the driver lock does, or waits
\* for the scan thread, which has the mutex and goes on.
LEMMA HandlerGoesOn ==
  ASSUME TypeOK, LockInv, NEW c \in Clients, drvLock = c \/ mtx = c
  PROVE  GoesOn(c) \/ (BlockedBy(c) # {} /\ \A p \in BlockedBy(c) : GoesOn(p))
<1> USE ThreadsAssumption
<1>1. c # Scan
  OBVIOUS
<1>2. cpc[c] \in Inside
  BY DEF LockInv, Inside
<1>3. ~WaitsForDriver(c)
  BY <1>1, <1>2 DEF WaitsForDriver, Inside
<1>4. ASSUME NEW p \in BlockedBy(c) PROVE p = Scan /\ mtx = Scan
  <2>1. cpc[c] = "wrLock" /\ mtx = p /\ p \in Threads
    BY <1>1, <1>3, <1>4 DEF BlockedBy, WaitsForMutex
  <2>2. ASSUME p \in Clients PROVE FALSE
    <3>1. cpc[p] = "wrCall" /\ drvLock = p
      BY <2>1, <2>2 DEF LockInv, Inside
    <3>2. drvLock = c
      BY <1>2 DEF LockInv
    <3>3. QED
      BY <2>1, <3>1, <3>2
  <2>3. QED
    BY <2>1, <2>2 DEF Threads
<1>5. CASE BlockedBy(c) = {}
  BY <1>1, <1>2, <1>5 DEF GoesOn
<1>6. CASE BlockedBy(c) # {}
  BY <1>4, <1>6, ScanGoesOn
<1>7. QED
  BY <1>5, <1>6

\* For any number of handlers: no circle of threads waits for driver lock and mutex.
THEOREM LocksAreOrdered == Spec => []NoCircularWait
<1>1. ASSUME TypeOK, LockInv PROVE NoCircularWait
  <2> SUFFICES ASSUME NEW t \in Threads, NEW o \in BlockedBy(t)
               PROVE  GoesOn(o) \/ (BlockedBy(o) # {} /\ \A p \in BlockedBy(o) : GoesOn(p))
    BY DEF NoCircularWait
  <2>1. o \in Threads /\ (drvLock = o \/ mtx = o)
    BY DEF BlockedBy
  <2>2. QED
    BY <1>1, <2>1, ScanGoesOn, HandlerGoesOn DEF Threads
<1>2. Inv => TypeOK /\ LockInv
  BY DEF Inv
<1>3. QED
  BY Invariance, <1>1, <1>2, PTL

-----------------------------------------------------------------------------
\* There are finitely many variables and chunks to visit.
LEMMA ToVisitIs ==
  ASSUME TypeOK
  PROVE  /\ Cardinality(Vars) \in Nat /\ Cardinality(Chunks) \in Nat
         /\ IsFiniteSet(todo) /\ IsFiniteSet(chunksLeft)
         /\ Cardinality(todo) \in 0 .. Cardinality(Vars)
         /\ Cardinality(chunksLeft) \in 0 .. Cardinality(Chunks)
<1>1. IsFiniteSet(Vars) /\ IsFiniteSet(Chunks)
  BY VarsAssumption, ChunksAssumption
<1>2. todo \in SUBSET Vars /\ chunksLeft \in SUBSET Chunks
  BY DEF TypeOK
<1>3. /\ IsFiniteSet(todo) /\ Cardinality(todo) <= Cardinality(Vars)
      /\ IsFiniteSet(chunksLeft) /\ Cardinality(chunksLeft) <= Cardinality(Chunks)
  BY <1>1, <1>2, FS_Subset
<1>4. QED
  BY <1>1, <1>3, FS_CardinalityType

\* The first number decides.
LEMMA Lexicographic ==
  ASSUME NEW a \in Nat, NEW b \in Nat, b < a, NEW m \in Nat,
         NEW i \in 0 .. m - 1, NEW j \in 0 .. m - 1
  PROVE  b * m + j < a * m + i
<1>1. (b + 1) * m <= a * m
  OBVIOUS
<1>2. (b + 1) * m = b * m + m /\ b * m \in Nat /\ a * m \in Nat
  OBVIOUS
<1>3. QED
  BY <1>1, <1>2

\* A place nearer to the end counts more than all that is left to visit there,
LEMMA NearerPlace ==
  ASSUME TypeOK, TypeOK', Place \in Nat, Place' \in Nat, Place' < Place
  PROVE  Rank' < Rank
<1> DEFINE m == Cardinality(Vars) + Cardinality(Chunks) + 1
<1>1. m \in Nat /\ ToVisit \in 0 .. m - 1
  BY ToVisitIs DEF ToVisit
<1>2. ToVisit' \in 0 .. m - 1
  <2>1. /\ Cardinality(todo') \in 0 .. Cardinality(Vars)
        /\ Cardinality(chunksLeft') \in 0 .. Cardinality(Chunks)
    <3>1. todo' \in SUBSET Vars /\ chunksLeft' \in SUBSET Chunks
      BY DEF TypeOK
    <3>2. IsFiniteSet(Vars) /\ IsFiniteSet(Chunks)
      BY VarsAssumption, ChunksAssumption
    <3>3. /\ IsFiniteSet(todo') /\ Cardinality(todo') <= Cardinality(Vars)
          /\ IsFiniteSet(chunksLeft') /\ Cardinality(chunksLeft') <= Cardinality(Chunks)
      BY <3>1, <3>2, FS_Subset
    <3>4. QED
      BY <3>2, <3>3, FS_CardinalityType
  <2>2. QED
    BY <2>1, ToVisitIs DEF ToVisit
<1>3. Rank = Place * m + ToVisit /\ Rank' = Place' * m + ToVisit'
  BY DEF Rank
<1>4. QED
  BY <1>1, <1>2, <1>3, Lexicographic

\* and at one place each visit brings the thread on.
LEMMA OneVisited ==
  ASSUME TypeOK, Place' = Place, Place \in Nat,
         \/ (\E v \in todo : todo' = todo \ {v}) /\ chunksLeft' = chunksLeft
         \/ (\E c \in chunksLeft : chunksLeft' = chunksLeft \ {c}) /\ todo' = todo
  PROVE  Rank' < Rank
<1> DEFINE m == Cardinality(Vars) + Cardinality(Chunks) + 1
<1>1. m \in Nat /\ ToVisit \in Nat
  BY ToVisitIs DEF ToVisit
<1>2. ToVisit' = ToVisit - 1
  <2>1. ASSUME NEW v \in todo, todo' = todo \ {v}, chunksLeft' = chunksLeft
        PROVE  ToVisit' = ToVisit - 1
    <3>1. Cardinality(todo') = Cardinality(todo) - 1
      BY <2>1, ToVisitIs, FS_RemoveElement
    <3>2. QED
      BY <2>1, <3>1, ToVisitIs DEF ToVisit
  <2>2. ASSUME NEW c \in chunksLeft, chunksLeft' = chunksLeft \ {c}, todo' = todo
        PROVE  ToVisit' = ToVisit - 1
    <3>1. Cardinality(chunksLeft') = Cardinality(chunksLeft) - 1
      BY <2>2, ToVisitIs, FS_RemoveElement
    <3>2. QED
      BY <2>2, <3>1, ToVisitIs DEF ToVisit
  <2>3. QED
    BY <2>1, <2>2
<1>3. Rank = Place * m + ToVisit /\ Rank' = Place * m + (ToVisit - 1)
  BY <1>2 DEF Rank
<1>4. Place * m \in Int
  BY <1>1
<1>5. QED
  BY <1>1, <1>3, <1>4

\* Every place is one of them.
LEMMA PlaceIs ==
  (TypeOK => Place \in Nat) /\ (TypeOK' => Place' \in Nat)
BY DEF TypeOK, ScanPcs, Place, DisconnectPlaces

\* The places come in the order of the code, whatever fails.
LEMMA TurnNext ==
  ASSUME TypeOK, TypeOK', LockInv, ScanThread, scan # "top"
  PROVE  Rank' < Rank
<1> USE DEF DisconnectPlaces
<1>1. Place \in Nat
  BY PlaceIs
<1>2. Place' \in Nat
  BY PlaceIs
<1>3. SUFFICES ASSUME ~(Place' < Place)
               PROVE  /\ Place' = Place
                      /\ \/ /\ \E v \in todo : todo' = todo \ {v}
                            /\ chunksLeft' = chunksLeft
                         \/ /\ \E c \in chunksLeft : chunksLeft' = chunksLeft \ {c}
                            /\ todo' = todo
  BY <1>1, <1>2, NearerPlace, OneVisited
<1>4. ASSUME NEW pc \in {"devInfo", "devState"}, NEW answered \in BOOLEAN,
             ReadDevice(pc, answered)
      PROVE  Place' < Place
  BY <1>4 DEF ReadDevice, Place, LockInv
<1>5. CASE BeginConnect
  BY <1>3, <1>5 DEF BeginConnect, Place
<1>6. CASE Connect
  BY <1>3, <1>6 DEF Connect, OpenPort, Place, LockInv
<1>7. CASE LockResolve
  BY <1>3, <1>7 DEF LockResolve, Place
<1>8. CASE ResolveEnd
  BY <1>3, <1>8 DEF ResolveEnd, AfterResolve, OtherList, Place, LockInv, TypeOK
<1>9. CASE InitializeRequest
  BY <1>3, <1>9 DEF InitializeRequest, Place, LockInv
<1>10. ASSUME NEW v \in Vars, NEW answered \in BOOLEAN, ResolveVariable(v, answered)
       PROVE  Place' = Place /\ v \in todo /\ todo' = todo \ {v} /\ chunksLeft' = chunksLeft
  BY <1>10 DEF ResolveVariable, Place
<1>11. ASSUME NEW c \in Chunks, NEW bad \in SUBSET ads_read_vars, ReadChunk(c, bad)
       PROVE  /\ Place' = Place /\ c \in chunksLeft /\ chunksLeft' = chunksLeft \ {c}
              /\ todo' = todo
  BY <1>11 DEF ReadChunk, Place
<1>12. ASSUME NEW c \in Chunks, ReadChunkFails(c) PROVE Place' < Place
  BY <1>12 DEF ReadChunkFails, Place, LockInv
<1>13. CASE ReadEnd
  BY <1>3, <1>13 DEF ReadEnd, Place
<1>14. CASE PerformIOIntr
  BY <1>3, <1>14 DEF PerformIOIntr, Place
<1>15. CASE Deinitialize
  BY <1>3, <1>15 DEF Deinitialize, Place
<1>16. CASE DisconnectCheck
  BY <1>3, <1>16 DEF DisconnectCheck, DisconnectReturns, Place, TypeOK
<1>17. CASE LockUnresolve
  BY <1>3, <1>17 DEF LockUnresolve, Place
<1>18. CASE UnresolveEnd
  BY <1>3, <1>18 DEF UnresolveEnd, AfterUnresolve, OtherList, Place, TypeOK
<1>19. ASSUME NEW v \in Vars, NEW answered \in BOOLEAN, UnresolveVariable(v, answered)
       PROVE  Place' = Place /\ v \in todo /\ todo' = todo \ {v} /\ chunksLeft' = chunksLeft
  BY <1>19 DEF UnresolveVariable, Place
<1>20. CASE Disconnect
  BY <1>3, <1>20 DEF Disconnect, DisconnectReturns, Place, TypeOK
<1>21. CASE UnlockDriver
  BY <1>3, <1>21 DEF UnlockDriver, Place
<1>22. CASE ScanExit
  BY <1>3, <1>22 DEF ScanExit, Place, LockInv
<1>23. CASE ScanLoop
  BY <1>23 DEF ScanLoop
<1>24. QED
  BY <1>3, <1>4, <1>5, <1>6, <1>7, <1>8, <1>9, <1>10, <1>11, <1>12, <1>13, <1>14, <1>15,
     <1>16, <1>17, <1>18, <1>19, <1>20, <1>21, <1>22, <1>23 DEF ScanThread

\* For any number of variables and chunks, and any failures: a turn of the scan thread
\* ends after at most as many of its steps as Rank says.
THEOREM EveryTurnEnds == Spec => TurnsEnd
<1>1. Inv /\ Inv' /\ [Next]_vars => (ScanThread => scan = "top" \/ Rank' < Rank)
  BY TurnNext DEF Inv
<1>2. QED
  BY Invariance, <1>1, PTL DEF Spec, TurnsEnd

=============================================================================
