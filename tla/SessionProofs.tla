---------------------------- MODULE SessionProofs ----------------------------
(***************************************************************************)
(* AdsDriver implements Session, for every set of variables, chunks and     *)
(* clients and every bound on the faults.                                   *)
(***************************************************************************)
EXTENDS AdsDriverProofs

\* The abstract view of who is inside a handler.
Running == {c \in Clients : cpc[c] \in Inside}

\* At boot there is no session.
LEMMA InitSession == Init => Session!Init
BY VarsAssumption DEF Init, Session!Init, Inside, Idle

\* A step that changes nothing a record can see is a stutter.
LEMMA StutterSession ==
  ASSUME ads_port' = ads_port, sessions' = sessions, pub' = pub,
         (main' = "dead") = (main = "dead"), Running' = Running
  PROVE  UNCHANGED Session!vars
BY DEF Session!vars, Running

\* While one thread is in a handler, no other is.
LEMMA OneRuns ==
  ASSUME Inv
  PROVE  /\ drvLock \notin Clients => Running = {}
         /\ \A c \in Clients : drvLock = c => Running = {c}
BY ThreadsAssumption DEF Inv, LockInv, Running

\* The only step that opens a session, on its way through ADSConnect.
LEMMA ConnectSession ==
  ASSUME Inv, Connect
  PROVE  [Session!Next]_(Session!vars)
<1> USE DEF connVars, clientVars, sysVars, outVars
<1>1. CASE sessions' = sessions
  <2>1. ads_port' = ads_port
    BY <1>1 DEF Connect, OpenPort, Inv, TypeOK
  <2>2. UNCHANGED Session!vars
    BY <1>1, <2>1, StutterSession DEF Connect, Running
  <2>3. QED
    BY <2>2
<1>2. CASE sessions' # sessions
  <2>1. /\ sessions' = sessions + 1 /\ ads_port' = sessions + 1
        /\ ads_port = 0 /\ ~exitCalled
    BY <1>2 DEF Connect, OpenPort
  <2>2. Running = {} /\ Running' = {}
    <3>1. drvLock = Scan
      BY DEF Connect, Inv, LockInv, ScanOwnsDriver
    <3>2. QED
      BY <3>1, OneRuns, ThreadsAssumption DEF Connect, Running
  <2>3. main # "dead" /\ main' = main /\ pub' = pub
    BY DEF Connect, Inv, PublishedInv
  <2>4. Session!Open
    BY <2>1, <2>2, <2>3 DEF Session!Open, Running
  <2>5. QED
    BY <2>4 DEF Session!Next
<1>3. QED
  BY <1>1, <1>2

\* The end of a session, with or without the driver lock.
LEMMA DisconnectSession ==
  ASSUME Disconnect
  PROVE  [Session!Next]_(Session!vars)
<1> USE DEF clientVars, sysVars, outVars
<1>1. CASE ads_port = 0
  BY <1>1, StutterSession DEF Disconnect, Running
<1>2. CASE ads_port # 0
  <2>1. Session!Close
    BY <1>2 DEF Disconnect, Session!Close
  <2>2. QED
    BY <2>1 DEF Session!Next
<1>3. QED
  BY <1>1, <1>2

\* performIOIntr publishes while no handler runs, and nothing older than before.
LEMMA PublishSession ==
  ASSUME Inv, Inv', PerformIOIntr
  PROVE  [Session!Next]_(Session!vars)
<1> USE DEF connVars, clientVars, sysVars
<1> DEFINE intr == IntrVars \cap Registered
           read == {v \in intr : ads_port # 0 /\ Readable(v)}
<1>1. /\ pub' = [v \in Vars |-> IF v \in read THEN Data(v)
                                ELSE IF v \in intr THEN 0 ELSE pub[v]]
      /\ scan = "intr" /\ drvLock = Nobody
      /\ UNCHANGED <<ads_port, sessions, cpc, main>>
  BY DEF PerformIOIntr
<1>2. ads_port # 0 /\ Fresh
  BY <1>1, ThreadsAssumption DEF Inv, PortInv, FreshInv
<1>3. \A v \in Vars : pub'[v] = 0 \/ pub'[v] >= pub[v]
  <2> SUFFICES ASSUME NEW v \in Vars PROVE pub'[v] = 0 \/ pub'[v] >= pub[v]
    OBVIOUS
  <2>1. /\ pub[v] \in Nat /\ pub[v] <= sessions
        /\ last_written[v] # 0 => pub[v] <= last_written[v]
        /\ last_written[v] \in Nat
    BY DEF Inv, TypeOK, PublishedInv
  <2>2. ASSUME v \in read PROVE buffer[v] = sessions
    BY <1>2, <2>2 DEF Readable, Fresh
  <2> HIDE DEF read, intr
  <2>3. CASE v \in read
    BY <1>1, <2>1, <2>2, <2>3 DEF Data
  <2>4. CASE v \notin read
    BY <1>1, <2>1, <2>4
  <2>5. QED
    BY <2>3, <2>4
<1>4. pub' \in [Vars -> 0 .. sessions]
  <2>1. pub' \in [Vars -> Nat] /\ \A v \in Vars : pub'[v] <= sessions
    BY <1>1 DEF Inv, TypeOK, PublishedInv
  <2>2. sessions \in Nat
    BY DEF Inv, TypeOK
  <2>3. QED
    BY <2>1, <2>2
<1>5. Running = {} /\ Running' = {}
  <2>1. drvLock \notin Clients
    BY <1>1, ThreadsAssumption
  <2>2. QED
    BY <1>1, <2>1, OneRuns DEF Running
<1>6. Session!Publish
  BY <1>1, <1>2, <1>3, <1>4, <1>5 DEF Session!Publish, Running
<1>7. QED
  BY <1>6 DEF Session!Next

\* A thread gets the driver lock and enters a handler.
LEMMA EnterSession ==
  ASSUME Inv, NEW c \in Clients, EnterHandler(c)
  PROVE  [Session!Next]_(Session!vars)
<1> USE DEF connVars, sysVars, outVars
<1>1. Running = {} /\ Running' = {c}
  <2>1. drvLock \notin Clients
    BY ThreadsAssumption DEF EnterHandler
  <2>2. Running = {}
    BY <2>1, OneRuns
  <2>3. \A d \in Clients : cpc'[d] = IF d = c THEN cpc'[c] ELSE cpc[d]
    BY DEF EnterHandler, Inv, TypeOK
  <2>4. cpc'[c] \in Inside
    BY DEF EnterHandler, Inv, TypeOK, Inside
  <2>5. QED
    BY <2>2, <2>3, <2>4 DEF Running
<1>2. Session!Enter(c)
  BY <1>1 DEF EnterHandler, Session!Enter, Running
<1>3. QED
  BY <1>2 DEF Session!Next

\* A step of a handler stays in it or leaves it.
LEMMA HandlerSession ==
  ASSUME Inv, NEW c \in Clients,
         \/ ReadCheck(c) \/ ReadBufferState(c) \/ ReadCopy(c) \/ WriteCheck(c)
         \/ WriteLock(c) \/ \E answered \in BOOLEAN : WriteCall(c, answered)
  PROVE  [Session!Next]_(Session!vars)
<1>1. /\ UNCHANGED <<ads_port, sessions, pub, main>>
      /\ cpc[c] \in Inside
      /\ \E pc \in Inside \cup {Idle} : cpc' = [cpc EXCEPT ![c] = pc]
  BY DEF ReadCheck, ReadBufferState, ReadCopy, WriteCheck, WriteLock, WriteCall,
         ReadReturns, HandlerAt, HandlerReturns, connVars, sysVars, outVars, Inside
<1>2. Running = {c}
  BY <1>1, OneRuns DEF Inv, LockInv
<1>3. \A d \in Clients : d # c => cpc'[d] = cpc[d]
  BY <1>1 DEF Inv, TypeOK
<1>4. CASE cpc'[c] \in Inside
  <2>1. Running' = Running
    BY <1>2, <1>3, <1>4 DEF Running
  <2>2. QED
    BY <1>1, <2>1, StutterSession
<1>5. CASE cpc'[c] \notin Inside
  <2>1. Running' = {}
    BY <1>2, <1>3, <1>5 DEF Running
  <2>2. Session!Leave(c)
    BY <1>1, <1>2, <2>1 DEF Session!Leave, Running
  <2>3. QED
    BY <2>2 DEF Session!Next
<1>6. QED
  BY <1>4, <1>5

\* The destructor is past join(): the scan thread closed what was open.
LEMMA JoinedSession ==
  ASSUME Inv, Joined
  PROVE  [Session!Next]_(Session!vars)
<1>1. main # "dead" /\ main' = "dead" /\ ads_port = 0
  BY DEF Joined, Inv, PublishedInv
<1>2. Session!Terminate
  BY <1>1 DEF Joined, Session!Terminate, connVars, clientVars, outVars
<1>3. QED
  BY <1>2 DEF Session!Next

\* Nothing else shows.
LEMMA OtherSession ==
  ASSUME Inv,
         \/ \E v \in Vars : CreateDeviceVariable(v)
         \/ \E allocated \in BOOLEAN : InitHook(allocated)
         \/ Shutdown \/ ScanLoop
         \/ \E pc \in {"devInfo", "devState"}, answered \in BOOLEAN :
              ReadDevice(pc, answered)
         \/ BeginConnect \/ LockResolve \/ ResolveEnd \/ InitializeRequest
         \/ \E v \in Vars, answered \in BOOLEAN : ResolveVariable(v, answered)
         \/ \E c \in Chunks, bad \in SUBSET ads_read_vars : ReadChunk(c, bad)
         \/ \E c \in Chunks : ReadChunkFails(c)
         \/ ReadEnd \/ Deinitialize \/ DisconnectCheck \/ LockUnresolve
         \/ UnresolveEnd \/ UnlockDriver \/ ScanExit
         \/ \E v \in Vars, answered \in BOOLEAN : UnresolveVariable(v, answered)
         \/ UNCHANGED vars
  PROVE  [Session!Next]_(Session!vars)
<1>1. /\ UNCHANGED <<ads_port, sessions, cpc, pub>>
      /\ (main' = "dead") = (main = "dead")
  BY DEF CreateDeviceVariable, InitHook, Shutdown, ScanLoop, ReadDevice,
         BeginConnect, LockResolve, ResolveEnd, InitializeRequest,
         ResolveVariable, ReadChunk, ReadChunkFails, ReadEnd, Deinitialize,
         DisconnectCheck, LockUnresolve, UnresolveEnd, UnlockDriver, ScanExit,
         UnresolveVariable, vars, sysVars, connVars, clientVars, outVars
<1>2. Running' = Running
  BY <1>1 DEF Running
<1>3. QED
  BY <1>1, <1>2, StutterSession

\* Processing a record only makes its thread wait for the driver lock.
LEMMA ProcessSession ==
  ASSUME Inv, NEW c \in Clients, NEW v \in Vars, NEW op \in Ops,
         ProcessRecord(c, v, op)
  PROVE  [Session!Next]_(Session!vars)
<1>1. Running' = Running
  BY DEF ProcessRecord, Running, Inside, Idle, Inv, TypeOK
<1>2. QED
  BY <1>1, StutterSession DEF ProcessRecord, connVars, sysVars, outVars

\* The driver implements Session: sessions one after another, none of which begins
\* while a handler runs; published data that never go back to an earlier session;
\* no session left open when the driver is gone.
THEOREM DriverImplementsSession == Spec => SessionSpec
<1>1. ASSUME Inv, Inv', [Next]_vars PROVE [Session!Next]_(Session!vars)
  BY <1>1, ConnectSession, DisconnectSession, PublishSession, EnterSession,
     HandlerSession, JoinedSession, OtherSession, ProcessSession
     DEF Next, MainThread, ScanThread, Handler, Destroyed
<1>2. QED
  BY InitSession, Invariance, <1>1, PTL DEF Spec, SessionSpec, Session!Spec

=============================================================================
